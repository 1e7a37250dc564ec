------------------------------- MODULE Evaluation -------------------------------
(***************************************************************************)
(* evals/: the quality gate.  One program evaluates a dataset and gates    *)
(* its scores, in three modes: "ci" (run_eval.py, a deterministic          *)
(* predictor), "staging" (run_remote_eval.py, the deployed API) and        *)
(* "production" (monitor_production.py, which also stores the report as    *)
(* immutable evidence and then publishes it as metrics).  The order of the *)
(* results counts for nothing, so they are a bag; ratios are millionths.   *)
(***************************************************************************)
EXTENDS Integers, FiniteSets, Bags, FiniteSetsExt, Functions

CONSTANTS Suites,       \* what a run can be started with
          Replies,      \* what a predictor can do with a case
          MaxAttempts,  \* bound: attempts of one GitHub run
          NoCost        \* a reply that names no cost

Thresholds == [accuracy : Int, tools : Int, latency : Int, cost : Int, requireTools : BOOLEAN]

\* What is tested before anything is evaluated, besides the thresholds.
Inputs == {"dataset", "origin", "metadata"}

ASSUME EvaluationAssumption ==
    /\ MaxAttempts \in Nat \ {0}
    /\ NoCost \notin Nat
    /\ Suites \subseteq [mode : {"ci", "staging", "production"}, wellFormed : SUBSET Inputs,
                         cases : Nat, toolCases : Nat, thresholds : Thresholds]
    /\ Replies \subseteq [answer : {"matched", "other", "raised"}, latency : Nat,
                          cost : Nat \cup {NoCost}]

VARIABLES suite,      \* the suite of this run: dataset, configuration, metadata
          attempt,    \* GITHUB_RUN_ATTEMPT
          evaluator,  \* where the program is, or how it ended
          results,    \* the bag of EvalResults
          evidence,   \* the artifact bucket: the reports by key
          published   \* the reports in CloudWatch, with their attempts

evaluationVars == <<suite, attempt, evaluator, results, evidence, published>>

EvaluationOf(s) ==
    /\ suite = s
    /\ attempt = 1
    /\ evaluator = "start"
    /\ results = EmptyBag
    /\ evidence = << >>
    /\ published = {}
EvaluationInit == \E s \in Suites : EvaluationOf(s)

\* EvalConfig.__post_init__.
ValidThresholds(t) ==
    /\ 0 <= t.accuracy /\ t.accuracy <= 1000000
    /\ 0 <= t.tools /\ t.tools <= 1000000
    /\ t.latency > 0
    /\ t.cost >= 0

\* load_dataset and EvalCase.from_dict: cases, their fields text, their IDs unique.
ValidDataset == suite.cases > 0 /\ "dataset" \in suite.wellFormed

\* validate_base_url and the token of remote_predictor.
ValidOrigin == suite.mode # "ci" => "origin" \in suite.wellFormed

\* _validate_metadata and the name of the bucket.
ValidMetadata == suite.mode = "production" => "metadata" \in suite.wellFormed

\* Anything invalid raises before a case is evaluated.
StartEvaluation ==
    /\ evaluator = "start"
    /\ evaluator' = IF /\ ValidDataset /\ ValidOrigin /\ ValidMetadata
                       /\ ValidThresholds(suite.thresholds)
                    THEN "evaluating" ELSE "raised"
    /\ UNCHANGED <<suite, attempt, results, evidence, published>>

\* predict: it echoes the prompt at no cost.
predict == {r \in Replies : r.answer # "raised" /\ r.cost = 0}

\* remote_predictor: an HTTP error, a timeout or a malformed response raises.
remote_predictor == Replies

\* A predictor that raises is a wrong answer of unknown cost, not the end of the run.
evaluate_case(r) ==
    [correct |-> r.answer = "matched", latency |-> r.latency,
     cost |-> IF r.answer = "raised" THEN NoCost ELSE r.cost]

EvaluateNextCase ==
    /\ evaluator = "evaluating"
    /\ SumFunction(results) < suite.cases
    /\ \E r \in IF suite.mode = "ci" THEN predict ELSE remote_predictor :
          results' = results (+) SetToBag({evaluate_case(r)})
    /\ UNCHANGED <<suite, attempt, evaluator, evidence, published>>

\* How many results there are (SumFunction counts all), and how many with P.
Many(bag, P(_)) == SumFunctionOnSet(bag, {r \in DOMAIN bag : P(r)})
Priced(bag) == {r \in DOMAIN bag : r.cost # NoCost}

\* round(part / whole, 6)
Ratio(part, whole) == (2000000 * part + whole) \div (2 * whole)

exact_match_score(bag) == Ratio(Many(bag, LAMBDA r : r.correct), SumFunction(bag))

\* No predictor of the repository names a tool: a case that expects one fails.
tool_success_score(toolCases) == IF toolCases = 0 THEN {} ELSE {Ratio(0, toolCases)}

\* The value at index ceil(0.95 n) - 1 of the sorted latencies.
p95_latency(bag) ==
    LET rank == Max({1, (95 * SumFunction(bag) + 99) \div 100})
    IN Min({l \in {r.latency : r \in DOMAIN bag} :
              Many(bag, LAMBDA r : r.latency <= l) >= rank})

\* The costs that are known; none is no cost at all.
total_estimated_cost(bag) ==
    IF Priced(bag) = {} THEN NoCost ELSE SumFunction([r \in Priced(bag) |-> bag[r] * r.cost])

calculate_scores(bag, toolCases) ==
    [accuracy |-> exact_match_score(bag), tools |-> tool_success_score(toolCases),
     latency |-> p95_latency(bag), cost |-> total_estimated_cost(bag)]

quality_gate(scores, t) ==
    {f \in {"accuracy", "tools", "latency", "cost"} :
       CASE f = "accuracy" -> scores.accuracy < t.accuracy
         [] f = "tools" -> IF scores.tools = {} THEN t.requireTools
                           ELSE \A rate \in scores.tools : rate < t.tools
         [] f = "latency" -> scores.latency > t.latency
         [] f = "cost" -> scores.cost # NoCost /\ scores.cost > t.cost}

\* The EvalReport of the results so far: overall_status is PASS without failures.
Report ==
    LET scores == calculate_scores(results, suite.toolCases)
    IN [scores |-> scores, failures |-> quality_gate(scores, suite.thresholds)]
ExitCode == IF Report.failures = {} THEN "passed" ELSE "failed"

\* The end of run_evaluation: the CLIs print the report and exit with its status,
\* the monitor goes on to store it.
Gate ==
    /\ evaluator = "evaluating"
    /\ SumFunction(results) = suite.cases
    /\ evaluator' = IF suite.mode = "production" THEN "storing" ELSE ExitCode
    /\ UNCHANGED <<suite, attempt, results, evidence, published>>

\* evaluations/<environment>/<day>/<run_id>-<run_attempt>-<revision>.json
Key == attempt

\* The bucket once the object is stored.
put_object(bucket, key, body) ==
    [k \in DOMAIN bucket \cup {key} |-> IF k = key THEN body ELSE bucket[k]]

\* Mutant of PutEvidence: a put that fails is not the end of the run.
PutEvidenceTolerant ==
    /\ evaluator = "storing"
    /\ evaluator' = "publishing"
    /\ \/ UNCHANGED evidence
       \/ Key \notin DOMAIN evidence /\ evidence' = put_object(evidence, Key, Report)
    /\ UNCHANGED <<suite, attempt, results, published>>

\* put_object with IfNoneMatch="*".  Its answer can be lost: boto3 then repeats
\* the call, which is refused, or gives up.
PutEvidence ==
    /\ evaluator = "storing"
    /\ \/ evaluator' = "raised" /\ UNCHANGED evidence
       \/ /\ Key \notin DOMAIN evidence
          /\ evidence' = put_object(evidence, Key, Report)
          /\ evaluator' \in {"publishing", "storing", "raised"}
    /\ UNCHANGED <<suite, attempt, results, published>>

\* put_metric_data; boto3 may give up whether or not the data arrived.
PutMetrics ==
    /\ evaluator = "publishing"
    /\ \/ /\ published' = published \cup {[attempt |-> attempt, report |-> Report]}
          /\ evaluator' \in {ExitCode, "raised"}
       \/ evaluator' = "raised" /\ UNCHANGED published
    /\ UNCHANGED <<suite, attempt, results, evidence>>

\* The job is run again on GitHub: the same run id, the next attempt.
Rerun ==
    /\ evaluator \in {"passed", "failed", "raised"}
    /\ attempt < MaxAttempts
    /\ attempt' = attempt + 1
    /\ evaluator' = "start"
    /\ results' = EmptyBag
    /\ UNCHANGED <<suite, evidence, published>>

EvaluationNext ==
    StartEvaluation \/ EvaluateNextCase \/ Gate \/ PutEvidence \/ PutMetrics \/ Rerun

EvaluationSpec == EvaluationInit /\ [][EvaluationNext]_evaluationVars

(***************************************************************************)
(* Properties.                                                             *)
(***************************************************************************)

EvaluationTypeOK ==
    /\ suite \in Suites
    /\ attempt \in 1..MaxAttempts
    /\ evaluator \in {"start", "evaluating", "storing", "publishing",
                      "passed", "failed", "raised"}
    /\ IsABag(results)
    /\ BagToSet(results) \subseteq
          [correct : BOOLEAN, latency : Nat, cost : Nat \cup {NoCost}]
    /\ DOMAIN evidence \subseteq 1..attempt
    /\ \A p \in published : p.attempt \in 1..attempt

\* "publish immutable operational evidence" (monitor_production.py:1): stored
\* evidence never changes, and CloudWatch has no report of an attempt but the
\* one its evidence holds, however the put and its repetitions turn out
\* (monitor_production.py:135-146) and however often the job is run again.
EvidenceIsSound ==
    [][/\ \A k \in DOMAIN evidence : k \in DOMAIN evidence' /\ evidence'[k] = evidence[k]
       /\ \A p \in published' : p.attempt \in DOMAIN evidence'
                                /\ evidence'[p.attempt] = p.report]_evaluationVars

\* A run passes if, and only if it fails otherwise, each case was evaluated, the
\* share of wrong answers (errors included) is within the threshold to the
\* sixth digit, at most one case in twenty is slower than the limit, and what
\* is known of the cost is within its own (metrics.py:13-91); and production
\* only passes with the evidence stored and the metrics published.
PassIsEarned ==
    LET t == suite.thresholds
        n == suite.cases
        wrong == Many(results, LAMBDA r : ~r.correct)
        slow == Many(results, LAMBDA r : r.latency > t.latency)
        spent == SumFunction([r \in Priced(results) |-> results[r] * r.cost])
        earned == /\ 2000000 * wrong <= 2 * n * (1000000 - t.accuracy) + n
                  /\ 20 * slow <= n
                  /\ spent <= t.cost
                  /\ suite.toolCases = 0 => ~t.requireTools
                  /\ suite.toolCases > 0 => t.tools = 0
    IN /\ evaluator = "passed" =>
             /\ SumFunction(results) = n /\ earned
             /\ suite.mode = "production" =>
                  /\ attempt \in DOMAIN evidence
                  /\ \E p \in published : p.attempt = attempt
       /\ evaluator = "failed" => ~earned
===============================================================================
