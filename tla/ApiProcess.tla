------------------------------- MODULE ApiProcess -------------------------------
(***************************************************************************)
(* One API process: the routes of main.py with their dependencies in the   *)
(* order FastAPI calls them, the API key, the cached job service, the      *)
(* model provider's answers, the in-process Metrics and the EMF events.    *)
(* Every request runs on a thread of its own; a step is one dependency,    *)
(* one critical section of Metrics or one call of the endpoint.  A job is  *)
(* only where it is kept: LocalJobs and DurableJobs have the rest.         *)
(***************************************************************************)
EXTENDS Naturals, Sequences, FiniteSets

CONSTANTS Requests,      \* the requests of one run of the process
          Environments,  \* what it may be started with, as far as start-up tests it
          None           \* no job service, no job, no answer of a model

ASSUME ApiProcessAssumption ==
    /\ IsFiniteSet(Requests) /\ None \notin Requests
    /\ Environments \subseteq
          [deployed : BOOLEAN, key : BOOLEAN, backend : {"memory", "aws"},
           store : BOOLEAN, collector : {"none", "sidecar", "other"},
           llm : {"local", "bedrock", "priced"}]

\* Mutant of Starts: a deployed environment may lack the key.
StartsKeyless(e) == (e.backend = "aws" => e.store) /\ e.collector # "other"

\* validate_aws_job_backend: any other environment ends the import of main.
Starts(e) ==
    /\ e.backend = "aws" => e.store
    /\ e.deployed => e.key /\ e.collector = "sidecar"
    /\ e.collector # "other"

\* The remaining steps of a request are a sequence.  The key is checked by a
\* dependency of the route, which comes first; a body is judged only after
\* every dependency has run.
Route == [health   |-> <<"answer">>,
          ready    |-> <<"service", "answer">>,
          metrics  |-> <<"key", "answer">>,
          generate |-> <<"key", "body", "model">>,
          submit   |-> <<"key", "service", "body", "submit">>,
          poll     |-> <<"key", "service", "get">>]

Recordings == {"error", "latency", "usage", "cost"}
Steps == Recordings \cup
    {"arrive", "key", "service", "build", "body", "model", "emit", "submit", "get",
     "answer", "respond"}

\* None is no value of what it stands for.
ASSUME NoneAssumption ==
    /\ None \notin DOMAIN Route
    /\ None \notin {"raised", "no_usage", "input", "both"}
    /\ None \notin Nat

\* The ways BedrockProvider.generate raises, with the response main.py makes
\* of each: a rejected or unreachable call, an answer that is recognised as
\* invalid, and three exceptions of other classes (a blank prompt, a JSON
\* document that is no object, a text block without text).
ErrorStatus ==
    [rejected |-> 503, unreachable |-> 503,
     no_body |-> 502, not_json |-> 502, no_content |-> 502, no_text |-> 502,
     bad_usage |-> 502,
     blank |-> 500, not_object |-> 500, null_text |-> 500]

\* The exception handlers of the job services' errors.
JobErrorStatus == [not_found |-> 404, capacity |-> 503, store |-> 503]

VARIABLES settings,  \* the parts of Settings that matter later
          req,       \* every request
          cached,    \* the service in lru_cache, named by the request that built it
          metrics,   \* the counters of Metrics
          emf        \* the sums over the emitted EMF events

apiVars == <<settings, req, cached, metrics, emf>>

Request ==
    [kind : DOMAIN Route \cup {None},
     todo : Seq(Steps),
     key : BOOLEAN,                  \* it carried the configured key
     late : BOOLEAN,                 \* it arrived after a service was cached
     service : Requests \cup {None},
     target : Requests \cup {None},  \* the job it asks for
     home : Requests \cup {None},    \* the service that keeps the job it made
     work : Seq(Recordings \cup {"model"}),
     answer : {None, "raised", "no_usage", "input", "both"},
     status : {None, 200, 202, 401, 404, 422, 500, 502, 503}]

ApiTypeOK ==
    /\ settings \in [deployed : BOOLEAN, key : BOOLEAN, backend : {"memory", "aws"},
                     llm : {"local", "bedrock", "priced"}]
    /\ req \in [Requests -> Request]
    /\ cached \in Requests \cup {None}
    /\ metrics \in [requests : Nat, errors : Nat, llmRequests : Nat,
                    modelErrors : Nat, usages : Nat, costs : Nat]
    /\ emf \in [calls : Nat, errors : Nat, usages : Nat, costs : Nat]

ApiIn(e) ==
    /\ settings = [deployed |-> e.deployed, key |-> e.key, backend |-> e.backend, llm |-> e.llm]
    /\ req = [r \in Requests |->
                 [kind |-> None, todo |-> <<"arrive">>, key |-> FALSE, late |-> FALSE,
                  service |-> None, target |-> None, home |-> None, work |-> << >>,
                  answer |-> None, status |-> None]]
    /\ cached = None
    /\ metrics = [requests |-> 0, errors |-> 0, llmRequests |-> 0, modelErrors |-> 0,
                  usages |-> 0, costs |-> 0]
    /\ emf = [calls |-> 0, errors |-> 0, usages |-> 0, costs |-> 0]
ApiInit == \E e \in Environments : Starts(e) /\ ApiIn(e)

At(r, step) == req[r].todo # << >> /\ Head(req[r].todo) = step
Advance(r) == [req EXCEPT ![r].todo = Tail(@)]
Respond(r, status) ==
    [req EXCEPT ![r].status = status, ![r].todo = <<"respond">>]

(***************************************************************************)
(* Dependencies                                                            *)
(***************************************************************************)

Submitted == {p \in Requests : req[p].status = 202 /\ req[p].todo = << >>}

\* A client asks for a job whose number it was given, or for an unknown one.
Arrive(r) ==
    \E k \in DOMAIN Route, q \in Submitted \cup {None} :
        /\ At(r, "arrive")
        /\ k # "poll" => q = None
        /\ req' = [req EXCEPT ![r].kind = k, ![r].todo = Route[k], ![r].target = q,
                              ![r].late = cached # None]
        /\ UNCHANGED <<settings, cached, metrics, emf>>

\* With no key configured every request passes and none carries it.
RequireKey(r) ==
    \E right \in {b \in BOOLEAN : b => settings.key} :
        /\ At(r, "key")
        /\ req' = IF settings.key /\ ~right THEN Respond(r, 401)
                  ELSE [Advance(r) EXCEPT ![r].key = right]
        /\ UNCHANGED <<settings, cached, metrics, emf>>

\* Mutant of LookUp: no cache, a service for every request.
LookUpUncached(r) ==
    /\ At(r, "service")
    /\ req' = [req EXCEPT ![r].todo[1] = "build"]
    /\ UNCHANGED <<settings, cached, metrics, emf>>

\* lru_cache: a miss runs the factory outside any lock.
LookUp(r) ==
    /\ At(r, "service")
    /\ req' = IF cached # None THEN [Advance(r) EXCEPT ![r].service = cached]
              ELSE [req EXCEPT ![r].todo[1] = "build"]
    /\ UNCHANGED <<settings, cached, metrics, emf>>

\* The request uses the service it built; the cache keeps the first one.
Build(r) ==
    /\ At(r, "build")
    /\ req' = [Advance(r) EXCEPT ![r].service = r]
    /\ cached' = IF cached = None THEN r ELSE cached
    /\ UNCHANGED <<settings, metrics, emf>>

ValidateBody(r) ==
    /\ At(r, "body")
    /\ req' = Advance(r) \/ req' = Respond(r, 422)
    /\ UNCHANGED <<settings, cached, metrics, emf>>

(***************************************************************************)
(* generate, and the model calls of the in-process executor                *)
(***************************************************************************)

\* The answers that parse, by the usage they report.
Results == IF settings.llm = "local" THEN {"no_usage"} ELSE {"no_usage", "input", "both"}
CostKnown(answer) ==
    \/ settings.llm = "local" /\ answer = "no_usage"
    \/ settings.llm = "priced" /\ answer = "both"

\* Mutant of Generate: the latency is recorded by the success path only.
GenerateUnfinished(r) ==
    /\ At(r, "model")
    /\ \/ \E result \in Results :
              req' = [req EXCEPT ![r].answer = result, ![r].status = 200,
                          ![r].todo = <<"latency", "emit", "usage", "cost", "respond">>]
       \/ /\ settings.llm # "local"
          /\ \E failure \in DOMAIN ErrorStatus :
                req' = [req EXCEPT ![r].answer = "raised",
                                   ![r].status = ErrorStatus[failure],
                                   ![r].todo = <<"error", "respond">>]
    /\ UNCHANGED <<settings, cached, metrics, emf>>

Generate(r) ==
    /\ At(r, "model")
    /\ \/ \E result \in Results :
              req' = [req EXCEPT ![r].answer = result, ![r].status = 200,
                          ![r].todo = <<"latency", "emit", "usage", "cost", "respond">>]
       \/ /\ settings.llm # "local"
          /\ \E failure \in DOMAIN ErrorStatus :
                req' = [req EXCEPT ![r].answer = "raised",
                                   ![r].status = ErrorStatus[failure],
                                   ![r].todo = <<"error", "latency", "emit", "respond">>]
    /\ UNCHANGED <<settings, cached, metrics, emf>>

\* One critical section of Metrics.
Recorded(step, answer) ==
    CASE step = "error"   -> [metrics EXCEPT !.modelErrors = @ + 1]
      [] step = "latency" -> [metrics EXCEPT !.llmRequests = @ + 1]
      [] step = "usage"   -> IF answer = "both" THEN [metrics EXCEPT !.usages = @ + 1]
                             ELSE metrics
      [] step = "cost"    -> IF CostKnown(answer) THEN [metrics EXCEPT !.costs = @ + 1]
                             ELSE metrics

RecordCall(r) ==
    \E step \in Recordings :
        /\ At(r, step)
        /\ metrics' = Recorded(step, req[r].answer)
        /\ req' = Advance(r)
        /\ UNCHANGED <<settings, cached, emf>>

\* One EMF event; it carries whichever token counts are known.
EmitInferenceMetrics(r) ==
    LET One(b) == IF b THEN 1 ELSE 0
        answer == req[r].answer
    IN /\ At(r, "emit")
       /\ emf' = [calls |-> emf.calls + 1,
                  errors |-> emf.errors + One(answer = "raised"),
                  usages |-> emf.usages + One(answer \in {"input", "both"}),
                  costs |-> emf.costs + One(CostKnown(answer))]
       /\ req' = Advance(r)
       /\ UNCHANGED <<settings, cached, metrics>>

\* The executor's model call of an accepted job, and what it records, in the
\* order of LocalJobService._execute; it emits no EMF event.
Execute(r) ==
    /\ req[r].work # << >>
    /\ IF Head(req[r].work) = "model"
       THEN /\ \/ \E result \in Results :
                      req' = [req EXCEPT ![r].answer = result,
                                         ![r].work = <<"usage", "cost", "latency">>]
               \/ /\ settings.llm # "local"
                  /\ req' = [req EXCEPT ![r].answer = "raised",
                                        ![r].work = <<"error", "latency">>]
            /\ UNCHANGED metrics
       ELSE /\ metrics' = Recorded(Head(req[r].work), req[r].answer)
            /\ req' = [req EXCEPT ![r].work = Tail(@)]
    /\ UNCHANGED <<settings, cached, emf>>

(***************************************************************************)
(* The other endpoints, and the middleware                                 *)
(***************************************************************************)

\* create_job; the ValueError of a blank prompt on the durable path has no handler.
CreateJob(r) ==
    /\ At(r, "submit")
    /\ \/ req' = [Respond(r, 202) EXCEPT
                     ![r].home = req[r].service,
                     ![r].work = IF settings.backend = "memory" THEN <<"model">> ELSE << >>]
       \/ settings.backend = "memory" /\ req' = Respond(r, JobErrorStatus.capacity)
       \/ settings.backend = "aws"
          /\ req' \in {Respond(r, JobErrorStatus.store), Respond(r, 500)}
    /\ UNCHANGED <<settings, cached, metrics, emf>>

\* A local service knows its own jobs, every durable one the same table.
GetJob(r) ==
    LET q == req[r].target
        found == q # None /\ (settings.backend = "aws" \/ req[q].home = req[r].service)
    IN /\ At(r, "get")
       /\ \/ req' = Respond(r, IF found THEN 200 ELSE JobErrorStatus.not_found)
          \/ settings.backend = "aws" /\ req' = Respond(r, JobErrorStatus.store)
       /\ UNCHANGED <<settings, cached, metrics, emf>>

\* health and metrics_snapshot answer; ready calls check_ready.
Answer(r) ==
    /\ At(r, "answer")
    /\ \/ req' = Respond(r, 200)
       \/ /\ req[r].kind = "ready" /\ settings.backend = "aws"
          /\ req' = Respond(r, JobErrorStatus.store)
    /\ UNCHANGED <<settings, cached, metrics, emf>>

\* request_context_middleware counts the response, or the exception as 500.
RecordRequest(r) ==
    /\ At(r, "respond")
    /\ metrics' = [metrics EXCEPT !.requests = @ + 1,
                                  !.errors = IF req[r].status >= 400 THEN @ + 1 ELSE @]
    /\ req' = Advance(r)
    /\ UNCHANGED <<settings, cached, emf>>

ApiNext ==
    \E r \in Requests :
        \/ Arrive(r) \/ RequireKey(r) \/ LookUp(r) \/ Build(r) \/ ValidateBody(r)
        \/ Generate(r) \/ RecordCall(r) \/ EmitInferenceMetrics(r) \/ Execute(r)
        \/ CreateJob(r) \/ GetJob(r) \/ Answer(r) \/ RecordRequest(r)

ApiSpec == ApiInit /\ [][ApiNext]_apiVars

(***************************************************************************)
(* Properties.                                                             *)
(***************************************************************************)

\* lru_cache builds a local service per concurrent first request and forgets
\* all but one (job_service.py:219).  A client whose job is then not found
\* submitted it before any service was cached: later jobs are always found,
\* and jobs in the table are found whatever service answers, while neither
\* eviction nor the TTL has removed them.
JobsAreFound ==
    \A r \in Requests :
        req[r].status = 404 /\ req[r].target # None =>
            settings.backend = "memory" /\ ~req[req[r].target].late

\* The key configured for a deployed environment guards everything that
\* costs or tells: no model call, job, counter or record without it, whatever
\* order the dependencies run in (main.py:237, auth.py:20, config.py:48).
NoKeyNoCost ==
    settings.deployed =>
        \A r \in Requests :
            (\/ req[r].answer # None
             \/ req[r].home # None
             \/ req[r].kind \in {"metrics", "poll"} /\ req[r].status \in {200, 404, 503})
            => req[r].key

Recording(r) ==
    \/ \E step \in Recordings \cup {"emit"} : At(r, step)
    \/ req[r].work # << >> /\ Head(req[r].work) # "model"

\* The counters of a snapshot lag behind each other by the calls that are
\* being recorded and no more (main.py:275-294 takes the lock once for each),
\* and agree with the answers when none is; the EMF events agree with them
\* except for the jobs of the in-process executor, which emits none, and for
\* answers with one token count, which Metrics leaves out.
MetricsAgree ==
    LET lag == {r \in Requests : Recording(r)}
        Num(P(_)) == Cardinality({r \in Requests : P(r)})
        direct(r) == req[r].kind = "generate"
        both(r) == req[r].answer = "both"
        raised(r) == req[r].answer = "raised"
    IN /\ metrics.errors <= metrics.requests
       /\ metrics.modelErrors <= metrics.llmRequests + Cardinality(lag)
       /\ metrics.usages <= metrics.llmRequests + Cardinality(lag)
       /\ emf.calls <= metrics.llmRequests
       /\ lag = {} =>
             /\ metrics.llmRequests = Num(LAMBDA r : req[r].answer # None)
             /\ metrics.modelErrors = Num(raised)
             /\ metrics.usages = Num(both)
             /\ metrics.costs = Num(LAMBDA r : CostKnown(req[r].answer))
             /\ emf.calls = Num(LAMBDA r : direct(r) /\ req[r].answer # None)
             /\ emf.errors = Num(LAMBDA r : direct(r) /\ req[r].status \in 500..599)
             /\ emf.usages = Num(LAMBDA r : direct(r) /\ req[r].answer \in {"input", "both"})
===============================================================================
