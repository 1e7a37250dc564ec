---------------------------- MODULE ApiProcessProofs ----------------------------
(***************************************************************************)
(* Theorems about ApiProcess for any finite set of requests and any set of *)
(* environments the process may be started with.                           *)
(***************************************************************************)
EXTENDS ApiProcess, FiniteSetTheorems, TLAPS

(***************************************************************************)
(* The places of a request, named by what it does next, and the rest of    *)
(* its way.                                                                *)
(***************************************************************************)

Arriving == <<"arrive">>
Answering == <<"answer">>
ReadyService == <<"service", "answer">>
ReadyBuild == <<"build", "answer">>
MetricsKey == <<"key", "answer">>
GenerateKey == <<"key", "body", "model">>
GenerateBody == <<"body", "model">>
GenerateModel == <<"model">>
SubmitKey == <<"key", "service", "body", "submit">>
SubmitService == <<"service", "body", "submit">>
SubmitBuild == <<"build", "body", "submit">>
SubmitBody == <<"body", "submit">>
SubmitJob == <<"submit">>
PollKey == <<"key", "service", "get">>
PollService == <<"service", "get">>
PollBuild == <<"build", "get">>
PollGet == <<"get">>
Responding == <<"respond">>
Done == << >>

\* What is left of a call of the model once it has answered or raised.
ResultLatency == <<"latency", "emit", "usage", "cost", "respond">>
ResultEmit == <<"emit", "usage", "cost", "respond">>
ResultUsage == <<"usage", "cost", "respond">>
ResultCost == <<"cost", "respond">>
ErrorCount == <<"error", "latency", "emit", "respond">>
ErrorLatency == <<"latency", "emit", "respond">>
ErrorEmit == <<"emit", "respond">>

\* The same of a job of the in-process executor.
JobModel == <<"model">>
JobUsage == <<"usage", "cost", "latency">>
JobCost == <<"cost", "latency">>
JobLatency == <<"latency">>
JobError == <<"error", "latency">>

AfterResult == {ResultLatency, ResultEmit, ResultUsage, ResultCost}
AfterError == {ErrorCount, ErrorLatency, ErrorEmit}
Building == {ReadyBuild, SubmitBuild, PollBuild}
Served == {SubmitBody, SubmitJob, PollGet}
Finished == {Responding, Done}
Guarded == {"metrics", "generate", "submit", "poll"}

\* Where a request of a kind can be before it is answered.
Waits(kind, place) ==
    \/ kind \in {"health", "ready", "metrics"} /\ place = Answering
    \/ kind = "ready" /\ place \in {ReadyService, ReadyBuild}
    \/ kind = "metrics" /\ place = MetricsKey
    \/ kind = "generate" /\ place \in {GenerateKey, GenerateBody, GenerateModel}
    \/ kind = "submit" /\ place \in {SubmitKey, SubmitService, SubmitBuild, SubmitBody,
                                     SubmitJob}
    \/ kind = "poll" /\ place \in {PollKey, PollService, PollBuild, PollGet}

(***************************************************************************)
(* The inductive invariant.                                                *)
(***************************************************************************)

\* Every request has not arrived, or is somewhere on its route.
InPlace(q) ==
    /\ q.kind = None => q.todo = Arriving /\ q.status = None /\ q.service = None
    /\ q.kind # None =>
           \/ Waits(q.kind, q.todo) /\ q.status = None
           \/ q.todo \in Finished /\ q.status # None
           \/ /\ q.kind = "generate" /\ q.status # None
              /\ q.todo \in AfterResult \cup AfterError
    /\ q.kind # "poll" => q.target = None
    /\ q.status = 202 => q.home # None

\* Who has an answer of a model: a call that is being recorded or answered, or a
\* job that was accepted.
AnswerKept(q) ==
    /\ q.home = None => q.work = Done
    /\ q.home # None =>
           /\ q.kind = "submit" /\ q.status = 202
           /\ q.answer = None => q.work \in {JobModel, Done}
           /\ q.answer = "raised" => q.work \in {JobError, JobLatency, Done}
           /\ q.answer \in {"no_usage", "input", "both"} =>
                  q.work \in {JobUsage, JobCost, JobLatency, Done}
    /\ q.answer # None => q.kind = "generate" \/ q.home # None
    /\ q.kind = "generate" =>
           /\ q.answer = None =>
                  q.todo \notin AfterResult \cup AfterError /\ q.status \in {None, 401, 422}
           /\ q.answer = "raised" =>
                  q.todo \in AfterError \cup Finished /\ q.status \in {500, 502, 503}
           /\ q.answer \in {"no_usage", "input", "both"} =>
                  q.todo \in AfterResult \cup Finished /\ q.status = 200

\* Without the key of a deployed environment a request is at its first step or
\* was refused.
Guards(q) ==
    q.kind \in Guarded /\ ~q.key =>
        /\ q.status \in {None, 401}
        /\ q.status = None => q.todo = Route[q.kind]
        /\ q.home = None

\* A request that arrived after a service was cached uses that one; a client
\* can only ask for a job once a service is cached.
UsesCached(q, service) ==
    /\ q.late =>
           /\ service # None
           /\ q.service \in {None, service} /\ q.home \in {None, service}
           /\ q.todo \notin Building
    /\ q.todo \in Served => q.service # None
    /\ q.service # None \/ q.home # None => service # None
    /\ q.target # None => q.late

PlaceInv == \A r \in Requests : InPlace(req[r])
AnswerInv == \A r \in Requests : AnswerKept(req[r])
KeyInv == settings.deployed => settings.key /\ \A r \in Requests : Guards(req[r])
ServiceInv ==
    /\ \A r \in Requests : UsesCached(req[r], cached)
    /\ \A r \in Requests : req[r].target # None => req[req[r].target].status = 202

(***************************************************************************)
(* What the counters count.                                                *)
(***************************************************************************)

\* A call, or a job's, that has been counted; one whose error, whose two token
\* counts, whose cost has been; and one whose EMF event was emitted.
Called(q) ==
    /\ q.answer # None
    /\ q.todo \notin {ErrorCount, ErrorLatency, ResultLatency}
    /\ q.work \notin {JobError, JobUsage, JobCost, JobLatency}
Raised(q) == q.answer = "raised" /\ q.todo # ErrorCount /\ q.work # JobError
Used(q) ==
    /\ q.answer = "both"
    /\ q.todo \notin {ResultLatency, ResultEmit, ResultUsage} /\ q.work # JobUsage
Costly(answer, llm) ==
    \/ llm = "local" /\ answer = "no_usage"
    \/ llm = "priced" /\ answer = "both"
Costed(q, llm) ==
    /\ Costly(q.answer, llm)
    /\ q.todo \notin AfterResult /\ q.work \notin {JobUsage, JobCost}
Emitted(q) ==
    /\ q.kind = "generate" /\ q.answer # None
    /\ q.todo \notin AfterError \cup {ResultLatency, ResultEmit}
ErrorEmitted(q) == Emitted(q) /\ q.answer = "raised"
UsageEmitted(q) == Emitted(q) /\ q.answer \in {"input", "both"}

Calls == {r \in Requests : Called(req[r])}
Failures == {r \in Requests : Raised(req[r])}
TokenCounts == {r \in Requests : Used(req[r])}
Costs == {r \in Requests : Costed(req[r], settings.llm)}
Events == {r \in Requests : Emitted(req[r])}
ErrorEvents == {r \in Requests : ErrorEmitted(req[r])}
UsageEvents == {r \in Requests : UsageEmitted(req[r])}

CountInv ==
    /\ metrics.errors <= metrics.requests
    /\ metrics.llmRequests = Cardinality(Calls)
    /\ metrics.modelErrors = Cardinality(Failures)
    /\ metrics.usages = Cardinality(TokenCounts)
    /\ metrics.costs = Cardinality(Costs)
    /\ emf.calls = Cardinality(Events)
    /\ emf.errors = Cardinality(ErrorEvents)
    /\ emf.usages = Cardinality(UsageEvents)

ApiInv ==
    ApiTypeOK /\ PlaceInv /\ AnswerInv /\ KeyInv /\ ServiceInv /\ JobsAreFound /\ CountInv

(***************************************************************************)
(* Where each place leads.  The proofs know places only by these facts.    *)
(***************************************************************************)

\* What a request does next.
LEMMA Heads ==
    /\ Arriving # Done /\ Head(Arriving) = "arrive"
    /\ Answering # Done /\ Head(Answering) = "answer"
    /\ ReadyService # Done /\ Head(ReadyService) = "service"
    /\ ReadyBuild # Done /\ Head(ReadyBuild) = "build"
    /\ MetricsKey # Done /\ Head(MetricsKey) = "key"
    /\ GenerateKey # Done /\ Head(GenerateKey) = "key"
    /\ GenerateBody # Done /\ Head(GenerateBody) = "body"
    /\ GenerateModel # Done /\ Head(GenerateModel) = "model"
    /\ SubmitKey # Done /\ Head(SubmitKey) = "key"
    /\ SubmitService # Done /\ Head(SubmitService) = "service"
    /\ SubmitBuild # Done /\ Head(SubmitBuild) = "build"
    /\ SubmitBody # Done /\ Head(SubmitBody) = "body"
    /\ SubmitJob # Done /\ Head(SubmitJob) = "submit"
    /\ PollKey # Done /\ Head(PollKey) = "key"
    /\ PollService # Done /\ Head(PollService) = "service"
    /\ PollBuild # Done /\ Head(PollBuild) = "build"
    /\ PollGet # Done /\ Head(PollGet) = "get"
    /\ Responding # Done /\ Head(Responding) = "respond"
    /\ ResultLatency # Done /\ Head(ResultLatency) = "latency"
    /\ ResultEmit # Done /\ Head(ResultEmit) = "emit"
    /\ ResultUsage # Done /\ Head(ResultUsage) = "usage"
    /\ ResultCost # Done /\ Head(ResultCost) = "cost"
    /\ ErrorCount # Done /\ Head(ErrorCount) = "error"
    /\ ErrorLatency # Done /\ Head(ErrorLatency) = "latency"
    /\ ErrorEmit # Done /\ Head(ErrorEmit) = "emit"
    /\ JobModel # Done /\ Head(JobModel) = "model"
    /\ JobUsage # Done /\ Head(JobUsage) = "usage"
    /\ JobCost # Done /\ Head(JobCost) = "cost"
    /\ JobLatency # Done /\ Head(JobLatency) = "latency"
    /\ JobError # Done /\ Head(JobError) = "error"
<1>1. /\ Arriving # Done /\ Head(Arriving) = "arrive"
      /\ Answering # Done /\ Head(Answering) = "answer"
      /\ ReadyService # Done /\ Head(ReadyService) = "service"
  BY DEF Done, Arriving, Answering, ReadyService
<1>2. /\ ReadyBuild # Done /\ Head(ReadyBuild) = "build"
      /\ MetricsKey # Done /\ Head(MetricsKey) = "key"
      /\ GenerateKey # Done /\ Head(GenerateKey) = "key"
  BY DEF Done, ReadyBuild, MetricsKey, GenerateKey
<1>3. /\ GenerateBody # Done /\ Head(GenerateBody) = "body"
      /\ GenerateModel # Done /\ Head(GenerateModel) = "model"
      /\ SubmitKey # Done /\ Head(SubmitKey) = "key"
  BY DEF Done, GenerateBody, GenerateModel, SubmitKey
<1>4. /\ SubmitService # Done /\ Head(SubmitService) = "service"
      /\ SubmitBuild # Done /\ Head(SubmitBuild) = "build"
      /\ SubmitBody # Done /\ Head(SubmitBody) = "body"
  BY DEF Done, SubmitService, SubmitBuild, SubmitBody
<1>5. /\ SubmitJob # Done /\ Head(SubmitJob) = "submit"
      /\ PollKey # Done /\ Head(PollKey) = "key"
      /\ PollService # Done /\ Head(PollService) = "service"
  BY DEF Done, SubmitJob, PollKey, PollService
<1>6. /\ PollBuild # Done /\ Head(PollBuild) = "build"
      /\ PollGet # Done /\ Head(PollGet) = "get"
      /\ Responding # Done /\ Head(Responding) = "respond"
  BY DEF Done, PollBuild, PollGet, Responding
<1>7. /\ ResultLatency # Done /\ Head(ResultLatency) = "latency"
      /\ ResultEmit # Done /\ Head(ResultEmit) = "emit"
      /\ ResultUsage # Done /\ Head(ResultUsage) = "usage"
  BY DEF Done, ResultLatency, ResultEmit, ResultUsage
<1>8. /\ ResultCost # Done /\ Head(ResultCost) = "cost"
      /\ ErrorCount # Done /\ Head(ErrorCount) = "error"
      /\ ErrorLatency # Done /\ Head(ErrorLatency) = "latency"
  BY DEF Done, ResultCost, ErrorCount, ErrorLatency
<1>9. /\ ErrorEmit # Done /\ Head(ErrorEmit) = "emit"
      /\ JobModel # Done /\ Head(JobModel) = "model"
      /\ JobUsage # Done /\ Head(JobUsage) = "usage"
  BY DEF Done, ErrorEmit, JobModel, JobUsage
<1>10. /\ JobCost # Done /\ Head(JobCost) = "cost"
      /\ JobLatency # Done /\ Head(JobLatency) = "latency"
      /\ JobError # Done /\ Head(JobError) = "error"
  BY DEF Done, JobCost, JobLatency, JobError
<1> QED
  BY <1>1, <1>2, <1>3, <1>4, <1>5, <1>6, <1>7, <1>8, <1>9, <1>10

\* Where it is after that.
LEMMA Tails ==
    /\ Tail(ReadyService) = Answering
    /\ Tail(ReadyBuild) = Answering
    /\ Tail(MetricsKey) = Answering
    /\ Tail(GenerateKey) = GenerateBody
    /\ Tail(GenerateBody) = GenerateModel
    /\ Tail(SubmitKey) = SubmitService
    /\ Tail(SubmitService) = SubmitBody
    /\ Tail(SubmitBuild) = SubmitBody
    /\ Tail(SubmitBody) = SubmitJob
    /\ Tail(PollKey) = PollService
    /\ Tail(PollService) = PollGet
    /\ Tail(PollBuild) = PollGet
    /\ Tail(Responding) = Done
    /\ Tail(ResultLatency) = ResultEmit
    /\ Tail(ResultEmit) = ResultUsage
    /\ Tail(ResultUsage) = ResultCost
    /\ Tail(ResultCost) = Responding
    /\ Tail(ErrorCount) = ErrorLatency
    /\ Tail(ErrorLatency) = ErrorEmit
    /\ Tail(ErrorEmit) = Responding
    /\ Tail(JobUsage) = JobCost
    /\ Tail(JobCost) = JobLatency
    /\ Tail(JobLatency) = Done
    /\ Tail(JobError) = JobLatency
<1>1. Tail(ReadyService) = Answering
  BY DEF ReadyService, Answering
<1>2. Tail(ReadyBuild) = Answering
  BY DEF ReadyBuild, Answering
<1>3. Tail(MetricsKey) = Answering
  BY DEF MetricsKey, Answering
<1>4. Tail(GenerateKey) = GenerateBody
  BY DEF GenerateKey, GenerateBody
<1>5. Tail(GenerateBody) = GenerateModel
  BY DEF GenerateBody, GenerateModel
<1>6. Tail(SubmitKey) = SubmitService
  BY DEF SubmitKey, SubmitService
<1>7. Tail(SubmitService) = SubmitBody
  BY DEF SubmitService, SubmitBody
<1>8. Tail(SubmitBuild) = SubmitBody
  BY DEF SubmitBuild, SubmitBody
<1>9. Tail(SubmitBody) = SubmitJob
  BY DEF SubmitBody, SubmitJob
<1>10. Tail(PollKey) = PollService
  BY DEF PollKey, PollService
<1>11. Tail(PollService) = PollGet
  BY DEF PollService, PollGet
<1>12. Tail(PollBuild) = PollGet
  BY DEF PollBuild, PollGet
<1>13. Tail(Responding) = Done
  BY DEF Responding, Done
<1>14. Tail(ResultLatency) = ResultEmit
  BY DEF ResultLatency, ResultEmit
<1>15. Tail(ResultEmit) = ResultUsage
  BY DEF ResultEmit, ResultUsage
<1>16. Tail(ResultUsage) = ResultCost
  BY DEF ResultUsage, ResultCost
<1>17. Tail(ResultCost) = Responding
  BY DEF ResultCost, Responding
<1>18. Tail(ErrorCount) = ErrorLatency
  BY DEF ErrorCount, ErrorLatency
<1>19. Tail(ErrorLatency) = ErrorEmit
  BY DEF ErrorLatency, ErrorEmit
<1>20. Tail(ErrorEmit) = Responding
  BY DEF ErrorEmit, Responding
<1>21. Tail(JobUsage) = JobCost
  BY DEF JobUsage, JobCost
<1>22. Tail(JobCost) = JobLatency
  BY DEF JobCost, JobLatency
<1>23. Tail(JobLatency) = Done
  BY DEF JobLatency, Done
<1>24. Tail(JobError) = JobLatency
  BY DEF JobError, JobLatency
<1> QED
  BY <1>1, <1>2, <1>3, <1>4, <1>5, <1>6, <1>7, <1>8, <1>9, <1>10, <1>11, <1>12, <1>13,
     <1>14, <1>15, <1>16, <1>17, <1>18, <1>19, <1>20, <1>21, <1>22, <1>23, <1>24

\* A miss of the cache puts the building of a service in the place of its use.
LEMMA Misses ==
    /\ [ReadyService EXCEPT ![1] = "build"] = ReadyBuild
    /\ [SubmitService EXCEPT ![1] = "build"] = SubmitBuild
    /\ [PollService EXCEPT ![1] = "build"] = PollBuild
<1>1. [ReadyService EXCEPT ![1] = "build"] = ReadyBuild
  BY DEF ReadyService, ReadyBuild
<1>2. [SubmitService EXCEPT ![1] = "build"] = SubmitBuild
  BY DEF SubmitService, SubmitBuild
<1>3. [PollService EXCEPT ![1] = "build"] = PollBuild
  BY DEF PollService, PollBuild
<1> QED
  BY <1>1, <1>2, <1>3

\* Every kind of request starts at the first place of its route.
LEMMA Routes ==
    /\ DOMAIN Route = {"health", "ready", "metrics", "generate", "submit", "poll"}
    /\ Route.health = Answering /\ Route.ready = ReadyService
    /\ Route.metrics = MetricsKey /\ Route.generate = GenerateKey
    /\ Route.submit = SubmitKey /\ Route.poll = PollKey
BY DEF Route, Answering, ReadyService, MetricsKey, GenerateKey, SubmitKey, PollKey

\* A request at a step has that step ahead of it.
LEMMA AtPlace ==
    ASSUME NEW r, NEW step, At(r, step)
    PROVE  req[r].todo # Done /\ Head(req[r].todo) = step
BY DEF At, Done

(***************************************************************************)
(* What each action does to its request; the others are left alone.        *)
(***************************************************************************)

\* What each action does to the record of its request, field by field.
LEMMA ArriveEffect ==
    ASSUME ApiTypeOK, NEW r \in Requests, Arrive(r)
    PROVE  /\ \A p \in Requests : p # r => req'[p] = req[p]
           /\ UNCHANGED <<settings, cached, metrics, emf>>
           /\ req'[r].key = req[r].key /\ req'[r].service = req[r].service
           /\ req'[r].home = req[r].home /\ req'[r].work = req[r].work
           /\ req'[r].answer = req[r].answer /\ req'[r].status = req[r].status
           /\ At(r, "arrive")
           /\ req'[r].kind \in DOMAIN Route /\ req'[r].todo = Route[req'[r].kind]
           /\ req'[r].target \in Submitted \cup {None}
           /\ req'[r].kind # "poll" => req'[r].target = None
           /\ req'[r].late = (cached # None)
BY DEF ApiTypeOK, Request, Arrive

LEMMA RequireKeyEffect ==
    ASSUME ApiTypeOK, NEW r \in Requests, RequireKey(r)
    PROVE  /\ \A p \in Requests : p # r => req'[p] = req[p]
           /\ UNCHANGED <<settings, cached, metrics, emf>>
           /\ req'[r].kind = req[r].kind /\ req'[r].late = req[r].late
           /\ req'[r].service = req[r].service /\ req'[r].target = req[r].target
           /\ req'[r].home = req[r].home /\ req'[r].work = req[r].work
           /\ req'[r].answer = req[r].answer
           /\ At(r, "key")
           /\ \/ /\ settings.key /\ req'[r].key = req[r].key
                 /\ req'[r].status = 401 /\ req'[r].todo = Responding
              \/ /\ req'[r].key = settings.key
                 /\ req'[r].status = req[r].status /\ req'[r].todo = Tail(req[r].todo)
BY DEF ApiTypeOK, Request, RequireKey, Advance, Respond, Responding

LEMMA LookUpEffect ==
    ASSUME ApiTypeOK, NEW r \in Requests, LookUp(r)
    PROVE  /\ \A p \in Requests : p # r => req'[p] = req[p]
           /\ UNCHANGED <<settings, cached, metrics, emf>>
           /\ req'[r].kind = req[r].kind /\ req'[r].key = req[r].key
           /\ req'[r].late = req[r].late /\ req'[r].target = req[r].target
           /\ req'[r].home = req[r].home /\ req'[r].work = req[r].work
           /\ req'[r].answer = req[r].answer /\ req'[r].status = req[r].status
           /\ At(r, "service")
           /\ \/ /\ cached # None /\ req'[r].service = cached
                 /\ req'[r].todo = Tail(req[r].todo)
              \/ /\ cached = None /\ req'[r].service = req[r].service
                 /\ req'[r].todo = [req[r].todo EXCEPT ![1] = "build"]
BY DEF ApiTypeOK, Request, LookUp, Advance

LEMMA BuildEffect ==
    ASSUME ApiTypeOK, NEW r \in Requests, Build(r)
    PROVE  /\ \A p \in Requests : p # r => req'[p] = req[p]
           /\ UNCHANGED <<settings, metrics, emf>>
           /\ req'[r].kind = req[r].kind /\ req'[r].key = req[r].key
           /\ req'[r].late = req[r].late /\ req'[r].target = req[r].target
           /\ req'[r].home = req[r].home /\ req'[r].work = req[r].work
           /\ req'[r].answer = req[r].answer /\ req'[r].status = req[r].status
           /\ At(r, "build")
           /\ req'[r].service = r /\ req'[r].todo = Tail(req[r].todo)
           /\ cached' = IF cached = None THEN r ELSE cached
BY DEF ApiTypeOK, Request, Build, Advance

LEMMA ValidateBodyEffect ==
    ASSUME ApiTypeOK, NEW r \in Requests, ValidateBody(r)
    PROVE  /\ \A p \in Requests : p # r => req'[p] = req[p]
           /\ UNCHANGED <<settings, cached, metrics, emf>>
           /\ req'[r].kind = req[r].kind /\ req'[r].key = req[r].key
           /\ req'[r].late = req[r].late /\ req'[r].service = req[r].service
           /\ req'[r].target = req[r].target /\ req'[r].home = req[r].home
           /\ req'[r].work = req[r].work /\ req'[r].answer = req[r].answer
           /\ At(r, "body")
           /\ \/ req'[r].status = req[r].status /\ req'[r].todo = Tail(req[r].todo)
              \/ req'[r].status = 422 /\ req'[r].todo = Responding
<1>1. CASE req' = Advance(r)
  BY <1>1 DEF ApiTypeOK, Request, ValidateBody, Advance
<1>2. CASE req' = Respond(r, 422)
  BY <1>2 DEF ApiTypeOK, Request, ValidateBody, Respond, Responding
<1> QED
  BY <1>1, <1>2 DEF ValidateBody

\* The responses to the ways the model call raises, and to the job errors.
LEMMA ErrorStatuses ==
    ASSUME NEW failure \in DOMAIN ErrorStatus
    PROVE  ErrorStatus[failure] \in {500, 502, 503}
BY DEF ErrorStatus

LEMMA JobStatus ==
    /\ JobErrorStatus.not_found = 404 /\ JobErrorStatus.capacity = 503
    /\ JobErrorStatus.store = 503
BY DEF JobErrorStatus

LEMMA GenerateEffect ==
    ASSUME ApiTypeOK, NEW r \in Requests, Generate(r)
    PROVE  /\ \A p \in Requests : p # r => req'[p] = req[p]
           /\ UNCHANGED <<settings, cached, metrics, emf>>
           /\ req'[r].kind = req[r].kind /\ req'[r].key = req[r].key
           /\ req'[r].late = req[r].late /\ req'[r].service = req[r].service
           /\ req'[r].target = req[r].target /\ req'[r].home = req[r].home
           /\ req'[r].work = req[r].work
           /\ At(r, "model")
           /\ \/ /\ req'[r].answer \in {"no_usage", "input", "both"}
                 /\ req'[r].status = 200 /\ req'[r].todo = ResultLatency
              \/ /\ req'[r].answer = "raised"
                 /\ req'[r].status \in {500, 502, 503} /\ req'[r].todo = ErrorCount
<1> DEFINE Change(answer, status, todo) ==
              req' = [req EXCEPT ![r].answer = answer, ![r].status = status, ![r].todo = todo]
<1>1. /\ At(r, "model") /\ UNCHANGED <<settings, cached, metrics, emf>>
      /\ \/ \E answer \in {"no_usage", "input", "both"} : Change(answer, 200, ResultLatency)
         \/ \E status \in {500, 502, 503} : Change("raised", status, ErrorCount)
  <2>1. Results \subseteq {"no_usage", "input", "both"}
    BY DEF Results
  <2>2. CASE \E result \in Results : Change(result, 200, ResultLatency)
    BY <2>1, <2>2 DEF Generate
  <2>3. CASE \E failure \in DOMAIN ErrorStatus :
                 Change("raised", ErrorStatus[failure], ErrorCount)
    <3>1. PICK failure \in DOMAIN ErrorStatus :
                  Change("raised", ErrorStatus[failure], ErrorCount)
      BY <2>3
    <3>2. ErrorStatus[failure] \in {500, 502, 503}
      BY ErrorStatuses
    <3> QED
      BY <3>1, <3>2 DEF Generate
  <2> QED
    BY <2>2, <2>3, Zenon DEF Generate, ResultLatency, ErrorCount
<1>2. CASE \E answer \in {"no_usage", "input", "both"} : Change(answer, 200, ResultLatency)
  BY <1>1, <1>2 DEF ApiTypeOK, Request
<1>3. CASE \E status \in {500, 502, 503} : Change("raised", status, ErrorCount)
  BY <1>1, <1>3 DEF ApiTypeOK, Request
<1> QED
  BY <1>1, <1>2, <1>3

LEMMA RecordCallEffect ==
    ASSUME ApiTypeOK, NEW r \in Requests, RecordCall(r)
    PROVE  /\ \A p \in Requests : p # r => req'[p] = req[p]
           /\ UNCHANGED <<settings, cached, emf>>
           /\ req'[r].kind = req[r].kind /\ req'[r].key = req[r].key
           /\ req'[r].late = req[r].late /\ req'[r].service = req[r].service
           /\ req'[r].target = req[r].target /\ req'[r].home = req[r].home
           /\ req'[r].work = req[r].work /\ req'[r].answer = req[r].answer
           /\ req'[r].status = req[r].status
           /\ \E step \in Recordings :
                  At(r, step) /\ metrics' = Recorded(step, req[r].answer)
           /\ req'[r].todo = Tail(req[r].todo)
BY DEF ApiTypeOK, Request, RecordCall, Advance

LEMMA EmitInferenceMetricsEffect ==
    ASSUME ApiTypeOK, NEW r \in Requests, EmitInferenceMetrics(r)
    PROVE  /\ \A p \in Requests : p # r => req'[p] = req[p]
           /\ UNCHANGED <<settings, cached, metrics>>
           /\ req'[r].kind = req[r].kind /\ req'[r].key = req[r].key
           /\ req'[r].late = req[r].late /\ req'[r].service = req[r].service
           /\ req'[r].target = req[r].target /\ req'[r].home = req[r].home
           /\ req'[r].work = req[r].work /\ req'[r].answer = req[r].answer
           /\ req'[r].status = req[r].status
           /\ At(r, "emit")
           /\ req'[r].todo = Tail(req[r].todo)
BY DEF ApiTypeOK, Request, EmitInferenceMetrics, Advance

LEMMA ExecuteEffect ==
    ASSUME ApiTypeOK, NEW r \in Requests, Execute(r)
    PROVE  /\ \A p \in Requests : p # r => req'[p] = req[p]
           /\ UNCHANGED <<settings, cached, emf>>
           /\ req'[r].kind = req[r].kind /\ req'[r].todo = req[r].todo
           /\ req'[r].key = req[r].key /\ req'[r].late = req[r].late
           /\ req'[r].service = req[r].service /\ req'[r].target = req[r].target
           /\ req'[r].home = req[r].home /\ req'[r].status = req[r].status
           /\ req[r].work # Done
           /\ \/ /\ Head(req[r].work) = "model" /\ metrics' = metrics
                 /\ \/ /\ req'[r].answer \in {"no_usage", "input", "both"}
                       /\ req'[r].work = JobUsage
                    \/ req'[r].answer = "raised" /\ req'[r].work = JobError
              \/ /\ Head(req[r].work) # "model"
                 /\ metrics' = Recorded(Head(req[r].work), req[r].answer)
                 /\ req'[r].answer = req[r].answer /\ req'[r].work = Tail(req[r].work)
<1>1. CASE Head(req[r].work) = "model"
  <2> DEFINE Change(answer, work) ==
                req' = [req EXCEPT ![r].answer = answer, ![r].work = work]
  <2>1. \/ \E result \in Results : Change(result, JobUsage)
        \/ Change("raised", JobError)
    BY <1>1, Zenon DEF Execute, JobUsage, JobError
  <2>2. Results \subseteq {"no_usage", "input", "both"}
    BY DEF Results
  <2>3. /\ metrics' = metrics /\ req[r].work # Done
        /\ UNCHANGED <<settings, cached, emf>>
    BY <1>1 DEF Execute, Done
  <2>4. CASE \E result \in Results : Change(result, JobUsage)
    BY <1>1, <2>2, <2>3, <2>4 DEF ApiTypeOK, Request
  <2>5. CASE Change("raised", JobError)
    BY <1>1, <2>3, <2>5 DEF ApiTypeOK, Request
  <2> QED
    BY <2>1, <2>4, <2>5
<1>2. CASE Head(req[r].work) # "model"
  <2> DEFINE work == Tail(req[r].work)
  <2>1. /\ req' = [req EXCEPT ![r].work = work]
        /\ metrics' = Recorded(Head(req[r].work), req[r].answer)
        /\ req[r].work # Done /\ UNCHANGED <<settings, cached, emf>>
    BY <1>2 DEF Execute, Done
  <2> HIDE DEF work
  <2>2. /\ req'[r] = [req[r] EXCEPT !.work = work]
        /\ \A p \in Requests : p # r => req'[p] = req[p]
    BY <2>1 DEF ApiTypeOK
  <2>3. req[r] \in Request
    BY DEF ApiTypeOK
  <2>4. /\ req'[r].kind = req[r].kind /\ req'[r].todo = req[r].todo
        /\ req'[r].key = req[r].key /\ req'[r].late = req[r].late
        /\ req'[r].service = req[r].service /\ req'[r].target = req[r].target
        /\ req'[r].home = req[r].home /\ req'[r].status = req[r].status
        /\ req'[r].answer = req[r].answer /\ req'[r].work = work
    BY <2>2, <2>3 DEF Request
  <2> QED
    BY <1>2, <2>1, <2>2, <2>4 DEF work
<1> QED
  BY <1>1, <1>2

LEMMA CreateJobEffect ==
    ASSUME ApiTypeOK, NEW r \in Requests, CreateJob(r)
    PROVE  /\ \A p \in Requests : p # r => req'[p] = req[p]
           /\ UNCHANGED <<settings, cached, metrics, emf>>
           /\ req'[r].kind = req[r].kind /\ req'[r].key = req[r].key
           /\ req'[r].late = req[r].late /\ req'[r].service = req[r].service
           /\ req'[r].target = req[r].target /\ req'[r].answer = req[r].answer
           /\ At(r, "submit") /\ req'[r].todo = Responding
           /\ \/ /\ req'[r].status = 202 /\ req'[r].home = req[r].service
                 /\ req'[r].work \in {JobModel, Done}
              \/ /\ req'[r].status \in {500, 503} /\ req'[r].home = req[r].home
                 /\ req'[r].work = req[r].work
BY DEF ApiTypeOK, Request, CreateJob, Respond, Responding, JobErrorStatus, JobModel, Done

LEMMA GetJobEffect ==
    ASSUME ApiTypeOK, NEW r \in Requests, GetJob(r)
    PROVE  /\ \A p \in Requests : p # r => req'[p] = req[p]
           /\ UNCHANGED <<settings, cached, metrics, emf>>
           /\ req'[r].kind = req[r].kind /\ req'[r].key = req[r].key
           /\ req'[r].late = req[r].late /\ req'[r].service = req[r].service
           /\ req'[r].target = req[r].target /\ req'[r].home = req[r].home
           /\ req'[r].work = req[r].work /\ req'[r].answer = req[r].answer
           /\ At(r, "get") /\ req'[r].todo = Responding
           /\ req'[r].status \in {200, 404, 503}
           /\ req'[r].status = 404 =>
                  \/ req[r].target = None
                  \/ /\ settings.backend # "aws"
                     /\ req[req[r].target].home # req[r].service
<1> DEFINE found == req[r].target # None
                        /\ (settings.backend = "aws"
                                \/ req[req[r].target].home = req[r].service)
<1>1. \E s \in {200, 404, 503} : req' = Respond(r, s) /\ (s = 404 => ~found)
  BY JobStatus DEF GetJob
<1>2. PICK s \in {200, 404, 503} : req' = Respond(r, s) /\ (s = 404 => ~found)
  BY <1>1
<1>3. req' = Respond(r, s)
  BY <1>2
<1>4. At(r, "get") /\ UNCHANGED <<settings, cached, metrics, emf>>
  BY DEF GetJob
<1> HIDE DEF found
<1>5. /\ req'[r].status = s
      /\ \A p \in Requests : p # r => req'[p] = req[p]
      /\ req'[r].kind = req[r].kind /\ req'[r].key = req[r].key
      /\ req'[r].late = req[r].late /\ req'[r].service = req[r].service
      /\ req'[r].target = req[r].target /\ req'[r].home = req[r].home
      /\ req'[r].work = req[r].work /\ req'[r].answer = req[r].answer
      /\ req'[r].todo = Responding
  BY <1>3 DEF ApiTypeOK, Request, Respond, Responding
<1>6. s = 404 => \/ req[r].target = None
                 \/ /\ settings.backend # "aws"
                    /\ req[req[r].target].home # req[r].service
  BY <1>2 DEF found
<1> QED
  BY <1>2, <1>4, <1>5, <1>6

LEMMA AnswerEffect ==
    ASSUME ApiTypeOK, NEW r \in Requests, Answer(r)
    PROVE  /\ \A p \in Requests : p # r => req'[p] = req[p]
           /\ UNCHANGED <<settings, cached, metrics, emf>>
           /\ req'[r].kind = req[r].kind /\ req'[r].key = req[r].key
           /\ req'[r].late = req[r].late /\ req'[r].service = req[r].service
           /\ req'[r].target = req[r].target /\ req'[r].home = req[r].home
           /\ req'[r].work = req[r].work /\ req'[r].answer = req[r].answer
           /\ At(r, "answer") /\ req'[r].todo = Responding
           /\ req'[r].status \in {200, 503}
BY DEF ApiTypeOK, Request, Answer, Respond, Responding, JobErrorStatus

LEMMA RecordRequestEffect ==
    ASSUME ApiTypeOK, NEW r \in Requests, RecordRequest(r)
    PROVE  /\ \A p \in Requests : p # r => req'[p] = req[p]
           /\ UNCHANGED <<settings, cached, emf>>
           /\ req'[r].kind = req[r].kind /\ req'[r].key = req[r].key
           /\ req'[r].late = req[r].late /\ req'[r].service = req[r].service
           /\ req'[r].target = req[r].target /\ req'[r].home = req[r].home
           /\ req'[r].work = req[r].work /\ req'[r].answer = req[r].answer
           /\ req'[r].status = req[r].status
           /\ At(r, "respond")
           /\ req'[r].todo = Tail(req[r].todo)
           /\ metrics' = [metrics EXCEPT !.requests = @ + 1,
                                         !.errors = IF req[r].status >= 400 THEN @ + 1
                                                    ELSE @]
BY DEF ApiTypeOK, Request, RecordRequest, Advance

(***************************************************************************)
(* Types.  The sets of sequences are named, so that the provers need not   *)
(* look into them.                                                         *)
(***************************************************************************)

Kinds == DOMAIN Route \cup {None}
Todos == Seq(Steps)
Works == Seq(Recordings \cup {"model"})
Answers == {None, "raised", "no_usage", "input", "both"}
Statuses == {None, 200, 202, 401, 404, 422, 500, 502, 503}
RequestOf(todos, works) ==
    [kind : Kinds, todo : todos, key : BOOLEAN, late : BOOLEAN,
     service : Requests \cup {None}, target : Requests \cup {None},
     home : Requests \cup {None}, work : works, answer : Answers, status : Statuses]

\* A request's record, with the sets of its fields named.
LEMMA RequestShape == Request = RequestOf(Todos, Works)
BY DEF Request, RequestOf, Kinds, Todos, Works, Answers, Statuses

\* The places are sequences of steps.
LEMMA PlaceTypes ==
    /\ {Responding, ResultLatency, ErrorCount} \subseteq Todos
    /\ {JobModel, JobUsage, JobError, Done} \subseteq Works
<1>1. Responding \in Todos /\ ResultLatency \in Todos /\ ErrorCount \in Todos
  BY DEF Todos, Steps, Recordings, Responding, ResultLatency, ErrorCount
<1>2. JobModel \in Works /\ JobUsage \in Works
  BY DEF Works, Recordings, JobModel, JobUsage
<1>3. JobError \in Works /\ Done \in Works
  BY DEF Works, Recordings, JobError, Done
<1> QED
  BY <1>1, <1>2, <1>3

\* Every route is a sequence of steps.
LEMMA RouteTypes ==
    ASSUME NEW kind \in DOMAIN Route
    PROVE  Route[kind] \in Todos
<1>1. Answering \in Todos /\ ReadyService \in Todos /\ MetricsKey \in Todos
  BY DEF Todos, Steps, Answering, ReadyService, MetricsKey
<1>2. GenerateKey \in Todos /\ SubmitKey \in Todos /\ PollKey \in Todos
  BY DEF Todos, Steps, GenerateKey, SubmitKey, PollKey
<1> QED
  BY <1>1, <1>2, Routes

\* The rest of a way is a way.
LEMMA TailTypes ==
    /\ \A todo \in Todos : todo # Done => Tail(todo) \in Todos
    /\ \A work \in Works : work # Done => Tail(work) \in Works
BY DEF Todos, Works, Done

\* A first step may be replaced by another.
LEMMA PlaceReplaced ==
    ASSUME NEW S, NEW s \in Seq(S), s # << >>, NEW x \in S
    PROVE  [s EXCEPT ![1] = x] \in Seq(S)
OBVIOUS

\* Changes of one request, by the fields that change together.
LEMMA Updated ==
    ASSUME NEW f \in [Requests -> Request], NEW r \in Requests, NEW q \in Request
    PROVE  [f EXCEPT ![r] = q] \in [Requests -> Request]
OBVIOUS

\* Each of these changes of one record keeps the record's type.
LEMMA ArrivedType ==
    ASSUME NEW f \in [Requests -> Request], NEW r \in Requests,
           NEW kind \in Kinds, NEW todo \in Todos,
           NEW target \in Requests \cup {None}, NEW late \in BOOLEAN
    PROVE  [f EXCEPT ![r].kind = kind, ![r].todo = todo, ![r].target = target,
                    ![r].late = late]
               \in [Requests -> Request]
<1>1. [f[r] EXCEPT !.kind = kind, !.todo = todo, !.target = target, !.late = late] \in Request
  BY RequestShape DEF RequestOf
<1>2. [f EXCEPT ![r].kind = kind, ![r].todo = todo, ![r].target = target, ![r].late = late]
          = [f EXCEPT ![r] = [f[r] EXCEPT !.kind = kind, !.todo = todo, !.target = target,
                                          !.late = late]]
  OBVIOUS
<1> QED
  BY <1>1, <1>2, Updated

LEMMA AnsweredType ==
    ASSUME NEW f \in [Requests -> Request], NEW r \in Requests,
           NEW answer \in Answers,
           NEW status \in Statuses, NEW todo \in Todos
    PROVE  [f EXCEPT ![r].answer = answer, ![r].status = status, ![r].todo = todo]
               \in [Requests -> Request]
<1>1. [f[r] EXCEPT !.answer = answer, !.status = status, !.todo = todo] \in Request
  BY RequestShape DEF RequestOf
<1>2. [f EXCEPT ![r].answer = answer, ![r].status = status, ![r].todo = todo]
          = [f EXCEPT ![r] = [f[r] EXCEPT !.answer = answer, !.status = status, !.todo = todo]]
  OBVIOUS
<1> QED
  BY <1>1, <1>2, Updated

LEMMA RespondedType ==
    ASSUME NEW f \in [Requests -> Request], NEW r \in Requests,
           NEW status \in Statuses, NEW todo \in Todos
    PROVE  [f EXCEPT ![r].status = status, ![r].todo = todo]
               \in [Requests -> Request]
<1>1. [f[r] EXCEPT !.status = status, !.todo = todo] \in Request
  BY RequestShape DEF RequestOf
<1>2. [f EXCEPT ![r].status = status, ![r].todo = todo]
          = [f EXCEPT ![r] = [f[r] EXCEPT !.status = status, !.todo = todo]]
  OBVIOUS
<1> QED
  BY <1>1, <1>2, Updated

LEMMA AcceptedType ==
    ASSUME NEW f \in [Requests -> Request], NEW r \in Requests,
           NEW home \in Requests \cup {None}, NEW work \in Works
    PROVE  [f EXCEPT ![r].home = home, ![r].work = work]
               \in [Requests -> Request]
<1>1. [f[r] EXCEPT !.home = home, !.work = work] \in Request
  BY RequestShape DEF RequestOf
<1>2. [f EXCEPT ![r].home = home, ![r].work = work]
          = [f EXCEPT ![r] = [f[r] EXCEPT !.home = home, !.work = work]]
  OBVIOUS
<1> QED
  BY <1>1, <1>2, Updated

LEMMA ExecutedType ==
    ASSUME NEW f \in [Requests -> Request], NEW r \in Requests,
           NEW answer \in Answers, NEW work \in Works
    PROVE  [f EXCEPT ![r].answer = answer, ![r].work = work]
               \in [Requests -> Request]
<1>1. [f[r] EXCEPT !.answer = answer, !.work = work] \in Request
  BY RequestShape DEF RequestOf
<1>2. [f EXCEPT ![r].answer = answer, ![r].work = work]
          = [f EXCEPT ![r] = [f[r] EXCEPT !.answer = answer, !.work = work]]
  OBVIOUS
<1> QED
  BY <1>1, <1>2, Updated

\* The steps after a dependency, and the answer to a client, keep the types.
LEMMA AdvanceType ==
    ASSUME ApiTypeOK, NEW r \in Requests, NEW step, At(r, step)
    PROVE  Advance(r) \in [Requests -> Request]
<1>1. req \in [Requests -> Request] /\ req[r].todo \in Todos
  BY RequestShape DEF ApiTypeOK, RequestOf
<1>2. PICK todo \in Todos : todo = Tail(req[r].todo)
  BY <1>1, AtPlace, TailTypes
<1>3. [req EXCEPT ![r].todo = todo] \in [Requests -> Request]
  BY <1>1, RequestShape DEF RequestOf
<1> QED
  BY <1>2, <1>3 DEF Advance

LEMMA RespondType ==
    ASSUME ApiTypeOK, NEW r \in Requests, NEW status \in Statuses
    PROVE  Respond(r, status) \in [Requests -> Request]
<1>1. Respond(r, status) = [req EXCEPT ![r].status = status, ![r].todo = Responding]
  BY DEF Respond, Responding
<1> QED
  <2>1. req \in [Requests -> Request] /\ Responding \in Todos
    BY PlaceTypes DEF ApiTypeOK
  <2>2. [req EXCEPT ![r].status = status, ![r].todo = Responding] \in [Requests -> Request]
    BY <2>1, RespondedType
  <2> QED
    BY <1>1, <2>2

\* Recording a call keeps the counters natural numbers.
LEMMA RecordedType ==
    ASSUME ApiTypeOK, NEW step \in Recordings, NEW answer
    PROVE  Recorded(step, answer) \in [requests : Nat, errors : Nat, llmRequests : Nat,
                                       modelErrors : Nat, usages : Nat, costs : Nat]
<1> USE DEF ApiTypeOK
<1>1. CASE step = "error"
  BY <1>1 DEF Recorded
<1>2. CASE step = "latency"
  BY <1>2 DEF Recorded
<1>3. CASE step = "usage"
  BY <1>3 DEF Recorded
<1>4. CASE step = "cost"
  BY <1>4 DEF Recorded
<1> QED
  BY <1>1, <1>2, <1>3, <1>4 DEF Recordings

\* The actions, in the groups of the module, keep every type.
LEMMA DependencyType ==
    ASSUME ApiTypeOK, NEW r \in Requests,
           Arrive(r) \/ RequireKey(r) \/ LookUp(r) \/ Build(r) \/ ValidateBody(r)
    PROVE  ApiTypeOK'
<1>1. CASE Arrive(r)
  <2>1. PICK k \in DOMAIN Route, q \in Submitted \cup {None} :
            req' = [req EXCEPT ![r].kind = k, ![r].todo = Route[k], ![r].target = q,
                               ![r].late = cached # None]
    BY <1>1 DEF Arrive
  <2>2. /\ k \in Kinds /\ q \in Requests \cup {None} /\ Route[k] \in Todos
        /\ (cached # None) \in BOOLEAN /\ req \in [Requests -> Request]
    BY RouteTypes DEF Kinds, Submitted, ApiTypeOK
  <2>3. [req EXCEPT ![r].kind = k, ![r].todo = Route[k], ![r].target = q,
                    ![r].late = cached # None] \in [Requests -> Request]
    BY <2>2, ArrivedType
  <2>4. req' \in [Requests -> Request]
    BY <2>1, <2>3
  <2> QED
    BY <1>1, <2>4 DEF Arrive, ApiTypeOK
<1>2. CASE RequireKey(r)
  <2>1. PICK right \in BOOLEAN :
            req' = Respond(r, 401) \/ req' = [Advance(r) EXCEPT ![r].key = right]
    BY <1>2 DEF RequireKey
  <2>2. 401 \in Statuses /\ Advance(r) \in [Requests -> Request]
    BY <1>2, AdvanceType DEF Statuses, RequireKey
  <2>3. Respond(r, 401) \in [Requests -> Request]
    BY <2>2, RespondType
  <2>4. [Advance(r) EXCEPT ![r].key = right] \in [Requests -> Request]
    BY <2>2, RequestShape DEF RequestOf
  <2>5. req' \in [Requests -> Request]
    BY <2>1, <2>3, <2>4
  <2> QED
    BY <1>2, <2>5 DEF RequireKey, ApiTypeOK
<1>3. CASE LookUp(r)
  <2>1. Advance(r) \in [Requests -> Request] /\ cached \in Requests \cup {None}
    BY <1>3, AdvanceType DEF LookUp, ApiTypeOK
  <2>2. CASE req' = [Advance(r) EXCEPT ![r].service = cached]
    <3>1. req' \in [Requests -> Request]
      BY <2>1, <2>2, RequestShape DEF RequestOf
    <3> QED
      BY <1>3, <3>1 DEF LookUp, ApiTypeOK
  <2>3. CASE req' = [req EXCEPT ![r].todo[1] = "build"]
    <3>1. req \in [Requests -> Request] /\ req[r].todo \in Todos
      BY RequestShape DEF ApiTypeOK, RequestOf
    <3>2. "build" \in Steps /\ req[r].todo # << >>
      BY <1>3 DEF Steps, LookUp, At
    <3>3. [req[r].todo EXCEPT ![1] = "build"] \in Todos
      BY <3>1, <3>2, PlaceReplaced DEF Todos
    <3>4. PICK todo \in Todos : todo = [req[r].todo EXCEPT ![1] = "build"]
      BY <3>3
    <3>5. req' = [req EXCEPT ![r].todo = todo]
      BY <2>3, <3>4
    <3>6. req' \in [Requests -> Request]
      BY <3>1, <3>5, RequestShape DEF RequestOf
    <3> QED
      BY <1>3, <3>6 DEF LookUp, ApiTypeOK
  <2> QED
    BY <1>3, <2>2, <2>3 DEF LookUp
<1>4. CASE Build(r)
  <2>1. Advance(r) \in [Requests -> Request]
    BY <1>4, AdvanceType DEF Build
  <2>2. req' \in [Requests -> Request]
    BY <1>4, <2>1, RequestShape DEF Build, RequestOf
  <2> QED
    BY <1>4, <2>2 DEF Build, ApiTypeOK
<1>5. CASE ValidateBody(r)
  <2>1. req' = Advance(r) \/ req' = Respond(r, 422)
    BY <1>5 DEF ValidateBody
  <2>2. 422 \in Statuses /\ Advance(r) \in [Requests -> Request]
    BY <1>5, AdvanceType DEF Statuses, ValidateBody
  <2>3. req' \in [Requests -> Request]
    BY <2>1, <2>2, RespondType
  <2> QED
    BY <1>5, <2>3 DEF ValidateBody, ApiTypeOK
<1> QED
  BY <1>1, <1>2, <1>3, <1>4, <1>5

LEMMA EndpointType ==
    ASSUME ApiTypeOK, NEW r \in Requests, CreateJob(r) \/ GetJob(r) \/ Answer(r)
    PROVE  ApiTypeOK'
<1>1. CASE CreateJob(r)
  <2>1. req \in [Requests -> Request] /\ req[r].service \in Requests \cup {None}
    BY RequestShape DEF ApiTypeOK, RequestOf
  <2>2. \/ \E work \in {JobModel, Done} :
               req' = [Respond(r, 202) EXCEPT ![r].home = req[r].service, ![r].work = work]
        \/ \E status \in {500, 503} : req' = Respond(r, status)
    BY <1>1, JobStatus DEF CreateJob, JobModel, Done
  <2>3. {202, 500, 503} \subseteq Statuses
    BY DEF Statuses
  <2>4. ASSUME NEW work \in {JobModel, Done},
               req' = [Respond(r, 202) EXCEPT ![r].home = req[r].service, ![r].work = work]
        PROVE  req' \in [Requests -> Request]
    <3>1. Respond(r, 202) \in [Requests -> Request]
      BY <2>3, RespondType
    <3> QED
      <4> DEFINE f == Respond(r, 202)
                 home == req[r].service
      <4>1. /\ work \in Works /\ f \in [Requests -> Request]
            /\ home \in Requests \cup {None}
            /\ req' = [f EXCEPT ![r].home = home, ![r].work = work]
        BY <2>1, <2>4, <3>1, PlaceTypes
      <4> HIDE DEF f, home
      <4>2. [f EXCEPT ![r].home = home, ![r].work = work] \in [Requests -> Request]
        BY <4>1, AcceptedType
      <4> QED
        BY <4>1, <4>2
  <2>5. ASSUME NEW status \in {500, 503}
        PROVE  Respond(r, status) \in [Requests -> Request]
    BY <2>3, RespondType
  <2>6. req' \in [Requests -> Request]
    BY <2>2, <2>4, <2>5
  <2> QED
    BY <1>1, <2>6 DEF CreateJob, ApiTypeOK
<1>2. CASE GetJob(r) \/ Answer(r)
  <2>1. \E status \in {200, 404, 503} : req' = Respond(r, status)
    BY <1>2, JobStatus DEF GetJob, Answer
  <2>2. {200, 404, 503} \subseteq Statuses
    BY DEF Statuses
  <2>3. req' \in [Requests -> Request]
    BY <2>1, <2>2, RespondType
  <2> QED
    BY <1>2, <2>3 DEF GetJob, Answer, ApiTypeOK
<1> QED
  BY <1>1, <1>2

LEMMA GenerateType ==
    ASSUME ApiTypeOK, NEW r \in Requests, Generate(r)
    PROVE  ApiTypeOK'
<1>1. \/ \E result \in Results :
             req' = [req EXCEPT ![r].answer = result, ![r].status = 200,
                                ![r].todo = ResultLatency]
      \/ \E failure \in DOMAIN ErrorStatus :
             req' = [req EXCEPT ![r].answer = "raised", ![r].status = ErrorStatus[failure],
                                ![r].todo = ErrorCount]
  BY Zenon DEF Generate, ResultLatency, ErrorCount
<1>2. /\ Results \subseteq Answers /\ "raised" \in Answers /\ 200 \in Statuses
      /\ {500, 502, 503} \subseteq Statuses
  BY DEF Results, Answers, Statuses
<1>3. ASSUME NEW answer \in Answers, NEW status \in Statuses, NEW todo \in Todos,
             req' = [req EXCEPT ![r].answer = answer, ![r].status = status,
                                ![r].todo = todo]
      PROVE  req' \in [Requests -> Request]
  BY <1>3, AnsweredType DEF ApiTypeOK
<1>4. CASE \E result \in Results :
             req' = [req EXCEPT ![r].answer = result, ![r].status = 200,
                                ![r].todo = ResultLatency]
  <2>1. PICK result \in Results :
             req' = [req EXCEPT ![r].answer = result, ![r].status = 200,
                                ![r].todo = ResultLatency]
    BY <1>4
  <2>2. req' \in [Requests -> Request]
    BY <1>2, <1>3, <2>1, PlaceTypes
  <2> QED
    BY <2>2 DEF Generate, ApiTypeOK
<1>5. CASE \E failure \in DOMAIN ErrorStatus :
             req' = [req EXCEPT ![r].answer = "raised", ![r].status = ErrorStatus[failure],
                                ![r].todo = ErrorCount]
  <2>1. PICK failure \in DOMAIN ErrorStatus :
             req' = [req EXCEPT ![r].answer = "raised", ![r].status = ErrorStatus[failure],
                                ![r].todo = ErrorCount]
    BY <1>5
  <2>2. ErrorStatus[failure] \in Statuses
    BY <1>2, ErrorStatuses
  <2>3. req' \in [Requests -> Request]
    BY <1>2, <1>3, <2>1, <2>2, PlaceTypes
  <2> QED
    BY <2>3 DEF Generate, ApiTypeOK
<1> QED
  BY <1>1, <1>4, <1>5

LEMMA RecordingType ==
    ASSUME ApiTypeOK, NEW r \in Requests,
           RecordCall(r) \/ EmitInferenceMetrics(r) \/ RecordRequest(r)
    PROVE  ApiTypeOK'
<1>1. req' \in [Requests -> Request]
  BY AdvanceType DEF RecordCall, EmitInferenceMetrics, RecordRequest
<1>2. CASE RecordCall(r)
  BY <1>1, <1>2, RecordedType DEF RecordCall, ApiTypeOK
<1>3. CASE EmitInferenceMetrics(r)
  BY <1>1, <1>3 DEF EmitInferenceMetrics, ApiTypeOK
<1>4. CASE RecordRequest(r)
  <2>1. metrics' \in [requests : Nat, errors : Nat, llmRequests : Nat,
                      modelErrors : Nat, usages : Nat, costs : Nat]
    <3>1. PICK requests \in Nat, errors \in Nat :
              metrics' = [metrics EXCEPT !.requests = requests, !.errors = errors]
      <4>1. metrics.requests + 1 \in Nat /\ metrics.errors \in Nat
        BY DEF ApiTypeOK
      <4>2. metrics' = [metrics EXCEPT !.requests = metrics.requests + 1,
                            !.errors = IF req[r].status >= 400 THEN metrics.errors + 1
                                       ELSE metrics.errors]
        BY <1>4 DEF RecordRequest
      <4>3. (IF req[r].status >= 400 THEN metrics.errors + 1 ELSE metrics.errors) \in Nat
        BY <4>1
      <4> QED
        BY <4>1, <4>2, <4>3
    <3> QED
      BY <3>1 DEF ApiTypeOK
  <2> QED
    BY <1>1, <1>4, <2>1 DEF RecordRequest, ApiTypeOK
<1> QED
  BY <1>2, <1>3, <1>4

LEMMA ExecuteType ==
    ASSUME ApiTypeOK, NEW r \in Requests, Execute(r)
    PROVE  ApiTypeOK'
<1>1. req \in [Requests -> Request] /\ req[r].work \in Works
  BY RequestShape DEF ApiTypeOK, RequestOf
<1>2. CASE Head(req[r].work) = "model"
  <2>1. \/ \E result \in Results :
               req' = [req EXCEPT ![r].answer = result, ![r].work = JobUsage]
        \/ req' = [req EXCEPT ![r].answer = "raised", ![r].work = JobError]
    BY <1>2, Zenon DEF Execute, JobUsage, JobError
  <2>2. Results \subseteq Answers /\ "raised" \in Answers
    BY DEF Results, Answers
  <2>3. ASSUME NEW answer \in Answers, NEW work \in Works,
               req' = [req EXCEPT ![r].answer = answer, ![r].work = work]
        PROVE  req' \in [Requests -> Request]
    BY <1>1, <2>3, ExecutedType
  <2>4. req' \in [Requests -> Request]
    BY <2>1, <2>2, <2>3, PlaceTypes
  <2> QED
    BY <1>2, <2>4 DEF Execute, ApiTypeOK
<1>3. CASE Head(req[r].work) # "model"
  <2>1. req[r].work # Done /\ Head(req[r].work) \in Recordings
    BY <1>1, <1>3 DEF Execute, Done, Works
  <2>2. PICK work \in Works : work = Tail(req[r].work)
    BY <1>1, <2>1, TailTypes
  <2>3. req' = [req EXCEPT ![r].work = work]
    BY <1>3, <2>2 DEF Execute
  <2>4. req' \in [Requests -> Request]
    BY <1>1, <2>3, RequestShape DEF RequestOf
  <2> QED
    BY <1>3, <2>1, <2>4, RecordedType DEF Execute, ApiTypeOK
<1> QED
  BY <1>2, <1>3

(***************************************************************************)
(* Where a request must be to take a step.                                 *)
(***************************************************************************)

\* A step is taken only by requests of these kinds, at these places.
LEMMA Places ==
    ASSUME PlaceInv, NEW r \in Requests
    PROVE
           /\ At(r, "arrive") =>
                  req[r].kind = None /\ req[r].todo = Arriving
           /\ At(r, "key") =>
                  /\ req[r].status = None
                  /\ \/ req[r].kind = "metrics" /\ req[r].todo = MetricsKey
                     \/ req[r].kind = "generate" /\ req[r].todo = GenerateKey
                     \/ req[r].kind = "submit" /\ req[r].todo = SubmitKey
                     \/ req[r].kind = "poll" /\ req[r].todo = PollKey
           /\ At(r, "service") =>
                  /\ req[r].status = None
                  /\ \/ req[r].kind = "ready" /\ req[r].todo = ReadyService
                     \/ req[r].kind = "submit" /\ req[r].todo = SubmitService
                     \/ req[r].kind = "poll" /\ req[r].todo = PollService
           /\ At(r, "build") =>
                  /\ req[r].status = None
                  /\ \/ req[r].kind = "ready" /\ req[r].todo = ReadyBuild
                     \/ req[r].kind = "submit" /\ req[r].todo = SubmitBuild
                     \/ req[r].kind = "poll" /\ req[r].todo = PollBuild
           /\ At(r, "body") =>
                  /\ req[r].status = None
                  /\ \/ req[r].kind = "generate" /\ req[r].todo = GenerateBody
                     \/ req[r].kind = "submit" /\ req[r].todo = SubmitBody
           /\ At(r, "model") =>
                  /\ req[r].status = None
                  /\ req[r].kind = "generate" /\ req[r].todo = GenerateModel
           /\ At(r, "submit") =>
                  /\ req[r].status = None
                  /\ req[r].kind = "submit" /\ req[r].todo = SubmitJob
           /\ At(r, "get") =>
                  /\ req[r].status = None
                  /\ req[r].kind = "poll" /\ req[r].todo = PollGet
           /\ At(r, "answer") =>
                  /\ req[r].status = None /\ req[r].todo = Answering
                  /\ req[r].kind \in {"health", "ready", "metrics"}
           /\ At(r, "error") =>
                  /\ req[r].status # None
                  /\ req[r].kind = "generate" /\ req[r].todo = ErrorCount
           /\ At(r, "latency") =>
                  /\ req[r].status # None /\ req[r].kind = "generate"
                  /\ req[r].todo \in {ResultLatency, ErrorLatency}
           /\ At(r, "emit") =>
                  /\ req[r].status # None /\ req[r].kind = "generate"
                  /\ req[r].todo \in {ResultEmit, ErrorEmit}
           /\ At(r, "usage") =>
                  /\ req[r].status # None
                  /\ req[r].kind = "generate" /\ req[r].todo = ResultUsage
           /\ At(r, "cost") =>
                  /\ req[r].status # None
                  /\ req[r].kind = "generate" /\ req[r].todo = ResultCost
           /\ At(r, "respond") =>
                  /\ req[r].status # None
                  /\ req[r].kind # None /\ req[r].todo = Responding
<1>1. ASSUME At(r, "arrive")
      PROVE  req[r].kind = None /\ req[r].todo = Arriving
  BY <1>1, AtPlace, Heads DEF PlaceInv, InPlace, Waits, Finished, AfterResult, AfterError
<1>2. ASSUME At(r, "key")
      PROVE  /\ req[r].status = None
             /\ \/ req[r].kind = "metrics" /\ req[r].todo = MetricsKey
                \/ req[r].kind = "generate" /\ req[r].todo = GenerateKey
                \/ req[r].kind = "submit" /\ req[r].todo = SubmitKey
                \/ req[r].kind = "poll" /\ req[r].todo = PollKey
  BY <1>2, AtPlace, Heads DEF PlaceInv, InPlace, Waits, Finished, AfterResult, AfterError
<1>3. ASSUME At(r, "service")
      PROVE  /\ req[r].status = None
             /\ \/ req[r].kind = "ready" /\ req[r].todo = ReadyService
                \/ req[r].kind = "submit" /\ req[r].todo = SubmitService
                \/ req[r].kind = "poll" /\ req[r].todo = PollService
  BY <1>3, AtPlace, Heads DEF PlaceInv, InPlace, Waits, Finished, AfterResult, AfterError
<1>4. ASSUME At(r, "build")
      PROVE  /\ req[r].status = None
             /\ \/ req[r].kind = "ready" /\ req[r].todo = ReadyBuild
                \/ req[r].kind = "submit" /\ req[r].todo = SubmitBuild
                \/ req[r].kind = "poll" /\ req[r].todo = PollBuild
  BY <1>4, AtPlace, Heads DEF PlaceInv, InPlace, Waits, Finished, AfterResult, AfterError
<1>5. ASSUME At(r, "body")
      PROVE  /\ req[r].status = None
             /\ \/ req[r].kind = "generate" /\ req[r].todo = GenerateBody
                \/ req[r].kind = "submit" /\ req[r].todo = SubmitBody
  BY <1>5, AtPlace, Heads DEF PlaceInv, InPlace, Waits, Finished, AfterResult, AfterError
<1>6. ASSUME At(r, "model")
      PROVE  /\ req[r].status = None
             /\ req[r].kind = "generate" /\ req[r].todo = GenerateModel
  BY <1>6, AtPlace, Heads DEF PlaceInv, InPlace, Waits, Finished, AfterResult, AfterError
<1>7. ASSUME At(r, "submit")
      PROVE  /\ req[r].status = None
             /\ req[r].kind = "submit" /\ req[r].todo = SubmitJob
  BY <1>7, AtPlace, Heads DEF PlaceInv, InPlace, Waits, Finished, AfterResult, AfterError
<1>8. ASSUME At(r, "get")
      PROVE  /\ req[r].status = None
             /\ req[r].kind = "poll" /\ req[r].todo = PollGet
  BY <1>8, AtPlace, Heads DEF PlaceInv, InPlace, Waits, Finished, AfterResult, AfterError
<1>9. ASSUME At(r, "answer")
      PROVE  /\ req[r].status = None /\ req[r].todo = Answering
             /\ req[r].kind \in {"health", "ready", "metrics"}
  BY <1>9, AtPlace, Heads DEF PlaceInv, InPlace, Waits, Finished, AfterResult, AfterError
<1>10. ASSUME At(r, "error")
      PROVE  /\ req[r].status # None
             /\ req[r].kind = "generate" /\ req[r].todo = ErrorCount
  BY <1>10, AtPlace, Heads DEF PlaceInv, InPlace, Waits, Finished, AfterResult, AfterError
<1>11. ASSUME At(r, "latency")
      PROVE  /\ req[r].status # None /\ req[r].kind = "generate"
             /\ req[r].todo \in {ResultLatency, ErrorLatency}
  BY <1>11, AtPlace, Heads DEF PlaceInv, InPlace, Waits, Finished, AfterResult, AfterError
<1>12. ASSUME At(r, "emit")
      PROVE  /\ req[r].status # None /\ req[r].kind = "generate"
             /\ req[r].todo \in {ResultEmit, ErrorEmit}
  BY <1>12, AtPlace, Heads DEF PlaceInv, InPlace, Waits, Finished, AfterResult, AfterError
<1>13. ASSUME At(r, "usage")
      PROVE  /\ req[r].status # None
             /\ req[r].kind = "generate" /\ req[r].todo = ResultUsage
  BY <1>13, AtPlace, Heads DEF PlaceInv, InPlace, Waits, Finished, AfterResult, AfterError
<1>14. ASSUME At(r, "cost")
      PROVE  /\ req[r].status # None
             /\ req[r].kind = "generate" /\ req[r].todo = ResultCost
  BY <1>14, AtPlace, Heads DEF PlaceInv, InPlace, Waits, Finished, AfterResult, AfterError
<1>15. ASSUME At(r, "respond")
      PROVE  /\ req[r].status # None
             /\ req[r].kind # None /\ req[r].todo = Responding
  BY <1>15, AtPlace, Heads DEF PlaceInv, InPlace, Waits, Finished, AfterResult, AfterError
<1> QED
  BY <1>1, <1>2, <1>3, <1>4, <1>5, <1>6, <1>7, <1>8, <1>9, <1>10, <1>11, <1>12, <1>13,
     <1>14, <1>15

\* Places that are not of a service to build, to use, or of a call to record.
LEMMA Elsewhere ==
    /\ Arriving \notin Building /\ Answering \notin Building
    /\ ReadyService \notin Building /\ MetricsKey \notin Building
    /\ GenerateKey \notin Building /\ GenerateBody \notin Building
    /\ GenerateModel \notin Building /\ SubmitKey \notin Building
    /\ SubmitService \notin Building /\ SubmitBody \notin Building
    /\ SubmitJob \notin Building /\ PollKey \notin Building /\ PollService \notin Building
    /\ PollGet \notin Building /\ Responding \notin Building /\ Done \notin Building
    /\ ResultLatency \notin Building /\ ResultEmit \notin Building
    /\ ResultUsage \notin Building /\ ResultCost \notin Building
    /\ ErrorCount \notin Building /\ ErrorLatency \notin Building
    /\ ErrorEmit \notin Building
    /\ Arriving \notin Served /\ Answering \notin Served /\ ReadyService \notin Served
    /\ ReadyBuild \notin Served /\ MetricsKey \notin Served /\ GenerateKey \notin Served
    /\ GenerateBody \notin Served /\ GenerateModel \notin Served /\ SubmitKey \notin Served
    /\ SubmitService \notin Served /\ SubmitBuild \notin Served /\ PollKey \notin Served
    /\ PollService \notin Served /\ PollBuild \notin Served /\ Responding \notin Served
    /\ Done \notin Served /\ ResultLatency \notin Served /\ ResultEmit \notin Served
    /\ ResultUsage \notin Served /\ ResultCost \notin Served /\ ErrorCount \notin Served
    /\ ErrorLatency \notin Served /\ ErrorEmit \notin Served
    /\ Arriving \notin AfterResult \cup AfterError
    /\ Answering \notin AfterResult \cup AfterError
    /\ ReadyService \notin AfterResult \cup AfterError
    /\ ReadyBuild \notin AfterResult \cup AfterError
    /\ MetricsKey \notin AfterResult \cup AfterError
    /\ GenerateKey \notin AfterResult \cup AfterError
    /\ GenerateBody \notin AfterResult \cup AfterError
    /\ GenerateModel \notin AfterResult \cup AfterError
    /\ SubmitKey \notin AfterResult \cup AfterError
    /\ SubmitService \notin AfterResult \cup AfterError
    /\ SubmitBuild \notin AfterResult \cup AfterError
    /\ SubmitBody \notin AfterResult \cup AfterError
    /\ SubmitJob \notin AfterResult \cup AfterError
    /\ PollKey \notin AfterResult \cup AfterError
    /\ PollService \notin AfterResult \cup AfterError
    /\ PollBuild \notin AfterResult \cup AfterError
    /\ PollGet \notin AfterResult \cup AfterError
    /\ Responding \notin AfterResult \cup AfterError
    /\ Done \notin AfterResult \cup AfterError
    /\ ResultLatency \notin AfterError \cup Finished
    /\ ResultEmit \notin AfterError \cup Finished
    /\ ResultUsage \notin AfterError \cup Finished
    /\ ResultCost \notin AfterError \cup Finished
    /\ ErrorCount \notin AfterResult \cup Finished
    /\ ErrorLatency \notin AfterResult \cup Finished
    /\ ErrorEmit \notin AfterResult \cup Finished
<1>1. /\ Arriving \notin Building /\ Answering \notin Building
      /\ ReadyService \notin Building /\ MetricsKey \notin Building
      /\ GenerateKey \notin Building /\ GenerateBody \notin Building
  BY Heads, Tails DEF Building
<1>2. /\ GenerateModel \notin Building /\ SubmitKey \notin Building
      /\ SubmitService \notin Building /\ SubmitBody \notin Building
      /\ SubmitJob \notin Building /\ PollKey \notin Building
  BY Heads, Tails DEF Building
<1>3. /\ PollService \notin Building /\ PollGet \notin Building
      /\ Responding \notin Building /\ Done \notin Building
      /\ ResultLatency \notin Building /\ ResultEmit \notin Building
  BY Heads, Tails DEF Building
<1>4. /\ ResultUsage \notin Building /\ ResultCost \notin Building
      /\ ErrorCount \notin Building /\ ErrorLatency \notin Building
      /\ ErrorEmit \notin Building
  BY Heads, Tails DEF Building
<1>5. /\ Arriving \notin Served /\ Answering \notin Served /\ ReadyService \notin Served
      /\ ReadyBuild \notin Served /\ MetricsKey \notin Served /\ GenerateKey \notin Served
  BY Heads, Tails DEF Served
<1>6. /\ GenerateBody \notin Served /\ GenerateModel \notin Served
      /\ SubmitKey \notin Served /\ SubmitService \notin Served
      /\ SubmitBuild \notin Served /\ PollKey \notin Served
  BY Heads, Tails DEF Served
<1>7. /\ PollService \notin Served /\ PollBuild \notin Served /\ Responding \notin Served
      /\ Done \notin Served /\ ResultLatency \notin Served /\ ResultEmit \notin Served
  BY Heads, Tails DEF Served
<1>8. /\ ResultUsage \notin Served /\ ResultCost \notin Served /\ ErrorCount \notin Served
      /\ ErrorLatency \notin Served /\ ErrorEmit \notin Served
  BY Heads, Tails DEF Served
<1>9. /\ Arriving \notin AfterResult \cup AfterError
      /\ Answering \notin AfterResult \cup AfterError
      /\ ReadyService \notin AfterResult \cup AfterError
      /\ ReadyBuild \notin AfterResult \cup AfterError
      /\ MetricsKey \notin AfterResult \cup AfterError
      /\ GenerateKey \notin AfterResult \cup AfterError
  BY Heads, Tails DEF AfterResult, AfterError
<1>10. /\ GenerateBody \notin AfterResult \cup AfterError
      /\ GenerateModel \notin AfterResult \cup AfterError
      /\ SubmitKey \notin AfterResult \cup AfterError
      /\ SubmitService \notin AfterResult \cup AfterError
      /\ SubmitBuild \notin AfterResult \cup AfterError
      /\ SubmitBody \notin AfterResult \cup AfterError
  BY Heads, Tails DEF AfterResult, AfterError
<1>11. /\ SubmitJob \notin AfterResult \cup AfterError
      /\ PollKey \notin AfterResult \cup AfterError
      /\ PollService \notin AfterResult \cup AfterError
      /\ PollBuild \notin AfterResult \cup AfterError
      /\ PollGet \notin AfterResult \cup AfterError
      /\ Responding \notin AfterResult \cup AfterError
  BY Heads, Tails DEF AfterResult, AfterError
<1>12. /\ Done \notin AfterResult \cup AfterError
  BY Heads, Tails DEF AfterResult, AfterError
<1>13. /\ ResultLatency \notin AfterError \cup Finished
      /\ ResultEmit \notin AfterError \cup Finished
      /\ ResultUsage \notin AfterError \cup Finished
      /\ ResultCost \notin AfterError \cup Finished
  BY Heads, Tails DEF AfterError, Finished
<1>14. /\ ErrorCount \notin AfterResult \cup Finished
      /\ ErrorLatency \notin AfterResult \cup Finished
      /\ ErrorEmit \notin AfterResult \cup Finished
  BY Heads, Tails DEF AfterResult, Finished
<1> QED
  BY <1>1, <1>2, <1>3, <1>4, <1>5, <1>6, <1>7, <1>8, <1>9, <1>10, <1>11, <1>12, <1>13, <1>14

\* None differs from every kind, answer and status.
LEMMA NoneIsNoValue ==
    /\ None \notin {"health", "ready", "metrics", "generate", "submit", "poll"}
    /\ None \notin {"raised", "no_usage", "input", "both"}
    /\ None \notin Nat
BY NoneAssumption, Routes

(***************************************************************************)
(* Where each step leads its request.                                      *)
(***************************************************************************)

\* For each action: where its request was and where it is afterwards.
LEMMA ArriveLeads ==
    ASSUME ApiTypeOK, PlaceInv, AnswerInv, NEW r \in Requests, Arrive(r)
    PROVE  /\ req[r].kind = None /\ req'[r].kind \in DOMAIN Route
           /\ req'[r].todo = Route[req'[r].kind]
           /\ req[r].status = None /\ req'[r].status = None
           /\ req[r].home = None /\ req[r].answer = None
<1>1. req[r].kind = None /\ InPlace(req[r]) /\ AnswerKept(req[r])
  BY ArriveEffect, Places DEF PlaceInv, AnswerInv
<1>2. req[r].status = None /\ req[r].home = None /\ req[r].answer = None
  BY <1>1, NoneIsNoValue DEF InPlace, AnswerKept
<1> QED
  BY <1>1, <1>2, ArriveEffect

LEMMA RequireKeyLeads ==
    ASSUME ApiTypeOK, PlaceInv, AnswerInv, NEW r \in Requests, RequireKey(r)
    PROVE  /\ req[r].status = None /\ req[r].kind \in Guarded
           /\ \/ /\ req[r].kind = "metrics" /\ req[r].todo = MetricsKey
                 /\ req'[r].status = None => req'[r].todo = Answering
              \/ /\ req[r].kind = "generate" /\ req[r].todo = GenerateKey
                 /\ req'[r].status = None => req'[r].todo = GenerateBody
              \/ /\ req[r].kind = "submit" /\ req[r].todo = SubmitKey
                 /\ req'[r].status = None => req'[r].todo = SubmitService
              \/ /\ req[r].kind = "poll" /\ req[r].todo = PollKey
                 /\ req'[r].status = None => req'[r].todo = PollService
           /\ \/ req'[r].status = 401 /\ req'[r].todo = Responding
              \/ req'[r].status = None /\ req'[r].key = settings.key
<1>1. At(r, "key")
  BY RequireKeyEffect
<1>2. /\ req[r].status = None
      /\ \/ req[r].kind = "metrics" /\ req[r].todo = MetricsKey
         \/ req[r].kind = "generate" /\ req[r].todo = GenerateKey
         \/ req[r].kind = "submit" /\ req[r].todo = SubmitKey
         \/ req[r].kind = "poll" /\ req[r].todo = PollKey
  BY <1>1, Places
<1>3. \/ req'[r].status = 401 /\ req'[r].todo = Responding
      \/ /\ req'[r].key = settings.key
         /\ req'[r].status = None /\ req'[r].todo = Tail(req[r].todo)
  BY <1>2, RequireKeyEffect
<1>4. req[r].kind \in Guarded
  BY <1>2 DEF Guarded
<1>5. CASE req'[r].status = 401 /\ req'[r].todo = Responding
  <2>1. req'[r].status # None
    BY <1>5, NoneIsNoValue
  <2> QED
    BY <1>2, <1>4, <1>5, <2>1
<1>6. CASE /\ req'[r].key = settings.key
           /\ req'[r].status = None /\ req'[r].todo = Tail(req[r].todo)
  BY <1>2, <1>4, <1>6, Tails
<1> QED
  BY <1>3, <1>5, <1>6

LEMMA LookUpLeads ==
    ASSUME ApiTypeOK, PlaceInv, AnswerInv, NEW r \in Requests, LookUp(r)
    PROVE  /\ req[r].status = None
           /\ \/ /\ cached # None /\ req'[r].service = cached
                 /\ \/ req[r].kind = "ready" /\ req'[r].todo = Answering
                    \/ req[r].kind = "submit" /\ req'[r].todo = SubmitBody
                    \/ req[r].kind = "poll" /\ req'[r].todo = PollGet
              \/ /\ cached = None /\ req'[r].service = req[r].service
                 /\ \/ req[r].kind = "ready" /\ req'[r].todo = ReadyBuild
                    \/ req[r].kind = "submit" /\ req'[r].todo = SubmitBuild
                    \/ req[r].kind = "poll" /\ req'[r].todo = PollBuild
<1>1. At(r, "service")
  BY LookUpEffect
<1>2. /\ req[r].status = None
      /\ \/ req[r].kind = "ready" /\ req[r].todo = ReadyService
         \/ req[r].kind = "submit" /\ req[r].todo = SubmitService
         \/ req[r].kind = "poll" /\ req[r].todo = PollService
  BY <1>1, Places
<1>3. CASE cached # None
  <2>1. req'[r].service = cached /\ req'[r].todo = Tail(req[r].todo)
    BY <1>3, LookUpEffect
  <2> QED
    BY <1>2, <1>3, <2>1, Tails
<1>4. CASE cached = None
  <2>1. /\ req'[r].service = req[r].service
        /\ req'[r].todo = [req[r].todo EXCEPT ![1] = "build"]
    BY <1>4, LookUpEffect
  <2> QED
    BY <1>2, <1>4, <2>1, Misses
<1> QED
  BY <1>3, <1>4

LEMMA BuildLeads ==
    ASSUME ApiTypeOK, PlaceInv, AnswerInv, NEW r \in Requests, Build(r)
    PROVE  /\ req[r].status = None /\ req[r].todo \in Building
           /\ \/ req[r].kind = "ready" /\ req'[r].todo = Answering
              \/ req[r].kind = "submit" /\ req'[r].todo = SubmitBody
              \/ req[r].kind = "poll" /\ req'[r].todo = PollGet
BY BuildEffect, Places, Tails DEF Building

LEMMA ValidateBodyLeads ==
    ASSUME ApiTypeOK, PlaceInv, AnswerInv, NEW r \in Requests, ValidateBody(r)
    PROVE  /\ req[r].status = None
           /\ \/ /\ req'[r].status = None /\ req[r].kind = "generate"
                 /\ req[r].todo = GenerateBody /\ req'[r].todo = GenerateModel
              \/ /\ req'[r].status = None /\ req[r].kind = "submit"
                 /\ req[r].todo \in Served /\ req'[r].todo = SubmitJob
              \/ /\ req'[r].status = 422 /\ req'[r].todo = Responding
                 /\ req[r].kind \in {"generate", "submit"}
<1>1. At(r, "body")
  BY ValidateBodyEffect
<1>2. /\ req[r].status = None
      /\ \/ req[r].kind = "generate" /\ req[r].todo = GenerateBody
         \/ req[r].kind = "submit" /\ req[r].todo = SubmitBody
  BY <1>1, Places
<1>3. \/ req'[r].status = None /\ req'[r].todo = Tail(req[r].todo)
      \/ req'[r].status = 422 /\ req'[r].todo = Responding
  BY <1>2, ValidateBodyEffect
<1> QED
  BY <1>2, <1>3, Tails DEF Served

LEMMA RecordCallLeads ==
    ASSUME ApiTypeOK, PlaceInv, AnswerInv, NEW r \in Requests, RecordCall(r)
    PROVE  /\ req[r].kind = "generate" /\ req[r].status # None
           /\ \/ /\ At(r, "error") /\ metrics' = Recorded("error", req[r].answer)
                 /\ req[r].todo = ErrorCount /\ req'[r].todo = ErrorLatency
              \/ /\ At(r, "latency") /\ metrics' = Recorded("latency", req[r].answer)
                 /\ \/ req[r].todo = ErrorLatency /\ req'[r].todo = ErrorEmit
                    \/ req[r].todo = ResultLatency /\ req'[r].todo = ResultEmit
              \/ /\ At(r, "usage") /\ metrics' = Recorded("usage", req[r].answer)
                 /\ req[r].todo = ResultUsage /\ req'[r].todo = ResultCost
              \/ /\ At(r, "cost") /\ metrics' = Recorded("cost", req[r].answer)
                 /\ req[r].todo = ResultCost /\ req'[r].todo = Responding
<1>1. PICK step \in Recordings : At(r, step) /\ metrics' = Recorded(step, req[r].answer)
  BY RecordCallEffect
<1>2. req'[r].todo = Tail(req[r].todo)
  BY RecordCallEffect
<1>3. CASE step = "error"
  BY <1>1, <1>2, <1>3, Places, Tails
<1>4. CASE step = "latency"
  BY <1>1, <1>2, <1>4, Places, Tails
<1>5. CASE step = "usage"
  BY <1>1, <1>2, <1>5, Places, Tails
<1>6. CASE step = "cost"
  BY <1>1, <1>2, <1>6, Places, Tails
<1> QED
  BY <1>3, <1>4, <1>5, <1>6 DEF Recordings

LEMMA EmitInferenceMetricsLeads ==
    ASSUME ApiTypeOK, PlaceInv, AnswerInv, NEW r \in Requests, EmitInferenceMetrics(r)
    PROVE  /\ req[r].kind = "generate" /\ req[r].status # None
           /\ \/ req[r].todo = ResultEmit /\ req'[r].todo = ResultUsage
              \/ req[r].todo = ErrorEmit /\ req'[r].todo = Responding
BY EmitInferenceMetricsEffect, Places, Tails

LEMMA ExecuteLeads ==
    ASSUME ApiTypeOK, PlaceInv, AnswerInv, NEW r \in Requests, Execute(r)
    PROVE  /\ req[r].kind = "submit" /\ req[r].status = 202 /\ req[r].home # None
           /\ \/ /\ req[r].work = JobModel /\ req[r].answer = None /\ metrics' = metrics
                 /\ \/ /\ req'[r].answer \in {"no_usage", "input", "both"}
                       /\ req'[r].work = JobUsage
                    \/ req'[r].answer = "raised" /\ req'[r].work = JobError
              \/ /\ req'[r].answer = req[r].answer /\ req[r].answer # None
                 /\ \/ /\ req[r].work = JobUsage /\ req'[r].work = JobCost
                       /\ metrics' = Recorded("usage", req[r].answer)
                    \/ /\ req[r].work = JobCost /\ req'[r].work = JobLatency
                       /\ metrics' = Recorded("cost", req[r].answer)
                    \/ /\ req[r].work = JobLatency /\ req'[r].work = Done
                       /\ metrics' = Recorded("latency", req[r].answer)
                    \/ /\ req[r].work = JobError /\ req'[r].work = JobLatency
                       /\ metrics' = Recorded("error", req[r].answer)
              
<1>1. req[r].work # Done /\ AnswerKept(req[r]) /\ req[r].answer \in Answers
  BY ExecuteEffect, RequestShape DEF AnswerInv, ApiTypeOK, RequestOf
<1>2. /\ req[r].kind = "submit" /\ req[r].status = 202 /\ req[r].home # None
      /\ req[r].answer = None => req[r].work = JobModel
      /\ req[r].answer # None => req[r].work \in {JobUsage, JobCost, JobLatency, JobError}
  BY <1>1 DEF AnswerKept, Answers
<1>3. CASE req[r].answer = None
  <2>1. Head(req[r].work) = "model"
    BY <1>2, <1>3, Heads
  <2> QED
    BY <1>2, <1>3, <2>1, ExecuteEffect
<1>4. CASE req[r].answer # None
  <2>1. Head(req[r].work) # "model"
    BY <1>2, <1>4, Heads
  <2>2. /\ metrics' = Recorded(Head(req[r].work), req[r].answer)
        /\ req'[r].answer = req[r].answer /\ req'[r].work = Tail(req[r].work)
    BY <2>1, ExecuteEffect
  <2>3. CASE req[r].work = JobUsage
    BY <1>2, <1>4, <2>2, <2>3, Heads, Tails
  <2>4. CASE req[r].work = JobCost
    BY <1>2, <1>4, <2>2, <2>4, Heads, Tails
  <2>5. CASE req[r].work = JobLatency
    BY <1>2, <1>4, <2>2, <2>5, Heads, Tails
  <2>6. CASE req[r].work = JobError
    BY <1>2, <1>4, <2>2, <2>6, Heads, Tails
  <2> QED
    BY <1>2, <1>4, <2>3, <2>4, <2>5, <2>6
<1> QED
  BY <1>3, <1>4

LEMMA RecordRequestLeads ==
    ASSUME ApiTypeOK, PlaceInv, AnswerInv, NEW r \in Requests, RecordRequest(r)
    PROVE  /\ req[r].kind # None /\ req[r].status # None
           /\ req[r].todo = Responding /\ req'[r].todo = Done
BY RecordRequestEffect, Places, Tails

LEMMA GenerateLeads ==
    ASSUME ApiTypeOK, PlaceInv, AnswerInv, NEW r \in Requests, Generate(r)
    PROVE  req[r].status = None /\ req[r].kind = "generate" /\ req[r].todo = GenerateModel
BY GenerateEffect, Places

LEMMA CreateJobLeads ==
    ASSUME ApiTypeOK, PlaceInv, AnswerInv, NEW r \in Requests, CreateJob(r)
    PROVE  req[r].status = None /\ req[r].kind = "submit" /\ req[r].todo = SubmitJob
BY CreateJobEffect, Places

LEMMA GetJobLeads ==
    ASSUME ApiTypeOK, PlaceInv, AnswerInv, NEW r \in Requests, GetJob(r)
    PROVE  req[r].status = None /\ req[r].kind = "poll" /\ req[r].todo = PollGet
BY GetJobEffect, Places

LEMMA AnswerLeads ==
    ASSUME ApiTypeOK, PlaceInv, AnswerInv, NEW r \in Requests, Answer(r)
    PROVE  /\ req[r].status = None /\ req[r].todo = Answering
           /\ req[r].kind \in {"health", "ready", "metrics"}
BY AnswerEffect, Places

(***************************************************************************)
(* The moves: what a step makes of its request, as a relation between the  *)
(* old record q and the new record n.                                      *)
(***************************************************************************)

Arrives(q, n) ==
    /\ q.kind = None /\ q.status = None /\ q.home = None /\ q.answer = None
    /\ n.kind \in DOMAIN Route /\ n.todo = Route[n.kind]
    /\ n.kind # "poll" => n.target = None
    /\ n.late = (cached # None)
    /\ n.key = q.key /\ n.service = q.service /\ n.home = q.home /\ n.work = q.work
    /\ n.answer = q.answer /\ n.status = q.status

ChecksKey(q, n) ==
    /\ q.status = None /\ q.kind \in Guarded
    /\ \/ n.status = 401 /\ n.todo = Responding
       \/ /\ n.status = None /\ n.key = settings.key
          /\ \/ q.kind = "metrics" /\ n.todo = Answering
             \/ q.kind = "generate" /\ n.todo = GenerateBody
             \/ q.kind = "submit" /\ n.todo = SubmitService
             \/ q.kind = "poll" /\ n.todo = PollService
    /\ q.kind = "generate" => q.todo = GenerateKey
    /\ n.kind = q.kind /\ n.late = q.late /\ n.service = q.service /\ n.target = q.target
    /\ n.home = q.home /\ n.work = q.work /\ n.answer = q.answer

LooksUp(q, n) ==
    /\ q.status = None
    /\ \/ /\ cached # None /\ n.service = cached
          /\ \/ q.kind = "ready" /\ n.todo = Answering
             \/ q.kind = "submit" /\ n.todo = SubmitBody
             \/ q.kind = "poll" /\ n.todo = PollGet
       \/ /\ cached = None /\ n.service = q.service
          /\ \/ q.kind = "ready" /\ n.todo = ReadyBuild
             \/ q.kind = "submit" /\ n.todo = SubmitBuild
             \/ q.kind = "poll" /\ n.todo = PollBuild
    /\ q.todo \in {ReadyService, SubmitService, PollService}
    /\ n.kind = q.kind /\ n.key = q.key /\ n.late = q.late /\ n.target = q.target
    /\ n.home = q.home /\ n.work = q.work /\ n.answer = q.answer /\ n.status = q.status

Builds(q, n) ==
    /\ q.status = None /\ q.todo \in Building /\ n.service # None
    /\ \/ q.kind = "ready" /\ n.todo = Answering
       \/ q.kind = "submit" /\ n.todo = SubmitBody
       \/ q.kind = "poll" /\ n.todo = PollGet
    /\ n.kind = q.kind /\ n.key = q.key /\ n.late = q.late /\ n.target = q.target
    /\ n.home = q.home /\ n.work = q.work /\ n.answer = q.answer /\ n.status = q.status

JudgesBody(q, n) ==
    /\ q.status = None
    /\ \/ n.status = None /\ q.kind = "generate" /\ n.todo = GenerateModel
       \/ n.status = None /\ q.kind = "submit" /\ q.todo \in Served /\ n.todo = SubmitJob
       \/ n.status = 422 /\ n.todo = Responding
    /\ \/ q.kind = "generate" /\ q.todo = GenerateBody
       \/ q.kind = "submit" /\ q.todo = SubmitBody
    /\ n.kind = q.kind /\ n.key = q.key /\ n.late = q.late /\ n.service = q.service
    /\ n.target = q.target /\ n.home = q.home /\ n.work = q.work /\ n.answer = q.answer

Generates(q, n) ==
    /\ q.status = None /\ q.kind = "generate" /\ q.todo = GenerateModel
    /\ \/ /\ n.answer \in {"no_usage", "input", "both"} /\ n.status = 200
          /\ n.todo = ResultLatency
       \/ n.answer = "raised" /\ n.status \in {500, 502, 503} /\ n.todo = ErrorCount
    /\ n.kind = q.kind /\ n.key = q.key /\ n.late = q.late /\ n.service = q.service
    /\ n.target = q.target /\ n.home = q.home /\ n.work = q.work

Records(q, n) ==
    /\ q.kind = "generate" /\ q.status # None
    /\ \/ q.todo = ErrorCount /\ n.todo = ErrorLatency
       \/ q.todo = ErrorLatency /\ n.todo = ErrorEmit
       \/ q.todo = ErrorEmit /\ n.todo = Responding
       \/ q.todo = ResultLatency /\ n.todo = ResultEmit
       \/ q.todo = ResultEmit /\ n.todo = ResultUsage
       \/ q.todo = ResultUsage /\ n.todo = ResultCost
       \/ q.todo = ResultCost /\ n.todo = Responding
    /\ n.kind = q.kind /\ n.key = q.key /\ n.late = q.late /\ n.service = q.service
    /\ n.target = q.target /\ n.home = q.home /\ n.work = q.work /\ n.answer = q.answer
    /\ n.status = q.status

Executes(q, n) ==
    /\ q.kind = "submit" /\ q.status = 202 /\ q.home # None
    /\ \/ /\ q.work = JobModel /\ q.answer = None
          /\ \/ n.answer \in {"no_usage", "input", "both"} /\ n.work = JobUsage
             \/ n.answer = "raised" /\ n.work = JobError
       \/ /\ n.answer = q.answer /\ q.answer # None
          /\ \/ q.work = JobUsage /\ n.work = JobCost
             \/ q.work = JobCost /\ n.work = JobLatency
             \/ q.work = JobLatency /\ n.work = Done
             \/ q.work = JobError /\ n.work = JobLatency
    /\ n.kind = q.kind /\ n.todo = q.todo /\ n.key = q.key /\ n.late = q.late
    /\ n.service = q.service /\ n.target = q.target /\ n.home = q.home
    /\ n.status = q.status

Submits(q, n) ==
    /\ q.status = None /\ q.kind = "submit" /\ q.todo = SubmitJob /\ n.todo = Responding
    /\ \/ n.status = 202 /\ n.home = q.service /\ n.work \in {JobModel, Done}
       \/ n.status \in {500, 503} /\ n.home = q.home /\ n.work = q.work
    /\ n.kind = q.kind /\ n.key = q.key /\ n.late = q.late /\ n.service = q.service
    /\ n.target = q.target /\ n.answer = q.answer

\* get_job and the endpoints without a body.
Tells(q, n) ==
    /\ q.status = None /\ n.todo = Responding /\ n.status \in {200, 404, 503}
    /\ \/ q.kind = "poll" /\ q.todo = PollGet
       \/ q.kind \in {"health", "ready", "metrics"} /\ q.todo = Answering
    /\ n.kind = q.kind /\ n.key = q.key /\ n.late = q.late /\ n.service = q.service
    /\ n.target = q.target /\ n.home = q.home /\ n.work = q.work /\ n.answer = q.answer

Responds(q, n) ==
    /\ q.kind # None /\ q.status # None /\ q.todo = Responding /\ n.todo = Done
    /\ n.kind = q.kind /\ n.key = q.key /\ n.late = q.late /\ n.service = q.service
    /\ n.target = q.target /\ n.home = q.home /\ n.work = q.work /\ n.answer = q.answer
    /\ n.status = q.status

Moves(q, n) ==
    \/ Arrives(q, n) \/ ChecksKey(q, n) \/ LooksUp(q, n) \/ Builds(q, n) \/ JudgesBody(q, n)
    \/ Generates(q, n) \/ Records(q, n) \/ Executes(q, n) \/ Submits(q, n)
    \/ Tells(q, n) \/ Responds(q, n)

ApiStep(r) ==
    \/ Arrive(r) \/ RequireKey(r) \/ LookUp(r) \/ Build(r) \/ ValidateBody(r)
    \/ Generate(r) \/ RecordCall(r) \/ EmitInferenceMetrics(r) \/ Execute(r)
    \/ CreateJob(r) \/ GetJob(r) \/ Answer(r) \/ RecordRequest(r)

\* Every action moves its request as the relation of that name has it.
LEMMA ActionMoves ==
    ASSUME ApiTypeOK, PlaceInv, AnswerInv, NEW r \in Requests
    PROVE
           /\ Arrive(r) => Arrives(req[r], req'[r])
           /\ RequireKey(r) => ChecksKey(req[r], req'[r])
           /\ LookUp(r) => LooksUp(req[r], req'[r])
           /\ Build(r) => Builds(req[r], req'[r])
           /\ ValidateBody(r) => JudgesBody(req[r], req'[r])
           /\ Generate(r) => Generates(req[r], req'[r])
           /\ RecordCall(r) => Records(req[r], req'[r])
           /\ EmitInferenceMetrics(r) => Records(req[r], req'[r])
           /\ Execute(r) => Executes(req[r], req'[r])
           /\ CreateJob(r) => Submits(req[r], req'[r])
           /\ GetJob(r) => Tells(req[r], req'[r])
           /\ Answer(r) => Tells(req[r], req'[r])
           /\ RecordRequest(r) => Responds(req[r], req'[r])
<1>1. ASSUME Arrive(r)
      PROVE  Arrives(req[r], req'[r])
  BY <1>1, ArriveEffect, ArriveLeads DEF Arrives
<1>2. ASSUME RequireKey(r)
      PROVE  ChecksKey(req[r], req'[r])
  BY <1>2, RequireKeyEffect, RequireKeyLeads DEF ChecksKey
<1>3. ASSUME LookUp(r)
      PROVE  LooksUp(req[r], req'[r])
  BY <1>3, LookUpEffect, LookUpLeads, Places DEF LooksUp
<1>4. ASSUME Build(r)
      PROVE  Builds(req[r], req'[r])
  BY <1>4, BuildEffect, BuildLeads, ApiProcessAssumption DEF Builds
<1>5. ASSUME ValidateBody(r)
      PROVE  JudgesBody(req[r], req'[r])
  BY <1>5, ValidateBodyEffect, ValidateBodyLeads, Places DEF JudgesBody
<1>6. ASSUME Generate(r)
      PROVE  Generates(req[r], req'[r])
  BY <1>6, GenerateEffect, GenerateLeads DEF Generates
<1>7. ASSUME RecordCall(r)
      PROVE  Records(req[r], req'[r])
  BY <1>7, RecordCallEffect, RecordCallLeads DEF Records
<1>8. ASSUME EmitInferenceMetrics(r)
      PROVE  Records(req[r], req'[r])
  BY <1>8, EmitInferenceMetricsEffect, EmitInferenceMetricsLeads DEF Records
<1>9. ASSUME Execute(r)
      PROVE  Executes(req[r], req'[r])
  BY <1>9, ExecuteEffect, ExecuteLeads DEF Executes
<1>10. ASSUME CreateJob(r)
      PROVE  Submits(req[r], req'[r])
  BY <1>10, CreateJobEffect, CreateJobLeads DEF Submits
<1>11. ASSUME GetJob(r)
      PROVE  Tells(req[r], req'[r])
  BY <1>11, GetJobEffect, GetJobLeads DEF Tells
<1>12. ASSUME Answer(r)
      PROVE  Tells(req[r], req'[r])
  BY <1>12, AnswerEffect, AnswerLeads DEF Tells
<1>13. ASSUME RecordRequest(r)
      PROVE  Responds(req[r], req'[r])
  BY <1>13, RecordRequestEffect, RecordRequestLeads DEF Responds
<1> QED
  BY <1>1, <1>2, <1>3, <1>4, <1>5, <1>6, <1>7, <1>8, <1>9, <1>10, <1>11, <1>12, <1>13

\* A step moves one request and leaves every other record alone.
LEMMA StepMoves ==
    ASSUME ApiTypeOK, PlaceInv, AnswerInv, NEW r \in Requests, ApiStep(r)
    PROVE  /\ Moves(req[r], req'[r])
           /\ \A p \in Requests : p # r => req'[p] = req[p]
           /\ settings' = settings
<1>1. Moves(req[r], req'[r])
  BY ActionMoves DEF ApiStep, Moves
<1>2. settings' = settings /\ \A p \in Requests : p # r => req'[p] = req[p]
  <2>1. CASE Arrive(r)
    BY <2>1, ArriveEffect
  <2>2. CASE RequireKey(r)
    BY <2>2, RequireKeyEffect
  <2>3. CASE LookUp(r)
    BY <2>3, LookUpEffect
  <2>4. CASE Build(r)
    BY <2>4, BuildEffect
  <2>5. CASE ValidateBody(r)
    BY <2>5, ValidateBodyEffect
  <2>6. CASE Generate(r)
    BY <2>6, GenerateEffect
  <2>7. CASE RecordCall(r)
    BY <2>7, RecordCallEffect
  <2>8. CASE EmitInferenceMetrics(r)
    BY <2>8, EmitInferenceMetricsEffect
  <2>9. CASE Execute(r)
    BY <2>9, ExecuteEffect
  <2>10. CASE CreateJob(r)
    BY <2>10, CreateJobEffect
  <2>11. CASE GetJob(r)
    BY <2>11, GetJobEffect
  <2>12. CASE Answer(r)
    BY <2>12, AnswerEffect
  <2>13. CASE RecordRequest(r)
    BY <2>13, RecordRequestEffect
  <2> QED
    BY <2>1, <2>2, <2>3, <2>4, <2>5, <2>6, <2>7, <2>8, <2>9, <2>10, <2>11, <2>12, <2>13
       DEF ApiStep
<1> QED
  BY <1>1, <1>2

\* A guarded request without its key, not yet refused, has its key checked next.
LEMMA FirstStep ==
    ASSUME NEW q, Guards(q), q.kind \in Guarded, ~q.key, q.status = None
    PROVE  q.todo # Done /\ Head(q.todo) = "key"
BY Heads, Routes DEF Guards, Guarded

\* A move keeps a request on its route.
LEMMA PlaceMoves ==
    ASSUME NEW q, NEW n, InPlace(q), AnswerKept(q), UsesCached(q, cached), Moves(q, n)
    PROVE  InPlace(n)
<1>1. CASE Arrives(q, n)
  BY <1>1, NoneIsNoValue, Routes
     DEF Arrives, InPlace, Waits, Finished, AfterResult, AfterError
<1>2. CASE ChecksKey(q, n)
  <2>1. CASE n.status = 401
    BY <1>2, <2>1, NoneIsNoValue DEF ChecksKey, InPlace, Finished, Guarded
  <2>2. CASE n.status = None
    <3>1. Waits(n.kind, n.todo) /\ n.kind # None
      BY <1>2, <2>2, NoneIsNoValue DEF ChecksKey, Waits, Guarded
    <3> QED
      BY <1>2, <2>2, <3>1, NoneIsNoValue DEF ChecksKey, InPlace, Guarded
  <2> QED
    BY <1>2, <2>1, <2>2 DEF ChecksKey
<1>3. CASE LooksUp(q, n)
  BY <1>3, NoneIsNoValue
     DEF LooksUp, InPlace, Waits, Finished, AfterResult, AfterError
<1>4. CASE Builds(q, n)
  BY <1>4, NoneIsNoValue
     DEF Builds, InPlace, Waits, Finished, AfterResult, AfterError
<1>5. CASE JudgesBody(q, n)
  BY <1>5, NoneIsNoValue
     DEF JudgesBody, InPlace, Waits, Finished, AfterResult, AfterError
<1>6. CASE Generates(q, n)
  BY <1>6, NoneIsNoValue
     DEF Generates, InPlace, Waits, Finished, AfterResult, AfterError
<1>7. CASE Records(q, n)
  BY <1>7, NoneIsNoValue
     DEF Records, InPlace, Waits, Finished, AfterResult, AfterError
<1>8. CASE Executes(q, n)
  BY <1>8, NoneIsNoValue
     DEF Executes, InPlace, Waits, Finished, AfterResult, AfterError
<1>9. CASE Submits(q, n)
  <2>1. q.service # None
    BY <1>9 DEF Submits, UsesCached, Served
  <2> QED
    BY <1>9, <2>1, NoneIsNoValue DEF Submits, InPlace, Finished
<1>10. CASE Tells(q, n)
  BY <1>10, NoneIsNoValue
     DEF Tells, InPlace, Waits, Finished, AfterResult, AfterError
<1>11. CASE Responds(q, n)
  BY <1>11, NoneIsNoValue
     DEF Responds, InPlace, Waits, Finished, AfterResult, AfterError
<1> QED
  BY <1>1, <1>2, <1>3, <1>4, <1>5, <1>6, <1>7, <1>8, <1>9, <1>10, <1>11 DEF Moves

\* A move keeps an answer with the call or the job it belongs to.
LEMMA AnswerMoves ==
    ASSUME NEW q, NEW n, InPlace(q), AnswerKept(q), UsesCached(q, cached), Moves(q, n)
    PROVE  AnswerKept(n)
<1>1. CASE Arrives(q, n)
  BY <1>1, NoneIsNoValue, Elsewhere, Routes
     DEF Arrives, AnswerKept, InPlace, Finished, AfterResult, AfterError
<1>2. CASE ChecksKey(q, n)
  BY <1>2, NoneIsNoValue, Elsewhere
     DEF ChecksKey, AnswerKept, InPlace, Finished, AfterResult, AfterError
<1>3. CASE LooksUp(q, n)
  BY <1>3, NoneIsNoValue, Elsewhere
     DEF LooksUp, AnswerKept, InPlace, Finished, AfterResult, AfterError
<1>4. CASE Builds(q, n)
  BY <1>4, NoneIsNoValue, Elsewhere
     DEF Builds, AnswerKept, InPlace, Finished, AfterResult, AfterError
<1>5. CASE JudgesBody(q, n)
  BY <1>5, NoneIsNoValue, Elsewhere
     DEF JudgesBody, AnswerKept, InPlace, Finished, AfterResult, AfterError
<1>6. CASE Generates(q, n)
  BY <1>6, NoneIsNoValue, Elsewhere
     DEF Generates, AnswerKept, InPlace, Finished, AfterResult, AfterError
<1>7. CASE Records(q, n)
  <2>1. /\ q.home = None /\ n.home = None /\ n.work = Done
        /\ n.kind = "generate" /\ n.answer = q.answer /\ n.status = q.status
    BY <1>7 DEF Records, AnswerKept
  <2>2. q.todo \in AfterResult \cup AfterError
    BY <1>7 DEF Records, AfterResult, AfterError
  <2>3. q.answer # None
    BY <2>1, <2>2, <1>7 DEF Records, AnswerKept
  <2>4. CASE q.answer = "raised"
    <3>1. q.todo \in AfterError \cup Finished /\ q.status \in {500, 502, 503}
      BY <1>7, <2>4 DEF Records, AnswerKept
    <3>2. n.todo \in AfterError \cup Finished
      BY <1>7, <3>1, Elsewhere DEF Records, AfterError, Finished
    <3> QED
      BY <2>1, <2>4, <3>1, <3>2, NoneIsNoValue DEF AnswerKept
  <2>5. CASE q.answer \in {"no_usage", "input", "both"}
    <3>1. q.todo \in AfterResult \cup Finished /\ q.status = 200
      BY <1>7, <2>5 DEF Records, AnswerKept
    <3>2. n.todo \in AfterResult \cup Finished
      BY <1>7, <3>1, Elsewhere DEF Records, AfterResult, Finished
    <3> QED
      BY <2>1, <2>5, <3>1, <3>2, NoneIsNoValue DEF AnswerKept
  <2>6. CASE q.answer \notin {"raised", "no_usage", "input", "both"}
    BY <2>1, <2>3, <2>6 DEF AnswerKept
  <2> QED
    BY <2>4, <2>5, <2>6
<1>8. CASE Executes(q, n)
  <2>1. /\ n.kind = "submit" /\ n.home # None /\ n.status = 202
    BY <1>8 DEF Executes
  <2>2. /\ n.answer # None
        /\ n.answer = "raised" => n.work \in {JobError, JobLatency, Done}
        /\ n.answer \in {"no_usage", "input", "both"} =>
               n.work \in {JobUsage, JobCost, JobLatency, Done}
    BY <1>8, NoneIsNoValue, Heads DEF Executes, AnswerKept
  <2> QED
    BY <2>1, <2>2 DEF AnswerKept
<1>9. CASE Submits(q, n)
  <2>1. q.service # None
    BY <1>9 DEF Submits, UsesCached, Served
  <2>2. q.home = None /\ q.answer = None /\ n.answer = None /\ n.kind = "submit"
    BY <1>9, NoneIsNoValue DEF Submits, AnswerKept
  <2> QED
    BY <1>9, <2>1, <2>2, NoneIsNoValue DEF Submits, AnswerKept
<1>10. CASE Tells(q, n)
  BY <1>10, NoneIsNoValue, Elsewhere
     DEF Tells, AnswerKept, InPlace, Finished, AfterResult, AfterError
<1>11. CASE Responds(q, n)
  BY <1>11, NoneIsNoValue, Elsewhere
     DEF Responds, AnswerKept, InPlace, Finished, AfterResult, AfterError
<1> QED
  BY <1>1, <1>2, <1>3, <1>4, <1>5, <1>6, <1>7, <1>8, <1>9, <1>10, <1>11 DEF Moves

\* A move gets no request past the check of its key.
LEMMA KeyMoves ==
    ASSUME NEW q, NEW n, InPlace(q), AnswerKept(q), Guards(q), settings.deployed, settings.key,
           Moves(q, n)
    PROVE  Guards(n)
<1>1. CASE Arrives(q, n)
  BY <1>1, NoneIsNoValue, Routes
     DEF Arrives, Guards, Guarded, AnswerKept
<1>2. CASE ChecksKey(q, n)
  <2>1. CASE n.status = 401
    <3>1. n.home = None
      BY <1>2, NoneIsNoValue DEF ChecksKey, AnswerKept
    <3> QED
      BY <2>1, <3>1, NoneIsNoValue DEF Guards
  <2>2. CASE n.key = settings.key
    <3>1. n.key
      BY <2>2, Zenon
    <3> QED
      BY <3>1 DEF Guards
  <2> QED
    BY <1>2, <2>1, <2>2 DEF ChecksKey
<1>3. CASE LooksUp(q, n)
  <2>1. q.status = None /\ n.kind = q.kind /\ n.key = q.key
    BY <1>3 DEF LooksUp
  <2>2. q.kind \in Guarded => q.todo # Done /\ Head(q.todo) # "key"
    BY <1>3, Heads DEF LooksUp, Guarded
  <2> QED
    BY <2>1, <2>2, FirstStep DEF Guards
<1>4. CASE Builds(q, n)
  <2>1. q.status = None /\ n.kind = q.kind /\ n.key = q.key
    BY <1>4 DEF Builds
  <2>2. q.kind \in Guarded => q.todo # Done /\ Head(q.todo) # "key"
    BY <1>4, Heads DEF Builds, Guarded, Building
  <2> QED
    BY <2>1, <2>2, FirstStep DEF Guards
<1>5. CASE JudgesBody(q, n)
  <2>1. q.status = None /\ n.kind = q.kind /\ n.key = q.key
    BY <1>5 DEF JudgesBody
  <2>2. q.kind \in Guarded => q.todo # Done /\ Head(q.todo) # "key"
    BY <1>5, Heads DEF JudgesBody, Guarded
  <2> QED
    BY <2>1, <2>2, FirstStep DEF Guards
<1>6. CASE Generates(q, n)
  <2>1. q.status = None /\ n.kind = q.kind /\ n.key = q.key
    BY <1>6 DEF Generates
  <2>2. q.kind \in Guarded => q.todo # Done /\ Head(q.todo) # "key"
    BY <1>6, Heads DEF Generates, Guarded
  <2> QED
    BY <2>1, <2>2, FirstStep DEF Guards
<1>7. CASE Records(q, n)
  BY <1>7, NoneIsNoValue
     DEF Records, Guards, Guarded, AnswerKept
<1>8. CASE Executes(q, n)
  BY <1>8, NoneIsNoValue
     DEF Executes, Guards, Guarded, AnswerKept
<1>9. CASE Submits(q, n)
  <2>1. q.status = None /\ n.kind = q.kind /\ n.key = q.key
    BY <1>9 DEF Submits
  <2>2. q.kind \in Guarded => q.todo # Done /\ Head(q.todo) # "key"
    BY <1>9, Heads DEF Submits, Guarded
  <2> QED
    BY <2>1, <2>2, FirstStep DEF Guards
<1>10. CASE Tells(q, n)
  <2>1. q.status = None /\ n.kind = q.kind /\ n.key = q.key
    BY <1>10 DEF Tells
  <2>2. q.kind \in Guarded => q.todo # Done /\ Head(q.todo) # "key"
    BY <1>10, Heads DEF Tells, Guarded
  <2> QED
    BY <2>1, <2>2, FirstStep DEF Guards
<1>11. CASE Responds(q, n)
  BY <1>11, NoneIsNoValue
     DEF Responds, Guards, Guarded, AnswerKept
<1> QED
  BY <1>1, <1>2, <1>3, <1>4, <1>5, <1>6, <1>7, <1>8, <1>9, <1>10, <1>11 DEF Moves

\* Every step keeps the types.
LEMMA TypesStep ==
    ASSUME ApiTypeOK, NEW r \in Requests, ApiStep(r)
    PROVE  ApiTypeOK'
BY DependencyType, GenerateType, RecordingType, ExecuteType, EndpointType DEF ApiStep

\* A service, once cached, stays.
LEMMA CacheStep ==
    ASSUME ApiTypeOK, NEW r \in Requests, ApiStep(r)
    PROVE  \/ cached' = cached
           \/ /\ Build(r) /\ cached = None /\ cached' = r
<1>1. CASE Arrive(r)
  BY <1>1, ArriveEffect
<1>2. CASE RequireKey(r)
  BY <1>2, RequireKeyEffect
<1>3. CASE LookUp(r)
  BY <1>3, LookUpEffect
<1>4. CASE Build(r)
  BY <1>4, BuildEffect
<1>5. CASE ValidateBody(r)
  BY <1>5, ValidateBodyEffect
<1>6. CASE Generate(r)
  BY <1>6, GenerateEffect
<1>7. CASE RecordCall(r)
  BY <1>7, RecordCallEffect
<1>8. CASE EmitInferenceMetrics(r)
  BY <1>8, EmitInferenceMetricsEffect
<1>9. CASE Execute(r)
  BY <1>9, ExecuteEffect
<1>10. CASE CreateJob(r)
  BY <1>10, CreateJobEffect
<1>11. CASE GetJob(r)
  BY <1>11, GetJobEffect
<1>12. CASE Answer(r)
  BY <1>12, AnswerEffect
<1>13. CASE RecordRequest(r)
  BY <1>13, RecordRequestEffect
<1> QED
  BY <1>1, <1>2, <1>3, <1>4, <1>5, <1>6, <1>7, <1>8, <1>9, <1>10, <1>11, <1>12, <1>13
     DEF ApiStep

\* A move keeps a late request with the service that is cached.
LEMMA ServiceMoves ==
    ASSUME NEW q, NEW n, NEW c, InPlace(q), UsesCached(q, cached),
           n.target # None => q.target # None \/ cached # None,
           c = cached \/ Builds(q, n), Builds(q, n) => c # None, Moves(q, n)
    PROVE  UsesCached(n, c)
<1>1. CASE Arrives(q, n)
  <2>1. n.todo \notin Building /\ n.todo \notin Served
    BY <1>1, Routes, Elsewhere DEF Arrives
  <2>2. n.home = None /\ n.service = None /\ c = cached
    BY <1>1, NoneIsNoValue, Routes DEF Arrives, InPlace, Builds
  <2> QED
    BY <1>1, <2>1, <2>2 DEF Arrives, UsesCached
<1>2. CASE ChecksKey(q, n)
  <2>1. c = cached
    BY <1>2, Heads DEF ChecksKey, Builds, Building
  <2> QED
    BY <1>2, <2>1, NoneIsNoValue, Elsewhere DEF ChecksKey, UsesCached
<1>3. CASE LooksUp(q, n)
  <2>1. c = cached
    BY <1>3, Heads DEF LooksUp, Builds, Building
  <2> QED
    BY <1>3, <2>1, NoneIsNoValue, Elsewhere DEF LooksUp, UsesCached
<1>4. CASE Builds(q, n)
  <2>1. ~q.late /\ ~n.late /\ q.target = None /\ n.target = None
    BY <1>4 DEF Builds, UsesCached
  <2> QED
    BY <1>4, <2>1 DEF Builds, UsesCached
<1>5. CASE JudgesBody(q, n)
  <2>1. c = cached
    BY <1>5, Heads DEF JudgesBody, Builds, Building
  <2> QED
    BY <1>5, <2>1, NoneIsNoValue, Elsewhere DEF JudgesBody, UsesCached
<1>6. CASE Generates(q, n)
  <2>1. c = cached
    BY <1>6, Heads DEF Generates, Builds, Building
  <2> QED
    BY <1>6, <2>1, NoneIsNoValue, Elsewhere DEF Generates, UsesCached
<1>7. CASE Records(q, n)
  <2>1. c = cached
    BY <1>7, Heads DEF Records, Builds, Building
  <2> QED
    BY <1>7, <2>1, NoneIsNoValue, Elsewhere DEF Records, UsesCached
<1>8. CASE Executes(q, n)
  <2>1. c = cached
    BY <1>8, Heads DEF Executes, Builds, Building
  <2> QED
    BY <1>8, <2>1, NoneIsNoValue, Elsewhere DEF Executes, UsesCached
<1>9. CASE Submits(q, n)
  <2>1. c = cached
    BY <1>9, Heads DEF Submits, Builds, Building
  <2> QED
    BY <1>9, <2>1, NoneIsNoValue, Elsewhere DEF Submits, UsesCached
<1>10. CASE Tells(q, n)
  <2>1. c = cached
    BY <1>10, Heads DEF Tells, Builds, Building
  <2> QED
    BY <1>10, <2>1, NoneIsNoValue, Elsewhere DEF Tells, UsesCached
<1>11. CASE Responds(q, n)
  <2>1. c = cached
    BY <1>11, Heads DEF Responds, Builds, Building
  <2> QED
    BY <1>11, <2>1, NoneIsNoValue, Elsewhere DEF Responds, UsesCached
<1> QED
  BY <1>1, <1>2, <1>3, <1>4, <1>5, <1>6, <1>7, <1>8, <1>9, <1>10, <1>11 DEF Moves

\* What a request is told once it stays told, and so does what it asked for.
LEMMA Lasting ==
    ASSUME NEW q, NEW n, Moves(q, n)
    PROVE  /\ q.status = 202 => n.status = 202 /\ n.late = q.late /\ n.home = q.home
           /\ ~Arrives(q, n) => n.target = q.target /\ n.late = q.late
           /\ n.status = 404 /\ ~Tells(q, n) => q.status = 404 /\ n.target = q.target
<1>1. CASE Arrives(q, n)
  BY <1>1, NoneIsNoValue DEF Arrives, InPlace
<1>2. CASE ChecksKey(q, n)
  BY <1>2, NoneIsNoValue DEF ChecksKey
<1>3. CASE LooksUp(q, n)
  BY <1>3, NoneIsNoValue DEF LooksUp
<1>4. CASE Builds(q, n)
  BY <1>4, NoneIsNoValue DEF Builds
<1>5. CASE JudgesBody(q, n)
  BY <1>5, NoneIsNoValue DEF JudgesBody
<1>6. CASE Generates(q, n)
  BY <1>6, NoneIsNoValue DEF Generates
<1>7. CASE Records(q, n)
  BY <1>7, NoneIsNoValue DEF Records
<1>8. CASE Executes(q, n)
  BY <1>8, NoneIsNoValue DEF Executes
<1>9. CASE Submits(q, n)
  BY <1>9, NoneIsNoValue DEF Submits
<1>10. CASE Tells(q, n)
  BY <1>10, NoneIsNoValue DEF Tells
<1>11. CASE Responds(q, n)
  BY <1>11, NoneIsNoValue DEF Responds
<1> QED
  BY <1>1, <1>2, <1>3, <1>4, <1>5, <1>6, <1>7, <1>8, <1>9, <1>10, <1>11 DEF Moves

\* A job can only be asked for once it was accepted.
LEMMA ArriveTarget ==
    ASSUME ApiTypeOK, PlaceInv, AnswerInv, ServiceInv, NEW r \in Requests, ApiStep(r),
           req'[r].target # None
    PROVE  \/ req'[r].target = req[r].target
           \/ /\ req'[r].target \in Requests /\ req'[r].target # r
              /\ req[req'[r].target].status = 202 /\ cached # None
<1>1. CASE Arrive(r)
  <2>1. req'[r].target \in Submitted
    BY <1>1, ArriveEffect
  <2>2. PICK p \in Requests : p = req'[r].target /\ req[p].status = 202
    BY <2>1 DEF Submitted
  <2>3. InPlace(req[p]) /\ UsesCached(req[p], cached)
    BY DEF PlaceInv, ServiceInv
  <2>4. cached # None
    BY <2>2, <2>3, NoneIsNoValue DEF InPlace, UsesCached
  <2>5. p # r
    BY <1>1, <2>2, ArriveLeads, NoneIsNoValue
  <2> QED
    BY <2>2, <2>4, <2>5
<1>2. CASE ~Arrive(r)
  <2>1. req'[r].target = req[r].target
    <3>1. CASE RequireKey(r)
      BY <3>1, RequireKeyEffect
    <3>2. CASE LookUp(r)
      BY <3>2, LookUpEffect
    <3>3. CASE Build(r)
      BY <3>3, BuildEffect
    <3>4. CASE ValidateBody(r)
      BY <3>4, ValidateBodyEffect
    <3>5. CASE Generate(r)
      BY <3>5, GenerateEffect
    <3>6. CASE RecordCall(r)
      BY <3>6, RecordCallEffect
    <3>7. CASE EmitInferenceMetrics(r)
      BY <3>7, EmitInferenceMetricsEffect
    <3>8. CASE Execute(r)
      BY <3>8, ExecuteEffect
    <3>9. CASE CreateJob(r)
      BY <3>9, CreateJobEffect
    <3>10. CASE GetJob(r)
      BY <3>10, GetJobEffect
    <3>11. CASE Answer(r)
      BY <3>11, AnswerEffect
    <3>12. CASE RecordRequest(r)
      BY <3>12, RecordRequestEffect
    <3> QED
      BY <1>2, <3>1, <3>2, <3>3, <3>4, <3>5, <3>6, <3>7,
         <3>8, <3>9, <3>10, <3>11, <3>12 DEF ApiStep
  <2> QED
    BY <2>1
<1> QED
  BY <1>1, <1>2

\* Only a request that builds a service changes the cache.
LEMMA BuildOnly ==
    ASSUME ApiTypeOK, PlaceInv, AnswerInv, NEW r \in Requests, ApiStep(r),
           Builds(req[r], req'[r])
    PROVE  Build(r)
<1>1. Head(req[r].todo) = "build" /\ req[r].status = None
  BY Heads DEF Builds, Building
<1>2. CASE Arrive(r)
  <2>1. At(r, "arrive")
    BY <1>2, ArriveEffect
  <2> QED
    BY <2>1, <1>1, AtPlace
<1>3. CASE RequireKey(r)
  <2>1. At(r, "key")
    BY <1>3, RequireKeyEffect
  <2> QED
    BY <2>1, <1>1, AtPlace
<1>4. CASE LookUp(r)
  <2>1. At(r, "service")
    BY <1>4, LookUpEffect
  <2> QED
    BY <2>1, <1>1, AtPlace
<1>5. CASE Build(r)
  BY <1>5
<1>6. CASE ValidateBody(r)
  <2>1. At(r, "body")
    BY <1>6, ValidateBodyEffect
  <2> QED
    BY <2>1, <1>1, AtPlace
<1>7. CASE Generate(r)
  <2>1. At(r, "model")
    BY <1>7, GenerateEffect
  <2> QED
    BY <2>1, <1>1, AtPlace
<1>8. CASE RecordCall(r)
  BY <1>8, <1>1, RecordCallLeads
<1>9. CASE EmitInferenceMetrics(r)
  BY <1>9, <1>1, EmitInferenceMetricsLeads
<1>10. CASE Execute(r)
  BY <1>10, <1>1, ExecuteLeads, NoneIsNoValue
<1>11. CASE CreateJob(r)
  <2>1. At(r, "submit")
    BY <1>11, CreateJobEffect
  <2> QED
    BY <2>1, <1>1, AtPlace
<1>12. CASE GetJob(r)
  <2>1. At(r, "get")
    BY <1>12, GetJobEffect
  <2> QED
    BY <2>1, <1>1, AtPlace
<1>13. CASE Answer(r)
  <2>1. At(r, "answer")
    BY <1>13, AnswerEffect
  <2> QED
    BY <2>1, <1>1, AtPlace
<1>14. CASE RecordRequest(r)
  <2>1. At(r, "respond")
    BY <1>14, RecordRequestEffect
  <2> QED
    BY <2>1, <1>1, AtPlace
<1> QED
  BY <1>2, <1>3, <1>4, <1>5, <1>6, <1>7, <1>8, <1>9,
     <1>10, <1>11, <1>12, <1>13, <1>14 DEF ApiStep

\* Every step keeps the requests and the cache together, and targets accepted.
LEMMA ServiceStep ==
    ASSUME ApiTypeOK, PlaceInv, AnswerInv, ServiceInv, NEW r \in Requests, ApiStep(r)
    PROVE  ServiceInv'
<1>1. /\ Moves(req[r], req'[r]) /\ InPlace(req[r]) /\ UsesCached(req[r], cached)
      /\ \A p \in Requests : p # r => req'[p] = req[p]
  BY StepMoves DEF PlaceInv, ServiceInv
<1>2. req'[r].target # None => req[r].target # None \/ cached # None
  BY ArriveTarget
<1>3. /\ cached' = cached \/ Builds(req[r], req'[r])
      /\ Builds(req[r], req'[r]) => cached' # None
  <2>1. CASE Build(r)
    BY <2>1, BuildEffect, BuildLeads, ApiProcessAssumption DEF Builds
  <2>2. CASE ~Build(r)
    BY <2>2, CacheStep, BuildOnly
  <2> QED
    BY <2>1, <2>2
<1>4. UsesCached(req'[r], cached')
  BY <1>1, <1>2, <1>3, ServiceMoves
<1>5. ASSUME NEW p \in Requests
      PROVE  UsesCached(req'[p], cached')
  <2>1. CASE p = r
    BY <1>4, <2>1
  <2>2. CASE p # r
    <3>1. req'[p] = req[p] /\ UsesCached(req[p], cached)
      BY <1>1, <2>2 DEF ServiceInv
    <3>2. cached' = cached \/ (cached = None /\ cached' # None)
      <4>1. cached' = cached \/ (cached = None /\ cached' = r)
        BY CacheStep
      <4>2. r # None
        BY ApiProcessAssumption
      <4> QED
        BY <4>1, <4>2
    <3> QED
      BY <3>1, <3>2 DEF UsesCached
  <2> QED
    BY <2>1, <2>2
<1>6. ASSUME NEW p \in Requests, req'[p].target # None
      PROVE  req'[req'[p].target].status = 202
  <2>1. \/ req'[p].target = req[p].target
        \/ /\ p = r /\ req'[r].target \in Requests /\ req'[r].target # r
           /\ req[req'[r].target].status = 202
    BY <1>1, <1>6, ArriveTarget
  <2>2. req'[p].target \in Requests /\ req[req'[p].target].status = 202
    <3>1. req[p].target \in Requests \cup {None}
      BY RequestShape DEF ApiTypeOK, RequestOf
    <3> QED
      BY <1>6, <2>1, <3>1 DEF ServiceInv
  <2>3. req[r].status = 202 => req'[r].status = 202
    BY <1>1, Lasting
  <2> QED
    BY <1>1, <2>2, <2>3
<1> QED
  BY <1>5, <1>6 DEF ServiceInv

\* Only get_job and the endpoints without a body answer as Tells has it.
LEMMA NotTold ==
    ASSUME ApiTypeOK, PlaceInv, AnswerInv, NEW r \in Requests, ApiStep(r),
           ~GetJob(r), ~Answer(r)
    PROVE  ~Tells(req[r], req'[r])
<1>1. SUFFICES ASSUME Tells(req[r], req'[r]) PROVE FALSE
  OBVIOUS
<1>2. /\ Head(req[r].todo) \in {"get", "answer"} /\ req[r].status = None
      /\ req'[r].todo = Responding
  BY <1>1, Heads DEF Tells
<1>3. CASE Arrive(r)
  <2>1. At(r, "arrive")
    BY <1>3, ArriveEffect
  <2> QED
    BY <2>1, <1>2, AtPlace
<1>4. CASE RequireKey(r)
  <2>1. At(r, "key")
    BY <1>4, RequireKeyEffect
  <2> QED
    BY <2>1, <1>2, AtPlace
<1>5. CASE LookUp(r)
  <2>1. At(r, "service")
    BY <1>5, LookUpEffect
  <2> QED
    BY <2>1, <1>2, AtPlace
<1>6. CASE Build(r)
  <2>1. At(r, "build")
    BY <1>6, BuildEffect
  <2> QED
    BY <2>1, <1>2, AtPlace
<1>7. CASE ValidateBody(r)
  <2>1. At(r, "body")
    BY <1>7, ValidateBodyEffect
  <2> QED
    BY <2>1, <1>2, AtPlace
<1>8. CASE Generate(r)
  <2>1. At(r, "model")
    BY <1>8, GenerateEffect
  <2> QED
    BY <2>1, <1>2, AtPlace
<1>9. CASE RecordCall(r)
  BY <1>9, <1>2, RecordCallLeads
<1>10. CASE EmitInferenceMetrics(r)
  BY <1>10, <1>2, EmitInferenceMetricsLeads
<1>11. CASE Execute(r)
  BY <1>11, <1>2, ExecuteLeads, NoneIsNoValue
<1>12. CASE CreateJob(r)
  <2>1. At(r, "submit")
    BY <1>12, CreateJobEffect
  <2> QED
    BY <2>1, <1>2, AtPlace
<1>13. CASE GetJob(r)
  BY <1>13
<1>14. CASE Answer(r)
  BY <1>14
<1>15. CASE RecordRequest(r)
  <2>1. At(r, "respond")
    BY <1>15, RecordRequestEffect
  <2> QED
    BY <2>1, <1>2, AtPlace
<1> QED
  BY <1>3, <1>4, <1>5, <1>6, <1>7, <1>8, <1>9, <1>10,
     <1>11, <1>12, <1>13, <1>14, <1>15 DEF ApiStep

\* Which requests may be told that there is no such job.
LEMMA NotFoundStep ==
    ASSUME ApiTypeOK, PlaceInv, AnswerInv, NEW r \in Requests, ApiStep(r),
           req'[r].status = 404
    PROVE  /\ req'[r].target = req[r].target
           /\ \/ req[r].status = 404
              \/ /\ At(r, "get") /\ req'[r].service = req[r].service
                 /\ \/ req[r].target = None
                    \/ /\ settings.backend # "aws"
                       /\ req[req[r].target].home # req[r].service
<1>1. CASE GetJob(r)
  BY <1>1, GetJobEffect
<1>2. CASE Answer(r)
  BY <1>2, AnswerEffect
<1>3. CASE ~GetJob(r) /\ ~Answer(r)
  <2>1. ~Tells(req[r], req'[r])
    BY <1>3, NotTold
  <2> QED
    BY <2>1, StepMoves, Lasting
<1> QED
  BY <1>1, <1>2, <1>3

\* Every step keeps late jobs found.
LEMMA JobsStep ==
    ASSUME ApiTypeOK, PlaceInv, AnswerInv, ServiceInv, JobsAreFound,
           NEW r \in Requests, ApiStep(r)
    PROVE  JobsAreFound'
<1>1. /\ Moves(req[r], req'[r]) /\ settings' = settings
      /\ \A p \in Requests : p # r => req'[p] = req[p]
      /\ settings.backend \in {"memory", "aws"}
  BY StepMoves DEF ApiTypeOK
<1> SUFFICES ASSUME NEW p \in Requests, req'[p].status = 404, req'[p].target # None
             PROVE  settings.backend = "memory" /\ ~req'[req'[p].target].late
  BY <1>1 DEF JobsAreFound
<1> DEFINE t == req[p].target
<1>2. req'[p].target = t
  BY <1>1, NotFoundStep
<1>3. /\ t \in Requests /\ t # None /\ req[t].status = 202 /\ req[p].late
      /\ UsesCached(req[p], cached) /\ UsesCached(req[t], cached)
      /\ InPlace(req[p]) /\ InPlace(req[t])
  <2>1. t \in Requests \cup {None}
    BY RequestShape DEF ApiTypeOK, RequestOf
  <2>2. t \in Requests
    BY <1>2, <2>1
  <2>3. req[t].status = 202 /\ req[p].late
    BY <1>2 DEF ServiceInv, UsesCached
  <2> QED
    BY <1>2, <2>2, <2>3 DEF ServiceInv, PlaceInv
<1>4. req'[t].late = req[t].late
  BY <1>1, <1>3, Lasting
<1>5. settings.backend = "memory" /\ ~req[t].late
  <2>1. CASE req[p].status = 404
    BY <1>2, <1>3, <2>1 DEF JobsAreFound
  <2>2. CASE req[p].status # 404
    <3>1. /\ p = r /\ At(p, "get") /\ settings.backend # "aws"
          /\ req[t].home # req[p].service
      BY <1>1, <1>3, <2>2, NotFoundStep
    <3>2. req[p].todo \in Served
      BY <3>1, Places DEF Served
    <3>3. req[p].service = cached
      BY <1>3, <3>2 DEF UsesCached
    <3>4. req[t].home # None
      BY <1>3 DEF InPlace
    <3> QED
      BY <1>1, <1>3, <3>1, <3>3, <3>4 DEF UsesCached
  <2> QED
    BY <2>1, <2>2
<1> QED
  BY <1>2, <1>4, <1>5

\* Every step keeps every request on its route, and every answer in its place.
LEMMA PlaceStep ==
    ASSUME ApiTypeOK, PlaceInv, AnswerInv, ServiceInv, NEW r \in Requests, ApiStep(r)
    PROVE  PlaceInv' /\ AnswerInv'
<1>1. /\ Moves(req[r], req'[r]) /\ InPlace(req[r]) /\ AnswerKept(req[r])
      /\ UsesCached(req[r], cached) /\ \A p \in Requests : p # r => req'[p] = req[p]
  BY StepMoves DEF PlaceInv, AnswerInv, ServiceInv
<1>2. InPlace(req'[r]) /\ AnswerKept(req'[r])
  BY <1>1, PlaceMoves, AnswerMoves
<1>3. ASSUME NEW p \in Requests
      PROVE  InPlace(req'[p]) /\ AnswerKept(req'[p])
  <2>1. CASE p = r
    BY <1>2, <2>1
  <2>2. CASE p # r
    BY <1>1, <2>2 DEF PlaceInv, AnswerInv
  <2> QED
    BY <2>1, <2>2
<1> QED
  BY <1>3 DEF PlaceInv, AnswerInv

\* Every step of a deployed process keeps the key guarding.
LEMMA KeyStep ==
    ASSUME ApiTypeOK, PlaceInv, AnswerInv, KeyInv, NEW r \in Requests, ApiStep(r)
    PROVE  KeyInv'
<1>1. /\ Moves(req[r], req'[r]) /\ InPlace(req[r]) /\ AnswerKept(req[r])
      /\ settings' = settings /\ \A p \in Requests : p # r => req'[p] = req[p]
  BY StepMoves DEF PlaceInv, AnswerInv
<1> SUFFICES ASSUME settings.deployed
             PROVE  settings.key /\ \A p \in Requests : Guards(req'[p])
  BY <1>1 DEF KeyInv
<1>2. settings.key /\ \A p \in Requests : Guards(req[p])
  BY DEF KeyInv
<1>3. Guards(req'[r])
  BY <1>1, <1>2, KeyMoves
<1>4. ASSUME NEW p \in Requests
      PROVE  Guards(req'[p])
  BY <1>1, <1>2, <1>3
<1> QED
  BY <1>2, <1>4

(***************************************************************************)
(* The start.                                                              *)
(***************************************************************************)

\* A request that has not arrived.
Unborn ==
    [kind |-> None, todo |-> Arriving, key |-> FALSE, late |-> FALSE, service |-> None,
     target |-> None, home |-> None, work |-> Done, answer |-> None, status |-> None]

\* It satisfies what is asked of one request.
LEMMA UnbornIsFine ==
    /\ Unborn \in Request
    /\ InPlace(Unborn) /\ AnswerKept(Unborn) /\ Guards(Unborn) /\ UsesCached(Unborn, None)
<1>1. Arriving \in Todos /\ Done \in Works
  <2>1. Arriving \in Todos
    BY DEF Todos, Steps, Arriving
  <2> QED
    BY <2>1, PlaceTypes
<1>2. Unborn \in Request
  BY <1>1, RequestShape DEF RequestOf, Unborn, Kinds, Answers, Statuses
<1>3. InPlace(Unborn) /\ AnswerKept(Unborn) /\ Guards(Unborn)
  BY NoneIsNoValue DEF Unborn, InPlace, AnswerKept, Guards, Guarded
<1>4. UsesCached(Unborn, None)
  BY Elsewhere DEF Unborn, UsesCached
<1> QED
  BY <1>2, <1>3, <1>4

\* What holds when the process starts.
LEMMA StartInv ==
    ASSUME ApiInit
    PROVE  /\ ApiTypeOK /\ PlaceInv /\ AnswerInv /\ KeyInv /\ ServiceInv /\ JobsAreFound
           /\ cached = None /\ req = [r \in Requests |-> Unborn]
<1>1. PICK e \in Environments : Starts(e) /\ ApiIn(e)
  BY DEF ApiInit
<1>2. req = [r \in Requests |-> Unborn] /\ cached = None
  BY <1>1 DEF ApiIn, Unborn, Arriving, Done
<1>3. ApiTypeOK
  <2>1. req \in [Requests -> Request]
    BY <1>2, UnbornIsFine
  <2>2. settings \in [deployed : BOOLEAN, key : BOOLEAN, backend : {"memory", "aws"},
                      llm : {"local", "bedrock", "priced"}]
    BY <1>1, ApiProcessAssumption DEF ApiIn
  <2>3. /\ metrics \in [requests : Nat, errors : Nat, llmRequests : Nat,
                        modelErrors : Nat, usages : Nat, costs : Nat]
        /\ emf \in [calls : Nat, errors : Nat, usages : Nat, costs : Nat]
    BY <1>1 DEF ApiIn
  <2> QED
    BY <1>2, <2>1, <2>2, <2>3 DEF ApiTypeOK
<1>4. \A r \in Requests : req[r] = Unborn
  BY <1>2
<1>5. PlaceInv /\ AnswerInv
  BY <1>4, UnbornIsFine DEF PlaceInv, AnswerInv
<1>6. KeyInv
  <2>1. settings.deployed => settings.key
    BY <1>1 DEF ApiIn, Starts
  <2> QED
    BY <1>4, <2>1, UnbornIsFine DEF KeyInv
<1>7. ServiceInv
  <2>1. Unborn.target = None
    BY DEF Unborn
  <2> QED
    BY <1>2, <1>4, <2>1, UnbornIsFine DEF ServiceInv
<1>8. JobsAreFound
  <2>1. Unborn.target = None
    BY DEF Unborn
  <2> QED
    BY <1>4, <2>1 DEF JobsAreFound
<1> QED
  BY <1>2, <1>3, <1>5, <1>6, <1>7, <1>8

(***************************************************************************)
(* The counters.                                                           *)
(***************************************************************************)

One(b) == IF b THEN 1 ELSE 0

\* The places where a call is being recorded are apart from each other.
LEMMA Recorders ==
    /\ ErrorCount \notin {ErrorLatency, ErrorEmit, Responding, Done}
    /\ ErrorLatency \notin {ErrorEmit, Responding, Done}
    /\ ErrorEmit \notin {Responding, Done}
    /\ ResultLatency \notin {ResultEmit, ResultUsage, ResultCost, Responding, Done}
    /\ ResultEmit \notin {ResultUsage, ResultCost, Responding, Done}
    /\ ResultUsage \notin {ResultCost, Responding, Done}
    /\ ResultCost \notin {Responding, Done}
    /\ JobModel \notin {JobUsage, JobCost, JobLatency, JobError, Done}
    /\ JobUsage \notin {JobCost, JobLatency, JobError, Done}
    /\ JobCost \notin {JobLatency, JobError, Done}
    /\ JobLatency \notin {JobError, Done}
    /\ JobError # Done
    /\ {ErrorCount, ErrorLatency, ErrorEmit}
           \cap {ResultLatency, ResultEmit, ResultUsage, ResultCost} = {}
<1>1. /\ ErrorCount \notin {ErrorLatency, ErrorEmit, Responding, Done}
      /\ ErrorLatency \notin {ErrorEmit, Responding, Done}
      /\ ErrorEmit \notin {Responding, Done}
  BY Heads, Tails
<1>2. /\ ResultLatency \notin {ResultEmit, ResultUsage, ResultCost, Responding, Done}
      /\ ResultEmit \notin {ResultUsage, ResultCost, Responding, Done}
      /\ ResultUsage \notin {ResultCost, Responding, Done}
      /\ ResultCost \notin {Responding, Done}
  BY Heads, Tails
<1>3. /\ JobModel \notin {JobUsage, JobCost, JobLatency, JobError, Done}
      /\ JobUsage \notin {JobCost, JobLatency, JobError, Done}
      /\ JobCost \notin {JobLatency, JobError, Done}
      /\ JobLatency \notin {JobError, Done}
      /\ JobError # Done
  BY Heads, Tails
<1>4. {ErrorCount, ErrorLatency, ErrorEmit}
         \cap {ResultLatency, ResultEmit, ResultUsage, ResultCost} = {}
  BY Heads, Tails
<1> QED
  BY <1>1, <1>2, <1>3, <1>4

\* Two sets of requests that differ by one at most.
LEMMA Recount ==
    ASSUME NEW S \in SUBSET Requests, NEW T \in SUBSET Requests, NEW r \in Requests,
           \A p \in Requests : p # r => (p \in S <=> p \in T)
    PROVE  /\ Cardinality(S) \in Nat /\ Cardinality(T) \in Nat
           /\ Cardinality(T) + One(r \in S) = Cardinality(S) + One(r \in T)
<1>1. IsFiniteSet(S) /\ IsFiniteSet(T)
  BY FS_Subset, ApiProcessAssumption
<1>2. Cardinality(S) \in Nat /\ Cardinality(T) \in Nat
  BY <1>1, FS_CardinalityType
<1>3. CASE r \in S /\ r \in T
  <2>1. S = T
    BY <1>3
  <2> QED
    BY <1>2, <1>3, <2>1 DEF One
<1>4. CASE r \notin S /\ r \notin T
  <2>1. S = T
    BY <1>4
  <2> QED
    BY <1>2, <1>4, <2>1 DEF One
<1>5. CASE r \notin S /\ r \in T
  <2>1. T = S \cup {r}
    BY <1>5
  <2>2. Cardinality(T) = Cardinality(S) + 1
    BY <1>1, <1>5, <2>1, FS_AddElement
  <2> QED
    BY <1>2, <1>5, <2>2 DEF One
<1>6. CASE r \in S /\ r \notin T
  <2>1. S = T \cup {r}
    BY <1>6
  <2>2. Cardinality(S) = Cardinality(T) + 1
    BY <1>1, <1>6, <2>1, FS_AddElement
  <2> QED
    BY <1>2, <1>6, <2>2 DEF One
<1> QED
  BY <1>2, <1>3, <1>4, <1>5, <1>6

\* A step that records nothing leaves every tally of its request as it was.
LEMMA QuietMoves ==
    ASSUME NEW q, NEW n, NEW llm, InPlace(q), AnswerKept(q), q.answer \in Answers,
           \/ Arrives(q, n) \/ ChecksKey(q, n) \/ LooksUp(q, n) \/ Builds(q, n)
           \/ JudgesBody(q, n) \/ Generates(q, n) \/ Submits(q, n) \/ Tells(q, n)
           \/ Responds(q, n)
    PROVE
           /\ Called(n) <=> Called(q)
           /\ Raised(n) <=> Raised(q)
           /\ Used(n) <=> Used(q)
           /\ Costed(n, llm) <=> Costed(q, llm)
           /\ Emitted(n) <=> Emitted(q)
           /\ ErrorEmitted(n) <=> ErrorEmitted(q)
           /\ UsageEmitted(n) <=> UsageEmitted(q)
<1>1. CASE Arrives(q, n)
  <2>1. q.answer = None /\ n.answer = None
    BY <1>1, NoneIsNoValue DEF Arrives, AnswerKept, InPlace, Answers
  <2> QED
    BY <2>1, NoneIsNoValue DEF Called, Raised, Used, Costed, Costly, Emitted, ErrorEmitted,
       UsageEmitted
<1>2. CASE ChecksKey(q, n)
  <2>1. q.answer = None /\ n.answer = None
    BY <1>2, NoneIsNoValue DEF ChecksKey, AnswerKept, InPlace, Answers
  <2> QED
    BY <2>1, NoneIsNoValue DEF Called, Raised, Used, Costed, Costly, Emitted, ErrorEmitted,
       UsageEmitted
<1>3. CASE LooksUp(q, n)
  <2>1. q.answer = None /\ n.answer = None
    BY <1>3, NoneIsNoValue DEF LooksUp, AnswerKept, InPlace, Answers
  <2> QED
    BY <2>1, NoneIsNoValue DEF Called, Raised, Used, Costed, Costly, Emitted, ErrorEmitted,
       UsageEmitted
<1>4. CASE Builds(q, n)
  <2>1. q.answer = None /\ n.answer = None
    BY <1>4, NoneIsNoValue DEF Builds, AnswerKept, InPlace, Answers
  <2> QED
    BY <2>1, NoneIsNoValue DEF Called, Raised, Used, Costed, Costly, Emitted, ErrorEmitted,
       UsageEmitted
<1>5. CASE JudgesBody(q, n)
  <2>1. q.answer = None /\ n.answer = None
    BY <1>5, NoneIsNoValue DEF JudgesBody, AnswerKept, InPlace, Answers
  <2> QED
    BY <2>1, NoneIsNoValue DEF Called, Raised, Used, Costed, Costly, Emitted, ErrorEmitted,
       UsageEmitted
<1>6. CASE Generates(q, n)
  <2>1. q.answer = None /\ q.home = None /\ n.work = Done
    BY <1>6, NoneIsNoValue DEF Generates, AnswerKept, Answers
  <2>2. \/ n.answer \in {"no_usage", "input", "both"} /\ n.todo = ResultLatency
        \/ n.answer = "raised" /\ n.todo = ErrorCount
    BY <1>6 DEF Generates
  <2> QED
    BY <2>1, <2>2, NoneIsNoValue, Recorders
       DEF Called, Raised, Used, Costed, Costly, Emitted,
       ErrorEmitted, UsageEmitted, AfterResult, AfterError
<1>7. CASE Submits(q, n)
  <2>1. q.answer = None /\ n.answer = None
    BY <1>7, NoneIsNoValue DEF Submits, AnswerKept
  <2> QED
    BY <2>1, NoneIsNoValue DEF Called, Raised, Used, Costed, Costly, Emitted, ErrorEmitted,
       UsageEmitted
<1>8. CASE Tells(q, n)
  <2>1. q.answer = None /\ n.answer = None
    BY <1>8, NoneIsNoValue DEF Tells, AnswerKept, InPlace, Answers
  <2> QED
    BY <2>1, NoneIsNoValue DEF Called, Raised, Used, Costed, Costly, Emitted, ErrorEmitted,
       UsageEmitted
<1>9. CASE Responds(q, n)
  <2>1. /\ q.todo = Responding /\ n.todo = Done /\ n.kind = q.kind
        /\ n.answer = q.answer /\ n.work = q.work
    BY <1>9 DEF Responds
  <2> QED
    BY <2>1, Recorders, Elsewhere DEF Called, Raised, Used, Costed, Emitted, ErrorEmitted,
       UsageEmitted, AfterResult, AfterError
<1> QED
  BY <1>1, <1>2, <1>3, <1>4, <1>5, <1>6, <1>7, <1>8, <1>9

\* What the recording of a call adds to the tallies of its request.
LEMMA RecordTallies ==
    ASSUME NEW q, NEW n, NEW llm, InPlace(q), AnswerKept(q), q.answer \in Answers,
           Records(q, n)
    PROVE
           /\ q.todo = ErrorCount =>
                  /\ (Called(n) <=> Called(q))
                  /\ ~Raised(q) /\ Raised(n)
                  /\ (Used(n) <=> Used(q))
                  /\ (Costed(n, llm) <=> Costed(q, llm))
                  /\ (Emitted(n) <=> Emitted(q))
                  /\ (ErrorEmitted(n) <=> ErrorEmitted(q))
                  /\ (UsageEmitted(n) <=> UsageEmitted(q))
           /\ q.todo = ErrorLatency =>
                  /\ ~Called(q) /\ Called(n)
                  /\ (Raised(n) <=> Raised(q))
                  /\ (Used(n) <=> Used(q))
                  /\ (Costed(n, llm) <=> Costed(q, llm))
                  /\ (Emitted(n) <=> Emitted(q))
                  /\ (ErrorEmitted(n) <=> ErrorEmitted(q))
                  /\ (UsageEmitted(n) <=> UsageEmitted(q))
           /\ q.todo = ErrorEmit =>
                  /\ (Called(n) <=> Called(q))
                  /\ (Raised(n) <=> Raised(q))
                  /\ (Used(n) <=> Used(q))
                  /\ (Costed(n, llm) <=> Costed(q, llm))
                  /\ ~Emitted(q) /\ Emitted(n)
                  /\ ~ErrorEmitted(q) /\ ErrorEmitted(n)
                  /\ (UsageEmitted(n) <=> UsageEmitted(q))
           /\ q.todo = ResultLatency =>
                  /\ ~Called(q) /\ Called(n)
                  /\ (Raised(n) <=> Raised(q))
                  /\ (Used(n) <=> Used(q))
                  /\ (Costed(n, llm) <=> Costed(q, llm))
                  /\ (Emitted(n) <=> Emitted(q))
                  /\ (ErrorEmitted(n) <=> ErrorEmitted(q))
                  /\ (UsageEmitted(n) <=> UsageEmitted(q))
           /\ q.todo = ResultEmit =>
                  /\ (Called(n) <=> Called(q))
                  /\ (Raised(n) <=> Raised(q))
                  /\ (Used(n) <=> Used(q))
                  /\ (Costed(n, llm) <=> Costed(q, llm))
                  /\ ~Emitted(q) /\ Emitted(n)
                  /\ (ErrorEmitted(n) <=> ErrorEmitted(q))
                  /\ ~UsageEmitted(q) /\ (UsageEmitted(n) <=> q.answer \in {"input", "both"})
           /\ q.todo = ResultUsage =>
                  /\ (Called(n) <=> Called(q))
                  /\ (Raised(n) <=> Raised(q))
                  /\ ~Used(q) /\ (Used(n) <=> q.answer = "both")
                  /\ (Costed(n, llm) <=> Costed(q, llm))
                  /\ (Emitted(n) <=> Emitted(q))
                  /\ (ErrorEmitted(n) <=> ErrorEmitted(q))
                  /\ (UsageEmitted(n) <=> UsageEmitted(q))
           /\ q.todo = ResultCost =>
                  /\ (Called(n) <=> Called(q))
                  /\ (Raised(n) <=> Raised(q))
                  /\ (Used(n) <=> Used(q))
                  /\ ~Costed(q, llm) /\ (Costed(n, llm) <=> Costly(q.answer, llm))
                  /\ (Emitted(n) <=> Emitted(q))
                  /\ (ErrorEmitted(n) <=> ErrorEmitted(q))
                  /\ (UsageEmitted(n) <=> UsageEmitted(q))
<1>1. /\ q.work = Done /\ n.work = Done /\ n.answer = q.answer
      /\ q.kind = "generate" /\ n.kind = "generate" /\ q.answer # None
      /\ q.todo \in AfterError => q.answer = "raised"
      /\ q.todo \in AfterResult => q.answer \in {"no_usage", "input", "both"}
  <2>1. /\ q.work = Done /\ n.work = Done /\ n.answer = q.answer
        /\ q.kind = "generate" /\ n.kind = "generate"
    BY DEF Records, AnswerKept
  <2>2. q.todo \in AfterResult \cup AfterError
    BY DEF Records, AfterResult, AfterError
  <2>3. q.answer # None
    BY <2>1, <2>2 DEF AnswerKept
  <2>4. q.todo \in AfterError => q.answer = "raised"
    BY <2>1, <2>3, Elsewhere DEF AnswerKept, AfterError, AfterResult, Finished, Answers
  <2>5. q.todo \in AfterResult => q.answer # "raised"
    BY <2>1, <2>3, Elsewhere DEF AnswerKept, AfterError, AfterResult, Finished, Answers
  <2> QED
    BY <2>1, <2>3, <2>4, <2>5 DEF Answers
<1>2. ASSUME q.todo = ErrorCount
      PROVE
            /\ (Called(n) <=> Called(q))
            /\ ~Raised(q) /\ Raised(n)
            /\ (Used(n) <=> Used(q))
            /\ (Costed(n, llm) <=> Costed(q, llm))
            /\ (Emitted(n) <=> Emitted(q))
            /\ (ErrorEmitted(n) <=> ErrorEmitted(q))
            /\ (UsageEmitted(n) <=> UsageEmitted(q))
  <2>1. n.todo = ErrorLatency
    BY <1>2, Recorders DEF Records
  <2>2. q.answer = "raised"
    BY <1>1, <1>2 DEF AfterError
  <2> QED
    BY <1>1, <1>2, <2>1, <2>2, NoneIsNoValue, Recorders, Elsewhere
       DEF Called, Raised, Used, Costed, Emitted,
       ErrorEmitted, UsageEmitted, AfterResult, AfterError, Costly
<1>3. ASSUME q.todo = ErrorLatency
      PROVE
            /\ ~Called(q) /\ Called(n)
            /\ (Raised(n) <=> Raised(q))
            /\ (Used(n) <=> Used(q))
            /\ (Costed(n, llm) <=> Costed(q, llm))
            /\ (Emitted(n) <=> Emitted(q))
            /\ (ErrorEmitted(n) <=> ErrorEmitted(q))
            /\ (UsageEmitted(n) <=> UsageEmitted(q))
  <2>1. n.todo = ErrorEmit
    BY <1>3, Recorders DEF Records
  <2>2. q.answer = "raised"
    BY <1>1, <1>3 DEF AfterError
  <2> QED
    BY <1>1, <1>3, <2>1, <2>2, NoneIsNoValue, Recorders, Elsewhere
       DEF Called, Raised, Used, Costed, Emitted,
       ErrorEmitted, UsageEmitted, AfterResult, AfterError, Costly
<1>4. ASSUME q.todo = ErrorEmit
      PROVE
            /\ (Called(n) <=> Called(q))
            /\ (Raised(n) <=> Raised(q))
            /\ (Used(n) <=> Used(q))
            /\ (Costed(n, llm) <=> Costed(q, llm))
            /\ ~Emitted(q) /\ Emitted(n)
            /\ ~ErrorEmitted(q) /\ ErrorEmitted(n)
            /\ (UsageEmitted(n) <=> UsageEmitted(q))
  <2>1. n.todo = Responding
    BY <1>4, Recorders DEF Records
  <2>2. q.answer = "raised"
    BY <1>1, <1>4 DEF AfterError
  <2> QED
    BY <1>1, <1>4, <2>1, <2>2, NoneIsNoValue, Recorders, Elsewhere
       DEF Called, Raised, Used, Costed, Emitted,
       ErrorEmitted, UsageEmitted, AfterResult, AfterError, Costly
<1>5. ASSUME q.todo = ResultLatency
      PROVE
            /\ ~Called(q) /\ Called(n)
            /\ (Raised(n) <=> Raised(q))
            /\ (Used(n) <=> Used(q))
            /\ (Costed(n, llm) <=> Costed(q, llm))
            /\ (Emitted(n) <=> Emitted(q))
            /\ (ErrorEmitted(n) <=> ErrorEmitted(q))
            /\ (UsageEmitted(n) <=> UsageEmitted(q))
  <2>1. n.todo = ResultEmit
    BY <1>5, Recorders DEF Records
  <2>2. q.answer \in {"no_usage", "input", "both"}
    BY <1>1, <1>5 DEF AfterResult
  <2> QED
    BY <1>1, <1>5, <2>1, <2>2, NoneIsNoValue, Recorders, Elsewhere
       DEF Called, Raised, Used, Costed, Emitted,
       ErrorEmitted, UsageEmitted, AfterResult, AfterError, Costly
<1>6. ASSUME q.todo = ResultEmit
      PROVE
            /\ (Called(n) <=> Called(q))
            /\ (Raised(n) <=> Raised(q))
            /\ (Used(n) <=> Used(q))
            /\ (Costed(n, llm) <=> Costed(q, llm))
            /\ ~Emitted(q) /\ Emitted(n)
            /\ (ErrorEmitted(n) <=> ErrorEmitted(q))
            /\ ~UsageEmitted(q) /\ (UsageEmitted(n) <=> q.answer \in {"input", "both"})
  <2>1. n.todo = ResultUsage
    BY <1>6, Recorders DEF Records
  <2>2. q.answer \in {"no_usage", "input", "both"}
    BY <1>1, <1>6 DEF AfterResult
  <2> QED
    BY <1>1, <1>6, <2>1, <2>2, NoneIsNoValue, Recorders, Elsewhere
       DEF Called, Raised, Used, Costed, Emitted,
       ErrorEmitted, UsageEmitted, AfterResult, AfterError, Costly
<1>7. ASSUME q.todo = ResultUsage
      PROVE
            /\ (Called(n) <=> Called(q))
            /\ (Raised(n) <=> Raised(q))
            /\ ~Used(q) /\ (Used(n) <=> q.answer = "both")
            /\ (Costed(n, llm) <=> Costed(q, llm))
            /\ (Emitted(n) <=> Emitted(q))
            /\ (ErrorEmitted(n) <=> ErrorEmitted(q))
            /\ (UsageEmitted(n) <=> UsageEmitted(q))
  <2>1. n.todo = ResultCost
    BY <1>7, Recorders DEF Records
  <2>2. q.answer \in {"no_usage", "input", "both"}
    BY <1>1, <1>7 DEF AfterResult
  <2> QED
    BY <1>1, <1>7, <2>1, <2>2, NoneIsNoValue, Recorders, Elsewhere
       DEF Called, Raised, Used, Costed, Emitted,
       ErrorEmitted, UsageEmitted, AfterResult, AfterError, Costly
<1>8. ASSUME q.todo = ResultCost
      PROVE
            /\ (Called(n) <=> Called(q))
            /\ (Raised(n) <=> Raised(q))
            /\ (Used(n) <=> Used(q))
            /\ ~Costed(q, llm) /\ (Costed(n, llm) <=> Costly(q.answer, llm))
            /\ (Emitted(n) <=> Emitted(q))
            /\ (ErrorEmitted(n) <=> ErrorEmitted(q))
            /\ (UsageEmitted(n) <=> UsageEmitted(q))
  <2>1. n.todo = Responding
    BY <1>8, Recorders DEF Records
  <2>2. q.answer \in {"no_usage", "input", "both"}
    BY <1>1, <1>8 DEF AfterResult
  <2> QED
    BY <1>1, <1>8, <2>1, <2>2, NoneIsNoValue, Recorders, Elsewhere
       DEF Called, Raised, Used, Costed, Emitted,
       ErrorEmitted, UsageEmitted, AfterResult, AfterError, Costly
<1> QED
  BY <1>2, <1>3, <1>4, <1>5, <1>6, <1>7, <1>8

\* What a step of the in-process executor adds to the tallies of its job.
LEMMA ExecuteTallies ==
    ASSUME NEW q, NEW n, NEW llm, InPlace(q), AnswerKept(q), q.answer \in Answers,
           Executes(q, n)
    PROVE
           /\ q.work = JobModel =>
                  /\ (Called(n) <=> Called(q))
                  /\ (Raised(n) <=> Raised(q))
                  /\ (Used(n) <=> Used(q))
                  /\ (Costed(n, llm) <=> Costed(q, llm))
                  /\ (Emitted(n) <=> Emitted(q))
                  /\ (ErrorEmitted(n) <=> ErrorEmitted(q))
                  /\ (UsageEmitted(n) <=> UsageEmitted(q))
           /\ q.work = JobUsage =>
                  /\ (Called(n) <=> Called(q))
                  /\ (Raised(n) <=> Raised(q))
                  /\ ~Used(q) /\ (Used(n) <=> q.answer = "both")
                  /\ (Costed(n, llm) <=> Costed(q, llm))
                  /\ (Emitted(n) <=> Emitted(q))
                  /\ (ErrorEmitted(n) <=> ErrorEmitted(q))
                  /\ (UsageEmitted(n) <=> UsageEmitted(q))
           /\ q.work = JobCost =>
                  /\ (Called(n) <=> Called(q))
                  /\ (Raised(n) <=> Raised(q))
                  /\ (Used(n) <=> Used(q))
                  /\ ~Costed(q, llm) /\ (Costed(n, llm) <=> Costly(q.answer, llm))
                  /\ (Emitted(n) <=> Emitted(q))
                  /\ (ErrorEmitted(n) <=> ErrorEmitted(q))
                  /\ (UsageEmitted(n) <=> UsageEmitted(q))
           /\ q.work = JobLatency =>
                  /\ ~Called(q) /\ Called(n)
                  /\ (Raised(n) <=> Raised(q))
                  /\ (Used(n) <=> Used(q))
                  /\ (Costed(n, llm) <=> Costed(q, llm))
                  /\ (Emitted(n) <=> Emitted(q))
                  /\ (ErrorEmitted(n) <=> ErrorEmitted(q))
                  /\ (UsageEmitted(n) <=> UsageEmitted(q))
           /\ q.work = JobError =>
                  /\ (Called(n) <=> Called(q))
                  /\ ~Raised(q) /\ Raised(n)
                  /\ (Used(n) <=> Used(q))
                  /\ (Costed(n, llm) <=> Costed(q, llm))
                  /\ (Emitted(n) <=> Emitted(q))
                  /\ (ErrorEmitted(n) <=> ErrorEmitted(q))
                  /\ (UsageEmitted(n) <=> UsageEmitted(q))
<1>1. /\ q.kind = "submit" /\ n.kind = "submit" /\ n.todo = q.todo
      /\ q.todo \notin AfterResult \cup AfterError
  <2>1. q.kind = "submit" /\ n.kind = "submit" /\ n.todo = q.todo /\ q.status = 202
    BY DEF Executes
  <2>2. q.todo \in Finished
    BY <2>1, NoneIsNoValue DEF InPlace
  <2> QED
    BY <2>1, <2>2, Elsewhere DEF Finished
<1>2. q.answer = None => q.work = JobModel
  BY DEF Executes
<1>3. q.work # JobModel => n.answer = q.answer /\ q.answer # None
  BY DEF Executes
<1>4. /\ q.home # None
      /\ q.work \in {JobUsage, JobCost} => q.answer \in {"no_usage", "input", "both"}
      /\ q.work = JobError => q.answer = "raised"
  BY <1>3, Recorders DEF Executes, AnswerKept, Answers
<1>5. ASSUME q.work = JobModel
      PROVE
            /\ (Called(n) <=> Called(q))
            /\ (Raised(n) <=> Raised(q))
            /\ (Used(n) <=> Used(q))
            /\ (Costed(n, llm) <=> Costed(q, llm))
            /\ (Emitted(n) <=> Emitted(q))
            /\ (ErrorEmitted(n) <=> ErrorEmitted(q))
            /\ (UsageEmitted(n) <=> UsageEmitted(q))
  <2>1. q.answer = None
    BY <1>5, Recorders DEF Executes
  <2>2. \/ n.answer \in {"no_usage", "input", "both"} /\ n.work = JobUsage
        \/ n.answer = "raised" /\ n.work = JobError
    BY <2>1 DEF Executes
  <2> QED
    BY <1>1, <2>1, <2>2, NoneIsNoValue, Recorders DEF Called, Raised, Used, Costed, Emitted,
       ErrorEmitted, UsageEmitted, AfterResult, AfterError, Costly
<1>6. ASSUME q.work = JobUsage
      PROVE
            /\ (Called(n) <=> Called(q))
            /\ (Raised(n) <=> Raised(q))
            /\ ~Used(q) /\ (Used(n) <=> q.answer = "both")
            /\ (Costed(n, llm) <=> Costed(q, llm))
            /\ (Emitted(n) <=> Emitted(q))
            /\ (ErrorEmitted(n) <=> ErrorEmitted(q))
            /\ (UsageEmitted(n) <=> UsageEmitted(q))
  <2>1. n.work = JobCost /\ n.answer = q.answer /\ q.answer # None
    BY <1>6, Recorders DEF Executes
  <2> QED
    BY <1>1, <1>4, <1>6, <2>1, NoneIsNoValue, Recorders
       DEF Called, Raised, Used, Costed, Emitted,
       ErrorEmitted, UsageEmitted, AfterResult, AfterError, Costly
<1>7. ASSUME q.work = JobCost
      PROVE
            /\ (Called(n) <=> Called(q))
            /\ (Raised(n) <=> Raised(q))
            /\ (Used(n) <=> Used(q))
            /\ ~Costed(q, llm) /\ (Costed(n, llm) <=> Costly(q.answer, llm))
            /\ (Emitted(n) <=> Emitted(q))
            /\ (ErrorEmitted(n) <=> ErrorEmitted(q))
            /\ (UsageEmitted(n) <=> UsageEmitted(q))
  <2>1. n.work = JobLatency /\ n.answer = q.answer /\ q.answer # None
    BY <1>7, Recorders DEF Executes
  <2> QED
    BY <1>1, <1>4, <1>7, <2>1, NoneIsNoValue, Recorders
       DEF Called, Raised, Used, Costed, Emitted,
       ErrorEmitted, UsageEmitted, AfterResult, AfterError, Costly
<1>8. ASSUME q.work = JobLatency
      PROVE
            /\ ~Called(q) /\ Called(n)
            /\ (Raised(n) <=> Raised(q))
            /\ (Used(n) <=> Used(q))
            /\ (Costed(n, llm) <=> Costed(q, llm))
            /\ (Emitted(n) <=> Emitted(q))
            /\ (ErrorEmitted(n) <=> ErrorEmitted(q))
            /\ (UsageEmitted(n) <=> UsageEmitted(q))
  <2>1. n.work = Done /\ n.answer = q.answer /\ q.answer # None
    BY <1>8, Recorders DEF Executes
  <2> QED
    BY <1>1, <1>4, <1>8, <2>1, NoneIsNoValue, Recorders
       DEF Called, Raised, Used, Costed, Emitted,
       ErrorEmitted, UsageEmitted, AfterResult, AfterError, Costly
<1>9. ASSUME q.work = JobError
      PROVE
            /\ (Called(n) <=> Called(q))
            /\ ~Raised(q) /\ Raised(n)
            /\ (Used(n) <=> Used(q))
            /\ (Costed(n, llm) <=> Costed(q, llm))
            /\ (Emitted(n) <=> Emitted(q))
            /\ (ErrorEmitted(n) <=> ErrorEmitted(q))
            /\ (UsageEmitted(n) <=> UsageEmitted(q))
  <2>1. n.work = JobLatency /\ n.answer = q.answer /\ q.answer # None
    BY <1>9, Recorders DEF Executes
  <2> QED
    BY <1>1, <1>4, <1>9, <2>1, NoneIsNoValue, Recorders
       DEF Called, Raised, Used, Costed, Emitted,
       ErrorEmitted, UsageEmitted, AfterResult, AfterError, Costly
<1> QED
  BY <1>5, <1>6, <1>7, <1>8, <1>9

\* A tally changes by what the step changes of its request.
LEMMA TallyStep ==
    ASSUME ApiTypeOK, PlaceInv, AnswerInv, NEW r \in Requests, ApiStep(r)
    PROVE
           /\ Cardinality(Calls) \in Nat /\ Cardinality(Calls') \in Nat
           /\ Cardinality(Calls') + One(Called(req[r]))
                 = Cardinality(Calls) + One(Called(req'[r]))
           /\ Cardinality(Failures) \in Nat /\ Cardinality(Failures') \in Nat
           /\ Cardinality(Failures') + One(Raised(req[r]))
                 = Cardinality(Failures) + One(Raised(req'[r]))
           /\ Cardinality(TokenCounts) \in Nat /\ Cardinality(TokenCounts') \in Nat
           /\ Cardinality(TokenCounts') + One(Used(req[r]))
                 = Cardinality(TokenCounts) + One(Used(req'[r]))
           /\ Cardinality(Costs) \in Nat /\ Cardinality(Costs') \in Nat
           /\ Cardinality(Costs') + One(Costed(req[r], settings.llm))
                 = Cardinality(Costs) + One(Costed(req'[r], settings.llm))
           /\ Cardinality(Events) \in Nat /\ Cardinality(Events') \in Nat
           /\ Cardinality(Events') + One(Emitted(req[r]))
                 = Cardinality(Events) + One(Emitted(req'[r]))
           /\ Cardinality(ErrorEvents) \in Nat /\ Cardinality(ErrorEvents') \in Nat
           /\ Cardinality(ErrorEvents') + One(ErrorEmitted(req[r]))
                 = Cardinality(ErrorEvents) + One(ErrorEmitted(req'[r]))
           /\ Cardinality(UsageEvents) \in Nat /\ Cardinality(UsageEvents') \in Nat
           /\ Cardinality(UsageEvents') + One(UsageEmitted(req[r]))
                 = Cardinality(UsageEvents) + One(UsageEmitted(req'[r]))
<1>1. settings' = settings /\ \A p \in Requests : p # r => req'[p] = req[p]
  BY StepMoves
<1>2. /\ Cardinality(Calls) \in Nat /\ Cardinality(Calls') \in Nat
      /\ Cardinality(Calls') + One(Called(req[r]))
            = Cardinality(Calls) + One(Called(req'[r]))
  <2>1. /\ Calls \in SUBSET Requests /\ Calls' \in SUBSET Requests
        /\ \A p \in Requests : p # r => (p \in Calls <=> p \in Calls')
        /\ r \in Calls <=> Called(req[r])
        /\ r \in Calls' <=> Called(req'[r])
    BY <1>1 DEF Calls
  <2>2. /\ Cardinality(Calls) \in Nat /\ Cardinality(Calls') \in Nat
        /\ Cardinality(Calls') + One(r \in Calls) = Cardinality(Calls) + One(r \in Calls')
    BY <2>1, Recount
  <2> QED
    BY <2>1, <2>2 DEF One
<1>3. /\ Cardinality(Failures) \in Nat /\ Cardinality(Failures') \in Nat
      /\ Cardinality(Failures') + One(Raised(req[r]))
            = Cardinality(Failures) + One(Raised(req'[r]))
  <2>1. /\ Failures \in SUBSET Requests /\ Failures' \in SUBSET Requests
        /\ \A p \in Requests : p # r => (p \in Failures <=> p \in Failures')
        /\ r \in Failures <=> Raised(req[r])
        /\ r \in Failures' <=> Raised(req'[r])
    BY <1>1 DEF Failures
  <2>2. /\ Cardinality(Failures) \in Nat /\ Cardinality(Failures') \in Nat
        /\ Cardinality(Failures') + One(r \in Failures)
              = Cardinality(Failures) + One(r \in Failures')
    BY <2>1, Recount
  <2> QED
    BY <2>1, <2>2 DEF One
<1>4. /\ Cardinality(TokenCounts) \in Nat /\ Cardinality(TokenCounts') \in Nat
      /\ Cardinality(TokenCounts') + One(Used(req[r]))
            = Cardinality(TokenCounts) + One(Used(req'[r]))
  <2>1. /\ TokenCounts \in SUBSET Requests /\ TokenCounts' \in SUBSET Requests
        /\ \A p \in Requests : p # r => (p \in TokenCounts <=> p \in TokenCounts')
        /\ r \in TokenCounts <=> Used(req[r])
        /\ r \in TokenCounts' <=> Used(req'[r])
    BY <1>1 DEF TokenCounts
  <2>2. /\ Cardinality(TokenCounts) \in Nat /\ Cardinality(TokenCounts') \in Nat
        /\ Cardinality(TokenCounts') + One(r \in TokenCounts)
              = Cardinality(TokenCounts) + One(r \in TokenCounts')
    BY <2>1, Recount
  <2> QED
    BY <2>1, <2>2 DEF One
<1>5. /\ Cardinality(Costs) \in Nat /\ Cardinality(Costs') \in Nat
      /\ Cardinality(Costs') + One(Costed(req[r], settings.llm))
            = Cardinality(Costs) + One(Costed(req'[r], settings.llm))
  <2>1. /\ Costs \in SUBSET Requests /\ Costs' \in SUBSET Requests
        /\ \A p \in Requests : p # r => (p \in Costs <=> p \in Costs')
        /\ r \in Costs <=> Costed(req[r], settings.llm)
        /\ r \in Costs' <=> Costed(req'[r], settings.llm)
    BY <1>1 DEF Costs
  <2>2. /\ Cardinality(Costs) \in Nat /\ Cardinality(Costs') \in Nat
        /\ Cardinality(Costs') + One(r \in Costs) = Cardinality(Costs) + One(r \in Costs')
    BY <2>1, Recount
  <2> QED
    BY <2>1, <2>2 DEF One
<1>6. /\ Cardinality(Events) \in Nat /\ Cardinality(Events') \in Nat
      /\ Cardinality(Events') + One(Emitted(req[r]))
            = Cardinality(Events) + One(Emitted(req'[r]))
  <2>1. /\ Events \in SUBSET Requests /\ Events' \in SUBSET Requests
        /\ \A p \in Requests : p # r => (p \in Events <=> p \in Events')
        /\ r \in Events <=> Emitted(req[r])
        /\ r \in Events' <=> Emitted(req'[r])
    BY <1>1 DEF Events
  <2>2. /\ Cardinality(Events) \in Nat /\ Cardinality(Events') \in Nat
        /\ Cardinality(Events') + One(r \in Events)
              = Cardinality(Events) + One(r \in Events')
    BY <2>1, Recount
  <2> QED
    BY <2>1, <2>2 DEF One
<1>7. /\ Cardinality(ErrorEvents) \in Nat /\ Cardinality(ErrorEvents') \in Nat
      /\ Cardinality(ErrorEvents') + One(ErrorEmitted(req[r]))
            = Cardinality(ErrorEvents) + One(ErrorEmitted(req'[r]))
  <2>1. /\ ErrorEvents \in SUBSET Requests /\ ErrorEvents' \in SUBSET Requests
        /\ \A p \in Requests : p # r => (p \in ErrorEvents <=> p \in ErrorEvents')
        /\ r \in ErrorEvents <=> ErrorEmitted(req[r])
        /\ r \in ErrorEvents' <=> ErrorEmitted(req'[r])
    BY <1>1 DEF ErrorEvents
  <2>2. /\ Cardinality(ErrorEvents) \in Nat /\ Cardinality(ErrorEvents') \in Nat
        /\ Cardinality(ErrorEvents') + One(r \in ErrorEvents)
              = Cardinality(ErrorEvents) + One(r \in ErrorEvents')
    BY <2>1, Recount
  <2> QED
    BY <2>1, <2>2 DEF One
<1>8. /\ Cardinality(UsageEvents) \in Nat /\ Cardinality(UsageEvents') \in Nat
      /\ Cardinality(UsageEvents') + One(UsageEmitted(req[r]))
            = Cardinality(UsageEvents) + One(UsageEmitted(req'[r]))
  <2>1. /\ UsageEvents \in SUBSET Requests /\ UsageEvents' \in SUBSET Requests
        /\ \A p \in Requests : p # r => (p \in UsageEvents <=> p \in UsageEvents')
        /\ r \in UsageEvents <=> UsageEmitted(req[r])
        /\ r \in UsageEvents' <=> UsageEmitted(req'[r])
    BY <1>1 DEF UsageEvents
  <2>2. /\ Cardinality(UsageEvents) \in Nat /\ Cardinality(UsageEvents') \in Nat
        /\ Cardinality(UsageEvents') + One(r \in UsageEvents)
              = Cardinality(UsageEvents) + One(r \in UsageEvents')
    BY <2>1, Recount
  <2> QED
    BY <2>1, <2>2 DEF One
<1> QED
  BY <1>2, <1>3, <1>4, <1>5, <1>6, <1>7, <1>8

\* The counters follow the tallies of the request that takes a step.
Tallied(r) ==
    /\ metrics'.errors <= metrics'.requests
    /\ metrics'.llmRequests + One(Called(req[r]))
          = metrics.llmRequests + One(Called(req'[r]))
    /\ metrics'.modelErrors + One(Raised(req[r]))
          = metrics.modelErrors + One(Raised(req'[r]))
    /\ metrics'.usages + One(Used(req[r])) = metrics.usages + One(Used(req'[r]))
    /\ metrics'.costs + One(Costed(req[r], settings.llm))
          = metrics.costs + One(Costed(req'[r], settings.llm))
    /\ emf'.calls + One(Emitted(req[r])) = emf.calls + One(Emitted(req'[r]))
    /\ emf'.errors + One(ErrorEmitted(req[r])) = emf.errors + One(ErrorEmitted(req'[r]))
    /\ emf'.usages + One(UsageEmitted(req[r])) = emf.usages + One(UsageEmitted(req'[r]))

\* Counters that follow the tallies of one request agree with all of them.
LEMMA CountsFollow ==
    ASSUME ApiTypeOK, PlaceInv, AnswerInv, CountInv, NEW r \in Requests, ApiStep(r), Tallied(r)
    PROVE  CountInv'
<1>1. ApiTypeOK'
  BY TypesStep
<1>2. metrics'.llmRequests = Cardinality(Calls')
  <2>1. /\ metrics.llmRequests = Cardinality(Calls) /\ metrics'.llmRequests \in Nat
        /\ metrics'.llmRequests + One(Called(req[r]))
              = metrics.llmRequests + One(Called(req'[r]))
    BY <1>1 DEF CountInv, Tallied, ApiTypeOK
  <2> QED
    BY <2>1, TallyStep DEF One
<1>3. metrics'.modelErrors = Cardinality(Failures')
  <2>1. /\ metrics.modelErrors = Cardinality(Failures) /\ metrics'.modelErrors \in Nat
        /\ metrics'.modelErrors + One(Raised(req[r]))
              = metrics.modelErrors + One(Raised(req'[r]))
    BY <1>1 DEF CountInv, Tallied, ApiTypeOK
  <2> QED
    BY <2>1, TallyStep DEF One
<1>4. metrics'.usages = Cardinality(TokenCounts')
  <2>1. /\ metrics.usages = Cardinality(TokenCounts) /\ metrics'.usages \in Nat
        /\ metrics'.usages + One(Used(req[r])) = metrics.usages + One(Used(req'[r]))
    BY <1>1 DEF CountInv, Tallied, ApiTypeOK
  <2> QED
    BY <2>1, TallyStep DEF One
<1>5. metrics'.costs = Cardinality(Costs')
  <2>1. /\ metrics.costs = Cardinality(Costs) /\ metrics'.costs \in Nat
        /\ metrics'.costs + One(Costed(req[r], settings.llm))
              = metrics.costs + One(Costed(req'[r], settings.llm))
    BY <1>1 DEF CountInv, Tallied, ApiTypeOK
  <2> QED
    BY <2>1, TallyStep DEF One
<1>6. emf'.calls = Cardinality(Events')
  <2>1. /\ emf.calls = Cardinality(Events) /\ emf'.calls \in Nat
        /\ emf'.calls + One(Emitted(req[r])) = emf.calls + One(Emitted(req'[r]))
    BY <1>1 DEF CountInv, Tallied, ApiTypeOK
  <2> QED
    BY <2>1, TallyStep DEF One
<1>7. emf'.errors = Cardinality(ErrorEvents')
  <2>1. /\ emf.errors = Cardinality(ErrorEvents) /\ emf'.errors \in Nat
        /\ emf'.errors + One(ErrorEmitted(req[r])) = emf.errors + One(ErrorEmitted(req'[r]))
    BY <1>1 DEF CountInv, Tallied, ApiTypeOK
  <2> QED
    BY <2>1, TallyStep DEF One
<1>8. emf'.usages = Cardinality(UsageEvents')
  <2>1. /\ emf.usages = Cardinality(UsageEvents) /\ emf'.usages \in Nat
        /\ emf'.usages + One(UsageEmitted(req[r])) = emf.usages + One(UsageEmitted(req'[r]))
    BY <1>1 DEF CountInv, Tallied, ApiTypeOK
  <2> QED
    BY <2>1, TallyStep DEF One
<1> QED
  BY <1>2, <1>3, <1>4, <1>5, <1>6, <1>7, <1>8 DEF CountInv, Tallied

\* Every step keeps the counters and the tallies together.
LEMMA CountStep ==
    ASSUME ApiTypeOK, PlaceInv, AnswerInv, CountInv, NEW r \in Requests, ApiStep(r)
    PROVE  CountInv'
<1> DEFINE q == req[r]
           n == req'[r]
           llm == settings.llm
<1>1. /\ InPlace(q) /\ AnswerKept(q) /\ q.answer \in Answers /\ q.status \in Statuses
      /\ metrics.errors <= metrics.requests
  BY RequestShape DEF PlaceInv, AnswerInv, ApiTypeOK, RequestOf, CountInv
<1>2. \A answer : CostKnown(answer) <=> Costly(answer, llm)
  BY DEF CostKnown, Costly
<1>3. /\ metrics \in [requests : Nat, errors : Nat, llmRequests : Nat,
                      modelErrors : Nat, usages : Nat, costs : Nat]
      /\ emf \in [calls : Nat, errors : Nat, usages : Nat, costs : Nat]
  BY DEF ApiTypeOK
<1> HIDE DEF q, n, llm
<1>4. ASSUME \/ Arrive(r) \/ RequireKey(r) \/ LookUp(r) \/ Build(r)
             \/ ValidateBody(r) \/ Generate(r) \/ CreateJob(r)
             \/ GetJob(r) \/ Answer(r)
      PROVE  Tallied(r)
  <2>1. \/ Arrives(q, n) \/ ChecksKey(q, n) \/ LooksUp(q, n) \/ Builds(q, n)
        \/ JudgesBody(q, n) \/ Generates(q, n) \/ Submits(q, n) \/ Tells(q, n)
    BY <1>4, ActionMoves DEF q, n
  <2>2. metrics' = metrics /\ emf' = emf
    BY <1>4, ArriveEffect, RequireKeyEffect, LookUpEffect, BuildEffect, ValidateBodyEffect,
       GenerateEffect, CreateJobEffect, GetJobEffect, AnswerEffect
  <2>3.
        /\ Called(n) <=> Called(q)
        /\ Raised(n) <=> Raised(q)
        /\ Used(n) <=> Used(q)
        /\ Costed(n, llm) <=> Costed(q, llm)
        /\ Emitted(n) <=> Emitted(q)
        /\ ErrorEmitted(n) <=> ErrorEmitted(q)
        /\ UsageEmitted(n) <=> UsageEmitted(q)
    BY <1>1, <2>1, QuietMoves
  <2> QED
    BY <1>1, <1>3, <2>2, <2>3 DEF Tallied, One, q, n, llm
<1>5. ASSUME RecordRequest(r)
      PROVE  Tallied(r)
  <2>1. Responds(q, n)
    BY <1>5, ActionMoves DEF q, n
  <2>2. /\ metrics'.llmRequests = metrics.llmRequests
        /\ metrics'.modelErrors = metrics.modelErrors /\ metrics'.usages = metrics.usages
        /\ metrics'.costs = metrics.costs /\ emf' = emf
        /\ metrics'.errors <= metrics'.requests
    <3>1. \/ metrics' = [metrics EXCEPT !.requests = @ + 1, !.errors = @ + 1]
          \/ metrics' = [metrics EXCEPT !.requests = @ + 1, !.errors = @]
      BY <1>5, RecordRequestEffect
    <3>2. emf' = emf
      BY <1>5 DEF RecordRequest
    <3>3. /\ metrics'.llmRequests = metrics.llmRequests
          /\ metrics'.modelErrors = metrics.modelErrors
          /\ metrics'.usages = metrics.usages /\ metrics'.costs = metrics.costs
          /\ metrics'.requests = metrics.requests + 1
          /\ metrics'.errors = metrics.errors \/ metrics'.errors = metrics.errors + 1
      BY <1>3, <3>1
    <3>4. metrics.errors \in Nat /\ metrics.requests \in Nat
      BY <1>3
    <3> QED
      BY <1>1, <3>2, <3>3, <3>4
  <2>3.
        /\ Called(n) <=> Called(q)
        /\ Raised(n) <=> Raised(q)
        /\ Used(n) <=> Used(q)
        /\ Costed(n, llm) <=> Costed(q, llm)
        /\ Emitted(n) <=> Emitted(q)
        /\ ErrorEmitted(n) <=> ErrorEmitted(q)
        /\ UsageEmitted(n) <=> UsageEmitted(q)
    BY <1>1, <2>1, QuietMoves
  <2> QED
    BY <1>1, <1>3, <2>2, <2>3 DEF Tallied, One, q, n, llm
<1>6. ASSUME RecordCall(r)
      PROVE  Tallied(r)
  <2>1. Records(q, n)
    BY <1>6, ActionMoves DEF q, n
  <2>2. emf' = emf
    BY <1>6, RecordCallEffect
  <2>3.
        \/ q.todo = ErrorCount /\ metrics' = Recorded("error", q.answer)
        \/ q.todo = ErrorLatency /\ metrics' = Recorded("latency", q.answer)
        \/ q.todo = ResultLatency /\ metrics' = Recorded("latency", q.answer)
        \/ q.todo = ResultUsage /\ metrics' = Recorded("usage", q.answer)
        \/ q.todo = ResultCost /\ metrics' = Recorded("cost", q.answer)
    BY <1>6, RecordCallLeads DEF q
  <2>4. CASE q.todo = ErrorCount /\ metrics' = Recorded("error", q.answer)
    <3>1.
          /\ (Called(n) <=> Called(q))
          /\ ~Raised(q) /\ Raised(n)
          /\ (Used(n) <=> Used(q))
          /\ (Costed(n, llm) <=> Costed(q, llm))
          /\ (Emitted(n) <=> Emitted(q))
          /\ (ErrorEmitted(n) <=> ErrorEmitted(q))
          /\ (UsageEmitted(n) <=> UsageEmitted(q))
      BY <1>1, <2>1, <2>4, RecordTallies
    <3> QED
      BY <1>1, <1>2, <1>3, <2>2, <2>4, <3>1 DEF Tallied, One, Recorded, q, n, llm
  <2>5. CASE q.todo = ErrorLatency /\ metrics' = Recorded("latency", q.answer)
    <3>1.
          /\ ~Called(q) /\ Called(n)
          /\ (Raised(n) <=> Raised(q))
          /\ (Used(n) <=> Used(q))
          /\ (Costed(n, llm) <=> Costed(q, llm))
          /\ (Emitted(n) <=> Emitted(q))
          /\ (ErrorEmitted(n) <=> ErrorEmitted(q))
          /\ (UsageEmitted(n) <=> UsageEmitted(q))
      BY <1>1, <2>1, <2>5, RecordTallies
    <3> QED
      BY <1>1, <1>2, <1>3, <2>2, <2>5, <3>1 DEF Tallied, One, Recorded, q, n, llm
  <2>6. CASE q.todo = ResultLatency /\ metrics' = Recorded("latency", q.answer)
    <3>1.
          /\ ~Called(q) /\ Called(n)
          /\ (Raised(n) <=> Raised(q))
          /\ (Used(n) <=> Used(q))
          /\ (Costed(n, llm) <=> Costed(q, llm))
          /\ (Emitted(n) <=> Emitted(q))
          /\ (ErrorEmitted(n) <=> ErrorEmitted(q))
          /\ (UsageEmitted(n) <=> UsageEmitted(q))
      BY <1>1, <2>1, <2>6, RecordTallies
    <3> QED
      BY <1>1, <1>2, <1>3, <2>2, <2>6, <3>1 DEF Tallied, One, Recorded, q, n, llm
  <2>7. CASE q.todo = ResultUsage /\ metrics' = Recorded("usage", q.answer)
    <3>1.
          /\ (Called(n) <=> Called(q))
          /\ (Raised(n) <=> Raised(q))
          /\ ~Used(q) /\ (Used(n) <=> q.answer = "both")
          /\ (Costed(n, llm) <=> Costed(q, llm))
          /\ (Emitted(n) <=> Emitted(q))
          /\ (ErrorEmitted(n) <=> ErrorEmitted(q))
          /\ (UsageEmitted(n) <=> UsageEmitted(q))
      BY <1>1, <2>1, <2>7, RecordTallies
    <3> QED
      BY <1>1, <1>2, <1>3, <2>2, <2>7, <3>1 DEF Tallied, One, Recorded, q, n, llm
  <2>8. CASE q.todo = ResultCost /\ metrics' = Recorded("cost", q.answer)
    <3>1.
          /\ (Called(n) <=> Called(q))
          /\ (Raised(n) <=> Raised(q))
          /\ (Used(n) <=> Used(q))
          /\ ~Costed(q, llm) /\ (Costed(n, llm) <=> Costly(q.answer, llm))
          /\ (Emitted(n) <=> Emitted(q))
          /\ (ErrorEmitted(n) <=> ErrorEmitted(q))
          /\ (UsageEmitted(n) <=> UsageEmitted(q))
      BY <1>1, <2>1, <2>8, RecordTallies
    <3> QED
      BY <1>1, <1>2, <1>3, <2>2, <2>8, <3>1 DEF Tallied, One, Recorded, q, n, llm
  <2> QED
    BY <2>3, <2>4, <2>5, <2>6, <2>7, <2>8
<1>7. ASSUME EmitInferenceMetrics(r)
      PROVE  Tallied(r)
  <2>1. Records(q, n)
    BY <1>7, ActionMoves DEF q, n
  <2>2. /\ metrics' = metrics
        /\ emf' = [calls |-> emf.calls + 1,
                   errors |-> emf.errors + One(q.answer = "raised"),
                   usages |-> emf.usages + One(q.answer \in {"input", "both"}),
                   costs |-> emf.costs + One(CostKnown(q.answer))]
    BY <1>7 DEF EmitInferenceMetrics, One, q
  <2>3. q.todo = ResultEmit \/ q.todo = ErrorEmit
    BY <1>7, EmitInferenceMetricsLeads DEF q
  <2>4. CASE q.todo = ResultEmit
    <3>1.
          /\ (Called(n) <=> Called(q))
          /\ (Raised(n) <=> Raised(q))
          /\ (Used(n) <=> Used(q))
          /\ (Costed(n, llm) <=> Costed(q, llm))
          /\ ~Emitted(q) /\ Emitted(n)
          /\ (ErrorEmitted(n) <=> ErrorEmitted(q))
          /\ ~UsageEmitted(q) /\ (UsageEmitted(n) <=> q.answer \in {"input", "both"})
      BY <1>1, <2>1, <2>4, RecordTallies
    <3>2. q.answer \in {"no_usage", "input", "both"}
      BY <1>1, <2>1, <2>4, Elsewhere DEF Records, AnswerKept, AfterError, AfterResult,
         Finished, Answers
    <3> QED
      BY <1>1, <1>3, <2>2, <3>1, <3>2 DEF Tallied, One, q, n, llm
  <2>5. CASE q.todo = ErrorEmit
    <3>1.
          /\ (Called(n) <=> Called(q))
          /\ (Raised(n) <=> Raised(q))
          /\ (Used(n) <=> Used(q))
          /\ (Costed(n, llm) <=> Costed(q, llm))
          /\ ~Emitted(q) /\ Emitted(n)
          /\ ~ErrorEmitted(q) /\ ErrorEmitted(n)
          /\ (UsageEmitted(n) <=> UsageEmitted(q))
      BY <1>1, <2>1, <2>5, RecordTallies
    <3>2. q.answer = "raised"
      BY <1>1, <2>1, <2>5, Elsewhere DEF Records, AnswerKept, AfterError, AfterResult,
         Finished, Answers
    <3> QED
      BY <1>1, <1>3, <2>2, <3>1, <3>2 DEF Tallied, One, q, n, llm
  <2> QED
    BY <2>3, <2>4, <2>5
<1>8. ASSUME Execute(r)
      PROVE  Tallied(r)
  <2>1. Executes(q, n)
    BY <1>8, ActionMoves DEF q, n
  <2>2. emf' = emf
    BY <1>8, ExecuteEffect
  <2>3.
        \/ q.work = JobModel /\ metrics' = metrics
        \/ q.work = JobUsage /\ metrics' = Recorded("usage", q.answer)
        \/ q.work = JobCost /\ metrics' = Recorded("cost", q.answer)
        \/ q.work = JobLatency /\ metrics' = Recorded("latency", q.answer)
        \/ q.work = JobError /\ metrics' = Recorded("error", q.answer)
    BY <1>8, ExecuteLeads DEF q
  <2>4. CASE q.work = JobModel /\ metrics' = metrics
    <3>1.
          /\ (Called(n) <=> Called(q))
          /\ (Raised(n) <=> Raised(q))
          /\ (Used(n) <=> Used(q))
          /\ (Costed(n, llm) <=> Costed(q, llm))
          /\ (Emitted(n) <=> Emitted(q))
          /\ (ErrorEmitted(n) <=> ErrorEmitted(q))
          /\ (UsageEmitted(n) <=> UsageEmitted(q))
      BY <1>1, <2>1, <2>4, ExecuteTallies
    <3> QED
      BY <1>1, <1>2, <1>3, <2>2, <2>4, <3>1 DEF Tallied, One, Recorded, q, n, llm
  <2>5. CASE q.work = JobUsage /\ metrics' = Recorded("usage", q.answer)
    <3>1.
          /\ (Called(n) <=> Called(q))
          /\ (Raised(n) <=> Raised(q))
          /\ ~Used(q) /\ (Used(n) <=> q.answer = "both")
          /\ (Costed(n, llm) <=> Costed(q, llm))
          /\ (Emitted(n) <=> Emitted(q))
          /\ (ErrorEmitted(n) <=> ErrorEmitted(q))
          /\ (UsageEmitted(n) <=> UsageEmitted(q))
      BY <1>1, <2>1, <2>5, ExecuteTallies
    <3> QED
      BY <1>1, <1>2, <1>3, <2>2, <2>5, <3>1 DEF Tallied, One, Recorded, q, n, llm
  <2>6. CASE q.work = JobCost /\ metrics' = Recorded("cost", q.answer)
    <3>1.
          /\ (Called(n) <=> Called(q))
          /\ (Raised(n) <=> Raised(q))
          /\ (Used(n) <=> Used(q))
          /\ ~Costed(q, llm) /\ (Costed(n, llm) <=> Costly(q.answer, llm))
          /\ (Emitted(n) <=> Emitted(q))
          /\ (ErrorEmitted(n) <=> ErrorEmitted(q))
          /\ (UsageEmitted(n) <=> UsageEmitted(q))
      BY <1>1, <2>1, <2>6, ExecuteTallies
    <3> QED
      BY <1>1, <1>2, <1>3, <2>2, <2>6, <3>1 DEF Tallied, One, Recorded, q, n, llm
  <2>7. CASE q.work = JobLatency /\ metrics' = Recorded("latency", q.answer)
    <3>1.
          /\ ~Called(q) /\ Called(n)
          /\ (Raised(n) <=> Raised(q))
          /\ (Used(n) <=> Used(q))
          /\ (Costed(n, llm) <=> Costed(q, llm))
          /\ (Emitted(n) <=> Emitted(q))
          /\ (ErrorEmitted(n) <=> ErrorEmitted(q))
          /\ (UsageEmitted(n) <=> UsageEmitted(q))
      BY <1>1, <2>1, <2>7, ExecuteTallies
    <3> QED
      BY <1>1, <1>2, <1>3, <2>2, <2>7, <3>1 DEF Tallied, One, Recorded, q, n, llm
  <2>8. CASE q.work = JobError /\ metrics' = Recorded("error", q.answer)
    <3>1.
          /\ (Called(n) <=> Called(q))
          /\ ~Raised(q) /\ Raised(n)
          /\ (Used(n) <=> Used(q))
          /\ (Costed(n, llm) <=> Costed(q, llm))
          /\ (Emitted(n) <=> Emitted(q))
          /\ (ErrorEmitted(n) <=> ErrorEmitted(q))
          /\ (UsageEmitted(n) <=> UsageEmitted(q))
      BY <1>1, <2>1, <2>8, ExecuteTallies
    <3> QED
      BY <1>1, <1>2, <1>3, <2>2, <2>8, <3>1 DEF Tallied, One, Recorded, q, n, llm
  <2> QED
    BY <2>3, <2>4, <2>5, <2>6, <2>7, <2>8
<1> QED
  BY <1>4, <1>5, <1>6, <1>7, <1>8, CountsFollow DEF ApiStep

\* Nothing is counted at the start.
LEMMA StartCounts ==
    ASSUME ApiInit
    PROVE  CountInv
<1>1. /\ metrics.requests = 0 /\ metrics.errors = 0 /\ metrics.llmRequests = 0
      /\ metrics.modelErrors = 0 /\ metrics.usages = 0 /\ metrics.costs = 0
      /\ emf.calls = 0 /\ emf.errors = 0 /\ emf.usages = 0
  BY DEF ApiInit, ApiIn
<1>2. \A r \in Requests : req[r].answer = None
  BY StartInv DEF Unborn
<1>3. /\ Calls = {} /\ Failures = {} /\ TokenCounts = {} /\ Costs = {}
      /\ Events = {} /\ ErrorEvents = {} /\ UsageEvents = {}
  BY <1>2, NoneIsNoValue DEF Calls, Failures, TokenCounts, Costs, Events, ErrorEvents,
     UsageEvents, Called, Raised, Used, Costed, Costly, Emitted, ErrorEmitted, UsageEmitted
<1> QED
  BY <1>1, <1>3, FS_EmptySet DEF CountInv

\* The inductive invariant holds at the start, in a stuttering step and after a step.
LEMMA StartApi == ApiInit => ApiInv
BY StartInv, StartCounts DEF ApiInv

LEMMA StutterApi ==
    ASSUME ApiInv, UNCHANGED apiVars
    PROVE  ApiInv'
<1>1. /\ settings' = settings /\ req' = req /\ cached' = cached
      /\ metrics' = metrics /\ emf' = emf
  BY DEF apiVars
<1>2. ApiTypeOK' /\ PlaceInv' /\ AnswerInv' /\ KeyInv' /\ ServiceInv' /\ JobsAreFound'
  BY <1>1 DEF ApiInv, ApiTypeOK, PlaceInv, AnswerInv, KeyInv, ServiceInv, JobsAreFound
<1>3. CountInv'
  BY <1>1 DEF ApiInv, CountInv, Calls, Failures, TokenCounts, Costs, Events, ErrorEvents,
     UsageEvents
<1> QED
  BY <1>2, <1>3 DEF ApiInv

LEMMA NextApi ==
    ASSUME ApiInv, [ApiNext]_apiVars
    PROVE  ApiInv'
<1>1. CASE ApiNext
  <2>1. PICK r \in Requests : ApiStep(r)
    BY <1>1 DEF ApiNext, ApiStep
  <2> QED
    BY <2>1, TypesStep, PlaceStep, KeyStep, ServiceStep, JobsStep, CountStep DEF ApiInv
<1>2. CASE UNCHANGED apiVars
  BY <1>2, StutterApi
<1> QED
  BY <1>1, <1>2

\* The inductive invariant: the routes, the answers, the key, the cached service and
\* the counters (the endpoints of main.py, job_service.py:219 and metrics.py).
THEOREM ApiInvariant == ApiSpec => []ApiInv
<1>1. ApiInit => ApiInv
  BY StartApi
<1>2. ApiInv /\ [ApiNext]_apiVars => ApiInv'
  BY NextApi
<1> QED
  BY <1>1, <1>2, PTL DEF ApiSpec

\* Every variable has its type, whatever requests come (the Settings, the requests'
\* state, lru_cache and Metrics).
THEOREM ApiTypeCorrect == ApiSpec => []ApiTypeOK
<1>1. ApiInv => ApiTypeOK
  BY DEF ApiInv
<1> QED
  BY <1>1, ApiInvariant, PTL

\* A client is told that a job it was given does not exist only on the local path and
\* only when it submitted the job before any service was cached (job_service.py:219).
THEOREM SubmittedJobsAreFound == ApiSpec => []JobsAreFound
<1>1. ApiInv => JobsAreFound
  BY DEF ApiInv
<1> QED
  BY <1>1, ApiInvariant, PTL

\* A deployed request that has cost or told something carried the key.
LEMMA KeyFirst ==
    ASSUME NEW q, AnswerKept(q), Guards(q), q.answer \in Answers,
           \/ q.answer # None
           \/ q.home # None
           \/ q.kind \in {"metrics", "poll"} /\ q.status \in {200, 404, 503}
    PROVE  q.key
<1> SUFFICES ASSUME ~q.key
             PROVE  FALSE
  OBVIOUS
<1>1. q.kind \in Guarded
  BY DEF AnswerKept, Guarded
<1>2. q.status \in {None, 401} /\ q.home = None
  BY <1>1 DEF Guards
<1>3. q.answer # None /\ q.kind = "generate"
  BY <1>2, NoneIsNoValue DEF AnswerKept
<1> QED
  BY <1>2, <1>3, NoneIsNoValue DEF AnswerKept, Answers

\* No model call, job, counter or record of a deployed process for a request that did
\* not carry the configured key (main.py:237, auth.py:20, config.py:48).
THEOREM KeyIsCarried == ApiSpec => []NoKeyNoCost
<1>1. ApiInv => NoKeyNoCost
  <2> SUFFICES ASSUME ApiInv, settings.deployed, NEW r \in Requests,
                      \/ req[r].answer # None
                      \/ req[r].home # None
                      \/ /\ req[r].kind \in {"metrics", "poll"}
                         /\ req[r].status \in {200, 404, 503}
               PROVE  req[r].key
    BY DEF NoKeyNoCost
  <2>1. AnswerKept(req[r]) /\ Guards(req[r]) /\ req[r].answer \in Answers
    BY RequestShape DEF ApiInv, AnswerInv, KeyInv, ApiTypeOK, RequestOf
  <2> QED
    BY <2>1, KeyFirst
<1> QED
  BY <1>1, ApiInvariant, PTL

(***************************************************************************)
(* The counters and the answers.                                           *)
(***************************************************************************)

\* The record of a request that is being recorded, and of one that is not.
BeingRecorded(q) ==
    \/ q.todo \in AfterResult \cup AfterError
    \/ q.work \in {JobUsage, JobCost, JobLatency, JobError}

\* A request with a step of recording ahead is counted as being recorded.
LEMMA RecordingPlaces ==
    ASSUME NEW r \in Requests, BeingRecorded(req[r])
    PROVE  Recording(r)
<1>1. CASE req[r].todo \in AfterResult \cup AfterError
  <2>1. req[r].todo # << >> /\ Head(req[r].todo) \in Recordings \cup {"emit"}
    BY <1>1, Heads DEF AfterResult, AfterError, Recordings, Done
  <2> QED
    BY <2>1 DEF Recording, At
<1>2. CASE req[r].work \in {JobUsage, JobCost, JobLatency, JobError}
  <2>1. req[r].work # << >> /\ Head(req[r].work) # "model"
    BY <1>2, Heads DEF Done
  <2> QED
    BY <2>1 DEF Recording
<1> QED
  BY <1>1, <1>2 DEF BeingRecorded

\* What a counted error, token count or event says of its request.
LEMMA CountedBefore ==
    ASSUME NEW q, InPlace(q), AnswerKept(q), q.answer \in Answers
    PROVE  /\ Raised(q) \/ Used(q) => Called(q) \/ BeingRecorded(q)
           /\ Emitted(q) => Called(q)
<1>1. Raised(q) \/ Used(q) => Called(q) \/ BeingRecorded(q)
  BY NoneIsNoValue DEF Raised, Used, Called, BeingRecorded, AfterResult, AfterError
<1>2. Emitted(q) => Called(q)
  <2> SUFFICES ASSUME Emitted(q)
               PROVE  Called(q)
    OBVIOUS
  <2>1. q.work = Done
    BY DEF Emitted, AnswerKept
  <2> QED
    BY <2>1, Recorders DEF Emitted, Called, AfterError
<1> QED
  BY <1>1, <1>2

\* A request of which nothing is being recorded is counted in full.
LEMMA AllCounted ==
    ASSUME NEW q, NEW llm, InPlace(q), AnswerKept(q), q.answer \in Answers,
           q.status \in Statuses, ~BeingRecorded(q)
    PROVE  /\ Called(q) <=> q.answer # None
           /\ Raised(q) <=> q.answer = "raised"
           /\ Used(q) <=> q.answer = "both"
           /\ Costed(q, llm) <=> Costly(q.answer, llm)
           /\ Emitted(q) <=> q.kind = "generate" /\ q.answer # None
           /\ ErrorEmitted(q) <=> q.kind = "generate" /\ q.status \in 500..599
           /\ UsageEmitted(q) <=> q.kind = "generate" /\ q.answer \in {"input", "both"}
<1>1. /\ q.todo \notin {ResultLatency, ResultEmit, ResultUsage, ResultCost,
                        ErrorCount, ErrorLatency, ErrorEmit}
      /\ q.work \notin {JobUsage, JobCost, JobLatency, JobError}
  BY DEF BeingRecorded, AfterResult, AfterError
<1>2. /\ Called(q) <=> q.answer # None
      /\ Raised(q) <=> q.answer = "raised"
      /\ Used(q) <=> q.answer = "both"
      /\ Costed(q, llm) <=> Costly(q.answer, llm)
      /\ Emitted(q) <=> q.kind = "generate" /\ q.answer # None
  BY <1>1, NoneIsNoValue DEF Called, Raised, Used, Costed, Emitted, AfterResult, AfterError
<1>3. UsageEmitted(q) <=> q.kind = "generate" /\ q.answer \in {"input", "both"}
  BY <1>2, NoneIsNoValue DEF UsageEmitted
<1>4. q.kind = "generate" => (q.answer = "raised" <=> q.status \in 500..599)
  <2> SUFFICES ASSUME q.kind = "generate"
               PROVE  q.answer = "raised" <=> q.status \in 500..599
    OBVIOUS
  <2>1. CASE q.answer = "raised"
    <3>1. q.status \in {500, 502, 503}
      BY <2>1 DEF AnswerKept
    <3> QED
      BY <2>1, <3>1
  <2>2. CASE q.answer = None
    <3>1. q.status \in {None, 401, 422} /\ None \notin 500..599
      BY <2>2, NoneIsNoValue DEF AnswerKept
    <3>2. q.status \notin 500..599
      BY <3>1
    <3> QED
      BY <2>2, <3>2, NoneIsNoValue
  <2>3. CASE q.answer \in {"no_usage", "input", "both"}
    <3>1. q.status = 200
      BY <2>3 DEF AnswerKept
    <3> QED
      BY <2>3, <3>1
  <2> QED
    BY <2>1, <2>2, <2>3 DEF Answers
<1>5. ErrorEmitted(q) <=> q.kind = "generate" /\ q.status \in 500..599
  BY <1>2, <1>4, NoneIsNoValue DEF ErrorEmitted
<1> QED
  BY <1>2, <1>3, <1>5

\* A set within the union of two others is no larger than the two together.
LEMMA UnionBound ==
    ASSUME NEW A \in SUBSET Requests, NEW B \in SUBSET Requests, NEW C \in SUBSET Requests,
           A \subseteq B \cup C
    PROVE  /\ Cardinality(A) \in Nat /\ Cardinality(B) \in Nat /\ Cardinality(C) \in Nat
           /\ Cardinality(A) <= Cardinality(B) + Cardinality(C)
<1>1. IsFiniteSet(A) /\ IsFiniteSet(B) /\ IsFiniteSet(C) /\ IsFiniteSet(B \cap C)
  BY FS_Subset, ApiProcessAssumption
<1>2. /\ Cardinality(A) \in Nat /\ Cardinality(B) \in Nat /\ Cardinality(C) \in Nat
      /\ Cardinality(B \cap C) \in Nat
  BY <1>1, FS_CardinalityType
<1>3. /\ IsFiniteSet(B \cup C)
      /\ Cardinality(B \cup C) = Cardinality(B) + Cardinality(C) - Cardinality(B \cap C)
  BY <1>1, FS_Union
<1>4. Cardinality(A) <= Cardinality(B \cup C)
  BY <1>3, FS_Subset
<1> QED
  BY <1>2, <1>3, <1>4

\* The invariant's tallies are what MetricsAgree asks of the counters.
LEMMA Agreement ==
    ASSUME ApiInv
    PROVE  MetricsAgree
<1> DEFINE lag == {r \in Requests : Recording(r)}
<1>1. ASSUME NEW r \in Requests
      PROVE  /\ InPlace(req[r]) /\ AnswerKept(req[r]) /\ req[r].answer \in Answers
             /\ req[r].status \in Statuses
             /\ BeingRecorded(req[r]) => r \in lag
  BY RequestShape, RecordingPlaces
     DEF ApiInv, PlaceInv, AnswerInv, ApiTypeOK, RequestOf
<1>2. /\ Calls \in SUBSET Requests /\ Failures \in SUBSET Requests
      /\ TokenCounts \in SUBSET Requests /\ Events \in SUBSET Requests
      /\ lag \in SUBSET Requests
      /\ Failures \subseteq Calls \cup lag /\ TokenCounts \subseteq Calls \cup lag
      /\ Events \subseteq Calls \cup {}
  BY <1>1, CountedBefore DEF Calls, Failures, TokenCounts, Events
<1>3. /\ Cardinality(Failures) <= Cardinality(Calls) + Cardinality(lag)
      /\ Cardinality(TokenCounts) <= Cardinality(Calls) + Cardinality(lag)
  BY <1>2, UnionBound
<1>4. Cardinality(Events) <= Cardinality(Calls)
  <2>1. /\ Cardinality(Events) <= Cardinality(Calls) + Cardinality({})
        /\ Cardinality(Calls) \in Nat
    BY <1>2, UnionBound
  <2> QED
    BY <2>1, FS_EmptySet
<1>5. ASSUME lag = {}
      PROVE  /\ Calls = {r \in Requests : req[r].answer # None}
             /\ Failures = {r \in Requests : req[r].answer = "raised"}
             /\ TokenCounts = {r \in Requests : req[r].answer = "both"}
             /\ Costs = {r \in Requests : CostKnown(req[r].answer)}
             /\ Events = {r \in Requests : req[r].kind = "generate" /\ req[r].answer # None}
             /\ ErrorEvents =
                    {r \in Requests : req[r].kind = "generate" /\ req[r].status \in 500..599}
             /\ UsageEvents =
                    {r \in Requests :
                         req[r].kind = "generate" /\ req[r].answer \in {"input", "both"}}
  <2>1. ASSUME NEW r \in Requests
        PROVE  /\ Called(req[r]) <=> req[r].answer # None
               /\ Raised(req[r]) <=> req[r].answer = "raised"
               /\ Used(req[r]) <=> req[r].answer = "both"
               /\ Costed(req[r], settings.llm) <=> Costly(req[r].answer, settings.llm)
               /\ Emitted(req[r]) <=> req[r].kind = "generate" /\ req[r].answer # None
               /\ ErrorEmitted(req[r]) <=>
                      req[r].kind = "generate" /\ req[r].status \in 500..599
               /\ UsageEmitted(req[r]) <=>
                      req[r].kind = "generate" /\ req[r].answer \in {"input", "both"}
    <3>1. ~BeingRecorded(req[r])
      BY <1>1, <1>5
    <3> QED
      BY <1>1, <3>1, AllCounted
  <2>2. \A answer : CostKnown(answer) <=> Costly(answer, settings.llm)
    BY DEF CostKnown, Costly
  <2> QED
    BY <2>1, <2>2 DEF Calls, Failures, TokenCounts, Costs, Events, ErrorEvents, UsageEvents
<1>6. CountInv
  BY DEF ApiInv
<1> QED
  BY <1>3, <1>4, <1>5, <1>6 DEF MetricsAgree, CountInv

\* The counters of Metrics and the sums over the EMF events lag behind each other by
\* the calls being recorded, and agree with the answers when none is (main.py:275-294).
THEOREM CountersAgree == ApiSpec => []MetricsAgree
BY Agreement, ApiInvariant, PTL
=================================================================================
