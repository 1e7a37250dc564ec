------------------------------ MODULE LoadRunProofs ------------------------------
(***************************************************************************)
(* Theorems about LoadRun for every number of requests and workers, every  *)
(* error limit and any number of unhandled exceptions.                     *)
(***************************************************************************)
EXTENDS LoadRun, FiniteSetTheorems, SequenceTheorems, TLAPS

(***************************************************************************)
(* The inductive invariant.  While run_load schedules or joins, the queue  *)
(* holds the last requests that were scheduled, in their order: those      *)
(* before them have been taken.                                            *)
(***************************************************************************)

Running == runner \in {"schedule", "join"}
Posting == {w \in Workers : worker[w] = "post"}
Holders == {w \in Workers : worker[w] \in {"post", "died"}}
Taken == IF Running THEN scheduled - Len(queue) ELSE RequestCount

\* The queue is the tail of the schedule, and every item that join still waits
\* for is in it or with a worker.
RunningInv ==
    Running =>
        /\ \A i \in 1..Len(queue) : queue[i] = scheduled - Len(queue) + i
        /\ Len(queue) <= scheduled
        /\ unfinished = Len(queue) + Cardinality(Posting)
        /\ runner = "join" <=> scheduled = RequestCount
        /\ \A w \in Workers : worker[w] # "returned"

\* After join only sentinels are queued and no request is under way.
StoppingInv ==
    ~Running =>
        /\ \A i \in 1..Len(queue) : queue[i] = Sentinel
        /\ unfinished = Len(queue)
        /\ \A w \in Workers : worker[w] # "post"
        /\ runner = "reported" => \A w \in Workers : worker[w] = "returned"

\* A request that was taken is with one worker, living or dead, or has one
\* result, and never both.
PlacedInv ==
    /\ \A w \in Holders : held[w] \in 1..Taken
    /\ \A i \in DOMAIN results : results[i].request \in 1..Taken
    /\ \A r \in 1..Taken : \/ \E w \in Holders : held[w] = r
                           \/ \E i \in DOMAIN results : results[i].request = r
    /\ \A v, w \in Holders : held[v] = held[w] => v = w
    /\ \A i, j \in DOMAIN results :
          results[i].request = results[j].request => i = j
    /\ \A w \in Holders, i \in DOMAIN results : results[i].request # held[w]

GateInv == (passed => runner = "reported") /\ PassedIsEarned

IInv == TypeOK /\ RunningInv /\ StoppingInv /\ PlacedInv /\ GateInv

(***************************************************************************)
(* Counting.                                                               *)
(***************************************************************************)

\* A set of workers is finite, and no larger than all of them.
LEMMA WorkersCounted ==
    ASSUME NEW S, S \subseteq Workers
    PROVE  /\ IsFiniteSet(S)
           /\ Cardinality(S) \in Nat
           /\ Cardinality(Workers) \in Nat \ {0}
           /\ Cardinality(S) <= Cardinality(Workers)
           /\ Cardinality(S) = 0 <=> S = {}
<1>1. IsFiniteSet(Workers) /\ Workers # {}
  BY LoadRunAssumption
<1>2. IsFiniteSet(S) /\ Cardinality(S) <= Cardinality(Workers)
  BY <1>1, FS_Subset
<1> QED
  BY <1>1, <1>2, FS_CardinalityType, FS_EmptySet

\* Every element of T is the image under f of an index in S.
Covers(f, S, T) == \A r \in T : \E i \in S : f[i] = r

\* If every number up to n that is not good is the image of a bad index, then
\* at least n less the number of good ones are bad.
LEMMA BadCoverTheRest ==
    ASSUME NEW n \in Nat, NEW Good, Good \subseteq 1..n,
           NEW Bad, IsFiniteSet(Bad), NEW f, Covers(f, Bad, (1..n) \ Good)
    PROVE  /\ Cardinality(Good) \in Nat
           /\ Cardinality(Bad) \in Nat
           /\ n - Cardinality(Good) <= Cardinality(Bad)
<1> DEFINE Rest == (1..n) \ Good
           Cover == {i \in Bad : f[i] \in Rest}
           g == [i \in Cover |-> f[i]]
<1>1. IsFiniteSet(1..n) /\ Cardinality(1..n) = n
  BY FS_Interval
<1>2. IsFiniteSet(Good) /\ Cardinality(Good) \in Nat
  BY <1>1, FS_Subset, FS_CardinalityType
<1>3. Cardinality(Rest) = n - Cardinality(Good)
  <2>1. Cardinality(Rest) = Cardinality(1..n) - Cardinality((1..n) \cap Good)
    BY <1>1, FS_Difference
  <2>2. (1..n) \cap Good = Good
    OBVIOUS
  <2> QED
    BY <1>1, <2>1, <2>2
<1>4. /\ IsFiniteSet(Cover)
      /\ Cardinality(Cover) <= Cardinality(Bad)
      /\ Cardinality(Cover) \in Nat
      /\ Cardinality(Bad) \in Nat
  BY FS_Subset, FS_CardinalityType
<1>5. g \in Surjection(Cover, Rest)
  BY DEF Covers, Surjection
<1>6. Cardinality(Rest) <= Cardinality(Cover)
  BY <1>4, <1>5, FS_Surjection
<1> QED
  BY <1>2, <1>3, <1>4, <1>6

\* The rank that percentile() picks for p95: when it is within the first n - slow
\* latencies, at most one in twenty is slow.
LEMMA RankBoundsSlow ==
    ASSUME NEW n \in Nat, NEW slow \in Nat, NearestRank(95, n) <= n - slow
    PROVE  20 * slow <= n
<1>1. (95 * n + 99) \div 100 <= n - slow
  BY DEF NearestRank
<1> DEFINE q == (95 * n + 99) \div 100
<1>2. q \in Int /\ 95 * n + 99 < 100 * q + 100
  BY SMT
<1> HIDE DEF q
<1>3. q <= n - slow
  BY <1>1 DEF q
<1> QED
  BY <1>2, <1>3, SMT

(***************************************************************************)
(* The invariant holds initially, and every action keeps it.               *)
(***************************************************************************)

\* Initially nothing is scheduled, queued, held or answered.
LEMMA InitInv == Init => IInv
<1> SUFFICES ASSUME Init PROVE IInv
  OBVIOUS
<1> USE LoadRunAssumption DEF Init
<1>1. Cardinality(Workers) \in Nat /\ Posting = {} /\ Cardinality({}) = 0
  BY WorkersCounted, FS_EmptySet DEF Posting
<1>2. TypeOK
  <2>1. /\ queue \in Seq(Requests \cup {Sentinel}) /\ Len(queue) = 0
        /\ results \in Seq(RequestResult)
    BY EmptySeq
  <2>2. /\ worker \in [Workers -> {"get", "post", "returned", "died"}]
        /\ held \in [Workers -> Requests \cup {Sentinel}]
    OBVIOUS
  <2>3. Len(queue) <= Capacity /\ unfinished \in 0..(Len(queue) + Cardinality(Workers))
    BY <1>1, <2>1 DEF Capacity
  <2>4. scheduled \in 0..RequestCount /\ faults \in 0..MaxFaults
    OBVIOUS
  <2>5. runner \in {"schedule", "join", "gather", "reported", "raised"} /\ passed \in BOOLEAN
    OBVIOUS
  <2> QED
    BY ONLY <2>1, <2>2, <2>3, <2>4, <2>5 DEF TypeOK
<1>3. RunningInv /\ StoppingInv
  BY <1>1 DEF RunningInv, StoppingInv, Running
<1>4. PlacedInv
  BY DEF PlacedInv, Holders, Taken, Running
<1>5. GateInv
  BY DEF GateInv, PassedIsEarned
<1> QED
  BY <1>2, <1>3, <1>4, <1>5 DEF IInv

\* A step that adds no result and decides nothing keeps what the gate decided.
LEMMA GateKept ==
    ASSUME GateInv, UNCHANGED <<results, passed>>,
           runner = "reported" => runner' = "reported"
    PROVE  GateInv'
  BY DEF GateInv, PassedIsEarned, ResultsOf

\* Schedule appends the next request to the tail of the schedule.
LEMMA ScheduleStep ==
    ASSUME IInv, Schedule
    PROVE  IInv'
<1> USE DEF IInv
<1>1. /\ Running /\ Running'
      /\ scheduled \in Nat /\ scheduled < RequestCount
      /\ scheduled' = scheduled + 1
      /\ RequestCount \in Nat
  BY LoadRunAssumption DEF Schedule, Running, RunningInv, TypeOK
<1>2. /\ queue \in Seq(Requests \cup {Sentinel})
      /\ Len(queue) \in Nat
      /\ queue' \in Seq(Requests \cup {Sentinel})
      /\ Len(queue') = Len(queue) + 1
      /\ \A i \in 1..Len(queue) : queue'[i] = queue[i]
      /\ queue'[Len(queue) + 1] = scheduled + 1
  <2>1. scheduled + 1 \in Requests \cup {Sentinel}
    BY <1>1 DEF Requests
  <2> QED
    BY <2>1, LenProperties, AppendProperties DEF TypeOK, Schedule
<1>3. /\ Posting' = Posting
      /\ Posting \subseteq Workers
      /\ Cardinality(Posting) \in Nat
      /\ Cardinality(Posting) <= Cardinality(Workers)
      /\ Cardinality(Workers) \in Nat
  BY WorkersCounted DEF Posting, Schedule
<1>4. TypeOK'
  <2>1. Len(queue') <= Capacity
    BY <1>2, <1>3 DEF Schedule, Capacity
  <2>2. unfinished' \in 0..(Len(queue') + Cardinality(Workers))
    BY <1>1, <1>2, <1>3 DEF RunningInv, Schedule
  <2> QED
    BY <1>1, <1>2, <2>1, <2>2 DEF TypeOK, Schedule
<1>5. RunningInv' /\ StoppingInv'
  <2>1. ASSUME NEW i \in 1..Len(queue')
        PROVE  queue'[i] = scheduled' - Len(queue') + i
    <3>1. CASE i = Len(queue) + 1
      BY <1>1, <1>2, <3>1
    <3>2. CASE i \in 1..Len(queue)
      BY <1>1, <1>2, <3>2 DEF RunningInv
    <3> QED
      BY <1>2, <3>1, <3>2
  <2>2. /\ Len(queue') <= scheduled'
        /\ unfinished' = Len(queue') + Cardinality(Posting')
    BY <1>1, <1>2, <1>3 DEF RunningInv, Schedule
  <2>3. runner' = "join" <=> scheduled' = RequestCount
    BY DEF Schedule
  <2>4. \A w \in Workers : worker'[w] # "returned"
    BY <1>1 DEF RunningInv, Schedule
  <2> QED
    BY ONLY <1>1, <2>1, <2>2, <2>3, <2>4 DEF RunningInv, StoppingInv
<1>6. PlacedInv'
  <2>1. Taken' = Taken /\ Holders' = Holders /\ UNCHANGED <<held, results>>
    BY <1>1, <1>2 DEF Taken, Holders, Schedule
  <2> QED
    BY <2>1 DEF PlacedInv
<1>7. GateInv'
  BY GateKept DEF Schedule
<1> QED
  BY <1>4, <1>5, <1>6, <1>7

\* When join returns nothing is queued or under way, so only sentinels are.
LEMMA StopStep ==
    ASSUME IInv, Stop
    PROVE  IInv'
<1> USE DEF IInv
<1>1. Running /\ ~Running' /\ runner = "join" /\ runner' = "gather"
  BY DEF Stop, Running
<1>2. /\ Posting \subseteq Workers
      /\ Cardinality(Posting) \in Nat
      /\ Cardinality(Posting) = 0 <=> Posting = {}
      /\ Cardinality(Workers) \in Nat
  BY WorkersCounted DEF Posting
<1>3. Len(queue) \in Nat
  BY LenProperties DEF TypeOK
<1>4. Len(queue) = 0 /\ Posting = {}
  BY <1>1, <1>2, <1>3 DEF RunningInv, Stop
<1>5. queue = << >>
  BY <1>4, EmptySeq DEF TypeOK
<1>6. /\ Sentinels \in Seq(Requests \cup {Sentinel})
      /\ Len(Sentinels) = Cardinality(Workers)
      /\ \A i \in 1..Len(Sentinels) : Sentinels[i] = Sentinel
  BY <1>2 DEF Sentinels
<1>7. queue' = Sentinels /\ unfinished' = Len(Sentinels)
  BY <1>5, <1>6, ConcatEmptySeq DEF Stop
<1>8. TypeOK'
  BY <1>1, <1>2, <1>6, <1>7 DEF TypeOK, Stop, Capacity
<1>9. RunningInv' /\ StoppingInv'
  BY <1>1, <1>4, <1>6, <1>7 DEF RunningInv, StoppingInv, Posting, Stop
<1>10. PlacedInv'
  <2>1. scheduled = RequestCount /\ RequestCount \in Nat
    BY <1>1, LoadRunAssumption DEF RunningInv
  <2>2. Taken' = Taken /\ Holders' = Holders /\ UNCHANGED <<held, results>>
    BY <1>1, <1>4, <2>1 DEF Taken, Holders, Stop
  <2> QED
    BY <2>2 DEF PlacedInv
<1>11. GateInv'
  BY <1>1, GateKept DEF Stop
<1> QED
  BY <1>8, <1>9, <1>10, <1>11

\* When gather raises, nothing but run_load's place changes.
LEMMA RaiseStep ==
    ASSUME IInv, Raise
    PROVE  IInv'
<1> USE DEF IInv
<1>1. ~Running /\ ~Running' /\ runner = "gather" /\ runner' = "raised"
  BY DEF Raise, Running
<1>2. TypeOK'
  BY <1>1 DEF TypeOK, Raise
<1>3. RunningInv' /\ StoppingInv'
  BY <1>1 DEF RunningInv, StoppingInv, Raise
<1>4. PlacedInv'
  BY <1>1 DEF PlacedInv, Raise, Taken, Holders
<1>5. GateInv'
  BY <1>1, GateKept DEF Raise
<1> QED
  BY <1>2, <1>3, <1>4, <1>5

\* What Get takes from the queue, and what is left of it.
LEMMA Took ==
    ASSUME IInv, NEW w \in Workers, Get(w)
    PROVE  /\ queue \in Seq(Requests \cup {Sentinel})
           /\ Len(queue) \in Nat \ {0}
           /\ queue' \in Seq(Requests \cup {Sentinel})
           /\ Len(queue') = Len(queue) - 1
           /\ \A i \in 1..Len(queue') : queue'[i] = queue[i + 1]
           /\ Head(queue) = queue[1]
           /\ Head(queue) \in Requests \cup {Sentinel}
<1>1. queue \in Seq(Requests \cup {Sentinel}) /\ queue # << >> /\ queue' = Tail(queue)
  BY DEF IInv, TypeOK, Get
<1>2. /\ Len(queue) \in Nat \ {0}
      /\ Head(queue) \in Requests \cup {Sentinel}
      /\ Tail(queue) \in Seq(Requests \cup {Sentinel})
      /\ Len(Tail(queue)) = Len(queue) - 1
      /\ \A i \in 1..Len(Tail(queue)) : Tail(queue)[i] = queue[i + 1]
  BY <1>1, EmptySeq, HeadTailProperties
<1>3. Head(queue) = queue[1]
  BY <1>1, <1>2
<1> QED
  BY <1>1, <1>2, <1>3

\* While run_load schedules or joins, a worker takes the next request of the
\* schedule: one more is taken and one more is posted.
LEMMA TakeStep ==
    ASSUME IInv, NEW w \in Workers, Get(w), Running
    PROVE  IInv'
<1> USE DEF IInv
<1> DEFINE r == Head(queue)
<1>1. /\ queue \in Seq(Requests \cup {Sentinel})
      /\ Len(queue) \in Nat \ {0}
      /\ queue' \in Seq(Requests \cup {Sentinel})
      /\ Len(queue') = Len(queue) - 1
      /\ \A i \in 1..Len(queue') : queue'[i] = queue[i + 1]
      /\ r = queue[1]
  BY Took
<1>2. /\ scheduled \in Nat /\ scheduled <= RequestCount /\ RequestCount \in Nat
      /\ Len(queue) <= scheduled
      /\ unfinished = Len(queue) + Cardinality(Posting)
      /\ \A i \in 1..Len(queue) : queue[i] = scheduled - Len(queue) + i
  BY LoadRunAssumption DEF RunningInv, TypeOK
<1>3. r = scheduled - Len(queue) + 1 /\ r \in Requests /\ r # Sentinel
  <2>1. r = scheduled - Len(queue) + 1
    BY <1>1, <1>2
  <2>2. r \in Requests
    BY <1>1, <1>2, <2>1 DEF Requests
  <2> QED
    BY <2>1, <2>2, LoadRunAssumption DEF Requests
<1> HIDE DEF r
<1>4. /\ worker' = [worker EXCEPT ![w] = "post"]
      /\ held' = [held EXCEPT ![w] = r]
      /\ worker[w] = "get"
      /\ worker \in [Workers -> {"get", "post", "returned", "died"}]
      /\ held \in [Workers -> Requests \cup {Sentinel}]
      /\ UNCHANGED <<runner, scheduled, unfinished, results, passed, faults>>
  BY <1>3 DEF Get, TypeOK, r
<1>5. /\ Posting' = Posting \cup {w}
      /\ Holders' = Holders \cup {w}
      /\ w \notin Posting /\ w \notin Holders
      /\ \A v \in Holders : held'[v] = held[v]
      /\ held'[w] = r
  BY <1>4 DEF Posting, Holders
<1>6. /\ Cardinality(Posting') = Cardinality(Posting) + 1
      /\ Cardinality(Posting) \in Nat
      /\ Cardinality(Posting') <= Cardinality(Workers)
      /\ Cardinality(Workers) \in Nat
  <2>1. Posting \subseteq Workers /\ Posting \cup {w} \subseteq Workers
    BY DEF Posting
  <2>2. IsFiniteSet(Posting)
    BY <2>1, WorkersCounted
  <2>3. Cardinality(Posting \cup {w}) = Cardinality(Posting) + 1
    BY <1>5, <2>2, FS_AddElement
  <2>4. /\ Cardinality(Posting) \in Nat
        /\ Cardinality(Posting \cup {w}) <= Cardinality(Workers)
        /\ Cardinality(Workers) \in Nat
    BY <2>1, WorkersCounted
  <2> QED
    BY <1>5, <2>3, <2>4
<1>7. Running' /\ Taken' = r /\ Taken = r - 1 /\ r \in Nat
  BY <1>1, <1>2, <1>3, <1>4 DEF Running, Taken, Requests
<1>8. TypeOK'
  <2>1. Len(queue') <= Capacity
    BY <1>1, <1>6 DEF TypeOK, Capacity
  <2>2. unfinished' \in 0..(Len(queue') + Cardinality(Workers))
    BY <1>1, <1>2, <1>4, <1>6
  <2>3. /\ worker' \in [Workers -> {"get", "post", "returned", "died"}]
        /\ held' \in [Workers -> Requests \cup {Sentinel}]
    BY <1>3, <1>4
  <2> QED
    BY <1>1, <1>4, <2>1, <2>2, <2>3 DEF TypeOK
<1>9. RunningInv' /\ StoppingInv'
  <2>1. ASSUME NEW i \in 1..Len(queue')
        PROVE  queue'[i] = scheduled' - Len(queue') + i
    <3>1. i + 1 \in 1..Len(queue)
      BY <1>1
    <3> QED
      BY <1>1, <1>2, <1>4, <3>1
  <2>2. /\ Len(queue') <= scheduled'
        /\ unfinished' = Len(queue') + Cardinality(Posting')
    <3>1. UNCHANGED <<scheduled, unfinished>>
      BY <1>4
    <3>2. /\ Len(queue) \in Nat /\ Len(queue') = Len(queue) - 1
          /\ Len(queue) <= scheduled /\ scheduled \in Nat
          /\ unfinished = Len(queue) + Cardinality(Posting)
          /\ Cardinality(Posting') = Cardinality(Posting) + 1
          /\ Cardinality(Posting) \in Nat
      BY <1>1, <1>2, <1>6
    <3> QED
      BY ONLY <3>1, <3>2
  <2>3. runner' = "join" <=> scheduled' = RequestCount
    BY <1>4 DEF RunningInv
  <2>4. \A v \in Workers : worker'[v] # "returned"
    BY <1>4 DEF RunningInv
  <2> QED
    BY ONLY <1>7, <2>1, <2>2, <2>3, <2>4 DEF RunningInv, StoppingInv
<1>10. PlacedInv'
  <2>1. \A v \in Holders : held[v] \in 1..(r - 1)
    BY <1>7 DEF PlacedInv
  <2>2. \A i \in DOMAIN results : results[i].request \in 1..(r - 1)
    BY <1>7 DEF PlacedInv
  <2>3. /\ \A v \in Holders' : held'[v] \in 1..Taken'
        /\ \A i \in DOMAIN results' : results'[i].request \in 1..Taken'
    BY <1>3, <1>4, <1>5, <1>7, <2>1, <2>2 DEF Requests
  <2>4. \A q \in 1..Taken' : \/ \E v \in Holders' : held'[v] = q
                             \/ \E i \in DOMAIN results' : results'[i].request = q
    <3>1. \A q \in 1..(r - 1) : \/ \E v \in Holders : held[v] = q
                                \/ \E i \in DOMAIN results : results[i].request = q
      BY <1>7 DEF PlacedInv
    <3>2. \A q \in 1..r : q = r \/ q \in 1..(r - 1)
      BY <1>7
    <3> QED
      BY <1>4, <1>5, <1>7, <3>1, <3>2
  <2>5. r \notin 1..(r - 1)
    BY <1>7
  <2>6. \A u, v \in Holders' : held'[u] = held'[v] => u = v
    BY <1>5, <2>1, <2>5 DEF PlacedInv
  <2>7. \A v \in Holders', i \in DOMAIN results' : results'[i].request # held'[v]
    BY <1>4, <1>5, <2>2, <2>5 DEF PlacedInv
  <2>8. \A i, j \in DOMAIN results' :
            results'[i].request = results'[j].request => i = j
    BY <1>4 DEF PlacedInv
  <2> QED
    BY ONLY <2>3, <2>4, <2>6, <2>7, <2>8 DEF PlacedInv
<1>11. GateInv'
  BY <1>4, GateKept
<1> QED
  BY <1>8, <1>9, <1>10, <1>11

\* After join a worker takes a sentinel and returns.
LEMMA LeaveStep ==
    ASSUME IInv, NEW w \in Workers, Get(w), ~Running
    PROVE  IInv'
<1> USE DEF IInv
<1>1. /\ queue \in Seq(Requests \cup {Sentinel})
      /\ Len(queue) \in Nat \ {0}
      /\ queue' \in Seq(Requests \cup {Sentinel})
      /\ Len(queue') = Len(queue) - 1
      /\ \A i \in 1..Len(queue') : queue'[i] = queue[i + 1]
      /\ Head(queue) = queue[1]
  BY Took
<1>2. Head(queue) = Sentinel /\ unfinished = Len(queue)
  BY <1>1 DEF StoppingInv
<1>3. /\ worker' = [worker EXCEPT ![w] = "returned"]
      /\ held' = [held EXCEPT ![w] = Sentinel]
      /\ unfinished' = unfinished - 1
      /\ worker[w] = "get"
      /\ worker \in [Workers -> {"get", "post", "returned", "died"}]
      /\ held \in [Workers -> Requests \cup {Sentinel}]
      /\ UNCHANGED <<runner, scheduled, results, passed, faults>>
  BY <1>2 DEF Get, TypeOK
<1>4. Cardinality(Workers) \in Nat
  BY WorkersCounted
<1>5. ~Running' /\ runner # "reported"
  BY <1>3 DEF Running, StoppingInv
<1>6. TypeOK'
  <2>1. Len(queue') <= Capacity
    BY <1>1, <1>4 DEF TypeOK, Capacity
  <2>2. unfinished' \in 0..(Len(queue') + Cardinality(Workers))
    BY <1>1, <1>2, <1>3, <1>4
  <2>3. /\ worker' \in [Workers -> {"get", "post", "returned", "died"}]
        /\ held' \in [Workers -> Requests \cup {Sentinel}]
    BY <1>3
  <2> QED
    BY <1>1, <1>3, <2>1, <2>2, <2>3 DEF TypeOK
<1>7. RunningInv' /\ StoppingInv'
  <2>1. ASSUME NEW i \in 1..Len(queue')
        PROVE  queue'[i] = Sentinel
    <3>1. i + 1 \in 1..Len(queue)
      BY <1>1
    <3> QED
      BY <1>1, <3>1 DEF StoppingInv
  <2>2. \A v \in Workers : worker'[v] # "post"
    BY <1>3 DEF StoppingInv
  <2> QED
    BY <1>1, <1>2, <1>3, <1>5, <2>1, <2>2 DEF RunningInv, StoppingInv
<1>8. PlacedInv'
  <2>1. /\ Holders' = Holders /\ Taken' = Taken
        /\ \A v \in Holders : held'[v] = held[v]
    BY <1>3, <1>5 DEF Holders, Taken
  <2> QED
    BY <1>3, <2>1 DEF PlacedInv
<1>9. GateInv'
  BY <1>3, GateKept
<1> QED
  BY <1>6, <1>7, <1>8, <1>9

\* A worker that answers or dies was posting: run_load still schedules or joins,
\* and nothing has passed.
LEMMA PostingRuns ==
    ASSUME IInv, NEW w \in Workers, worker[w] = "post"
    PROVE  /\ Running /\ ~passed
           /\ w \in Posting /\ w \in Holders
           /\ held[w] \in Requests
           /\ unfinished = Len(queue) + Cardinality(Posting)
           /\ Len(queue) \in Nat
           /\ Cardinality(Posting) \in Nat
           /\ Cardinality(Posting \ {w}) = Cardinality(Posting) - 1
           /\ Cardinality(Workers) \in Nat
           /\ Cardinality(Posting) <= Cardinality(Workers)
<1> USE DEF IInv
<1>1. Running
  BY DEF StoppingInv
<1>2. ~passed
  BY <1>1 DEF GateInv, Running
<1>3. w \in Posting /\ w \in Holders /\ Posting \subseteq Workers
  BY DEF Posting, Holders
<1>4. held[w] \in Requests
  <2>1. Len(queue) \in Nat
    BY LenProperties DEF TypeOK
  <2>2. Taken \in 0..RequestCount
    BY <1>1, <2>1, LoadRunAssumption DEF Taken, RunningInv, TypeOK
  <2>3. held[w] \in 1..Taken
    BY <1>3 DEF PlacedInv
  <2> QED
    BY <2>2, <2>3, LoadRunAssumption DEF Requests
<1>5. Len(queue) \in Nat
  BY LenProperties DEF TypeOK
<1>6. /\ IsFiniteSet(Posting)
      /\ Cardinality(Posting) \in Nat
      /\ Cardinality(Workers) \in Nat
      /\ Cardinality(Posting) <= Cardinality(Workers)
  BY <1>3, WorkersCounted
<1>7. Cardinality(Posting \ {w}) = Cardinality(Posting) - 1
  BY <1>3, <1>6, FS_RemoveElement
<1>8. unfinished = Len(queue) + Cardinality(Posting)
  BY <1>1 DEF RunningInv
<1> QED
  BY <1>1, <1>2, <1>3, <1>4, <1>5, <1>6, <1>7, <1>8

\* A worker that stops posting leaves the counts of join right.
LEMMA DoneCounts ==
    ASSUME IInv, NEW w \in Workers, worker[w] = "post",
           NEW state \in {"get", "died"},
           worker' = [worker EXCEPT ![w] = state],
           unfinished' = unfinished - 1,
           UNCHANGED <<runner, scheduled, queue>>
    PROVE  /\ RunningInv' /\ StoppingInv'
           /\ unfinished' \in 0..(Len(queue') + Cardinality(Workers))
<1> USE DEF IInv
<1>1. /\ Running /\ Running'
      /\ unfinished = Len(queue) + Cardinality(Posting)
      /\ Len(queue) \in Nat
      /\ Cardinality(Posting) \in Nat
      /\ Cardinality(Posting \ {w}) = Cardinality(Posting) - 1
      /\ Cardinality(Workers) \in Nat
      /\ Cardinality(Posting) <= Cardinality(Workers)
      /\ w \in Posting
  BY PostingRuns DEF Running
<1>2. Posting' = Posting \ {w}
  BY DEF Posting, TypeOK
<1>3. unfinished' = Len(queue') + Cardinality(Posting')
  BY <1>1, <1>2
<1>4. Cardinality(Posting \ {w}) \in Nat
  <2>1. Posting \ {w} \subseteq Workers
    BY DEF Posting
  <2> QED
    BY <2>1, WorkersCounted
<1>5. unfinished' \in 0..(Len(queue') + Cardinality(Workers))
  BY <1>1, <1>4
<1>6. \A v \in Workers : worker'[v] # "returned"
  BY <1>1 DEF RunningInv, TypeOK
<1>7. RunningInv' /\ StoppingInv'
  BY <1>1, <1>3, <1>6 DEF RunningInv, StoppingInv
<1> QED
  BY <1>5, <1>7

\* Respond moves a request from its worker to the results.
LEMMA RespondStep ==
    ASSUME IInv, NEW w \in Workers, Respond(w)
    PROVE  IInv'
<1> USE DEF IInv
<1>1. /\ worker[w] = "post"
      /\ worker' = [worker EXCEPT ![w] = "get"]
      /\ unfinished' = unfinished - 1
      /\ worker \in [Workers -> {"get", "post", "returned", "died"}]
      /\ UNCHANGED <<runner, scheduled, queue, held, passed, faults>>
  BY DEF Respond, TypeOK
<1>2. Running /\ ~passed /\ w \in Holders /\ held[w] \in Requests
  BY <1>1, PostingRuns
<1> DEFINE n == Len(results)
<1>3. /\ n \in Nat /\ DOMAIN results = 1..n
      /\ results' \in Seq(RequestResult)
      /\ DOMAIN results' = 1..(n + 1)
      /\ \A i \in 1..n : results'[i] = results[i]
      /\ results'[n + 1].request = held[w]
  <2>1. PICK e \in RequestResult : results' = Append(results, e) /\ e.request = held[w]
    BY <1>2 DEF Respond, RequestResult
  <2> QED
    BY <2>1, LenProperties, AppendProperties DEF TypeOK
<1> HIDE DEF n
<1>4. /\ Holders' = Holders \ {w}
      /\ Taken' = Taken
      /\ held' = held
  BY <1>1, <1>2 DEF Holders, Taken, Running
<1>5. RunningInv' /\ StoppingInv' /\ unfinished' \in 0..(Len(queue') + Cardinality(Workers))
  BY <1>1, DoneCounts
<1>6. TypeOK'
  <2>1. worker' \in [Workers -> {"get", "post", "returned", "died"}]
    BY <1>1
  <2> QED
    BY <1>1, <1>3, <1>5, <2>1 DEF TypeOK
<1>7. PlacedInv'
  <2>1. \A i \in 1..(n + 1) : i \in 1..n \/ i = n + 1
    BY <1>3
  <2>2. /\ \A v \in Holders' : held'[v] \in 1..Taken'
        /\ \A i \in DOMAIN results' : results'[i].request \in 1..Taken'
    BY <1>2, <1>3, <1>4, <2>1 DEF PlacedInv
  <2>3. \A r \in 1..Taken' : \/ \E v \in Holders' : held'[v] = r
                             \/ \E i \in DOMAIN results' : results'[i].request = r
    <3>1. SUFFICES ASSUME NEW r \in 1..Taken
                   PROVE  \/ \E v \in Holders' : held'[v] = r
                          \/ \E i \in DOMAIN results' : results'[i].request = r
      BY <1>4
    <3>2. CASE r = held[w]
      BY <1>3, <3>2
    <3>3. CASE \E i \in DOMAIN results : results[i].request = r
      BY <1>3, <3>3
    <3>4. CASE r # held[w] /\ \E v \in Holders : held[v] = r
      BY <1>4, <3>4
    <3> QED
      BY <3>1, <3>2, <3>3, <3>4 DEF PlacedInv
  <2>4. \A u, v \in Holders' : held'[u] = held'[v] => u = v
    BY <1>4 DEF PlacedInv
  <2>5. \A v \in Holders', i \in DOMAIN results' : results'[i].request # held'[v]
    BY <1>2, <1>3, <1>4, <2>1 DEF PlacedInv
  <2>6. \A i, j \in DOMAIN results' :
            results'[i].request = results'[j].request => i = j
    BY <1>2, <1>3, <2>1 DEF PlacedInv
  <2> QED
    BY ONLY <2>2, <2>3, <2>4, <2>5, <2>6 DEF PlacedInv
<1>8. GateInv'
  BY <1>1, <1>2 DEF GateInv, PassedIsEarned
<1> QED
  BY <1>5, <1>6, <1>7, <1>8

\* Escape leaves a request with its dead worker for ever.
LEMMA EscapeStep ==
    ASSUME IInv, NEW w \in Workers, Escape(w)
    PROVE  IInv'
<1> USE DEF IInv
<1>1. /\ worker[w] = "post"
      /\ worker' = [worker EXCEPT ![w] = "died"]
      /\ unfinished' = unfinished - 1
      /\ worker \in [Workers -> {"get", "post", "returned", "died"}]
      /\ faults < MaxFaults /\ faults' = faults + 1
      /\ UNCHANGED <<runner, scheduled, queue, held, results, passed>>
  BY DEF Escape, TypeOK
<1>2. RunningInv' /\ StoppingInv' /\ unfinished' \in 0..(Len(queue') + Cardinality(Workers))
  BY <1>1, DoneCounts
<1>3. TypeOK'
  <2>1. worker' \in [Workers -> {"get", "post", "returned", "died"}]
    BY <1>1
  <2>2. faults' \in 0..MaxFaults
    BY <1>1, LoadRunAssumption DEF TypeOK
  <2> QED
    BY <1>1, <1>2, <2>1, <2>2 DEF TypeOK
<1>4. PlacedInv'
  <2>1. Holders' = Holders /\ Taken' = Taken
    BY <1>1 DEF Holders, Taken, Running
  <2> QED
    BY <1>1, <2>1 DEF PlacedInv
<1>5. GateInv'
  BY <1>1, GateKept
<1> QED
  BY <1>2, <1>3, <1>4, <1>5

\* Once nothing is scheduled and nobody posts, a request is lost with one dead
\* worker or has one result.
LEMMA Settled ==
    ASSUME IInv, ~Running, NEW r \in Requests
    PROVE  IF \E w \in Died : held[w] = r THEN ResultsOf(r) = {}
           ELSE \E i \in DOMAIN results : ResultsOf(r) = {i}
<1>1. r \in 1..Taken
  BY DEF Taken, Requests
<1>2. Holders = Died
  BY DEF IInv, StoppingInv, Holders, Died
<1>3. CASE \E w \in Died : held[w] = r
  BY <1>2, <1>3 DEF IInv, PlacedInv, ResultsOf
<1>4. CASE ~\E w \in Died : held[w] = r
  <2>1. PICK i \in DOMAIN results : results[i].request = r
    BY <1>1, <1>2, <1>4 DEF IInv, PlacedInv
  <2>2. ResultsOf(r) = {i}
    BY <2>1 DEF IInv, PlacedInv, ResultsOf
  <2> QED
    BY <1>4, <2>2
<1> QED
  BY <1>3, <1>4

\* What the checks of the report count is what happened to the requests: the
\* results are as many as the requests, and each is of another request.
LEMMA ReportEarned ==
    ASSUME IInv, Report, passed'
    PROVE  PassedIsEarned'
<1> USE DEF IInv
<1>1. /\ ~Running /\ Died = {} /\ UNCHANGED results
      /\ RequestCount \in Nat \ {0} /\ MaxErrorPercent \in Nat
      /\ Requests = 1..RequestCount
  BY LoadRunAssumption DEF Report, Running, Died, Requests
<1>2. /\ Len(results) = RequestCount
      /\ 100 * Failed <= MaxErrorPercent * RequestCount
      /\ NearestRank(95, RequestCount) <= RequestCount - Slow
  BY DEF Report, Checks
<1>3. /\ DOMAIN results = 1..RequestCount
      /\ \A i \in DOMAIN results : results[i] \in RequestResult
      /\ IsFiniteSet(DOMAIN results)
  BY <1>1, <1>2, LenProperties, ElementOfSeq, FS_Interval DEF TypeOK
<1>4. \A r \in Requests : \E i \in DOMAIN results : ResultsOf(r) = {i}
  BY <1>1, Settled
<1> DEFINE f == [i \in DOMAIN results |-> results[i].request]
           failing == {i \in DOMAIN results :
                         results[i] \in [request : Requests, success : {FALSE},
                                         slow : BOOLEAN]}
           slowing == {i \in DOMAIN results :
                         results[i] \in [request : Requests, success : BOOLEAN,
                                         slow : {TRUE}]}
           succeeded == {r \in Requests : \E i \in ResultsOf(r) : results[i].success}
           fast == {r \in Requests : \E i \in ResultsOf(r) : ~results[i].slow}
<1>5. IsFiniteSet(failing) /\ IsFiniteSet(slowing)
  BY <1>3, FS_Subset
<1>6. Covers(f, failing, (1..RequestCount) \ succeeded)
  <2>1. SUFFICES ASSUME NEW r \in Requests, r \notin succeeded
                 PROVE  \E i \in failing : f[i] = r
    BY <1>1 DEF Covers
  <2>2. PICK i \in DOMAIN results : ResultsOf(r) = {i}
    BY <1>4
  <2>3. results[i].request = r /\ i \in ResultsOf(r)
    BY <2>2 DEF ResultsOf
  <2>4. results[i].success = FALSE
    BY <1>3, <2>1, <2>3 DEF RequestResult
  <2>5. i \in failing
    BY <1>3, <2>4 DEF RequestResult
  <2> QED
    BY <2>3, <2>5
<1>7. Covers(f, slowing, (1..RequestCount) \ fast)
  <2>1. SUFFICES ASSUME NEW r \in Requests, r \notin fast
                 PROVE  \E i \in slowing : f[i] = r
    BY <1>1 DEF Covers
  <2>2. PICK i \in DOMAIN results : ResultsOf(r) = {i}
    BY <1>4
  <2>3. results[i].request = r /\ i \in ResultsOf(r)
    BY <2>2 DEF ResultsOf
  <2>4. results[i].slow = TRUE
    BY <1>3, <2>1, <2>3 DEF RequestResult
  <2>5. i \in slowing
    BY <1>3, <2>4 DEF RequestResult
  <2> QED
    BY <2>3, <2>5
<1>8. Failed = Cardinality(failing) /\ Slow = Cardinality(slowing)
  BY DEF Failed, Slow, CountOf
<1>9. succeeded \subseteq 1..RequestCount /\ fast \subseteq 1..RequestCount
  BY <1>1
<1>10. (PassedIsEarned)' <=>
          (/\ 100 * (RequestCount - Cardinality(succeeded)) <= MaxErrorPercent * RequestCount
           /\ 20 * (RequestCount - Cardinality(fast)) <= RequestCount)
  BY <1>1 DEF PassedIsEarned, ResultsOf
<1> HIDE DEF f, failing, slowing, succeeded, fast
<1>11. /\ Cardinality(succeeded) \in Nat /\ Cardinality(failing) \in Nat
       /\ RequestCount - Cardinality(succeeded) <= Cardinality(failing)
  BY <1>1, <1>5, <1>6, <1>9, BadCoverTheRest
<1>12. /\ Cardinality(fast) \in Nat /\ Cardinality(slowing) \in Nat
       /\ RequestCount - Cardinality(fast) <= Cardinality(slowing)
  BY <1>1, <1>5, <1>7, <1>9, BadCoverTheRest
<1>13. 100 * (RequestCount - Cardinality(succeeded)) <= MaxErrorPercent * RequestCount
  <2> DEFINE limit == MaxErrorPercent * RequestCount
  <2>1. 100 * Cardinality(failing) <= limit /\ limit \in Nat
    BY <1>1, <1>2, <1>8
  <2> HIDE DEF limit
  <2>2. 100 * (RequestCount - Cardinality(succeeded)) <= limit
    BY <1>1, <1>11, <2>1
  <2> QED
    BY <2>2 DEF limit
<1>14. 20 * Cardinality(slowing) <= RequestCount
  BY <1>1, <1>2, <1>8, <1>12, RankBoundsSlow
<1>15. 20 * (RequestCount - Cardinality(fast)) <= RequestCount
  BY <1>1, <1>12, <1>14
<1> QED
  BY <1>10, <1>13, <1>15

\* The report is made when every worker has returned.
LEMMA ReportStep ==
    ASSUME IInv, Report
    PROVE  IInv'
<1> USE DEF IInv
<1>1. /\ ~Running /\ ~Running' /\ runner' = "reported"
      /\ \A w \in Workers : worker[w] = "returned"
      /\ UNCHANGED <<scheduled, queue, unfinished, worker, held, results, faults>>
  BY DEF Report, Running
<1>2. passed' \in BOOLEAN
  BY DEF Report, Checks
<1>3. TypeOK'
  BY <1>1, <1>2 DEF TypeOK
<1>4. RunningInv' /\ StoppingInv'
  BY <1>1 DEF RunningInv, StoppingInv
<1>5. PlacedInv'
  BY <1>1 DEF PlacedInv, Taken, Holders
<1>6. GateInv'
  <2>1. CASE passed'
    BY <1>1, <2>1, ReportEarned DEF GateInv
  <2>2. CASE ~passed'
    BY <2>2 DEF GateInv, PassedIsEarned
  <2> QED
    BY <2>1, <2>2
<1> QED
  BY <1>3, <1>4, <1>5, <1>6

\* Every step keeps the invariant.
LEMMA NextInv == IInv /\ [Next]_vars => IInv'
<1> SUFFICES ASSUME IInv, [Next]_vars PROVE IInv'
  OBVIOUS
<1>1. CASE Schedule
  BY <1>1, ScheduleStep
<1>2. CASE Stop
  BY <1>2, StopStep
<1>3. CASE Report
  BY <1>3, ReportStep
<1>4. CASE Raise
  BY <1>4, RaiseStep
<1>5. CASE \E w \in Workers : Get(w)
  BY <1>5, TakeStep, LeaveStep
<1>6. CASE \E w \in Workers : Respond(w)
  BY <1>6, RespondStep
<1>7. CASE \E w \in Workers : Escape(w)
  BY <1>7, EscapeStep
<1>8. CASE UNCHANGED vars
  <2>1. UNCHANGED <<Running, Holders, Taken, Posting>>
    BY <1>8 DEF vars, Running, Holders, Taken, Posting
  <2>2. TypeOK' /\ RunningInv' /\ StoppingInv' /\ PlacedInv'
    BY <1>8, <2>1 DEF IInv, vars, TypeOK, RunningInv, StoppingInv, PlacedInv
  <2>3. GateInv'
    BY <1>8, GateKept DEF IInv, vars
  <2> QED
    BY <2>2, <2>3 DEF IInv
<1> QED
  BY <1>1, <1>2, <1>3, <1>4, <1>5, <1>6, <1>7, <1>8 DEF Next

\* The invariant holds in every state of every run of the load generator.
LEMMA Invariance == Spec => []IInv
  BY InitInv, NextInv, PTL DEF Spec

(***************************************************************************)
(* Theorems                                                                *)
(***************************************************************************)

\* The queue, its counter of unfinished tasks, the workers and the results have
\* their types: the queue never outgrows its bound, and task_done is never
\* called more often than put.
THEOREM TypeCorrect == Spec => []TypeOK
<1>1. IInv => TypeOK
  BY DEF IInv
<1> QED
  BY <1>1, Invariance, PTL

\* worker and run_load: when join has returned, every planned request has exactly
\* one result or was lost with the worker task that had it, and none is under way.
THEOREM EveryRequestAccounted == Spec => []AnsweredOrLost
<1>1. IInv => AnsweredOrLost
  <2>1. SUFFICES ASSUME IInv, ~Running PROVE AnsweredOrLost
    BY DEF AnsweredOrLost, Running
  <2>2. \A r \in Requests :
            IF \E w \in Died : held[w] = r THEN ResultsOf(r) = {}
            ELSE Cardinality(ResultsOf(r)) = 1
    BY <2>1, Settled, FS_Singleton
  <2>3. \A w \in Workers : worker[w] # "post"
    BY <2>1 DEF IInv, StoppingInv
  <2> QED
    BY <2>2, <2>3 DEF AnsweredOrLost
<1> QED
  BY <1>1, Invariance, PTL

\* run_load and build_report: a report exists only when no worker died and every
\* planned request has exactly one result.
THEOREM ReportsAreComplete == Spec => []ReportIsComplete
<1>1. IInv => ReportIsComplete
  <2>1. SUFFICES ASSUME IInv, runner = "reported"
                 PROVE  Died = {} /\ \A r \in Requests : Cardinality(ResultsOf(r)) = 1
    BY DEF ReportIsComplete
  <2>2. ~Running /\ Died = {}
    BY <2>1 DEF IInv, StoppingInv, Running, Died
  <2>3. \A r \in Requests : Cardinality(ResultsOf(r)) = 1
    BY <2>1, <2>2, Settled, FS_Singleton
  <2> QED
    BY <2>2, <2>3
<1> QED
  BY <1>1, Invariance, PTL

\* build_report and percentile: a passed gate means that of the planned requests
\* enough succeeded and at most one in twenty was over the p95 limit, though the
\* checks count results and pick a rank.
THEOREM PassIsEarned == Spec => []PassedIsEarned
<1>1. IInv => PassedIsEarned
  BY DEF IInv, GateInv
<1> QED
  BY <1>1, Invariance, PTL
=================================================================================
