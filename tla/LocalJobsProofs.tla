---------------------------- MODULE LocalJobsProofs ----------------------------
(***************************************************************************)
(* Theorems about LocalJobs for every finite set of jobs and threads, any  *)
(* set of shutdowns and every value of the two bounds that WorkerSettings  *)
(* accepts.                                                                *)
(***************************************************************************)
EXTENDS LocalJobs, FiniteSetTheorems, SequenceTheorems, WellFoundedInduction, TLAPS

(***************************************************************************)
(* Sequences without repetitions, as sets.                                 *)
(***************************************************************************)

\* A sequence without repetitions is as long as the set of its elements.
LEMMA ElementsCounted ==
    ASSUME NEW S, NEW s \in Seq(S), IsInjective(s)
    PROVE  IsFiniteSet(ToSet(s)) /\ Cardinality(ToSet(s)) = Len(s)
<1>1. /\ Len(s) \in Nat
      /\ DOMAIN s = 1..Len(s)
      /\ s \in [1..Len(s) -> ToSet(s)]
  BY LenProperties DEF ToSet
<1>2. s \in Bijection(1..Len(s), ToSet(s))
  BY <1>1 DEF Bijection, Injection, Surjection, IsInjective, ToSet
<1>3. ExistsBijection(1..Len(s), ToSet(s))
  BY <1>2 DEF ExistsBijection
<1> QED
  BY <1>1, <1>3, FS_CountingElements, FS_NatBijection

\* Append adds its element, Tail and RemoveAt drop one: no other is lost.
LEMMA AppendedSet ==
    ASSUME NEW S, NEW s \in Seq(S), NEW e \in S
    PROVE  /\ Append(s, e) \in Seq(S)
           /\ Len(Append(s, e)) = Len(s) + 1
           /\ ToSet(Append(s, e)) = ToSet(s) \cup {e}
           /\ IsInjective(s) /\ e \notin ToSet(s) => IsInjective(Append(s, e))
<1> DEFINE t == Append(s, e)
<1>1. /\ Len(s) \in Nat /\ DOMAIN s = 1..Len(s)
      /\ t \in Seq(S) /\ Len(t) = Len(s) + 1 /\ DOMAIN t = 1..(Len(s) + 1)
      /\ \A i \in 1..Len(s) : t[i] = s[i]
      /\ t[Len(s) + 1] = e
  BY LenProperties, AppendProperties
<1> HIDE DEF t
<1>2. ToSet(t) = ToSet(s) \cup {e}
  BY <1>1 DEF ToSet
<1>3. IsInjective(s) /\ e \notin ToSet(s) => IsInjective(t)
  BY <1>1 DEF ToSet, IsInjective
<1> QED
  BY <1>1, <1>2, <1>3 DEF t

\* A sequence that leaves out one place has all the other elements.
LEMMA SkippedSet ==
    ASSUME NEW S, NEW s \in Seq(S), NEW t \in Seq(S), IsInjective(s),
           NEW i \in 1..Len(s),
           Len(t) = Len(s) - 1,
           \A k \in 1..Len(t) : t[k] = IF k < i THEN s[k] ELSE s[k + 1]
    PROVE  ToSet(t) = ToSet(s) \ {s[i]} /\ IsInjective(t)
<1> DEFINE n == Len(s)
           m == Len(t)
<1>1. /\ n \in Nat /\ DOMAIN s = 1..n /\ i \in Nat /\ 1 <= i /\ i <= n
      /\ m = n - 1 /\ DOMAIN t = 1..m /\ m \in Nat
  BY LenProperties
<1>2. \A p, q \in 1..n : s[p] = s[q] => p = q
  BY <1>1 DEF IsInjective
<1>3. \A k \in 1..m : t[k] = IF k < i THEN s[k] ELSE s[k + 1]
  OBVIOUS
<1>4. ToSet(s) = {s[k] : k \in 1..n} /\ ToSet(t) = {t[k] : k \in 1..m}
  BY <1>1 DEF ToSet
<1> HIDE DEF n, m
<1>5. \A p, q \in 1..m : t[p] = t[q] => p = q
  BY <1>1, <1>2, <1>3
<1>6. ASSUME NEW k \in 1..m PROVE t[k] \in {s[p] : p \in 1..n} /\ t[k] # s[i]
  BY <1>1, <1>2, <1>3
<1>7. ASSUME NEW k \in 1..n, k # i PROVE s[k] \in {t[p] : p \in 1..m}
  <2>1. CASE k < i
    <3>1. k \in 1..m /\ t[k] = s[k]
      BY <1>1, <1>3, <2>1
    <3> QED
      BY <3>1
  <2>2. CASE k > i
    <3>1. k - 1 \in 1..m /\ t[k - 1] = s[k]
      BY <1>1, <1>3, <2>2
    <3> QED
      BY <3>1
  <2> QED
    BY <1>1, <1>7, <2>1, <2>2
<1>8. {t[p] : p \in 1..m} = {s[p] : p \in 1..n} \ {s[i]}
  BY <1>6, <1>7
<1> QED
  BY <1>1, <1>4, <1>5, <1>8 DEF IsInjective

LEMMA RemovedSet ==
    ASSUME NEW S, NEW s \in Seq(S), IsInjective(s), NEW i \in 1..Len(s)
    PROVE  /\ RemoveAt(s, i) \in Seq(S)
           /\ Len(RemoveAt(s, i)) = Len(s) - 1
           /\ ToSet(RemoveAt(s, i)) = ToSet(s) \ {s[i]}
           /\ IsInjective(RemoveAt(s, i))
<1> DEFINE a == SubSeq(s, 1, i - 1)
           b == SubSeq(s, i + 1, Len(s))
           t == RemoveAt(s, i)
<1>1. /\ Len(s) \in Nat
      /\ \A k \in 1..Len(s) : s[k] \in S
      /\ i \in Nat /\ 1 <= i /\ i <= Len(s)
  BY LenProperties, ElementOfSeq
<1>2. /\ a \in Seq(S) /\ Len(a) = i - 1
      /\ \A k \in 1..(i - 1) : a[k] = s[k]
  <2>1. \A k \in 1..(i - 1) : s[k] \in S
    BY <1>1
  <2>2. /\ a \in Seq(S)
        /\ Len(a) = IF 1 <= i - 1 THEN (i - 1) - 1 + 1 ELSE 0
        /\ \A k \in 1..((i - 1) - 1 + 1) : a[k] = s[1 + k - 1]
    BY <1>1, <2>1, SubSeqProperties
  <2> HIDE DEF a
  <2> QED
    BY <1>1, <2>2
<1>3. /\ b \in Seq(S) /\ Len(b) = Len(s) - i
      /\ \A k \in 1..(Len(s) - i) : b[k] = s[k + i]
  <2>1. \A k \in (i + 1)..Len(s) : s[k] \in S
    BY <1>1
  <2>2. /\ b \in Seq(S)
        /\ Len(b) = IF i + 1 <= Len(s) THEN Len(s) - (i + 1) + 1 ELSE 0
        /\ \A k \in 1..(Len(s) - (i + 1) + 1) : b[k] = s[(i + 1) + k - 1]
    BY <1>1, <2>1, SubSeqProperties
  <2> HIDE DEF b
  <2>3. Len(b) = Len(s) - i
    BY <1>1, <2>2
  <2>4. ASSUME NEW k \in 1..(Len(s) - i) PROVE b[k] = s[k + i]
    <3>1. k \in 1..(Len(s) - (i + 1) + 1) /\ (i + 1) + k - 1 = k + i
      BY <1>1
    <3> QED
      BY <2>2, <3>1
  <2> QED
    BY <2>2, <2>3, <2>4
<1>4. t = a \o b
  BY DEF RemoveAt
<1> HIDE DEF a, b, t
<1>5. /\ t \in Seq(S) /\ Len(t) = Len(a) + Len(b)
      /\ \A k \in 1..(Len(a) + Len(b)) :
            t[k] = IF k <= Len(a) THEN a[k] ELSE b[k - Len(a)]
  BY <1>2, <1>3, <1>4, ConcatProperties
<1>6. Len(t) = Len(s) - 1
  BY <1>1, <1>2, <1>3, <1>5
<1>7. ASSUME NEW k \in 1..Len(t)
      PROVE  t[k] = IF k < i THEN s[k] ELSE s[k + 1]
  <2>1. t[k] = IF k <= i - 1 THEN a[k] ELSE b[k - (i - 1)]
    BY <1>1, <1>2, <1>3, <1>5, <1>6
  <2>2. CASE k < i
    BY <1>1, <1>2, <2>1, <2>2
  <2>3. CASE k >= i
    <3>1. k - (i - 1) \in 1..(Len(s) - i) /\ (k - (i - 1)) + i = k + 1
      BY <1>1, <1>6, <2>3
    <3>2. b[k - (i - 1)] = s[k + 1]
      BY <1>3, <3>1
    <3> QED
      BY <1>1, <1>6, <2>1, <2>3, <3>2
  <2> QED
    BY <1>1, <1>6, <2>2, <2>3
<1>8. ToSet(t) = ToSet(s) \ {s[i]} /\ IsInjective(t)
  BY <1>5, <1>6, <1>7, SkippedSet
<1> QED
  BY <1>5, <1>6, <1>8 DEF t

LEMMA TailSet ==
    ASSUME NEW S, NEW s \in Seq(S), IsInjective(s), s # << >>
    PROVE  /\ Head(s) \in ToSet(s)
           /\ Tail(s) \in Seq(S)
           /\ Len(Tail(s)) = Len(s) - 1
           /\ ToSet(Tail(s)) = ToSet(s) \ {Head(s)}
           /\ IsInjective(Tail(s))
<1>1. /\ Len(s) \in Nat \ {0} /\ DOMAIN s = 1..Len(s)
      /\ Tail(s) \in Seq(S) /\ Len(Tail(s)) = Len(s) - 1
      /\ \A k \in 1..Len(Tail(s)) : Tail(s)[k] = s[k + 1]
  BY LenProperties, EmptySeq, HeadTailProperties
<1>2. Head(s) = s[1] /\ 1 \in 1..Len(s)
  BY <1>1
<1>3. \A k \in 1..Len(Tail(s)) : Tail(s)[k] = IF k < 1 THEN s[k] ELSE s[k + 1]
  BY <1>1
<1>4. ToSet(Tail(s)) = ToSet(s) \ {s[1]} /\ IsInjective(Tail(s))
  BY <1>1, <1>2, <1>3, SkippedSet
<1>5. s[1] \in ToSet(s)
  BY <1>1, <1>2 DEF ToSet
<1> QED
  BY <1>1, <1>2, <1>4, <1>5

\* Min chooses an element: the naturals are well-founded.
LEMMA MinIsElement ==
    ASSUME NEW I \in SUBSET Nat, I # {}
    PROVE  Min(I) \in I
<1>1. \E x \in I : \A y \in I : ~ (<<y, x>> \in OpToRel(<, Nat))
  BY NatLessThanWellFounded, WFMin, Zenon
<1>2. PICK x \in I : \A y \in I : ~ (y < x)
  BY <1>1, Zenon DEF OpToRel
<1>3. \A y \in I : x =< y
  BY <1>2
<1> QED
  BY <1>3 DEF Min

\* A repository that is full loses one finished record, if it has one.
LEMMA EvictEffect ==
    ASSUME history \in Seq(Jobs), IsInjective(history), Len(history) <= MaxStored,
           LocalJobsAssumption
    PROVE  /\ Evict(history) \in Seq(Jobs)
           /\ IsInjective(Evict(history))
           /\ ToSet(Evict(history)) \subseteq stored
           /\ \A k \in stored \ ToSet(Evict(history)) : status[k] \in Terminal
           /\ Len(Evict(history)) <= Len(history)
           /\ Len(Evict(history)) >= MaxStored =>
                 /\ Len(history) = MaxStored
                 /\ \A k \in stored : status[k] \notin Terminal
<1> DEFINE I == {i \in 1..Len(history) : status[history[i]] \in Terminal}
           kept == RemoveAt(history, Min(I))
<1>0. /\ Len(history) \in Nat /\ MaxStored \in Nat
      /\ stored = {history[i] : i \in 1..Len(history)}
  BY LenProperties DEF LocalJobsAssumption, stored, ToSet
<1>1. CASE Len(history) < MaxStored
  <2>1. Evict(history) = history
    BY <1>1 DEF Evict
  <2> QED
    BY <1>0, <1>1, <2>1 DEF stored
<1>2. CASE ~ (Len(history) < MaxStored) /\ I = {}
  <2>1. Evict(history) = history
    BY <1>2 DEF Evict, RemoveFirstMatch
  <2> QED
    BY <1>0, <1>2, <2>1 DEF stored
<1>3. CASE ~ (Len(history) < MaxStored) /\ I # {}
  <2>0. I \in SUBSET Nat
    OBVIOUS
  <2>1. Min(I) \in I
    <3> HIDE DEF I
    <3> QED
      BY <1>3, <2>0, MinIsElement
  <2>2. Evict(history) = kept
    BY <1>3 DEF Evict, RemoveFirstMatch, SelectInSeq
  <2>3. /\ kept \in Seq(Jobs)
        /\ Len(kept) = Len(history) - 1
        /\ ToSet(kept) = stored \ {history[Min(I)]}
        /\ IsInjective(kept)
    BY <2>1, RemovedSet DEF stored
  <2>4. status[history[Min(I)]] \in Terminal
    BY <2>1
  <2> HIDE DEF kept, I
  <2> QED
    BY <1>0, <2>2, <2>3, <2>4
<1> QED
  BY <1>1, <1>2, <1>3

(***************************************************************************)
(* Counting the arguments at which a function has a value of a set.        *)
(***************************************************************************)
CountOf(f, V) == Cardinality({d \in DOMAIN f : f[d] \in V})

\* What f counts at x.
CountAt(f, V, x) == IF f[x] \in V THEN 1 ELSE 0

ChangesOnlyAt(f, g, x) ==
    /\ DOMAIN g = DOMAIN f /\ x \in DOMAIN f /\ IsFiniteSet(DOMAIN f)
    /\ \A d \in DOMAIN f : d # x => g[d] = f[d]

\* A function on a finite set has a natural number of such arguments.
LEMMA CountIsNatural ==
    ASSUME NEW D, IsFiniteSet(D), NEW R, NEW f \in [D -> R], NEW V
    PROVE  CountOf(f, V) \in Nat
BY FS_Subset, FS_CardinalityType DEF CountOf

\* Changing a function at one argument changes the count by at most one.
LEMMA CountUpdated ==
    ASSUME NEW f, NEW g, NEW x, ChangesOnlyAt(f, g, x), NEW V
    PROVE  CountOf(g, V) + CountAt(f, V, x) = CountOf(f, V) + CountAt(g, V, x)
<1> DEFINE D == DOMAIN f
           A == {d \in D : f[d] \in V}
           B == {d \in D : g[d] \in V}
<1>0. /\ DOMAIN g = D /\ x \in D /\ IsFiniteSet(D)
      /\ \A d \in D : d # x => g[d] = f[d]
  BY DEF ChangesOnlyAt
<1> HIDE DEF D
<1>1. CountOf(f, V) = Cardinality(A) /\ CountOf(g, V) = Cardinality(B)
  BY <1>0 DEF CountOf, D
<1>2. IsFiniteSet(A) /\ IsFiniteSet(B)
  BY <1>0, FS_Subset
<1>3. x \in A <=> f[x] \in V
  BY <1>0
<1>4. B = IF g[x] \in V THEN A \cup {x} ELSE A \ {x}
  BY <1>0
<1> HIDE DEF A, B
<1>5. Cardinality(A) \in Nat /\ Cardinality(B) \in Nat
  BY <1>2, FS_CardinalityType
<1>6. CASE g[x] \in V
  BY <1>1, <1>2, <1>3, <1>4, <1>5, <1>6, FS_AddElement DEF CountAt
<1>7. CASE g[x] \notin V
  BY <1>1, <1>2, <1>3, <1>4, <1>5, <1>7, FS_RemoveElement DEF CountAt
<1> QED
  BY <1>6, <1>7

-------------------------------------------------------------------------------
(***************************************************************************)
(* The inductive invariant.                                                *)
(***************************************************************************)
Queued(j) == j \in ToSet(queue)
Executed(j) == \E w \in Workers : task[w] = j

\* The jobs whose task waits in the queue or is in a worker.
Holding == {j \in Jobs : Queued(j) \/ Executed(j)}

\* One submit at a time is between its check of _closed and its return.
LockInv ==
    /\ \A j \in Jobs : Submitting(j) <=> lock = j
    /\ closed => lock = None
    /\ \A c \in Closers :
          closer[c] \in {"join", "stop", "join_threads", "returned"} => closed

\* How far submit has come tells what it has left in the executor.
ClientInv ==
    \A j \in Jobs :
        /\ client[j] \in {"idle", "create", "rejected"} =>
              status[j] = "absent" /\ j \notin providers
        /\ client[j] = "enqueue" => status[j] = "pending" /\ j \notin providers
        /\ client[j] = "accepted" => status[j] \in Terminal \/ j \in Holding
        /\ j \in Holding => client[j] = "accepted"
        /\ j \in stored => status[j] # "absent"

QueueInv ==
    /\ IsInjective(queue)
    /\ \A j \in ToSet(queue) :
          status[j] = "pending" /\ j \in providers /\ ~Executed(j)

\* How far a worker has come tells the status of its job; no two share one.
WorkerInv ==
    /\ \A w \in Workers :
          /\ pc[w] \in {"loop", "poll", "release", "exited"} <=> task[w] = None
          /\ pc[w] = "pop" => task[w] \in providers
          /\ pc[w] \in {"pop", "mark_running"} => status[task[w]] = "pending"
          /\ pc[w] \in {"infer", "mark_succeeded", "record_error", "mark_failed"} =>
                status[task[w]] = "running"
          /\ pc[w] \in {"latency", "task_done"} => status[task[w]] \in Terminal
    /\ \A v, w \in Workers : task[v] = task[w] /\ task[v] # None => v = w

HistoryInv == IsInjective(history) /\ Len(history) <= MaxStored

\* The queue's counter is the number of its tasks that are not done, and no
\* task is left once a waiting shutdown has passed its join.
UnfinishedInv ==
    /\ unfinished = Cardinality(Holding)
    /\ \A c \in WaitingClosers :
          closer[c] \in {"stop", "join_threads", "returned"} => unfinished = 0

IInv ==
    /\ TypeOK
    /\ LockInv /\ ClientInv /\ QueueInv /\ WorkerInv /\ HistoryInv /\ UnfinishedInv
    /\ ActiveIsStored /\ WorkersSurvive /\ PermitsAreConserved /\ ErrorsMatchRecords

\* The counts of the invariant, as counts of values.
LEMMA CountedBy ==
    /\ \A f \in [Jobs -> ClientSteps] :
          Cardinality({j \in Jobs : f[j] \in {"create", "enqueue"}})
              = CountOf(f, {"create", "enqueue"})
    /\ \A f \in [Jobs -> Statuses] :
          Cardinality({j \in Jobs : f[j] = "failed"}) = CountOf(f, {"failed"})
    /\ \A f \in [Workers -> WorkerSteps], step \in WorkerSteps :
          Cardinality({w \in Workers : f[w] = step}) = CountOf(f, {step})
<1>1. ASSUME NEW f \in [Jobs -> ClientSteps]
      PROVE  {j \in Jobs : f[j] \in {"create", "enqueue"}}
                = {d \in DOMAIN f : f[d] \in {"create", "enqueue"}}
  OBVIOUS
<1>2. ASSUME NEW f \in [Jobs -> Statuses]
      PROVE  {j \in Jobs : f[j] = "failed"} = {d \in DOMAIN f : f[d] \in {"failed"}}
  OBVIOUS
<1>3. ASSUME NEW f \in [Workers -> WorkerSteps], NEW step \in WorkerSteps
      PROVE  {w \in Workers : f[w] = step} = {d \in DOMAIN f : f[d] \in {step}}
  OBVIOUS
<1> QED
  BY <1>1, <1>2, <1>3 DEF CountOf

LEMMA HoldingFinite ==
    /\ IsFiniteSet(Holding) /\ Cardinality(Holding) \in Nat
    /\ Cardinality(Holding) = 0 <=> Holding = {}
BY LocalJobsAssumption, FS_Subset, FS_CardinalityType, FS_EmptySet DEF Holding

-------------------------------------------------------------------------------
(***************************************************************************)
(* What the calls and threads do in a state of the invariant: the error    *)
(* paths of submit and _execute are never taken.                           *)
(***************************************************************************)

\* While a submit holds the lock, it holds a permit that no task holds.
LEMMA RoomForOne ==
    ASSUME IInv, NEW j \in Jobs, Submitting(j)
    PROVE  Cardinality(Holding) < MaxPending
<1> DEFINE S == {k \in Jobs : Submitting(k)}
           R == {w \in Workers : pc[w] = "release"}
<1>1. /\ IsFiniteSet(S) /\ Cardinality(S) \in Nat /\ Cardinality(S) # 0
      /\ IsFiniteSet(R) /\ Cardinality(R) \in Nat
  <2>1. IsFiniteSet(S) /\ IsFiniteSet(R) /\ S # {}
    BY LocalJobsAssumption, FS_Subset
  <2> HIDE DEF S, R
  <2> QED
    BY <2>1, FS_CardinalityType, FS_EmptySet
<1>2. permits + unfinished + Cardinality(S) + Cardinality(R) = MaxPending
  BY DEF IInv, PermitsAreConserved
<1>3. permits \in Nat /\ unfinished \in Nat /\ MaxPending \in Nat
  BY LocalJobsAssumption DEF IInv, TypeOK
<1>4. unfinished = Cardinality(Holding)
  BY DEF IInv, UnfinishedInv
<1> HIDE DEF S, R
<1> QED
  BY <1>1, <1>2, <1>3, <1>4

\* put never raises Full: the queue has a place for every permit.
LEMMA EnqueueSucceeds ==
    ASSUME IInv, NEW j \in Jobs, Enqueue(j)
    PROVE  /\ queue' = Append(queue, j)
           /\ queue' \in Seq(Jobs)
           /\ unfinished' = unfinished + 1
           /\ client' = [client EXCEPT ![j] = "accepted"]
           /\ lock' = None
           /\ permits' = permits
           /\ j \notin Holding
<1>1. IsFiniteSet(ToSet(queue)) /\ Cardinality(ToSet(queue)) = Len(queue)
  BY ElementsCounted DEF IInv, TypeOK, QueueInv
<1>2. ToSet(queue) \in SUBSET Holding
  BY DEF IInv, TypeOK, Holding, Queued, ToSet
<1>3. Cardinality(ToSet(queue)) <= Cardinality(Holding)
  BY <1>2, HoldingFinite, FS_Subset
<1>4. Cardinality(Holding) < MaxPending
  BY RoomForOne DEF Enqueue, Submitting
<1>5. Len(queue) \in Nat /\ MaxPending \in Nat /\ Cardinality(Holding) \in Nat
  BY LenProperties, LocalJobsAssumption, HoldingFinite DEF IInv, TypeOK
<1>6. ~ (Len(queue) >= MaxPending)
  BY <1>1, <1>3, <1>4, <1>5
<1>7. j \notin Holding
  BY DEF Enqueue, IInv, ClientInv
<1>8. Append(queue, j) \in Seq(Jobs)
  BY AppendedSet DEF IInv, TypeOK
<1> QED
  BY <1>6, <1>7, <1>8 DEF Enqueue

\* create never raises: a full repository always holds a finished record.
LEMMA CreateSucceeds ==
    ASSUME IInv, NEW j \in Jobs, CreateRecord(j)
    PROVE  /\ history' = Append(Evict(history), j)
           /\ Len(Evict(history)) < MaxStored
           /\ status' = [status EXCEPT ![j] = "pending"]
           /\ client' = [client EXCEPT ![j] = "enqueue"]
           /\ UNCHANGED <<permits, lock>>
           /\ j \notin stored
<1>1. /\ client[j] = "create" /\ j \notin stored
      /\ history \in Seq(Jobs) /\ IsInjective(history) /\ Len(history) <= MaxStored
      /\ status \in [Jobs -> Statuses]
  BY DEF CreateRecord, IInv, ClientInv, TypeOK, HistoryInv
<1>2. Len(Evict(history)) \in Nat /\ Len(history) \in Nat /\ MaxStored \in Nat
      /\ MaxPending \in Nat /\ MaxPending <= MaxStored
  BY <1>1, EvictEffect, LenProperties, LocalJobsAssumption
<1>3. ASSUME Len(Evict(history)) >= MaxStored PROVE FALSE
  <2>1. Len(history) = MaxStored /\ \A k \in stored : status[k] \notin Terminal
    BY <1>1, <1>3, EvictEffect, LocalJobsAssumption
  <2>2. ASSUME NEW k \in stored PROVE k \in Holding
    <3>1. k \in Jobs /\ status[k] # "absent" /\ status[k] \notin Terminal
      BY <1>1, <2>1 DEF IInv, ClientInv, stored, ToSet
    <3>2. k # j
      BY <1>1
    <3>3. client[k] \notin {"create", "enqueue"}
      BY <1>1, <3>1, <3>2, LocalJobsAssumption DEF IInv, LockInv, Submitting
    <3>4. client[k] \in ClientSteps
      BY <3>1 DEF IInv, TypeOK
    <3> QED
      BY <3>1, <3>3, <3>4 DEF IInv, ClientInv, ClientSteps
  <2>3. Cardinality(stored) = Len(history) /\ stored \in SUBSET Holding
    BY <1>1, <2>2, ElementsCounted DEF stored
  <2>4. Cardinality(stored) <= Cardinality(Holding)
    BY <2>3, HoldingFinite, FS_Subset
  <2>5. Cardinality(Holding) < MaxPending
    BY <1>1, RoomForOne DEF Submitting
  <2> QED
    BY <1>2, <2>1, <2>3, <2>4, <2>5, HoldingFinite
<1> QED
  BY <1>1, <1>2, <1>3 DEF CreateRecord

\* A worker's job is held, and has a record as long as it is not finished.
LEMMA TaskFacts ==
    ASSUME IInv, NEW w \in Workers, task[w] # None
    PROVE  /\ task[w] \in Jobs
           /\ task[w] \in Holding
           /\ task[w] \notin ToSet(queue)
           /\ client[task[w]] = "accepted"
           /\ status[task[w]] \in {"pending", "running"} => task[w] \in stored
<1>1. task[w] \in Jobs
  BY DEF IInv, TypeOK
<1>2. Executed(task[w])
  BY DEF Executed
<1> QED
  BY <1>1, <1>2 DEF Holding, IInv, ClientInv, QueueInv, ActiveIsStored

\* No step of _execute raises, but for generate.
LEMMA WorkSucceeds ==
    ASSUME IInv, NEW w \in Workers
    PROVE  /\ PopProvider(w) => pc' = [pc EXCEPT ![w] = "mark_running"]
           /\ MarkRunning(w) => /\ status' = [status EXCEPT ![task[w]] = "running"]
                                /\ pc' = [pc EXCEPT ![w] = "infer"]
           /\ MarkSucceeded(w) => /\ status' = [status EXCEPT ![task[w]] = "succeeded"]
                                  /\ pc' = [pc EXCEPT ![w] = "latency"]
           /\ MarkFailed(w) => /\ status' = [status EXCEPT ![task[w]] = "failed"]
                               /\ UNCHANGED <<doomed, modelErrors>>
           /\ ReleasePermit(w) => pc' = [pc EXCEPT ![w] = "loop"]
<1>1. pc[w] \in {"pop", "mark_running", "mark_succeeded", "mark_failed"} => task[w] # None
  BY DEF IInv, WorkerInv
<1>2. PopProvider(w) => pc' = [pc EXCEPT ![w] = "mark_running"]
  BY DEF PopProvider, Goto, IInv, WorkerInv
<1>3. pc[w] = "mark_running" => Matches(task[w], {"pending"})
  BY <1>1, TaskFacts DEF Matches, IInv, WorkerInv
<1>4. pc[w] = "mark_succeeded" => Matches(task[w], {"running"})
  BY <1>1, TaskFacts DEF Matches, IInv, WorkerInv
<1>5. pc[w] = "mark_failed" => Matches(task[w], {"pending", "running"})
  BY <1>1, TaskFacts DEF Matches, IInv, WorkerInv
<1>6. ReleasePermit(w) => pc' = [pc EXCEPT ![w] = "loop"]
  BY DEF ReleasePermit, Goto, IInv, WorkersSurvive
<1> QED
  BY <1>2, <1>3, <1>4, <1>5, <1>6 DEF MarkRunning, MarkSucceeded, MarkFailed, Goto

-------------------------------------------------------------------------------
(***************************************************************************)
(* Every step keeps the invariant, conjunct by conjunct.                   *)
(***************************************************************************)

\* What each part of the system leaves alone.
LEMMA Frames ==
    /\ \A j \in Jobs : Submit(j) =>
          UNCHANGED <<shutdownVars, workerVars, metricVars>>
    /\ \A c \in Closers : Shutdown(c) =>
          /\ UNCHANGED <<repositoryVars, client, queueVars, permits, providers, lock,
                         workerVars, metricVars>>
          /\ closed => closed'
    /\ \A w \in Workers : Work(w) => UNCHANGED <<history, client, lock, shutdownVars>>
BY DEF Submit, Admit, Refuse, CreateRecord, Enqueue, Rollback,
       Shutdown, Close, JoinQueue, SetStopEvent, JoinThreads,
       Work, CheckStop, PollTask, PollTimeout, PopProvider, MarkRunning, Infer,
       MarkSucceeded, RecordError, MarkFailed, RecordLatency, TaskDone, ReleasePermit,
       repositoryVars, queueVars, shutdownVars, workerVars, metricVars

\* The jobs that are held change when a task is put or marked done only.
LEMMA HoldingStep ==
    ASSUME IInv
    PROVE  /\ UNCHANGED <<queue, task>> => Holding' = Holding
           /\ \A j \in Jobs : Enqueue(j) => Holding' = Holding \cup {j}
           /\ \A w \in Workers : PollTask(w) => Holding' = Holding
           /\ \A w \in Workers : TaskDone(w) =>
                 Holding' = Holding \ {task[w]} /\ task[w] \in Holding
<1>1. UNCHANGED <<queue, task>> => Holding' = Holding
  BY DEF Holding, Queued, Executed
<1>2. ASSUME NEW j \in Jobs, Enqueue(j) PROVE Holding' = Holding \cup {j}
  <2>1. ToSet(queue') = ToSet(queue) \cup {j}
    BY <1>2, EnqueueSucceeds, AppendedSet DEF IInv, TypeOK
  <2>2. task' = task
    BY <1>2 DEF Enqueue, workerVars
  <2> QED
    BY <2>1, <2>2 DEF Holding, Queued, Executed
<1>3. ASSUME NEW w \in Workers, PollTask(w) PROVE Holding' = Holding
  <2>1. Head(queue) \in ToSet(queue) /\ ToSet(queue') = ToSet(queue) \ {Head(queue)}
    BY <1>3, TailSet DEF PollTask, IInv, TypeOK, QueueInv
  <2>2. /\ task[w] = None /\ task \in [Workers -> Jobs \cup {None}]
        /\ task' = [task EXCEPT ![w] = Head(queue)]
    BY <1>3 DEF PollTask, IInv, TypeOK, WorkerInv
  <2>3. ASSUME NEW j \in Jobs PROVE Executed(j)' <=> Executed(j) \/ j = Head(queue)
    BY <2>2, LocalJobsAssumption DEF Executed
  <2> QED
    BY <2>1, <2>3 DEF Holding, Queued
<1>4. ASSUME NEW w \in Workers, TaskDone(w)
      PROVE  Holding' = Holding \ {task[w]} /\ task[w] \in Holding
  <2>1. /\ task[w] # None /\ task \in [Workers -> Jobs \cup {None}]
        /\ task' = [task EXCEPT ![w] = None] /\ queue' = queue
    BY <1>4 DEF TaskDone, IInv, TypeOK, WorkerInv
  <2>2. ASSUME NEW j \in Jobs PROVE Executed(j)' <=> Executed(j) /\ j # task[w]
    BY <2>1, LocalJobsAssumption DEF Executed, IInv, WorkerInv
  <2>3. task[w] \in Holding /\ task[w] \notin ToSet(queue)
    BY <2>1, TaskFacts
  <2> QED
    BY <2>1, <2>2, <2>3 DEF Holding, Queued
<1> QED
  BY <1>1, <1>2, <1>3, <1>4

\* A new record joins the stored ones; what makes room for it is finished.
LEMMA StoredStep ==
    ASSUME IInv, NEW j \in Jobs, CreateRecord(j)
    PROVE  /\ history' \in Seq(Jobs) /\ IsInjective(history') /\ Len(history') <= MaxStored
           /\ stored' \subseteq stored \cup {j}
           /\ j \in stored'
           /\ \A k \in stored \ stored' : status[k] \in Terminal
<1> DEFINE kept == Evict(history)
<1>1. /\ kept \in Seq(Jobs) /\ IsInjective(kept)
      /\ ToSet(kept) \subseteq stored
      /\ \A k \in stored \ ToSet(kept) : status[k] \in Terminal
  BY EvictEffect, LocalJobsAssumption DEF IInv, TypeOK, HistoryInv
<1>2. history' = Append(kept, j) /\ Len(kept) < MaxStored /\ j \notin stored
  BY CreateSucceeds
<1> HIDE DEF kept
<1>3. /\ Append(kept, j) \in Seq(Jobs) /\ Len(Append(kept, j)) = Len(kept) + 1
      /\ ToSet(Append(kept, j)) = ToSet(kept) \cup {j}
      /\ IsInjective(Append(kept, j))
  BY <1>1, <1>2, AppendedSet
<1>4. Len(kept) \in Nat /\ MaxStored \in Nat
  BY <1>1, LenProperties, LocalJobsAssumption
<1>5. stored' = ToSet(kept) \cup {j}
  BY <1>2, <1>3 DEF stored
<1> QED
  BY <1>1, <1>2, <1>3, <1>4, <1>5

\* The types, but for the two counters that the counting invariants bound.
LEMMA TypeStep ==
    ASSUME IInv, Next
    PROVE  /\ status' \in [Jobs -> Statuses]
           /\ history' \in Seq(Jobs)
           /\ client' \in [Jobs -> ClientSteps]
           /\ queue' \in Seq(Jobs)
           /\ providers' \in SUBSET Jobs
           /\ lock' \in Jobs \cup {None}
           /\ closed' \in BOOLEAN
           /\ stopEvent' \in BOOLEAN
           /\ closer' \in [Closers -> CloserSteps]
           /\ pc' \in [Workers -> WorkerSteps]
           /\ task' \in [Workers -> Jobs \cup {None}]
           /\ doomed' \in SUBSET Workers
           /\ modelErrors' \in Nat
           /\ llmRequests' \in Nat
<1> USE DEF IInv, TypeOK, repositoryVars, queueVars, shutdownVars, workerVars, metricVars
<1>1. CASE \E j \in Jobs : Submit(j)
  <2>1. PICK j \in Jobs : Submit(j)
    BY <1>1
  <2>2. CASE Admit(j)
    BY <2>2 DEF Admit, ClientSteps
  <2>3. CASE Refuse(j)
    BY <2>3 DEF Refuse, ClientSteps
  <2>4. CASE CreateRecord(j)
    BY <2>4, CreateSucceeds, StoredStep DEF CreateRecord, ClientSteps, Statuses
  <2>5. CASE Enqueue(j)
    BY <2>5, EnqueueSucceeds DEF Enqueue, ClientSteps
  <2> QED
    BY <2>1, <2>2, <2>3, <2>4, <2>5 DEF Submit
<1>2. CASE \E c \in Closers : Shutdown(c)
  <2>1. PICK c \in Closers : Shutdown(c)
    BY <1>2
  <2>2. closed' \in BOOLEAN /\ stopEvent' \in BOOLEAN /\ closer' \in [Closers -> CloserSteps]
    BY <2>1 DEF Shutdown, Close, JoinQueue, SetStopEvent, JoinThreads, CloserSteps
  <2> QED
    BY <2>1, <2>2, Frames
<1>3. CASE \E w \in Workers : Work(w)
  <2>1. PICK w \in Workers : Work(w)
    BY <1>3
  <2>2. CASE PollTask(w)
    <3>1. Head(queue) \in Jobs /\ Tail(queue) \in Seq(Jobs)
      BY <2>2, HeadTailProperties DEF PollTask
    <3> QED
      BY <2>2, <3>1 DEF PollTask, WorkerSteps
  <2>3. CASE CheckStop(w) \/ PollTimeout(w) \/ Infer(w) \/ PopProvider(w)
                          \/ ReleasePermit(w)
    <3>1. \E step \in WorkerSteps : Goto(w, step)
      BY <2>3 DEF CheckStop, PollTimeout, Infer, PopProvider, ReleasePermit, WorkerSteps
    <3>2. UNCHANGED <<status, history, client, queue, lock, shutdownVars, metricVars>>
      BY <2>3 DEF CheckStop, PollTimeout, Infer, PopProvider, ReleasePermit
    <3>3. providers' \in SUBSET Jobs
      BY <2>3 DEF CheckStop, PollTimeout, Infer, PopProvider, ReleasePermit
    <3> QED
      BY <3>1, <3>2, <3>3 DEF Goto
  <2>4. CASE RecordError(w) \/ RecordLatency(w)
    <3>1. Goto(w, "mark_failed") \/ Goto(w, "task_done")
      BY <2>4 DEF RecordError, RecordLatency
    <3>2. UNCHANGED <<status, history, client, queue, providers, lock, shutdownVars>>
      BY <2>4 DEF RecordError, RecordLatency
    <3>3. modelErrors' \in Nat /\ llmRequests' \in Nat
      BY <2>4 DEF RecordError, RecordLatency
    <3> QED
      BY <3>1, <3>2, <3>3 DEF Goto, WorkerSteps
  <2>5. CASE MarkRunning(w) \/ MarkSucceeded(w) \/ MarkFailed(w)
    <3>1. /\ pc' \in [Workers -> WorkerSteps] /\ UNCHANGED <<task, doomed>>
          /\ UNCHANGED modelErrors
      BY <2>5, WorkSucceeds DEF MarkRunning, MarkSucceeded, MarkFailed, Goto, WorkerSteps
    <3>2. UNCHANGED <<history, client, queue, providers, lock, shutdownVars, llmRequests>>
      BY <2>5 DEF MarkRunning, MarkSucceeded, MarkFailed
    <3>3. \E s \in {"running", "succeeded", "failed"} :
              status' = [status EXCEPT ![task[w]] = s]
      BY <2>5, WorkSucceeds
    <3> QED
      BY <3>1, <3>2, <3>3 DEF Statuses, Terminal
  <2>6. CASE TaskDone(w)
    BY <2>6 DEF TaskDone, WorkerSteps
  <2> QED
    BY <2>1, <2>2, <2>3, <2>4, <2>5, <2>6 DEF Work
<1> QED
  BY <1>1, <1>2, <1>3 DEF Next

LEMMA LockStep ==
    ASSUME IInv, Next
    PROVE  LockInv'
<1> USE DEF IInv, TypeOK, LockInv, Submitting, shutdownVars
<1>1. CASE \E j \in Jobs : Submit(j)
  <2>1. PICK j \in Jobs : Submit(j)
    BY <1>1
  <2>2. UNCHANGED shutdownVars
    BY <2>1, Frames
  <2>3. CASE Admit(j) \/ Refuse(j)
    BY <2>2, <2>3, LocalJobsAssumption DEF Admit, Refuse
  <2>4. CASE CreateRecord(j)
    BY <2>2, <2>4, CreateSucceeds DEF CreateRecord
  <2>5. CASE Enqueue(j)
    BY <2>2, <2>5, EnqueueSucceeds, LocalJobsAssumption DEF Enqueue
  <2> QED
    BY <2>1, <2>3, <2>4, <2>5 DEF Submit
<1>2. CASE \E c \in Closers : Shutdown(c)
  <2>1. PICK c \in Closers : Shutdown(c)
    BY <1>2
  <2>2. client' = client /\ lock' = lock
    BY <2>1, Frames
  <2>3. closed' => lock = None
    BY <2>1 DEF Shutdown, Close, JoinQueue, SetStopEvent, JoinThreads
  <2>4. \A d \in Closers :
            closer'[d] \in {"join", "stop", "join_threads", "returned"} => closed'
    BY <2>1 DEF Shutdown, Close, JoinQueue, SetStopEvent, JoinThreads
  <2> QED
    BY <2>2, <2>3, <2>4
<1>3. CASE \E w \in Workers : Work(w)
  BY <1>3, Frames
<1> QED
  BY <1>1, <1>2, <1>3 DEF Next

\* A worker changes the status of its own job only, and keeps its promise.
LEMMA WorkStatus ==
    ASSUME IInv, NEW w \in Workers, Work(w)
    PROVE  \/ UNCHANGED status
           \/ /\ task[w] \in Jobs /\ UNCHANGED <<task, queue>>
              /\ \E s \in Statuses \ {"absent", "pending"} :
                    status' = [status EXCEPT ![task[w]] = s]
<1>1. CASE MarkRunning(w) \/ MarkSucceeded(w) \/ MarkFailed(w)
  <2>1. task[w] # None
    BY <1>1 DEF MarkRunning, MarkSucceeded, MarkFailed, IInv, WorkerInv
  <2>2. \E s \in {"running", "succeeded", "failed"} :
            status' = [status EXCEPT ![task[w]] = s]
    BY <1>1, WorkSucceeds
  <2>3. UNCHANGED <<task, queue>>
    BY <1>1 DEF MarkRunning, MarkSucceeded, MarkFailed, Goto, queueVars
  <2> QED
    BY <2>1, <2>2, <2>3, TaskFacts DEF Statuses, Terminal
<1>2. CASE ~ (MarkRunning(w) \/ MarkSucceeded(w) \/ MarkFailed(w))
  BY <1>2 DEF Work, CheckStop, PollTask, PollTimeout, PopProvider, Infer, RecordError,
              RecordLatency, TaskDone, ReleasePermit, repositoryVars
<1> QED
  BY <1>1, <1>2

\* The client invariant of one job survives a step of a worker.
LEMMA ClientWork ==
    ASSUME IInv, NEW w \in Workers, Work(w)
    PROVE  ClientInv'
<1> USE DEF ClientInv
<1>1. ClientInv /\ status \in [Jobs -> Statuses] /\ client' = client /\ stored' = stored
  BY Frames DEF IInv, TypeOK, stored
<1>2. providers' \subseteq providers
  BY DEF Work, CheckStop, PollTask, PollTimeout, PopProvider, MarkRunning, Infer,
         MarkSucceeded, RecordError, MarkFailed, RecordLatency, TaskDone, ReleasePermit
<1>3. CASE TaskDone(w)
  <2>1. Holding' = Holding \ {task[w]} /\ task[w] \in Jobs
    BY <1>3, HoldingStep DEF Holding
  <2>2. status[task[w]] \in Terminal /\ status' = status
    BY <1>3 DEF TaskDone, IInv, WorkerInv, repositoryVars
  <2> QED
    BY <1>1, <1>2, <2>1, <2>2
<1>4. CASE ~ TaskDone(w)
  <2>1. Holding' = Holding
    <3>1. CASE PollTask(w)
      BY <3>1, HoldingStep
    <3>2. CASE ~ PollTask(w)
      <4>1. UNCHANGED <<queue, task>>
        BY <1>4, <3>2
           DEF Work, CheckStop, PollTimeout, PopProvider, MarkRunning, Infer,
               MarkSucceeded, RecordError, MarkFailed, RecordLatency, ReleasePermit,
               Goto, queueVars
      <4> QED
        BY <4>1, HoldingStep
    <3> QED
      BY <3>1, <3>2
  <2>2. CASE status' = status
    BY <1>1, <1>2, <2>1, <2>2
  <2>3. CASE status' # status
    <3>1. PICK s \in Statuses \ {"absent", "pending"} :
              status' = [status EXCEPT ![task[w]] = s]
      BY <2>3, WorkStatus
    <3>2. task[w] \in Jobs /\ client[task[w]] = "accepted" /\ task[w] \in Holding
      BY <2>3, WorkStatus, TaskFacts, LocalJobsAssumption
    <3> QED
      BY <1>1, <1>2, <2>1, <3>1, <3>2
  <2> QED
    BY <2>2, <2>3
<1> QED
  BY <1>3, <1>4

LEMMA ClientSubmit ==
    ASSUME IInv, NEW j \in Jobs, Submit(j)
    PROVE  ClientInv'
<1> USE DEF ClientInv
<1>1. ClientInv /\ status \in [Jobs -> Statuses] /\ client \in [Jobs -> ClientSteps]
  BY DEF IInv, TypeOK
<1>2. CASE Admit(j) \/ Refuse(j)
  <2>1. /\ UNCHANGED <<status, history, queue, task, providers>>
        /\ client[j] = "idle"
        /\ \E s \in {"create", "rejected"} : client' = [client EXCEPT ![j] = s]
    BY <1>2 DEF Admit, Refuse, repositoryVars, queueVars, workerVars
  <2>2. Holding' = Holding /\ stored' = stored
    BY <2>1, HoldingStep DEF stored
  <2> QED
    BY <1>1, <2>1, <2>2
<1>3. CASE CreateRecord(j)
  <2>1. /\ client[j] = "create" /\ j \notin providers
        /\ UNCHANGED <<queue, task, providers>>
    BY <1>3 DEF CreateRecord, queueVars, workerVars, IInv
  <2>2. Holding' = Holding /\ stored' \subseteq stored \cup {j}
    BY <1>3, <2>1, HoldingStep, StoredStep
  <2>3. /\ status' = [status EXCEPT ![j] = "pending"]
        /\ client' = [client EXCEPT ![j] = "enqueue"]
    BY <1>3, CreateSucceeds
  <2> QED
    BY <1>1, <2>1, <2>2, <2>3
<1>4. CASE Enqueue(j)
  <2>1. /\ UNCHANGED <<status, history>> /\ client[j] = "enqueue"
        /\ providers' = providers \cup {j}
    BY <1>4 DEF Enqueue, repositoryVars
  <2>2. Holding' = Holding \cup {j} /\ stored' = stored
    BY <1>4, <2>1, HoldingStep DEF stored
  <2>3. client' = [client EXCEPT ![j] = "accepted"]
    BY <1>4, EnqueueSucceeds
  <2> QED
    BY <1>1, <2>1, <2>2, <2>3
<1> QED
  BY <1>2, <1>3, <1>4 DEF Submit

LEMMA ClientStep ==
    ASSUME IInv, Next
    PROVE  ClientInv'
<1>1. CASE \E c \in Closers : Shutdown(c)
  <2>1. UNCHANGED <<status, history, client, providers, queue, task>>
    BY <1>1, Frames DEF repositoryVars, queueVars, workerVars
  <2>2. Holding' = Holding /\ stored' = stored
    BY <2>1, HoldingStep DEF stored
  <2> QED
    BY <2>1, <2>2 DEF IInv, ClientInv
<1> QED
  BY <1>1, ClientSubmit, ClientWork DEF Next

\* Work already queued or taken is not touched by a submit.
LEMMA QueueStep ==
    ASSUME IInv, Next
    PROVE  QueueInv'
<1> USE DEF QueueInv, Executed
<1>1. QueueInv /\ status \in [Jobs -> Statuses] /\ task \in [Workers -> Jobs \cup {None}]
      /\ queue \in Seq(Jobs) /\ ToSet(queue) \subseteq Jobs
  BY DEF IInv, TypeOK, ToSet
<1>2. CASE \E j \in Jobs : Submit(j)
  <2>1. PICK j \in Jobs : Submit(j)
    BY <1>2
  <2>2. UNCHANGED task
    BY <2>1, Frames DEF workerVars
  <2>3. CASE Admit(j) \/ Refuse(j)
    BY <1>1, <2>2, <2>3 DEF Admit, Refuse, repositoryVars, queueVars
  <2>4. CASE CreateRecord(j)
    <3>1. j \notin Holding /\ UNCHANGED <<queue, providers>>
      BY <2>4 DEF CreateRecord, queueVars, IInv, ClientInv
    <3>2. j \notin ToSet(queue)
      BY <3>1 DEF Holding, Queued
    <3> QED
      BY <1>1, <2>2, <2>4, <3>1, <3>2, CreateSucceeds
  <2>5. CASE Enqueue(j)
    <3>1. /\ status' = status /\ status[j] = "pending"
          /\ providers' = providers \cup {j}
      BY <2>5 DEF Enqueue, repositoryVars, IInv, ClientInv
    <3>2. j \notin ToSet(queue) /\ ~ Executed(j)
      BY <2>5, EnqueueSucceeds DEF Holding, Queued
    <3>3. queue' = Append(queue, j)
      BY <2>5, EnqueueSucceeds
    <3>4. IsInjective(queue') /\ ToSet(queue') = ToSet(queue) \cup {j}
      BY <1>1, <3>2, <3>3, AppendedSet
    <3> QED
      BY <1>1, <2>2, <3>1, <3>2, <3>4
  <2> QED
    BY <2>1, <2>3, <2>4, <2>5 DEF Submit
<1>3. CASE \E c \in Closers : Shutdown(c)
  BY <1>1, <1>3, Frames DEF repositoryVars, queueVars, workerVars
<1>4. CASE \E w \in Workers : Work(w)
  <2>1. PICK w \in Workers : Work(w)
    BY <1>4
  <2>2. CASE PollTask(w)
    <3>1. /\ UNCHANGED <<status, providers>>
          /\ queue' = Tail(queue) /\ queue # <<>>
          /\ task' = [task EXCEPT ![w] = Head(queue)]
      BY <2>2 DEF PollTask, repositoryVars
    <3>2. /\ Head(queue) \in ToSet(queue)
          /\ ToSet(queue') = ToSet(queue) \ {Head(queue)}
          /\ IsInjective(queue')
      BY <1>1, <3>1, TailSet
    <3> QED
      BY <1>1, <3>1, <3>2
  <2>3. CASE PopProvider(w)
    <3>1. task[w] # None
      BY <2>3 DEF PopProvider, IInv, WorkerInv
    <3>2. UNCHANGED <<status, queue, task>> /\ providers' = providers \ {task[w]}
      BY <2>3 DEF PopProvider, Goto, repositoryVars, queueVars
    <3> QED
      BY <1>1, <3>1, <3>2, TaskFacts
  <2>4. CASE TaskDone(w)
    <3>1. UNCHANGED <<status, queue, providers>> /\ task' = [task EXCEPT ![w] = None]
      BY <2>4 DEF TaskDone, repositoryVars
    <3> QED
      BY <1>1, <3>1, LocalJobsAssumption
  <2>5. CASE ~ (PollTask(w) \/ PopProvider(w) \/ TaskDone(w))
    <3>1. UNCHANGED <<queue, providers, task>>
      BY <2>1, <2>5
         DEF Work, CheckStop, PollTimeout, MarkRunning, Infer, MarkSucceeded, RecordError,
             MarkFailed, RecordLatency, ReleasePermit, Goto, queueVars
    <3>2. CASE status' = status
      BY <1>1, <3>1, <3>2
    <3>3. CASE status' # status
      <4>1. /\ task[w] \in Jobs
            /\ \E s \in Statuses : status' = [status EXCEPT ![task[w]] = s]
        BY <2>1, <3>3, WorkStatus
      <4>2. task[w] \notin ToSet(queue)
        BY <4>1, TaskFacts, LocalJobsAssumption
      <4> QED
        BY <1>1, <3>1, <4>1, <4>2
    <3> QED
      BY <3>2, <3>3
  <2> QED
    BY <2>2, <2>3, <2>4, <2>5
<1> QED
  BY <1>2, <1>3, <1>4 DEF Next

\* What WorkerInv says of one worker.
AtWork(w) ==
    /\ pc[w] \in {"loop", "poll", "release", "exited"} <=> task[w] = None
    /\ pc[w] = "pop" => task[w] \in providers
    /\ pc[w] \in {"pop", "mark_running"} => status[task[w]] = "pending"
    /\ pc[w] \in {"infer", "mark_succeeded", "record_error", "mark_failed"} =>
          status[task[w]] = "running"
    /\ pc[w] \in {"latency", "task_done"} => status[task[w]] \in Terminal

\* A step of one worker leaves what the others have.
LEMMA OthersAtWork ==
    ASSUME IInv, NEW w \in Workers, Work(w), NEW v \in Workers, v # w
    PROVE  AtWork(v)' /\ task'[v] = task[v]
<1>1. AtWork(v) /\ pc[v] # "dead"
  BY DEF AtWork, IInv, WorkerInv, WorkersSurvive
<1>2. pc'[v] = pc[v] /\ task'[v] = task[v]
  BY DEF Work, CheckStop, PollTask, PollTimeout, PopProvider, MarkRunning, Infer,
         MarkSucceeded, RecordError, MarkFailed, RecordLatency, TaskDone, ReleasePermit,
         Goto, IInv, TypeOK
<1>3. task[v] # None => status'[task[v]] = status[task[v]]
  <2>1. task[v] # None => task[v] \in Jobs /\ task[v] # task[w]
    BY DEF IInv, TypeOK, WorkerInv
  <2> QED
    BY <2>1, WorkStatus DEF IInv, TypeOK
<1>4. pc[v] = "pop" => task[v] \in providers'
  <2>1. CASE PopProvider(w)
    <3>1. task[w] # None /\ providers' = providers \ {task[w]}
      BY <2>1 DEF PopProvider, IInv, WorkerInv
    <3> QED
      BY <1>1, <3>1 DEF AtWork, IInv, WorkerInv
  <2>2. CASE ~ PopProvider(w)
    <3>1. providers' = providers
      BY <2>2 DEF Work, CheckStop, PollTask, PollTimeout, MarkRunning, Infer,
         MarkSucceeded, RecordError, MarkFailed, RecordLatency, TaskDone, ReleasePermit
    <3> QED
      BY <1>1, <3>1 DEF AtWork
  <2> QED
    BY <2>1, <2>2
<1>5. pc[v] \in WorkerSteps
  BY DEF IInv, TypeOK
<1>6. pc[v] \notin {"loop", "poll", "release", "exited"} => task[v] # None
  BY <1>1 DEF AtWork
<1> QED
  BY <1>1, <1>2, <1>3, <1>4, <1>6 DEF AtWork

LEMMA WorkerAtWork ==
    ASSUME IInv, NEW w \in Workers, Work(w)
    PROVE  AtWork(w)'
<1> USE DEF AtWork
<1>1. /\ AtWork(w)
      /\ pc \in [Workers -> WorkerSteps] /\ task \in [Workers -> Jobs \cup {None}]
      /\ status \in [Jobs -> Statuses]
  BY DEF IInv, TypeOK, WorkerInv
<1>2. CASE CheckStop(w) \/ PollTimeout(w)
  BY <1>1, <1>2 DEF CheckStop, PollTimeout, Goto
<1>3. CASE PollTask(w)
  <2>1. /\ Head(queue) \in ToSet(queue) /\ ToSet(queue) \subseteq Jobs
    BY <1>3, TailSet DEF PollTask, IInv, TypeOK, QueueInv, ToSet
  <2>2. Head(queue) \in providers /\ status[Head(queue)] = "pending"
    BY <2>1 DEF IInv, QueueInv
  <2>3. /\ UNCHANGED <<providers, status>>
        /\ task' = [task EXCEPT ![w] = Head(queue)] /\ pc' = [pc EXCEPT ![w] = "pop"]
    BY <1>3 DEF PollTask, repositoryVars
  <2> QED
    BY <1>1, <2>1, <2>2, <2>3, LocalJobsAssumption
<1>4. CASE PopProvider(w)
  <2>1. pc' = [pc EXCEPT ![w] = "mark_running"]
    BY <1>4, WorkSucceeds
  <2> QED
    BY <1>1, <1>4, <2>1 DEF PopProvider, Goto, repositoryVars
<1>5. CASE Infer(w)
  BY <1>1, <1>5 DEF Infer, Goto, repositoryVars
<1>6. CASE RecordError(w)
  BY <1>1, <1>6 DEF RecordError, Goto, repositoryVars
<1>7. CASE RecordLatency(w)
  BY <1>1, <1>7 DEF RecordLatency, Goto, repositoryVars
<1>8. CASE MarkRunning(w)
  <2>1. /\ status' = [status EXCEPT ![task[w]] = "running"]
        /\ pc' = [pc EXCEPT ![w] = "infer"] /\ task' = task
        /\ task[w] # None
    BY <1>1, <1>8, WorkSucceeds DEF MarkRunning, Goto
  <2> QED
    BY <1>1, <2>1
<1>9. CASE MarkSucceeded(w)
  <2>1. /\ status' = [status EXCEPT ![task[w]] = "succeeded"]
        /\ pc' = [pc EXCEPT ![w] = "latency"] /\ task' = task
        /\ task[w] # None
    BY <1>1, <1>9, WorkSucceeds DEF MarkSucceeded, Goto
  <2> QED
    BY <1>1, <2>1 DEF Terminal
<1>10. CASE MarkFailed(w)
  <2>1. /\ status' = [status EXCEPT ![task[w]] = "failed"]
        /\ pc' = [pc EXCEPT ![w] = "latency"] /\ task' = task
        /\ task[w] # None
    BY <1>1, <1>10, WorkSucceeds DEF MarkFailed
  <2> QED
    BY <1>1, <2>1 DEF Terminal
<1>11. CASE TaskDone(w)
  BY <1>1, <1>11 DEF TaskDone
<1>12. CASE ReleasePermit(w)
  <2>1. pc' = [pc EXCEPT ![w] = "loop"] /\ UNCHANGED task /\ pc[w] = "release"
    BY <1>12, WorkSucceeds DEF ReleasePermit, Goto
  <2> QED
    BY <1>1, <2>1
<1> QED
  BY <1>2, <1>3, <1>4, <1>5, <1>6, <1>7, <1>8, <1>9, <1>10, <1>11, <1>12 DEF Work

\* No two workers have the same task: a queue hands each one out once.
LEMMA TasksDistinct ==
    ASSUME IInv, NEW w \in Workers, Work(w)
    PROVE  \A u, v \in Workers : task'[u] = task'[v] /\ task'[u] # None => u = v
<1>1. \A u, v \in Workers : task[u] = task[v] /\ task[u] # None => u = v
  BY DEF IInv, WorkerInv
<1>2. task \in [Workers -> Jobs \cup {None}]
  BY DEF IInv, TypeOK
<1>3. CASE PollTask(w)
  <2>1. Head(queue) \in ToSet(queue) /\ task' = [task EXCEPT ![w] = Head(queue)]
    BY <1>3, TailSet DEF PollTask, IInv, TypeOK, QueueInv
  <2>2. \A v \in Workers : task[v] # Head(queue)
    BY <2>1 DEF IInv, QueueInv, Executed
  <2> QED
    BY <1>1, <1>2, <2>1, <2>2
<1>4. CASE TaskDone(w)
  BY <1>1, <1>2, <1>4 DEF TaskDone
<1>5. CASE ~ (PollTask(w) \/ TaskDone(w))
  <2>1. task' = task
    BY <1>5 DEF Work, CheckStop, PollTimeout, PopProvider, MarkRunning, Infer,
         MarkSucceeded, RecordError, MarkFailed, RecordLatency, ReleasePermit, Goto
  <2> QED
    BY <1>1, <2>1
<1> QED
  BY <1>3, <1>4, <1>5

LEMMA WorkerStep ==
    ASSUME IInv, Next
    PROVE  WorkerInv'
<1>1. WorkerInv /\ \A w \in Workers : AtWork(w)
  BY DEF IInv, WorkerInv, AtWork
<1>2. CASE \E w \in Workers : Work(w)
  <2>1. PICK w \in Workers : Work(w)
    BY <1>2
  <2>2. \A v \in Workers : AtWork(v)'
    BY <2>1, OthersAtWork, WorkerAtWork
  <2>3. \A u, v \in Workers : task'[u] = task'[v] /\ task'[u] # None => u = v
    BY <2>1, TasksDistinct
  <2> QED
    BY <2>2, <2>3 DEF AtWork, WorkerInv
<1>3. CASE \E c \in Closers : Shutdown(c)
  BY <1>1, <1>3, Frames DEF repositoryVars, workerVars, WorkerInv
<1>4. CASE \E j \in Jobs : Submit(j)
  <2>1. PICK j \in Jobs : Submit(j)
    BY <1>4
  <2>2. UNCHANGED <<pc, task>>
    BY <2>1, Frames DEF workerVars
  <2>3. CASE CreateRecord(j)
    <3>1. j \notin Holding /\ providers' = providers
      BY <2>3 DEF CreateRecord, IInv, ClientInv
    <3>2. \A w \in Workers : task[w] # j
      BY <3>1 DEF Holding, Executed
    <3>3. status' = [status EXCEPT ![j] = "pending"] /\ status \in [Jobs -> Statuses]
      BY <2>3, CreateSucceeds DEF IInv, TypeOK
    <3>4. \A w \in Workers : status'[task[w]] = status[task[w]] \/ task[w] = None
      BY <3>2, <3>3 DEF IInv, TypeOK
    <3>5. \A w \in Workers : pc[w] # "dead"
      BY DEF IInv, WorkersSurvive
    <3> QED
      BY <1>1, <2>2, <3>1, <3>4 DEF WorkerInv
  <2>4. CASE ~ CreateRecord(j)
    <3>1. status' = status /\ providers \subseteq providers'
      BY <2>1, <2>4 DEF Submit, Admit, Refuse, Enqueue, repositoryVars
    <3> QED
      BY <1>1, <2>2, <3>1 DEF WorkerInv
  <2> QED
    BY <2>3, <2>4
<1> QED
  BY <1>2, <1>3, <1>4 DEF Next

LEMMA StoredKept ==
    ASSUME IInv, Next
    PROVE  HistoryInv' /\ ActiveIsStored'
<1> USE DEF ActiveIsStored
<1>1. ActiveIsStored /\ HistoryInv /\ status \in [Jobs -> Statuses]
  BY DEF IInv, TypeOK
<1>2. CASE \E j \in Jobs : CreateRecord(j)
  <2>1. PICK j \in Jobs : CreateRecord(j)
    BY <1>2
  <2>2. status' = [status EXCEPT ![j] = "pending"]
    BY <2>1, CreateSucceeds
  <2> QED
    BY <1>1, <2>1, <2>2, StoredStep DEF HistoryInv, Terminal
<1>3. CASE ~ \E j \in Jobs : CreateRecord(j)
  <2>1. history' = history /\ stored' = stored
    BY <1>3, Frames DEF Next, Submit, Admit, Refuse, Enqueue, repositoryVars, stored
  <2>2. CASE status' = status
    BY <1>1, <2>1, <2>2 DEF HistoryInv
  <2>3. CASE status' # status
    <3>1. PICK w \in Workers : Work(w)
      BY <1>3, <2>3, Frames DEF Next, Submit, Admit, Refuse, Enqueue, repositoryVars
    <3>2. /\ task[w] \in Jobs
          /\ \E s \in Statuses : status' = [status EXCEPT ![task[w]] = s]
      BY <2>3, <3>1, WorkStatus
    <3>4. task[w] \in stored
      <4>1. MarkRunning(w) \/ MarkSucceeded(w) \/ MarkFailed(w)
        BY <2>3, <3>1 DEF Work, CheckStop, PollTask, PollTimeout, PopProvider, Infer,
                          RecordError, RecordLatency, TaskDone, ReleasePermit,
                          repositoryVars
      <4>2. status[task[w]] \in {"pending", "running"}
        BY <4>1 DEF MarkRunning, MarkSucceeded, MarkFailed, IInv, WorkerInv
      <4> QED
        BY <3>2, <4>2 DEF IInv
    <3> QED
      BY <1>1, <2>1, <3>2, <3>4 DEF HistoryInv
  <2> QED
    BY <2>2, <2>3
<1> QED
  BY <1>2, <1>3

LEMMA SurviveStep ==
    ASSUME IInv, Next
    PROVE  WorkersSurvive'
<1> USE DEF WorkersSurvive
<1>1. WorkersSurvive /\ pc \in [Workers -> WorkerSteps]
  BY DEF IInv, TypeOK
<1>2. CASE \E w \in Workers : Work(w)
  <2>1. PICK w \in Workers : Work(w)
    BY <1>2
  <2>2. doomed' = doomed
    BY <2>1, WorkSucceeds
       DEF Work, CheckStop, PollTask, PollTimeout, PopProvider, MarkRunning, Infer,
           MarkSucceeded, RecordError, RecordLatency, TaskDone, ReleasePermit, Goto
  <2>3. \E s \in WorkerSteps \ {"dead"} : pc' = [pc EXCEPT ![w] = s]
    <3> USE DEF WorkerSteps
    <3>1. CASE MarkRunning(w) \/ MarkSucceeded(w) \/ PopProvider(w) \/ ReleasePermit(w)
      BY <3>1, WorkSucceeds
    <3>2. CASE CheckStop(w) \/ PollTimeout(w) \/ Infer(w) \/ RecordError(w)
                            \/ RecordLatency(w)
      BY <3>2 DEF CheckStop, PollTimeout, Infer, RecordError, RecordLatency, Goto
    <3>3. CASE PollTask(w) \/ MarkFailed(w) \/ TaskDone(w)
      BY <3>3 DEF PollTask, MarkFailed, TaskDone
    <3> QED
      BY <2>1, <3>1, <3>2, <3>3 DEF Work
  <2> QED
    BY <1>1, <2>2, <2>3
<1>3. CASE ~ \E w \in Workers : Work(w)
  BY <1>1, <1>3, Frames DEF Next, workerVars
<1> QED
  BY <1>2, <1>3

\* unfinished_tasks goes up and down with the tasks it stands for.
LEMMA UnfinishedStep ==
    ASSUME IInv, Next
    PROVE  UnfinishedInv' /\ unfinished' \in Nat
<1>1. /\ unfinished = Cardinality(Holding) /\ IsFiniteSet(Holding)
      /\ Cardinality(Holding) \in Nat /\ closer \in [Closers -> CloserSteps]
  BY HoldingFinite DEF IInv, TypeOK, UnfinishedInv
<1>2. CASE \E j \in Jobs : Enqueue(j)
  <2>1. PICK j \in Jobs : Enqueue(j)
    BY <1>2
  <2>2. unfinished' = unfinished + 1 /\ j \notin Holding /\ Holding' = Holding \cup {j}
    BY <2>1, EnqueueSucceeds, HoldingStep
  <2>3. Cardinality(Holding \cup {j}) = Cardinality(Holding) + 1
    BY <1>1, <2>2, FS_AddElement
  <2>4. closer' = closer /\ ~ closed
    BY <2>1, LocalJobsAssumption
       DEF Enqueue, shutdownVars, IInv, LockInv, Submitting
  <2>5. \A c \in WaitingClosers : closer'[c] \notin {"stop", "join_threads", "returned"}
    BY <2>4, LocalJobsAssumption DEF IInv, LockInv
  <2> QED
    BY <1>1, <2>2, <2>3, <2>5 DEF UnfinishedInv
<1>3. CASE \E w \in Workers : TaskDone(w)
  <2>1. PICK w \in Workers : TaskDone(w)
    BY <1>3
  <2>2. Holding' = Holding \ {task[w]} /\ task[w] \in Holding
    BY <2>1, HoldingStep
  <2>3. unfinished' = unfinished - 1 /\ closer' = closer
    BY <2>1 DEF TaskDone, shutdownVars
  <2>4. Cardinality(Holding \ {task[w]}) = Cardinality(Holding) - 1
    BY <1>1, <2>2, FS_RemoveElement
  <2>5. Cardinality(Holding) # 0
    BY <2>2, HoldingFinite
  <2>6. \A c \in WaitingClosers : closer'[c] \notin {"stop", "join_threads", "returned"}
    BY <1>1, <2>3, <2>5 DEF IInv, UnfinishedInv
  <2> QED
    BY <1>1, <2>2, <2>3, <2>4, <2>5, <2>6 DEF UnfinishedInv
<1>4. CASE ~ ((\E j \in Jobs : Enqueue(j)) \/ (\E w \in Workers : TaskDone(w)))
  <2>1. unfinished' = unfinished
    BY <1>4, Frames
       DEF Next, Submit, Admit, Refuse, CreateRecord, Work, CheckStop, PollTask,
           PollTimeout, PopProvider, MarkRunning, Infer, MarkSucceeded, RecordError,
           MarkFailed, RecordLatency, ReleasePermit, queueVars
  <2>2. Holding' = Holding
    <3>1. CASE \E w \in Workers : PollTask(w)
      BY <3>1, HoldingStep
    <3>2. CASE ~ \E w \in Workers : PollTask(w)
      <4>1. UNCHANGED <<queue, task>>
        BY <1>4, <3>2, Frames
           DEF Next, Submit, Admit, Refuse, CreateRecord, Work, CheckStop,
               PollTimeout, PopProvider, MarkRunning, Infer, MarkSucceeded, RecordError,
               MarkFailed, RecordLatency, ReleasePermit, Goto, queueVars, workerVars
      <4> QED
        BY <4>1, HoldingStep
    <3> QED
      BY <3>1, <3>2
  <2>3. \A c \in WaitingClosers :
            closer'[c] \in {"stop", "join_threads", "returned"} => unfinished = 0
    <3>1. CASE \E d \in Closers : Shutdown(d)
      <4>1. PICK d \in Closers : Shutdown(d)
        BY <3>1
      <4>2. \A c \in Closers : c # d => closer'[c] = closer[c]
        BY <4>1, <1>1 DEF Shutdown, Close, JoinQueue, SetStopEvent, JoinThreads
      <4>3. d \in WaitingClosers /\ closer'[d] \in {"stop", "join_threads", "returned"}
              => unfinished = 0
        BY <4>1, <1>1
           DEF Shutdown, Close, JoinQueue, SetStopEvent, JoinThreads, IInv, UnfinishedInv
      <4> QED
        BY <4>2, <4>3, LocalJobsAssumption DEF IInv, UnfinishedInv
    <3>2. CASE ~ \E d \in Closers : Shutdown(d)
      <4>1. closer' = closer
        BY <3>2, Frames DEF Next, shutdownVars
      <4> QED
        BY <4>1 DEF IInv, UnfinishedInv
    <3> QED
      BY <3>1, <3>2
  <2> QED
    BY <1>1, <2>1, <2>2, <2>3 DEF UnfinishedInv
<1> QED
  BY <1>2, <1>3, <1>4

\* Each step moves a permit from one holder to the next.
LEMMA PermitStep ==
    ASSUME IInv, Next
    PROVE  PermitsAreConserved' /\ permits' \in 0..MaxPending
<1> DEFINE inSubmit == CountOf(client, {"create", "enqueue"})
           inRelease == CountOf(pc, {"release"})
           inSubmitNext == CountOf(client', {"create", "enqueue"})
           inReleaseNext == CountOf(pc', {"release"})
<1>1. /\ client \in [Jobs -> ClientSteps] /\ pc \in [Workers -> WorkerSteps]
      /\ status \in [Jobs -> Statuses]
      /\ permits \in Nat /\ unfinished \in Nat /\ unfinished' \in Nat
      /\ MaxPending \in Nat /\ IsFiniteSet(Jobs) /\ IsFiniteSet(Workers)
      /\ DOMAIN client = Jobs /\ DOMAIN pc = Workers
  BY UnfinishedStep, LocalJobsAssumption DEF IInv, TypeOK
<1>2. permits + unfinished + inSubmit + inRelease = MaxPending
  BY <1>1, CountedBy DEF IInv, PermitsAreConserved, Submitting, WorkerSteps
<1>3. PermitsAreConserved'
        <=> permits' + unfinished' + inSubmitNext + inReleaseNext = MaxPending
  <2>1. /\ client' \in [Jobs -> ClientSteps] /\ pc' \in [Workers -> WorkerSteps]
        /\ status' \in [Jobs -> Statuses]
    BY TypeStep
  <2> QED
    BY <2>1, CountedBy DEF PermitsAreConserved, Submitting, WorkerSteps
<1>4. ASSUME NEW j \in Jobs, \A d \in Jobs : d # j => client'[d] = client[d]
      PROVE  inSubmitNext + (IF client[j] \in {"create", "enqueue"} THEN 1 ELSE 0)
                 = inSubmit + (IF client'[j] \in {"create", "enqueue"} THEN 1 ELSE 0)
  <2>1. /\ client \in [Jobs -> ClientSteps] /\ client' \in [Jobs -> ClientSteps]
        /\ IsFiniteSet(Jobs)
    BY <1>1, TypeStep
  <2>2. ChangesOnlyAt(client, client', j)
    BY <1>4, <2>1 DEF ChangesOnlyAt
  <2>3. CountOf(client', {"create", "enqueue"}) + CountAt(client, {"create", "enqueue"}, j)
           = CountOf(client, {"create", "enqueue"})
                 + CountAt(client', {"create", "enqueue"}, j)
    BY <2>2, CountUpdated
  <2> QED
    BY <2>3 DEF CountAt
<1>5. ASSUME NEW w \in Workers, \A d \in Workers : d # w => pc'[d] = pc[d]
      PROVE  inReleaseNext + (IF pc[w] \in {"release"} THEN 1 ELSE 0)
                 = inRelease + (IF pc'[w] \in {"release"} THEN 1 ELSE 0)
  <2>1. /\ pc \in [Workers -> WorkerSteps] /\ pc' \in [Workers -> WorkerSteps]
        /\ IsFiniteSet(Workers)
    BY <1>1, TypeStep
  <2>2. ChangesOnlyAt(pc, pc', w)
    BY <1>5, <2>1 DEF ChangesOnlyAt
  <2>3. CountOf(pc', {"release"}) + CountAt(pc, {"release"}, w)
           = CountOf(pc, {"release"}) + CountAt(pc', {"release"}, w)
    BY <2>2, CountUpdated
  <2> QED
    BY <2>3 DEF CountAt
<1>6. /\ inSubmit \in Nat /\ inSubmitNext \in Nat
      /\ inRelease \in Nat /\ inReleaseNext \in Nat
  <2>1. /\ client' \in [Jobs -> ClientSteps] /\ pc' \in [Workers -> WorkerSteps]
    BY TypeStep
  <2> QED
    BY <1>1, <2>1, CountIsNatural
<1> HIDE DEF inSubmit, inRelease, inSubmitNext, inReleaseNext
<1>7. CASE \E j \in Jobs : Submit(j)
  <2>1. PICK j \in Jobs : Submit(j)
    BY <1>7
  <2>2. inReleaseNext = inRelease
    BY <2>1, Frames DEF workerVars, inRelease, inReleaseNext
  <2>3. CASE Admit(j)
    <3>1. /\ permits' = permits - 1 /\ permits > 0 /\ client[j] = "idle"
          /\ client' = [client EXCEPT ![j] = "create"] /\ unfinished' = unfinished
      BY <2>3 DEF Admit, queueVars
    <3>2. inSubmitNext = inSubmit + 1
      BY <1>1, <1>4, <1>6, <3>1
    <3> QED
      BY <1>1, <1>2, <1>3, <1>6, <2>2, <3>1, <3>2
  <2>4. CASE Refuse(j)
    <3>1. /\ UNCHANGED <<permits, unfinished>> /\ client[j] = "idle"
          /\ client' = [client EXCEPT ![j] = "rejected"]
      BY <2>4 DEF Refuse, queueVars
    <3>2. inSubmitNext = inSubmit
      BY <1>1, <1>4, <1>6, <3>1
    <3> QED
      BY <1>1, <1>2, <1>3, <1>6, <2>2, <3>1, <3>2
  <2>5. CASE CreateRecord(j)
    <3>1. /\ UNCHANGED <<permits, unfinished>> /\ client[j] = "create"
          /\ client' = [client EXCEPT ![j] = "enqueue"]
      BY <2>5, CreateSucceeds DEF CreateRecord, queueVars
    <3>2. inSubmitNext = inSubmit
      BY <1>1, <1>4, <1>6, <3>1
    <3> QED
      BY <1>1, <1>2, <1>3, <1>6, <2>2, <3>1, <3>2
  <2>6. CASE Enqueue(j)
    <3>1. /\ permits' = permits /\ unfinished' = unfinished + 1 /\ client[j] = "enqueue"
          /\ client' = [client EXCEPT ![j] = "accepted"]
      BY <2>6, EnqueueSucceeds DEF Enqueue
    <3>2. inSubmitNext = inSubmit - 1
      BY <1>1, <1>4, <1>6, <3>1
    <3> QED
      BY <1>1, <1>2, <1>3, <1>6, <2>2, <3>1, <3>2
  <2> QED
    BY <2>1, <2>3, <2>4, <2>5, <2>6 DEF Submit
<1>8. CASE \E c \in Closers : Shutdown(c)
  <2>1. UNCHANGED <<permits, unfinished, client, pc>>
    BY <1>8, Frames DEF queueVars, workerVars
  <2>2. inSubmitNext = inSubmit /\ inReleaseNext = inRelease
    BY <2>1 DEF inSubmit, inRelease, inSubmitNext, inReleaseNext
  <2> QED
    BY <1>1, <1>2, <1>3, <1>6, <2>1, <2>2
<1>9. CASE \E w \in Workers : Work(w)
  <2>1. PICK w \in Workers : Work(w)
    BY <1>9
  <2>2. inSubmitNext = inSubmit
    BY <2>1, Frames DEF inSubmit, inSubmitNext
  <2>3. CASE TaskDone(w)
    <3>1. /\ permits' = permits /\ unfinished' = unfinished - 1 /\ pc[w] = "task_done"
          /\ pc' = [pc EXCEPT ![w] = "release"]
      BY <2>3 DEF TaskDone
    <3>2. inReleaseNext = inRelease + 1
      BY <1>1, <1>5, <1>6, <3>1
    <3> QED
      BY <1>1, <1>2, <1>3, <1>6, <2>2, <3>1, <3>2
  <2>4. CASE ReleasePermit(w)
    <3>1. /\ permits' = permits + 1 /\ unfinished' = unfinished /\ pc[w] = "release"
          /\ pc' = [pc EXCEPT ![w] = "loop"]
      BY <2>4, WorkSucceeds DEF ReleasePermit, queueVars
    <3>2. inReleaseNext = inRelease - 1 /\ inReleaseNext \in Nat
      BY <1>1, <1>5, <1>6, <3>1
    <3> QED
      BY <1>1, <1>2, <1>3, <1>6, <2>2, <3>1, <3>2
  <2>5. CASE ~ (TaskDone(w) \/ ReleasePermit(w))
    <3>1. UNCHANGED <<permits, unfinished>> /\ pc[w] # "release"
      BY <2>1, <2>5
         DEF Work, CheckStop, PollTask, PollTimeout, PopProvider, MarkRunning, Infer,
             MarkSucceeded, RecordError, MarkFailed, RecordLatency, queueVars
    <3>2. \E s \in WorkerSteps \ {"release"} : pc' = [pc EXCEPT ![w] = s]
      BY <2>1, <2>5
         DEF Work, CheckStop, PollTask, PollTimeout, PopProvider, MarkRunning, Infer,
             MarkSucceeded, RecordError, MarkFailed, RecordLatency, Goto, WorkerSteps
    <3>3. inReleaseNext = inRelease
      BY <1>1, <1>5, <1>6, <3>1, <3>2
    <3> QED
      BY <1>1, <1>2, <1>3, <1>6, <2>2, <3>1, <3>3
  <2> QED
    BY <2>3, <2>4, <2>5
<1> QED
  BY <1>7, <1>8, <1>9 DEF Next

\* An error is counted before its job fails, and every failure was counted.
LEMMA ErrorStep ==
    ASSUME IInv, Next
    PROVE  ErrorsMatchRecords'
<1> DEFINE failed == CountOf(status, {"failed"})
           failing == CountOf(pc, {"mark_failed"})
           failedNext == CountOf(status', {"failed"})
           failingNext == CountOf(pc', {"mark_failed"})
<1>1. /\ client \in [Jobs -> ClientSteps] /\ pc \in [Workers -> WorkerSteps]
      /\ status \in [Jobs -> Statuses] /\ modelErrors \in Nat
      /\ IsFiniteSet(Jobs) /\ IsFiniteSet(Workers)
      /\ DOMAIN status = Jobs /\ DOMAIN pc = Workers
  BY LocalJobsAssumption DEF IInv, TypeOK
<1>2. modelErrors = failed + failing
  BY <1>1, CountedBy DEF IInv, ErrorsMatchRecords, WorkerSteps
<1>3. ErrorsMatchRecords' <=> modelErrors' = failedNext + failingNext
  <2>1. /\ client' \in [Jobs -> ClientSteps] /\ pc' \in [Workers -> WorkerSteps]
        /\ status' \in [Jobs -> Statuses]
    BY TypeStep
  <2> QED
    BY <2>1, CountedBy DEF ErrorsMatchRecords, WorkerSteps
<1>4. ASSUME NEW j \in Jobs, \A d \in Jobs : d # j => status'[d] = status[d]
      PROVE  failedNext + (IF status[j] \in {"failed"} THEN 1 ELSE 0)
                 = failed + (IF status'[j] \in {"failed"} THEN 1 ELSE 0)
  <2>1. /\ status \in [Jobs -> Statuses] /\ status' \in [Jobs -> Statuses]
        /\ IsFiniteSet(Jobs)
    BY <1>1, TypeStep
  <2>2. ChangesOnlyAt(status, status', j)
    BY <1>4, <2>1 DEF ChangesOnlyAt
  <2>3. CountOf(status', {"failed"}) + CountAt(status, {"failed"}, j)
           = CountOf(status, {"failed"}) + CountAt(status', {"failed"}, j)
    BY <2>2, CountUpdated
  <2> QED
    BY <2>3 DEF CountAt
<1>5. ASSUME NEW w \in Workers, \A d \in Workers : d # w => pc'[d] = pc[d]
      PROVE  failingNext + (IF pc[w] \in {"mark_failed"} THEN 1 ELSE 0)
                 = failing + (IF pc'[w] \in {"mark_failed"} THEN 1 ELSE 0)
  <2>1. /\ pc \in [Workers -> WorkerSteps] /\ pc' \in [Workers -> WorkerSteps]
        /\ IsFiniteSet(Workers)
    BY <1>1, TypeStep
  <2>2. ChangesOnlyAt(pc, pc', w)
    BY <1>5, <2>1 DEF ChangesOnlyAt
  <2>3. CountOf(pc', {"mark_failed"}) + CountAt(pc, {"mark_failed"}, w)
           = CountOf(pc, {"mark_failed"}) + CountAt(pc', {"mark_failed"}, w)
    BY <2>2, CountUpdated
  <2> QED
    BY <2>3 DEF CountAt
<1>6. /\ failed \in Nat /\ failedNext \in Nat
      /\ failing \in Nat /\ failingNext \in Nat
  <2>1. /\ status' \in [Jobs -> Statuses] /\ pc' \in [Workers -> WorkerSteps]
    BY TypeStep
  <2> QED
    BY <1>1, <2>1, CountIsNatural
<1> HIDE DEF failed, failing, failedNext, failingNext
<1>7. CASE \E j \in Jobs : Submit(j)
  <2>1. PICK j \in Jobs : Submit(j)
    BY <1>7
  <2>2. failingNext = failing /\ modelErrors' = modelErrors
    BY <2>1, Frames DEF workerVars, metricVars, failing, failingNext
  <2>3. CASE CreateRecord(j)
    <3>1. status' = [status EXCEPT ![j] = "pending"] /\ status[j] = "absent"
      BY <2>3, CreateSucceeds DEF CreateRecord, IInv, ClientInv
    <3>2. failedNext = failed
      BY <1>1, <1>4, <1>6, <3>1
    <3> QED
      BY <1>2, <1>3, <2>2, <3>2
  <2>4. CASE ~ CreateRecord(j)
    <3>1. failedNext = failed
      BY <2>1, <2>4 DEF Submit, Admit, Refuse, Enqueue, repositoryVars, failed, failedNext
    <3> QED
      BY <1>2, <1>3, <2>2, <3>1
  <2> QED
    BY <2>3, <2>4
<1>8. CASE \E c \in Closers : Shutdown(c)
  <2>1. UNCHANGED <<status, pc, modelErrors>>
    BY <1>8, Frames DEF repositoryVars, workerVars, metricVars
  <2> QED
    BY <1>2, <1>3, <2>1 DEF failed, failing, failedNext, failingNext
<1>9. CASE \E w \in Workers : Work(w)
  <2>1. PICK w \in Workers : Work(w)
    BY <1>9
  <2>2. CASE RecordError(w)
    <3>1. /\ modelErrors' = modelErrors + 1 /\ pc[w] = "record_error"
          /\ pc' = [pc EXCEPT ![w] = "mark_failed"] /\ status' = status
      BY <2>2 DEF RecordError, Goto, repositoryVars
    <3>2. failingNext = failing + 1 /\ failedNext = failed
      BY <1>1, <1>5, <1>6, <3>1 DEF failed, failedNext
    <3> QED
      BY <1>1, <1>2, <1>3, <1>6, <3>1, <3>2
  <2>3. CASE MarkFailed(w)
    <3>1. /\ modelErrors' = modelErrors /\ pc[w] = "mark_failed"
          /\ pc' = [pc EXCEPT ![w] = "latency"]
          /\ status' = [status EXCEPT ![task[w]] = "failed"]
          /\ status[task[w]] = "running" /\ task[w] # None
      BY <2>3, WorkSucceeds DEF MarkFailed, IInv, WorkerInv
    <3>2. task[w] \in Jobs
      BY <3>1, TaskFacts
    <3>3. failingNext = failing - 1 /\ failedNext = failed + 1
      BY <1>1, <1>4, <1>5, <1>6, <3>1, <3>2
    <3> QED
      BY <1>1, <1>2, <1>3, <1>6, <3>1, <3>3
  <2>4. CASE ~ (RecordError(w) \/ MarkFailed(w))
    <3>1. modelErrors' = modelErrors /\ pc[w] # "mark_failed"
      BY <2>1, <2>4
         DEF Work, CheckStop, PollTask, PollTimeout, PopProvider, MarkRunning, Infer,
             MarkSucceeded, RecordLatency, TaskDone, ReleasePermit, metricVars
    <3>2. \E s \in WorkerSteps \ {"mark_failed"} : pc' = [pc EXCEPT ![w] = s]
      <4> USE DEF WorkerSteps
      <4>1. CASE MarkRunning(w) \/ MarkSucceeded(w) \/ PopProvider(w) \/ ReleasePermit(w)
        BY <4>1, WorkSucceeds
      <4>2. CASE CheckStop(w) \/ PollTimeout(w) \/ Infer(w) \/ RecordLatency(w)
                              \/ PollTask(w) \/ TaskDone(w)
        BY <4>2 DEF CheckStop, PollTimeout, Infer, RecordLatency, PollTask, TaskDone, Goto
      <4> QED
        BY <2>1, <2>4, <4>1, <4>2 DEF Work
    <3>3. failingNext = failing
      BY <1>1, <1>5, <1>6, <3>1, <3>2
    <3>4. failedNext = failed
      <4>1. CASE MarkRunning(w) \/ MarkSucceeded(w)
        <5>1. /\ status[task[w]] \in {"pending", "running"} /\ task[w] # None
              /\ \E s \in {"running", "succeeded"} :
                     status' = [status EXCEPT ![task[w]] = s]
          BY <4>1, WorkSucceeds DEF MarkRunning, MarkSucceeded, IInv, WorkerInv
        <5>2. task[w] \in Jobs
          BY <5>1, TaskFacts
        <5> QED
          BY <1>1, <1>4, <1>6, <5>1, <5>2
      <4>2. CASE ~ (MarkRunning(w) \/ MarkSucceeded(w))
        BY <2>1, <2>4, <4>2
           DEF Work, CheckStop, PollTask, PollTimeout, PopProvider, Infer, RecordLatency,
               TaskDone, ReleasePermit, repositoryVars, failed, failedNext
      <4> QED
        BY <4>1, <4>2
    <3> QED
      BY <1>2, <1>3, <3>1, <3>3, <3>4
  <2> QED
    BY <2>2, <2>3, <2>4
<1> QED
  BY <1>7, <1>8, <1>9 DEF Next

-------------------------------------------------------------------------------
(***************************************************************************)
(* The invariant holds, and what follows from it.                          *)
(***************************************************************************)

LEMMA InitInv == Init => IInv
<1> SUFFICES ASSUME Init PROVE IInv
  OBVIOUS
<1> USE DEF Init
<1>1. TypeOK
  <2>1. history \in Seq(Jobs) /\ queue \in Seq(Jobs)
    BY EmptySeq
  <2>2. /\ status \in [Jobs -> Statuses] /\ client \in [Jobs -> ClientSteps]
        /\ closer \in [Closers -> CloserSteps] /\ pc \in [Workers -> WorkerSteps]
        /\ task \in [Workers -> Jobs \cup {None}]
    BY DEF Statuses, ClientSteps, CloserSteps, WorkerSteps
  <2>3. permits \in 0..MaxPending
    BY LocalJobsAssumption
  <2> QED
    BY <2>1, <2>2, <2>3 DEF TypeOK
<1>2. ToSet(queue) = {} /\ stored = {} /\ IsInjective(queue) /\ IsInjective(history)
  BY DEF ToSet, stored, IsInjective
<1>3. Holding = {} /\ Cardinality(Holding) = 0
  BY <1>2, FS_EmptySet, LocalJobsAssumption DEF Holding, Queued, Executed
<1>4. LockInv /\ ClientInv /\ QueueInv /\ WorkerInv
  BY <1>2, <1>3, LocalJobsAssumption
     DEF LockInv, ClientInv, QueueInv, WorkerInv, Submitting
<1>5. HistoryInv /\ UnfinishedInv /\ ActiveIsStored /\ WorkersSurvive
  BY <1>2, <1>3, EmptySeq, LocalJobsAssumption
     DEF HistoryInv, UnfinishedInv, ActiveIsStored, WorkersSurvive
<1>6. /\ {j \in Jobs : Submitting(j)} = {} /\ {w \in Workers : pc[w] = "release"} = {}
      /\ {j \in Jobs : status[j] = "failed"} = {}
      /\ {w \in Workers : pc[w] = "mark_failed"} = {}
  BY DEF Submitting
<1>7. PermitsAreConserved /\ ErrorsMatchRecords
  <2>1. /\ Cardinality({j \in Jobs : Submitting(j)}) = 0
        /\ Cardinality({w \in Workers : pc[w] = "release"}) = 0
        /\ Cardinality({j \in Jobs : status[j] = "failed"}) = 0
        /\ Cardinality({w \in Workers : pc[w] = "mark_failed"}) = 0
    BY ONLY <1>6, FS_EmptySet
  <2>2. permits = MaxPending /\ unfinished = 0 /\ modelErrors = 0 /\ MaxPending \in Nat
    BY LocalJobsAssumption
  <2> QED
    BY ONLY <2>1, <2>2 DEF PermitsAreConserved, ErrorsMatchRecords
<1> QED
  BY <1>1, <1>4, <1>5, <1>7 DEF IInv

LEMMA NextInv == IInv /\ [Next]_vars => IInv'
<1> SUFFICES ASSUME IInv, [Next]_vars PROVE IInv'
  OBVIOUS
<1>1. CASE Next
  <2>1. TypeOK'
    BY <1>1, TypeStep, UnfinishedStep, PermitStep DEF TypeOK
  <2> QED
    BY <1>1, <2>1, LockStep, ClientStep, QueueStep, WorkerStep, StoredKept, SurviveStep,
       UnfinishedStep, PermitStep, ErrorStep DEF IInv
<1>2. CASE UNCHANGED vars
  <2> USE <1>2 DEF vars, repositoryVars, queueVars, shutdownVars, workerVars, metricVars
  <2>1. stored' = stored /\ Holding' = Holding
    BY HoldingStep DEF stored
  <2>2. TypeOK' /\ LockInv' /\ HistoryInv' /\ ActiveIsStored' /\ WorkersSurvive'
    BY <2>1 DEF IInv, TypeOK, LockInv, Submitting, HistoryInv, ActiveIsStored,
                WorkersSurvive
  <2>3. ClientInv' /\ UnfinishedInv'
    BY <2>1 DEF IInv, ClientInv, UnfinishedInv
  <2>4. QueueInv' /\ WorkerInv'
    BY DEF IInv, QueueInv, WorkerInv, Executed
  <2>5. PermitsAreConserved' /\ ErrorsMatchRecords'
    BY DEF IInv, PermitsAreConserved, ErrorsMatchRecords, Submitting
  <2> QED
    BY <2>2, <2>3, <2>4, <2>5 DEF IInv
<1> QED
  BY <1>1, <1>2

LEMMA Invariance == Spec => []IInv
BY InitInv, NextInv, PTL DEF Spec

\* The executor's variables keep their types: no permit beyond MaxPending is
\* ever released, and task_done is never called more often than put.
THEOREM TypeCorrect == Spec => []TypeOK
BY Invariance, PTL DEF IInv

\* No permit leaks and none is released twice, however submits, failures,
\* eviction and shutdown interleave (BoundedSemaphore would raise).
THEOREM PermitsConserved == Spec => []PermitsAreConserved
BY Invariance, PTL DEF IInv

\* Eviction never drops a job that a client still waits for.
THEOREM ActiveJobsStored == Spec => []ActiveIsStored
BY Invariance, PTL DEF IInv

\* No exception ever leaves _execute: a worker thread only ends by shutdown.
THEOREM NoThreadDies == Spec => []WorkersSurvive
BY Invariance, PTL DEF IInv

\* The model error counter agrees with the failed records.
THEOREM ErrorsCounted == Spec => []ErrorsMatchRecords
BY Invariance, PTL DEF IInv

\* A rejected submit left neither a record nor a provider: the clean-up that
\* submit does not have is not needed.
THEOREM RejectionLeavesNothing == Spec => []RejectedLeavesNothing
<1>1. IInv => RejectedLeavesNothing
  BY DEF IInv, ClientInv, RejectedLeavesNothing
<1> QED
  BY <1>1, Invariance, PTL

\* shutdown(wait=True) stops the threads only after every accepted job is
\* finished: with no task unfinished, none is queued or in a worker.
THEOREM ShutdownDrains == Spec => []DrainedBeforeStop
<1>1. IInv => DrainedBeforeStop
  <2> SUFFICES ASSUME IInv, NEW c \in WaitingClosers,
                      closer[c] \in {"stop", "join_threads", "returned"},
                      NEW j \in Jobs, client[j] = "accepted"
               PROVE  status[j] \in Terminal
    BY DEF DrainedBeforeStop
  <2>1. Holding = {}
    BY HoldingFinite DEF IInv, UnfinishedInv
  <2> QED
    BY <2>1 DEF IInv, ClientInv
<1> QED
  BY <1>1, Invariance, PTL

-------------------------------------------------------------------------------
(***************************************************************************)
(* The local executor implements the job lifecycle.  Create, Enqueue,      *)
(* Start, Succeed, Fail and Release are the steps of the same name of      *)
(* submit, _execute and task_done; every other step is a stutter.          *)
(***************************************************************************)

\* In a state of the invariant, what is held is what is queued or executed.
LEMMA DeliveryIs ==
    deliveryOf = [j \in Jobs |-> IF client[j] # "accepted" THEN "none"
                                 ELSE IF j \in Holding THEN "held" ELSE "released"]
BY DEF deliveryOf, Holding, Queued, Executed

LEMMA DeliveryNext ==
    deliveryOf' = [j \in Jobs |-> IF client'[j] # "accepted" THEN "none"
                                  ELSE IF j \in Holding' THEN "held" ELSE "released"]
BY DEF deliveryOf, Holding, Queued, Executed

LEMMA InitRefines == Init => JL!Init
<1> SUFFICES ASSUME Init PROVE JL!Init
  OBVIOUS
<1>1. deliveryOf = [j \in Jobs |-> "none"]
  BY DEF Init, deliveryOf
<1>2. [j \in Jobs |-> j \in ToSet(history)] = [j \in Jobs |-> FALSE]
  <2>1. ToSet(history) = {}
    BY DEF Init, ToSet
  <2>2. \A j \in Jobs : (j \in ToSet(history)) = FALSE
    BY <2>1
  <2> QED
    BY <2>2, Zenon
<1> QED
  BY <1>1, <1>2 DEF Init, JL!Init

LEMMA Stutter ==
    ASSUME UNCHANGED <<status, history, client>>, Holding' = Holding
    PROVE  UNCHANGED JL!lifecycleVars
BY DeliveryIs, DeliveryNext DEF JL!lifecycleVars

LEMMA SubmitRefines ==
    ASSUME IInv, NEW j \in Jobs, Submit(j)
    PROVE  JL!Step(j) \/ UNCHANGED JL!lifecycleVars
<1>0. client \in [Jobs -> ClientSteps] /\ status \in [Jobs -> Statuses]
  BY DEF IInv, TypeOK
<1>1. CASE Admit(j) \/ Refuse(j)
  <2>1. /\ UNCHANGED <<status, history, queue, task>> /\ client[j] = "idle"
        /\ \E s \in {"create", "rejected"} : client' = [client EXCEPT ![j] = s]
    BY <1>1 DEF Admit, Refuse, repositoryVars, queueVars, workerVars
  <2>2. Holding' = Holding
    BY <2>1, HoldingStep
  <2>3. \A k \in Jobs : client'[k] = "accepted" <=> client[k] = "accepted"
    BY <1>0, <2>1
  <2>4. deliveryOf' = deliveryOf
    BY <2>2, <2>3, DeliveryIs, DeliveryNext
  <2> QED
    BY <2>1, <2>4 DEF JL!lifecycleVars
<1>2. CASE CreateRecord(j)
  <2>1. /\ client[j] = "create" /\ status[j] = "absent"
        /\ UNCHANGED <<queue, task>>
    BY <1>2 DEF CreateRecord, queueVars, workerVars, IInv, ClientInv
  <2>2. /\ status' = [status EXCEPT ![j] = "pending"]
        /\ client' = [client EXCEPT ![j] = "enqueue"]
    BY <1>2, CreateSucceeds
  <2>3. Holding' = Holding
    BY <2>1, HoldingStep
  <2>4. \A k \in Jobs : client'[k] = "accepted" <=> client[k] = "accepted"
    BY <1>0, <2>1, <2>2
  <2>5. deliveryOf' = deliveryOf
    BY <2>3, <2>4, DeliveryIs, DeliveryNext
  <2> DEFINE gone == {k \in Jobs : k \in stored /\ k \notin stored'}
             was == [k \in Jobs |-> k \in ToSet(history)]
  <2>6. gone \in SUBSET {k \in Jobs : status[k] \in JL!Terminal}
    BY <1>2, StoredStep DEF Terminal, JL!Terminal
  <2>7. [k \in Jobs |-> k \in ToSet(history')]
          = [k \in Jobs |-> k = j \/ (was[k] /\ k \notin gone)]
    <3>1. ASSUME NEW k \in Jobs
          PROVE  k \in ToSet(history') <=> k = j \/ (was[k] /\ k \notin gone)
      BY <1>2, StoredStep DEF stored
    <3> HIDE DEF gone, was
    <3>2. ASSUME NEW k \in Jobs
          PROVE  (k \in ToSet(history')) = (k = j \/ (was[k] /\ k \notin gone))
      BY <3>1
    <3> QED
      BY <3>2, Zenon
  <2> HIDE DEF gone
  <2>8. JL!Create(j)
    BY <2>1, <2>2, <2>5, <2>6, <2>7 DEF JL!Create
  <2> QED
    BY <2>8 DEF JL!Step
<1>3. CASE Enqueue(j)
  <2>1. UNCHANGED <<status, history>> /\ status[j] # "absent"
    BY <1>3 DEF Enqueue, repositoryVars, IInv, ClientInv
  <2>2. Holding' = Holding \cup {j} /\ client' = [client EXCEPT ![j] = "accepted"]
    BY <1>3, HoldingStep, EnqueueSucceeds
  <2>3. deliveryOf' = [deliveryOf EXCEPT ![j] = "held"]
    BY <1>0, <2>2, DeliveryIs, DeliveryNext
  <2>4. JL!Enqueue(j)
    BY <2>1, <2>3 DEF JL!Enqueue
  <2> QED
    BY <2>4 DEF JL!Step
<1> QED
  BY <1>1, <1>2, <1>3 DEF Submit

\* A worker's change of a status is a Change of the lifecycle.
LEMMA ChangeRefines ==
    ASSUME IInv, NEW w \in Workers, NEW j, j = task[w], NEW from, NEW to,
           j # None, status[j] \in from, status[j] \in {"pending", "running"},
           status' = [status EXCEPT ![j] = to],
           UNCHANGED <<history, client, queue, task>>
    PROVE  /\ JL!Change(j, from, to)
           /\ deliveryOf[j] # "none"
<1>1. j \in Jobs /\ j \in stored /\ client[j] = "accepted"
  BY TaskFacts
<1>2. Holding' = Holding
  BY HoldingStep
<1>3. deliveryOf' = deliveryOf
  BY <1>2, DeliveryIs, DeliveryNext
<1>4. deliveryOf[j] # "none"
  BY <1>1, DeliveryIs
<1> QED
  BY <1>1, <1>3, <1>4 DEF JL!Change, stored

LEMMA WorkRefines ==
    ASSUME IInv, NEW w \in Workers, NEW j, j = task[w], Work(w)
    PROVE  (j \in Jobs /\ JL!Step(j)) \/ UNCHANGED JL!lifecycleVars
<1>1. CASE MarkRunning(w) \/ MarkSucceeded(w) \/ MarkFailed(w)
  <2>1. UNCHANGED <<history, client, queue, task>>
    BY <1>1 DEF MarkRunning, MarkSucceeded, MarkFailed, Goto, queueVars
  <2>2. j # None /\ j \in Jobs
    BY <1>1 DEF MarkRunning, MarkSucceeded, MarkFailed, IInv, WorkerInv, TypeOK
  <2>3. CASE MarkRunning(w)
    <3>1. status[j] = "pending" /\ status' = [status EXCEPT ![j] = "running"]
      BY <2>3, WorkSucceeds DEF MarkRunning, IInv, WorkerInv
    <3>2. JL!Change(j, {"pending"}, "running") /\ deliveryOf[j] # "none"
      BY <2>1, <2>2, <3>1, ChangeRefines
    <3> QED
      BY <2>2, <3>2 DEF JL!Start, JL!Step
  <2>4. CASE MarkSucceeded(w)
    <3>1. status[j] = "running" /\ status' = [status EXCEPT ![j] = "succeeded"]
      BY <2>4, WorkSucceeds DEF MarkSucceeded, IInv, WorkerInv
    <3>2. JL!Change(j, {"running"}, "succeeded")
      BY <2>1, <2>2, <3>1, ChangeRefines
    <3> QED
      BY <2>2, <3>2 DEF JL!Succeed, JL!Step
  <2>5. CASE MarkFailed(w)
    <3>1. status[j] = "running" /\ status' = [status EXCEPT ![j] = "failed"]
      BY <2>5, WorkSucceeds DEF MarkFailed, IInv, WorkerInv
    <3>2. JL!Change(j, {"pending", "running"}, "failed")
      BY <2>1, <2>2, <3>1, ChangeRefines
    <3> QED
      BY <2>2, <3>2 DEF JL!Fail, JL!Step
  <2> QED
    BY <1>1, <2>3, <2>4, <2>5
<1>2. CASE TaskDone(w)
  <2>1. /\ UNCHANGED <<status, history, client>>
        /\ j # None /\ status[j] \in Terminal
    BY <1>2 DEF TaskDone, repositoryVars, IInv, WorkerInv
  <2>2. Holding' = Holding \ {j} /\ j \in Holding
    BY <1>2, HoldingStep
  <2>3. j \in Jobs /\ client[j] = "accepted"
    BY <2>1, TaskFacts
  <2>4. /\ deliveryOf[j] = "held"
        /\ deliveryOf' = [deliveryOf EXCEPT ![j] = "released"]
    BY <2>1, <2>2, <2>3, DeliveryIs, DeliveryNext
  <2>5. JL!Release(j)
    BY <2>1, <2>4 DEF JL!Release
  <2> QED
    BY <2>3, <2>5 DEF JL!Step
<1>3. CASE PollTask(w)
  <2>1. UNCHANGED <<status, history, client>> /\ Holding' = Holding
    BY <1>3, HoldingStep DEF PollTask, repositoryVars
  <2> QED
    BY <2>1, Stutter
<1>4. CASE CheckStop(w) \/ PollTimeout(w) \/ PopProvider(w) \/ Infer(w) \/ RecordError(w)
                        \/ RecordLatency(w) \/ ReleasePermit(w)
  <2>1. UNCHANGED <<status, history, client, queue, task>>
    BY <1>4 DEF CheckStop, PollTimeout, PopProvider, Infer, RecordError, RecordLatency,
                ReleasePermit, Goto, repositoryVars, queueVars
  <2>2. Holding' = Holding
    BY <2>1, HoldingStep
  <2> QED
    BY <2>1, <2>2, Stutter
<1> QED
  BY <1>1, <1>2, <1>3, <1>4 DEF Work

LEMMA StepRefines == IInv /\ [Next]_vars => [JL!Next]_(JL!lifecycleVars)
<1> SUFFICES ASSUME IInv, [Next]_vars
             PROVE  JL!Next \/ UNCHANGED JL!lifecycleVars
  OBVIOUS
<1>1. CASE \E j \in Jobs : Submit(j)
  BY <1>1, SubmitRefines DEF JL!Next
<1>2. CASE \E w \in Workers : Work(w)
  <2>1. PICK w \in Workers : Work(w)
    BY <1>2
  <2>2. PICK j : j = task[w]
    OBVIOUS
  <2>3. (j \in Jobs /\ JL!Step(j)) \/ UNCHANGED JL!lifecycleVars
    BY <2>1, <2>2, WorkRefines
  <2> QED
    BY <2>3 DEF JL!Next
<1>3. CASE UNCHANGED <<status, history, client, queue, task>>
  BY <1>3, HoldingStep, Stutter
<1>4. (\E c \in Closers : Shutdown(c)) \/ UNCHANGED vars
         => UNCHANGED <<status, history, client, queue, task>>
  BY Frames DEF vars, repositoryVars, queueVars, workerVars
<1> QED
  BY <1>1, <1>2, <1>3, <1>4 DEF Next

\* Every behaviour of the local executor is, seen through deliveryOf, a
\* behaviour of the job lifecycle: a terminal status is final, only finished
\* records are evicted, nothing runs unqueued and no task is marked done
\* before its job has a terminal status.
THEOREM ImplementsLifecycle == Spec => LifecycleSpec
BY InitRefines, StepRefines, Invariance, PTL DEF Spec, LifecycleSpec, JL!Spec

===============================================================================
