------------------------------- MODULE GatesProofs -------------------------------
(***************************************************************************)
(* Theorems about the gates and audits of MCGates, each as the             *)
(* specification of its module has it and then of all of them as they run: *)
(* the error budget, the evaluation and its evidence, the drift audit and  *)
(* the diagnostics.  The verdicts are decided by sums, so the module       *)
(* begins with what a sum over a finite set of numbers is.                 *)
(***************************************************************************)
EXTENDS MCGates, SequenceTheorems, FiniteSetTheorems, WellFoundedInduction, TLAPS

-----------------------------------------------------------------------------
(* Sums.  SumFunctionOnSet is a fold that chooses its order.  Induction is *)
(* by counterexample: a least one exists in a well-founded order, and the  *)
(* set of those that satisfy the claim has it after all.                   *)

\* Induction over the naturals: a set with zero and every successor has all of them.
LEMMA NaturalsAreReached ==
    ASSUME NEW G, 0 \in G, \A n \in Nat : n \in G => n + 1 \in G
    PROVE  Nat \subseteq G
<1> DEFINE Bad == Nat \ G
<1> SUFFICES ASSUME Bad # {} PROVE FALSE
  OBVIOUS
<1> DEFINE Less == {p \in Nat \X Nat : p[1] < p[2]}
<1>1. IsWellFoundedOn(Less, Nat)
  BY Zenon, NatLessThanWellFounded DEF OpToRel
<1>2. PICK n \in Bad : \A m \in Bad : ~(<<m, n>> \in Less)
  <2>1. Bad \subseteq Nat
    OBVIOUS
  <2> HIDE DEF Bad, Less
  <2> QED
    BY <1>1, <2>1, WFMin, Zenon
<1>3. n # 0 /\ n - 1 \in Nat /\ n - 1 < n
  OBVIOUS
<1>4. <<n - 1, n>> \in Less
  BY <1>3
<1> QED
  BY <1>2, <1>3, <1>4

\* Induction over the subsets of a finite set: a set that has every subset whose parts
\* without one element it has, has all of them.
LEMMA SubsetsAreReached ==
    ASSUME NEW S, IsFiniteSet(S), NEW G,
           \A T \in SUBSET S : (\A x \in T : T \ {x} \in G) => T \in G
    PROVE  SUBSET S \subseteq G
<1> DEFINE Bad == (SUBSET S) \ G
<1> SUFFICES ASSUME Bad # {} PROVE FALSE
  OBVIOUS
<1>1. FiniteSubsetsOf(S) = SUBSET S
  BY FS_FiniteSubsetsOfFinite, Zenon
<1>2. IsWellFoundedOn(StrictSubsetOrdering(S), SUBSET S)
  <2>1. IsWellFoundedOn(StrictSubsetOrdering(S), FiniteSubsetsOf(S))
    BY FS_StrictSubsetOrderingWellFounded, Zenon
  <2> QED
    BY <1>1, <2>1, Zenon
<1>3. PICK T \in Bad : \A U \in Bad : ~(<<U, T>> \in StrictSubsetOrdering(S))
  <2>1. Bad \subseteq SUBSET S
    OBVIOUS
  <2> HIDE DEF Bad
  <2> QED
    BY <1>2, <2>1, WFMin, Zenon
<1>4. ASSUME NEW x \in T PROVE T \ {x} \in G
  <2>1. <<T \ {x}, T>> \in StrictSubsetOrdering(S)
    BY <1>3 DEF StrictSubsetOrdering
  <2> QED
    BY <1>3, <2>1
<1>5. T \in SUBSET S /\ T \notin G
  OBVIOUS
<1> QED
  BY <1>4, <1>5, Zenon

\* The element a fold over a set takes first, and what it does with it.
Pick(T) == CHOOSE x \in T : TRUE

SumRest(f, g, T) == IF T = {} THEN 0 ELSE f[Pick(T)] + g[T \ {Pick(T)}]

\* The element is one of the set.
LEMMA PickIn == ASSUME NEW T, T # {} PROVE Pick(T) \in T
BY DEF Pick

\* The recursive equation of a sum over the subsets of a finite set has a solution.
LEMMA SumExists ==
    ASSUME NEW S, IsFiniteSet(S), NEW f, \A x \in S : f[x] \in Nat
    PROVE  \E g \in [SUBSET S -> Nat] : \A T \in SUBSET S : g[T] = SumRest(f, g, T)
<1> DEFINE Upto(n) == \E g \in [SUBSET S -> Nat] : \A T \in SUBSET S :
                          Cardinality(T) <= n => g[T] = SumRest(f, g, T)
           G == {n \in Nat : Upto(n)}
<1>1. \A T \in SUBSET S : IsFiniteSet(T) /\ Cardinality(T) \in Nat
                          /\ Cardinality(T) <= Cardinality(S)
                          /\ (Cardinality(T) = 0 <=> T = {})
  BY FS_Subset, FS_CardinalityType, FS_EmptySet
<1>2. \A T \in SUBSET S : T # {} =>
          /\ Pick(T) \in T /\ T \ {Pick(T)} \in SUBSET S
          /\ Cardinality(T \ {Pick(T)}) = Cardinality(T) - 1
  <2> SUFFICES ASSUME NEW T \in SUBSET S, T # {}
               PROVE  /\ Pick(T) \in T /\ T \ {Pick(T)} \in SUBSET S
                      /\ Cardinality(T \ {Pick(T)}) = Cardinality(T) - 1
    OBVIOUS
  <2>1. Pick(T) \in T
    BY PickIn
  <2> QED
    BY <1>1, <2>1, FS_RemoveElement
<1>3. Upto(0)
  <2> DEFINE g == [T \in SUBSET S |-> 0]
  <2>1. g \in [SUBSET S -> Nat]
    OBVIOUS
  <2>2. ASSUME NEW T \in SUBSET S, Cardinality(T) <= 0
        PROVE  g[T] = SumRest(f, g, T)
    <3>1. T = {}
      BY <1>1, <2>2
    <3> QED
      BY <3>1 DEF SumRest
  <2> QED
    BY <2>1, <2>2
<1>4. ASSUME NEW n \in Nat, Upto(n)
      PROVE  Upto(n + 1)
  <2>1. PICK g \in [SUBSET S -> Nat] : \A T \in SUBSET S :
                Cardinality(T) <= n => g[T] = SumRest(f, g, T)
    BY <1>4
  <2> DEFINE h == [T \in SUBSET S |-> SumRest(f, g, T)]
  <2>2. ASSUME NEW T \in SUBSET S PROVE SumRest(f, g, T) \in Nat
    <3>1. CASE T = {}
      BY <3>1 DEF SumRest
    <3>2. CASE T # {}
      <4>1. f[Pick(T)] \in Nat /\ g[T \ {Pick(T)}] \in Nat
        BY <1>2, <3>2
      <4> QED
        BY <3>2, <4>1 DEF SumRest
    <3> QED
      BY <3>1, <3>2
  <2>3. h \in [SUBSET S -> Nat]
    BY <2>2
  <2>4. ASSUME NEW T \in SUBSET S, Cardinality(T) <= n
        PROVE  h[T] = g[T]
    BY <2>1, <2>4
  <2>5. ASSUME NEW T \in SUBSET S, Cardinality(T) <= n + 1
        PROVE  h[T] = SumRest(f, h, T)
    <3>1. CASE T = {}
      BY <3>1 DEF SumRest
    <3>2. CASE T # {}
      <4>1. T \ {Pick(T)} \in SUBSET S /\ Cardinality(T \ {Pick(T)}) <= n
        BY <1>1, <1>2, <2>5, <3>2
      <4>2. h[T \ {Pick(T)}] = g[T \ {Pick(T)}]
        BY <2>4, <4>1
      <4> QED
        BY <3>2, <4>2 DEF SumRest
    <3> QED
      BY <3>1, <3>2
  <2> QED
    BY <2>3, <2>5
<1> HIDE DEF Upto
<1>5. Nat \subseteq G
  <2>1. 0 \in G /\ \A n \in Nat : n \in G => n + 1 \in G
    BY <1>3, <1>4
  <2> HIDE DEF G
  <2> QED
    BY <2>1, NaturalsAreReached
<1>6. Upto(Cardinality(S))
  <2>1. Cardinality(S) \in Nat
    BY FS_CardinalityType
  <2> QED
    BY <1>5, <2>1
<1> QED
  BY <1>1, <1>6 DEF Upto

\* The sum a fold computes is that solution.
LEMMA SumMeaning ==
    ASSUME NEW S, IsFiniteSet(S), NEW f, \A x \in S : f[x] \in Nat
    PROVE  /\ SumFunctionOnSet(f, {}) = 0
           /\ \A T \in SUBSET S :
                /\ SumFunctionOnSet(f, T) \in Nat
                /\ T # {} => SumFunctionOnSet(f, T)
                             = f[Pick(T)] + SumFunctionOnSet(f, T \ {Pick(T)})
<1>1. PICK g \in [SUBSET S -> Nat] : \A T \in SUBSET S : g[T] = SumRest(f, g, T)
  BY SumExists
<1>2. ASSUME NEW T \in SUBSET S
      PROVE  SumFunctionOnSet(f, T) = g[T]
  <2> DEFINE Solves(h) == h = [U \in SUBSET T |-> SumRest(f, h, U)]
             h0 == CHOOSE h : Solves(h)
             r == [U \in SUBSET T |-> g[U]]
  <2>1. SumFunctionOnSet(f, T) = h0[T]
    BY DEF SumFunctionOnSet, FoldFunctionOnSet, MapThenFoldSet, SumRest, Pick
  <2>2. Solves(r)
    <3>1. ASSUME NEW U \in SUBSET T
          PROVE  g[U] = SumRest(f, r, U)
      <4>1. U \in SUBSET S /\ g[U] = SumRest(f, g, U)
        BY <1>1
      <4>2. r[U \ {Pick(U)}] = g[U \ {Pick(U)}]
        OBVIOUS
      <4> QED
        BY <4>1, <4>2 DEF SumRest
    <3> QED
      BY <3>1
  <2>3. Solves(h0)
    BY <2>2
  <2> HIDE DEF h0, r
  <2>4. \A U \in SUBSET T : h0[U] = SumRest(f, h0, U)
    BY <2>3
  <2> DEFINE G == {U \in SUBSET T : h0[U] = g[U]}
  <2>5. ASSUME NEW U \in SUBSET T, \A x \in U : U \ {x} \in G
        PROVE  U \in G
    <3>1. h0[U] = SumRest(f, h0, U) /\ g[U] = SumRest(f, g, U)
      BY <1>1, <2>4
    <3>2. CASE U = {}
      BY <3>1, <3>2 DEF SumRest
    <3>3. CASE U # {}
      <4>1. U \ {Pick(U)} \in G
        BY <2>5, <3>3, PickIn
      <4> QED
        BY <3>1, <3>3, <4>1 DEF SumRest
    <3> QED
      BY <3>2, <3>3
  <2>6. SUBSET T \subseteq G
    <3>1. IsFiniteSet(T)
      BY FS_Subset
    <3> HIDE DEF G
    <3> QED
      BY <2>5, <3>1, SubsetsAreReached
  <2>7. T \in G
    BY <2>6
  <2> QED
    BY <2>1, <2>7
<1>3. \A T \in SUBSET S : T # {} => T \ {Pick(T)} \in SUBSET S
  OBVIOUS
<1>4. {} \in SUBSET S /\ g[{}] = 0
  BY <1>1 DEF SumRest
<1>5. SumFunctionOnSet(f, {}) = 0
  BY <1>2, <1>4
<1>6. ASSUME NEW T \in SUBSET S
      PROVE  /\ SumFunctionOnSet(f, T) \in Nat
             /\ T # {} => SumFunctionOnSet(f, T)
                          = f[Pick(T)] + SumFunctionOnSet(f, T \ {Pick(T)})
  <2>1. SumFunctionOnSet(f, T) = g[T] /\ g[T] \in Nat /\ g[T] = SumRest(f, g, T)
    BY <1>1, <1>2
  <2>2. T # {} => SumFunctionOnSet(f, T \ {Pick(T)}) = g[T \ {Pick(T)}]
    BY <1>2, <1>3
  <2> QED
    BY <2>1, <2>2 DEF SumRest
<1> QED
  BY <1>5, <1>6

\* The sum does not depend on the order: any element can be taken first.
LEMMA SumTakesAny ==
    ASSUME NEW S, IsFiniteSet(S), NEW f, \A x \in S : f[x] \in Nat, NEW x \in S
    PROVE  SumFunctionOnSet(f, S) = f[x] + SumFunctionOnSet(f, S \ {x})
<1> DEFINE G == {T \in SUBSET S : \A y \in T :
                     SumFunctionOnSet(f, T) = f[y] + SumFunctionOnSet(f, T \ {y})}
<1>1. ASSUME NEW T \in SUBSET S, \A y \in T : T \ {y} \in G
      PROVE  T \in G
  <2> SUFFICES ASSUME NEW y \in T
               PROVE  SumFunctionOnSet(f, T) = f[y] + SumFunctionOnSet(f, T \ {y})
    OBVIOUS
  <2> DEFINE c == Pick(T)
  <2>1. c \in T /\ SumFunctionOnSet(f, T) = f[c] + SumFunctionOnSet(f, T \ {c})
    BY PickIn, SumMeaning
  <2> HIDE DEF c
  <2>2. CASE y # c
    <3>1. y \in T \ {c} /\ c \in T \ {y}
      BY <2>1, <2>2
    <3>2. SumFunctionOnSet(f, T \ {c}) = f[y] + SumFunctionOnSet(f, (T \ {c}) \ {y})
      BY <1>1, <2>1, <3>1
    <3>3. SumFunctionOnSet(f, T \ {y}) = f[c] + SumFunctionOnSet(f, (T \ {y}) \ {c})
      BY <1>1, <3>1
    <3>4. (T \ {c}) \ {y} = (T \ {y}) \ {c}
      OBVIOUS
    <3>5. f[y] \in Nat /\ f[c] \in Nat /\ SumFunctionOnSet(f, (T \ {y}) \ {c}) \in Nat
      BY <2>1, SumMeaning
    <3> HIDE DEF G
    <3> QED
      BY <2>1, <3>2, <3>3, <3>4, <3>5
  <2> QED
    BY <2>1, <2>2
<1>2. S \in G
  <2> HIDE DEF G
  <2> QED
    BY <1>1, SubsetsAreReached
<1> QED
  BY <1>2

\* One more element adds its value.
LEMMA SumAddsOne ==
    ASSUME NEW S, IsFiniteSet(S), NEW x, x \notin S, NEW f, \A y \in S \cup {x} : f[y] \in Nat
    PROVE  SumFunctionOnSet(f, S \cup {x}) = f[x] + SumFunctionOnSet(f, S)
<1>1. IsFiniteSet(S \cup {x}) /\ (S \cup {x}) \ {x} = S
  BY FS_AddElement
<1> QED
  BY <1>1, SumTakesAny

\* A sum of naturals is one.
LEMMA SumIsNatural ==
    ASSUME NEW S, IsFiniteSet(S), NEW f, \A x \in S : f[x] \in Nat
    PROVE  SumFunctionOnSet(f, S) \in Nat
BY SumMeaning

\* Functions that agree have the same sum.
LEMMA SumAgrees ==
    ASSUME NEW S, IsFiniteSet(S), NEW f, NEW g, \A x \in S : f[x] \in Nat /\ g[x] = f[x]
    PROVE  SumFunctionOnSet(g, S) = SumFunctionOnSet(f, S)
<1> DEFINE G == {T \in SUBSET S : SumFunctionOnSet(g, T) = SumFunctionOnSet(f, T)}
<1>1. ASSUME NEW T \in SUBSET S, \A y \in T : T \ {y} \in G
      PROVE  SumFunctionOnSet(g, T) = SumFunctionOnSet(f, T)
  <2>1. CASE T = {}
    BY <2>1, SumMeaning
  <2>2. CASE T # {}
    <3>1. PICK c \in T : TRUE
      BY <2>2
    <3>2. IsFiniteSet(T)
      BY FS_Subset
    <3>3. SumFunctionOnSet(g, T) = g[c] + SumFunctionOnSet(g, T \ {c})
      BY <3>2, SumTakesAny
    <3>4. SumFunctionOnSet(f, T) = f[c] + SumFunctionOnSet(f, T \ {c})
      BY <3>2, SumTakesAny
    <3> QED
      BY <1>1, <3>3, <3>4
  <2> QED
    BY <2>1, <2>2
<1>2. S \in G
  <2>1. \A T \in SUBSET S : (\A y \in T : T \ {y} \in G) => T \in G
    BY <1>1
  <2> HIDE DEF G
  <2> QED
    BY <2>1, SubsetsAreReached
<1> QED
  BY <1>2

\* The sum of a sum of two functions is the sum of their sums.
LEMMA SumOfSums ==
    ASSUME NEW S, IsFiniteSet(S), NEW f, NEW g, NEW h,
           \A x \in S : f[x] \in Nat /\ g[x] \in Nat /\ h[x] = f[x] + g[x]
    PROVE  SumFunctionOnSet(h, S) = SumFunctionOnSet(f, S) + SumFunctionOnSet(g, S)
<1> DEFINE G == {T \in SUBSET S : SumFunctionOnSet(h, T)
                                  = SumFunctionOnSet(f, T) + SumFunctionOnSet(g, T)}
<1>1. ASSUME NEW T \in SUBSET S, \A y \in T : T \ {y} \in G
      PROVE  SumFunctionOnSet(h, T) = SumFunctionOnSet(f, T) + SumFunctionOnSet(g, T)
  <2>1. CASE T = {}
    BY <2>1, SumMeaning
  <2>2. CASE T # {}
    <3>1. PICK c \in T : TRUE
      BY <2>2
    <3>2. IsFiniteSet(T) /\ IsFiniteSet(T \ {c})
      BY FS_Subset
    <3>3. SumFunctionOnSet(h, T) = h[c] + SumFunctionOnSet(h, T \ {c})
      BY <3>2, SumTakesAny
    <3>4. SumFunctionOnSet(f, T) = f[c] + SumFunctionOnSet(f, T \ {c})
      BY <3>2, SumTakesAny
    <3>5. SumFunctionOnSet(g, T) = g[c] + SumFunctionOnSet(g, T \ {c})
      BY <3>2, SumTakesAny
    <3>6. SumFunctionOnSet(f, T \ {c}) \in Nat /\ SumFunctionOnSet(g, T \ {c}) \in Nat
      BY <3>2, SumIsNatural
    <3>7. SumFunctionOnSet(h, T \ {c}) =
              SumFunctionOnSet(f, T \ {c}) + SumFunctionOnSet(g, T \ {c})
      BY <1>1
    <3>8. f[c] \in Nat /\ g[c] \in Nat /\ h[c] = f[c] + g[c]
      OBVIOUS
    <3> HIDE DEF G
    <3> QED
      BY <3>3, <3>4, <3>5, <3>6, <3>7, <3>8
  <2> QED
    BY <2>1, <2>2
<1>2. S \in G
  <2>1. \A T \in SUBSET S : (\A y \in T : T \ {y} \in G) => T \in G
    BY <1>1
  <2> HIDE DEF G
  <2> QED
    BY <2>1, SubsetsAreReached
<1> QED
  BY <1>2

\* A sum over a set is the sum over a part and that over the rest.
LEMMA SumSplits ==
    ASSUME NEW S, IsFiniteSet(S), NEW R \in SUBSET S, NEW f, \A x \in S : f[x] \in Nat
    PROVE  SumFunctionOnSet(f, S) = SumFunctionOnSet(f, R) + SumFunctionOnSet(f, S \ R)
<1> DEFINE G == {T \in SUBSET S :
                     SumFunctionOnSet(f, T)
                         = SumFunctionOnSet(f, T \cap R) + SumFunctionOnSet(f, T \ R)}
<1>1. ASSUME NEW T \in SUBSET S, \A y \in T : T \ {y} \in G
      PROVE  SumFunctionOnSet(f, T)
                 = SumFunctionOnSet(f, T \cap R) + SumFunctionOnSet(f, T \ R)
  <2>1. CASE T = {}
    <3>1. T \cap R = {} /\ T \ R = {}
      BY <2>1
    <3> QED
      BY <2>1, <3>1, SumMeaning
  <2>2. CASE T # {}
    <3>1. PICK c \in T : TRUE
      BY <2>2
    <3> DEFINE A == T \cap R
               B == T \ R
               A1 == (T \ {c}) \cap R
               B1 == (T \ {c}) \ R
    <3>2. IsFiniteSet(T) /\ IsFiniteSet(A1) /\ IsFiniteSet(B1) /\ IsFiniteSet(A) /\ IsFiniteSet(B)
      BY FS_Subset
    <3>3. SumFunctionOnSet(f, T) = f[c] + SumFunctionOnSet(f, T \ {c})
      BY <3>2, SumTakesAny
    <3>4. SumFunctionOnSet(f, T \ {c}) = SumFunctionOnSet(f, A1) + SumFunctionOnSet(f, B1)
      BY <1>1
    <3>5. SumFunctionOnSet(f, A1) \in Nat /\ SumFunctionOnSet(f, B1) \in Nat /\ f[c] \in Nat
      BY <3>2, SumIsNatural
    <3>6. CASE c \in R
      <4>1. A1 = A \ {c} /\ B1 = B /\ c \in A
        BY <3>6
      <4>2. SumFunctionOnSet(f, A) = f[c] + SumFunctionOnSet(f, A \ {c})
        BY <3>2, <4>1, SumTakesAny
      <4> HIDE DEF A, B, A1, B1, G
      <4> QED
        BY <3>3, <3>4, <3>5, <4>1, <4>2 DEF A, B
    <3>7. CASE c \notin R
      <4>1. B1 = B \ {c} /\ A1 = A /\ c \in B
        BY <3>7
      <4>2. SumFunctionOnSet(f, B) = f[c] + SumFunctionOnSet(f, B \ {c})
        BY <3>2, <4>1, SumTakesAny
      <4> HIDE DEF A, B, A1, B1, G
      <4> QED
        BY <3>3, <3>4, <3>5, <4>1, <4>2 DEF A, B
    <3> QED
      BY <3>6, <3>7
  <2> QED
    BY <2>1, <2>2
<1>2. S \in G
  <2>1. \A T \in SUBSET S : (\A y \in T : T \ {y} \in G) => T \in G
    BY <1>1
  <2> HIDE DEF G
  <2> QED
    BY <2>1, SubsetsAreReached
<1>3. S \cap R = R
  OBVIOUS
<1> QED
  BY <1>2, <1>3

\* A sum of zeros is zero.
LEMMA SumOfNothing ==
    ASSUME NEW S, IsFiniteSet(S), NEW f, \A x \in S : f[x] = 0
    PROVE  SumFunctionOnSet(f, S) = 0
<1> DEFINE G == {T \in SUBSET S : SumFunctionOnSet(f, T) = 0}
<1>1. ASSUME NEW T \in SUBSET S, \A y \in T : T \ {y} \in G
      PROVE  SumFunctionOnSet(f, T) = 0
  <2>1. CASE T = {}
    BY <2>1, SumMeaning
  <2>2. CASE T # {}
    <3>1. PICK c \in T : TRUE
      BY <2>2
    <3>2. IsFiniteSet(T)
      BY FS_Subset
    <3>3. SumFunctionOnSet(f, T) = f[c] + SumFunctionOnSet(f, T \ {c})
      BY <3>2, SumTakesAny
    <3> QED
      BY <1>1, <3>3
  <2> QED
    BY <2>1, <2>2
<1>2. S \in G
  <2>1. \A T \in SUBSET S : (\A y \in T : T \ {y} \in G) => T \in G
    BY <1>1
  <2> HIDE DEF G
  <2> QED
    BY <2>1, SubsetsAreReached
<1> QED
  BY <1>2
-----------------------------------------------------------------------------
(* The error budget.  What was read is always what CloudWatch has of the   *)
(* periods delivered so far; a verdict is computed once they are the       *)
(* window.  A period without data points counts nothing, so the sums over  *)
(* what was read are those over the window.                                *)

BudgetInv ==
    /\ BudgetTypeOK
    /\ \A q \in Queries : values[q] = Returned(q, 1, delivered)
    /\ runner = "start" => delivered = 0
    /\ runner \notin {"start", "raised"} => Valid(config)
    /\ runner \in {"evaluate", "passed", "failed"} => delivered = Periods
    /\ runner = "passed" => \A g \in DOMAIN Gates : Gates[g]
    /\ runner = "failed" => ~ \A g \in DOMAIN Gates : Gates[g]

LEMMA StartBudget == BudgetInit => BudgetInv
<1> SUFFICES ASSUME BudgetInit PROVE BudgetInv
  OBVIOUS
<1>1. /\ config \in Configs /\ truth \in Truths /\ rounded \subseteq {"availability", "latency"}
      /\ runner = "start" /\ delivered = 0 /\ values = [q \in Queries |-> {}]
  BY DEF BudgetInit, BudgetOf
<1>2. \A q \in Queries : values[q] = {} /\ Returned(q, 1, delivered) = {}
  BY <1>1 DEF Returned
<1> QED
  BY <1>1, <1>2, ErrorBudgetAssumption DEF BudgetInv, BudgetTypeOK

LEMMA NextBudget ==
    ASSUME BudgetInv, BudgetNext
    PROVE  BudgetInv'
<1> USE DEF BudgetInv, BudgetTypeOK
<1>1. CASE Validate
  <2>1. UNCHANGED <<config, truth, rounded, delivered, values>> /\ runner = "start"
        /\ runner' = IF Valid(config) THEN "reading" ELSE "raised"
    BY <1>1 DEF Validate
  <2>2. Valid(config)' = Valid(config)
    BY <2>1 DEF Valid
  <2> QED
    BY <2>1, <2>2 DEF Returned
<1>2. CASE ReadPage
  <2>1. PICK to \in delivered..Periods, incomplete \in SUBSET Queries, token \in BOOLEAN :
            /\ runner = "reading"
            /\ ~token /\ incomplete = {} => to = Periods
            /\ delivered' = to
            /\ values' = [q \in Queries |-> values[q] \cup Returned(q, delivered + 1, to)]
            /\ runner' = IF incomplete # {} THEN "raised"
                         ELSE IF token THEN "reading" ELSE "evaluate"
            /\ UNCHANGED <<config, truth, rounded>>
    BY <1>2 DEF ReadPage
  <2>2. to \in 0..Periods /\ delivered \in 0..Periods /\ delivered <= to
    BY <2>1, ErrorBudgetAssumption
  <2>3. ASSUME NEW q \in Queries
        PROVE  /\ values'[q] = Returned(q, 1, delivered')
               /\ values'[q] \subseteq 1..Periods
               /\ \A p \in values'[q] : truth[q][p] # 0
    <3>1. values'[q] = Returned(q, 1, delivered) \cup Returned(q, delivered + 1, to)
      BY <2>1, <2>3
    <3>2. Returned(q, 1, delivered) \cup Returned(q, delivered + 1, to) = Returned(q, 1, to)
      BY <2>2 DEF Returned
    <3>3. Returned(q, 1, to) \subseteq 1..Periods
          /\ \A p \in Returned(q, 1, to) : truth[q][p] # 0
      BY <2>2, ErrorBudgetAssumption DEF Returned
    <3> QED
      BY <2>1, <3>1, <3>2, <3>3
  <2>4. Valid(config)' /\ runner' \in {"raised", "reading", "evaluate"}
    BY <2>1 DEF Valid
  <2>5. runner' = "evaluate" => delivered' = Periods
    BY <2>1
  <2>6. values' \in [Queries -> SUBSET (1..Periods)]
    <3>1. values' = [q \in Queries |-> values'[q]]
      BY <2>1
    <3> QED
      BY <2>3, <3>1
  <2>7. \A q \in Queries : values'[q] = Returned(q, 1, delivered)'
    BY <2>1, <2>3 DEF Returned
  <2> QED
    BY <2>1, <2>2, <2>3, <2>4, <2>5, <2>6, <2>7
<1>3. CASE ReadFails
  BY <1>3 DEF ReadFails, Returned
<1>4. CASE EvaluateBudget
  <2>1. /\ UNCHANGED <<config, truth, rounded, delivered, values>> /\ runner = "evaluate"
        /\ runner' \in {IF \A g \in DOMAIN Gates : Gates[g] THEN "passed" ELSE "failed", "raised"}
    BY <1>4 DEF EvaluateBudget
  <2>2. Gates' = Gates /\ Valid(config)' = Valid(config)
    BY <2>1 DEF Gates, Total, Within, Valid
  <2>3. \A q \in Queries : Returned(q, 1, delivered)' = Returned(q, 1, delivered)
    BY <2>1 DEF Returned
  <2> QED
    BY <2>1, <2>2, <2>3
<1> QED
  BY <1>1, <1>2, <1>3, <1>4 DEF BudgetNext

LEMMA StutterBudget ==
    ASSUME BudgetInv, UNCHANGED budgetVars
    PROVE  BudgetInv'
<1>1. Gates' = Gates /\ Valid(config)' = Valid(config)
  BY DEF budgetVars, Gates, Total, Within, Valid
<1>2. \A q \in Queries : Returned(q, 1, delivered)' = Returned(q, 1, delivered)
  BY DEF budgetVars, Returned
<1> QED
  BY <1>1, <1>2 DEF BudgetInv, BudgetTypeOK, budgetVars

\* What is read of a complete window is the window (check_error_budget.py:60-110).
LEMMA WindowRead ==
    ASSUME BudgetInv, delivered = Periods
    PROVE  /\ \A q \in {"requests", "target5xx", "elb5xx"} :
                  /\ \A p \in 1..Periods : truth[q][p] \in Nat
                  /\ Total(q) = SumFunctionOnSet(truth[q], 1..Periods)
           /\ values["latencyp95"] = Observed
           /\ {p \in values["latencyp95"] : truth.latencyp95[p] = 2} = SlowPeriods
<1>1. truth \in Truths /\ Periods \in Nat
  BY ErrorBudgetAssumption DEF BudgetInv, BudgetTypeOK
<1>2. ASSUME NEW q \in {"requests", "target5xx", "elb5xx"}
      PROVE  /\ \A p \in 1..Periods : truth[q][p] \in Nat
             /\ Total(q) = SumFunctionOnSet(truth[q], 1..Periods)
  <2> DEFINE S == 1..Periods
             R == values[q]
  <2>1. \A p \in S : truth[q][p] \in Nat
    <3>1. /\ truth.requests \in [S -> Counts] /\ truth.target5xx \in [S -> Errors]
          /\ truth.elb5xx \in [S -> Errors]
      BY <1>1 DEF Truths
    <3>2. Counts \subseteq Nat /\ Errors \subseteq Nat
      BY ErrorBudgetAssumption
    <3> HIDE DEF S
    <3>3. \A p \in S : /\ truth.requests[p] \in Nat /\ truth.target5xx[p] \in Nat
                       /\ truth.elb5xx[p] \in Nat
      BY <3>1, <3>2
    <3> QED
      BY <3>3
  <2>2. R \in SUBSET S /\ \A p \in S \ R : truth[q][p] = 0
    <3>1. q \in Queries
      BY DEF Queries
    <3>2. R = {p \in S : truth[q][p] # 0}
      BY <3>1 DEF BudgetInv, Returned
    <3>3. \A p \in S : p \in R <=> truth[q][p] # 0
      BY <3>2
    <3>4. R \subseteq S
      BY <3>2
    <3> HIDE DEF S, R
    <3> QED
      BY <3>3, <3>4
  <2>3. IsFiniteSet(S) /\ IsFiniteSet(S \ R) /\ IsFiniteSet(R)
    <3>1. IsFiniteSet(S)
      BY <1>1, FS_Interval
    <3> HIDE DEF S, R
    <3> QED
      BY <2>2, <3>1, FS_Subset
  <2>4. SumFunctionOnSet(truth[q], S \ R) = 0
    <3> HIDE DEF S, R
    <3> QED
      BY <2>2, <2>3, SumOfNothing
  <2>5. SumFunctionOnSet(truth[q], R) \in Nat
    <3> HIDE DEF S, R
    <3> QED
      BY <2>1, <2>2, <2>3, SumIsNatural
  <2>6. SumFunctionOnSet(truth[q], S) = SumFunctionOnSet(truth[q], R)
                                        + SumFunctionOnSet(truth[q], S \ R)
    <3> HIDE DEF S, R
    <3> QED
      BY <2>1, <2>2, <2>3, SumSplits
  <2> QED
    BY <2>1, <2>4, <2>5, <2>6 DEF Total
<1>3. values["latencyp95"] = Observed
  BY DEF BudgetInv, Returned, Queries, Observed
<1> QED
  BY <1>2, <1>3 DEF SlowPeriods

\* What is left of a budget, in thousandths.
Left(part, whole, target) == whole * (1000 - target) - part * 1000

\* A target strictly between none and all (SLOConfig.validate).
Targets == {x \in Nat : 0 < x /\ x < 1000}

\* The allowance is a number, and the comparison with it is exact but for a budget that is
\* spent exactly (check_error_budget.py:133-148).
LEMMA WithinBudget ==
    ASSUME NEW part \in Nat, NEW whole \in Nat, NEW target \in Targets, NEW objective
    PROVE  /\ Within(part, whole, target, objective) => Left(part, whole, target) >= 0
           /\ ~Within(part, whole, target, objective) => Left(part, whole, target) <= 0
           /\ whole = 0 => Left(part, whole, target) <= 0
<1> DEFINE allowed == whole * (1000 - target)
<1>1. allowed \in Nat /\ (whole = 0 => allowed = 0)
  <2>1. 1000 - target \in Nat
    BY DEF Targets
  <2> DEFINE share == 1000 - target
  <2>2. \A a, b \in Nat : a * b \in Nat
    OBVIOUS
  <2> HIDE DEF share
  <2>3. whole * share \in Nat /\ (whole = 0 => whole * share = 0)
    BY <2>1, <2>2 DEF share
  <2> QED
    BY <2>3 DEF share
<1> HIDE DEF allowed
<1>2. Within(part, whole, target, objective) <=>
          \/ part = 0
          \/ part * 1000 < allowed
          \/ part * 1000 = allowed /\ objective \notin rounded
  BY DEF Within, allowed
<1>3. Left(part, whole, target) = allowed - part * 1000
  BY DEF Left, allowed
<1> QED
  BY <1>1, <1>2, <1>3

LEMMA BudgetEarned ==
    ASSUME BudgetInv
    PROVE  BudgetVerdictIsEarned
<1> SUFFICES ASSUME runner \in {"passed", "failed"}
             PROVE  BudgetVerdictIsEarned
  BY DEF BudgetVerdictIsEarned
<1> DEFINE requests == SumFunction(truth.requests)
           failed5xx == SumFunction([p \in 1..Periods |-> truth.target5xx[p] + truth.elb5xx[p]])
           slow == Cardinality(SlowPeriods)
           observed == Cardinality(Observed)
           left == requests * (1000 - config.availability) - failed5xx * 1000
           kept == observed * (1000 - config.compliance) - slow * 1000
<1>1. /\ Periods \in Nat /\ delivered = Periods /\ Valid(config) /\ truth \in Truths
      /\ config.availability \in Targets /\ config.compliance \in Targets
      /\ IsFiniteSet(1..Periods)
  <2>1. /\ Periods \in Nat /\ delivered = Periods /\ Valid(config) /\ truth \in Truths
    BY ErrorBudgetAssumption DEF BudgetInv, BudgetTypeOK
  <2>3. IsFiniteSet(1..Periods)
    BY <2>1, FS_Interval
  <2>2. config.availability \in Nat /\ config.compliance \in Nat
    BY ErrorBudgetAssumption DEF BudgetInv, BudgetTypeOK
  <2>4. /\ 0 < config.availability /\ config.availability < 1000
        /\ 0 < config.compliance /\ config.compliance < 1000
    BY <2>1, Zenon DEF Valid
  <2>5. config.availability \in Targets /\ config.compliance \in Targets
    BY <2>2, <2>4 DEF Targets
  <2> QED
    BY <2>1, <2>3, <2>5, Zenon
<1>2. Total("requests") = requests /\ requests \in Nat
  <2>1. DOMAIN truth.requests = 1..Periods
    BY <1>1 DEF Truths
  <2>2. Total("requests") = SumFunctionOnSet(truth.requests, 1..Periods)
        /\ \A p \in 1..Periods : truth.requests[p] \in Nat
    BY <1>1, WindowRead
  <2>3. SumFunctionOnSet(truth.requests, 1..Periods) \in Nat
    BY <1>1, <2>2, SumIsNatural
  <2> QED
    BY <2>1, <2>2, <2>3 DEF SumFunction
<1>3. Total("target5xx") + Total("elb5xx") = failed5xx /\ failed5xx \in Nat
  <2> DEFINE h == [p \in 1..Periods |-> truth.target5xx[p] + truth.elb5xx[p]]
  <2>1. \A p \in 1..Periods : /\ truth.target5xx[p] \in Nat /\ truth.elb5xx[p] \in Nat
                              /\ h[p] = truth.target5xx[p] + truth.elb5xx[p]
                              /\ h[p] \in Nat
    BY <1>1, WindowRead
  <2>2. DOMAIN h = 1..Periods
    OBVIOUS
  <2> HIDE DEF h
  <2>3. SumFunctionOnSet(h, 1..Periods) = SumFunctionOnSet(truth.target5xx, 1..Periods)
                                          + SumFunctionOnSet(truth.elb5xx, 1..Periods)
    BY <1>1, <2>1, SumOfSums
  <2>4. SumFunctionOnSet(h, 1..Periods) \in Nat
    BY <1>1, <2>1, SumIsNatural
  <2>5. /\ Total("target5xx") = SumFunctionOnSet(truth.target5xx, 1..Periods)
        /\ Total("elb5xx") = SumFunctionOnSet(truth.elb5xx, 1..Periods)
    BY <1>1, WindowRead
  <2>6. SumFunction(h) = Total("target5xx") + Total("elb5xx") /\ SumFunction(h) \in Nat
    BY <2>2, <2>3, <2>4, <2>5 DEF SumFunction
  <2> QED
    BY <2>6 DEF h
<1>4. /\ values["latencyp95"] = Observed
      /\ {p \in values["latencyp95"] : truth.latencyp95[p] = 2} = SlowPeriods
  BY <1>1, WindowRead
<1>5. observed \in Nat /\ slow \in Nat
  <2>1. Observed \subseteq 1..Periods /\ SlowPeriods \subseteq 1..Periods
    BY DEF Observed, SlowPeriods
  <2> QED
    BY <1>1, <2>1, FS_Subset, FS_CardinalityType
<1> HIDE DEF requests, failed5xx, slow, observed
<1>6. /\ DOMAIN Gates = {"minimum_traffic", "availability_budget_remaining",
                         "latency_observations_present", "latency_budget_remaining"}
      /\ Gates.minimum_traffic = (requests >= config.minimum)
      /\ Gates.availability_budget_remaining =
             (requests > 0 /\ Within(failed5xx, requests, config.availability, "availability"))
      /\ Gates.latency_observations_present = (observed > 0)
      /\ Gates.latency_budget_remaining =
             (observed > 0 /\ Within(slow, observed, config.compliance, "latency"))
  BY <1>2, <1>3, <1>4, Zenon DEF Gates, observed, slow
<1> HIDE DEF left, kept
<1>7. /\ Within(failed5xx, requests, config.availability, "availability") => left >= 0
      /\ ~Within(failed5xx, requests, config.availability, "availability") => left <= 0
      /\ requests = 0 => left <= 0
  <2>1. left = Left(failed5xx, requests, config.availability)
    BY DEF left, Left
  <2> QED
    BY <1>1, <1>2, <1>3, <2>1, WithinBudget, Zenon
<1>8. /\ Within(slow, observed, config.compliance, "latency") => kept >= 0
      /\ ~Within(slow, observed, config.compliance, "latency") => kept <= 0
  <2>1. kept = Left(slow, observed, config.compliance)
    BY DEF kept, Left
  <2> QED
    BY <1>1, <1>5, <2>1, WithinBudget, Zenon
<1>9. runner = "passed" =>
          requests >= config.minimum /\ observed > 0 /\ left >= 0 /\ kept >= 0
  <2>1. runner = "passed" => /\ Gates.minimum_traffic /\ Gates.availability_budget_remaining
                             /\ Gates.latency_budget_remaining
    BY <1>6, Zenon DEF BudgetInv
  <2> QED
    BY <1>6, <1>7, <1>8, <2>1
<1>10. runner = "failed" =>
           requests < config.minimum \/ observed = 0 \/ left <= 0 \/ kept <= 0
  <2> SUFFICES ASSUME runner = "failed"
               PROVE  requests < config.minimum \/ observed = 0 \/ left <= 0 \/ kept <= 0
    OBVIOUS
  <2>1. \/ ~Gates.minimum_traffic \/ ~Gates.availability_budget_remaining
        \/ ~Gates.latency_observations_present \/ ~Gates.latency_budget_remaining
    BY <1>6, Zenon DEF BudgetInv
  <2>2. config.minimum \in Nat
    BY ErrorBudgetAssumption DEF BudgetInv, BudgetTypeOK
  <2>3. \/ ~(requests >= config.minimum)
        \/ ~(requests > 0)
        \/ ~Within(failed5xx, requests, config.availability, "availability")
        \/ ~(observed > 0)
        \/ ~Within(slow, observed, config.compliance, "latency")
    BY <1>6, <2>1, Zenon
  <2>4. left <= 0 \/ Within(failed5xx, requests, config.availability, "availability")
    BY <1>7, Zenon
  <2>5. kept <= 0 \/ Within(slow, observed, config.compliance, "latency")
    BY <1>8, Zenon
  <2>6. ~(requests >= config.minimum) \/ ~(requests > 0) \/ left <= 0 \/ ~(observed > 0)
        \/ kept <= 0
    BY <2>3, <2>4, <2>5, Zenon
  <2> QED
    BY <1>2, <1>5, <1>7, <2>2, <2>6
<1> QED
  BY <1>9, <1>10 DEF BudgetVerdictIsEarned, requests, failed5xx, slow, observed, left, kept

\* The error budget keeps its types, and only periods with data points are read
\* (check_error_budget.py:60-110).
THEOREM BudgetTypeCorrect == BudgetSpec => []BudgetTypeOK
<1>1. BudgetInv /\ [BudgetNext]_budgetVars => BudgetInv'
  BY NextBudget, StutterBudget
<1>2. BudgetInv => BudgetTypeOK
  BY DEF BudgetInv
<1> QED
  BY <1>1, <1>2, StartBudget, PTL DEF BudgetSpec

\* A release passes or fails on the whole window, within the budgets or not, for every
\* window, traffic, configuration and way of paging through it
\* (check_error_budget.py:60-160).
THEOREM BudgetVerdictEarned == BudgetSpec => []BudgetVerdictIsEarned
<1>1. BudgetInv /\ [BudgetNext]_budgetVars => BudgetInv'
  BY NextBudget, StutterBudget
<1>2. BudgetInv => BudgetVerdictIsEarned
  BY BudgetEarned
<1> QED
  BY <1>1, <1>2, StartBudget, PTL DEF BudgetSpec

-----------------------------------------------------------------------------
(* The scores.  A bag of results is cut in two by every property of a      *)
(* result, and the parts of a larger part are the larger ones.             *)

Count(bag, part) == SumFunctionOnSet(bag, part)

Result == [correct : BOOLEAN, latency : Nat, cost : Nat \cup {NoCost}]

\* The bags of results a run can have.
ResultBag(bag) == IsABag(bag) /\ IsFiniteSet(DOMAIN bag) /\ DOMAIN bag \subseteq Result

\* The number of results in a part of the bag, and in the rest of it.
LEMMA PartsOfBag ==
    ASSUME NEW bag, ResultBag(bag), NEW part, part \subseteq DOMAIN bag
    PROVE  /\ Count(bag, part) \in Nat /\ Count(bag, DOMAIN bag \ part) \in Nat
           /\ SumFunction(bag) = Count(bag, part) + Count(bag, DOMAIN bag \ part)
<1> DEFINE S == DOMAIN bag
<1>1. \A x \in S : bag[x] \in Nat
  BY DEF ResultBag, IsABag
<1>2. IsFiniteSet(S) /\ part \in SUBSET S
  BY DEF ResultBag
<1>3. SumFunction(bag) = SumFunctionOnSet(bag, S)
  BY DEF SumFunction
<1> HIDE DEF S
<1>4. IsFiniteSet(part) /\ IsFiniteSet(S \ part)
  BY <1>2, FS_Subset
<1>5. SumFunctionOnSet(bag, part) \in Nat /\ SumFunctionOnSet(bag, S \ part) \in Nat
  BY <1>1, <1>2, <1>4, SumIsNatural
<1>6. SumFunctionOnSet(bag, S) = SumFunctionOnSet(bag, part) + SumFunctionOnSet(bag, S \ part)
  BY <1>1, <1>2, SumSplits
<1> QED
  BY <1>3, <1>5, <1>6 DEF Count, S

\* A part of a part has no more results.
LEMMA SmallerParts ==
    ASSUME NEW bag, ResultBag(bag), NEW large, large \subseteq DOMAIN bag,
           NEW small, small \subseteq large
    PROVE  Count(bag, small) <= Count(bag, large)
<1>1. \A x \in large : bag[x] \in Nat
  BY DEF ResultBag, IsABag
<1>2. IsFiniteSet(large) /\ small \in SUBSET large
  BY FS_Subset DEF ResultBag
<1>3. IsFiniteSet(small) /\ IsFiniteSet(large \ small)
  BY <1>2, FS_Subset
<1>4. SumFunctionOnSet(bag, small) \in Nat /\ SumFunctionOnSet(bag, large \ small) \in Nat
  BY <1>1, <1>2, <1>3, SumIsNatural
<1>5. SumFunctionOnSet(bag, large)
          = SumFunctionOnSet(bag, small) + SumFunctionOnSet(bag, large \ small)
  BY <1>1, <1>2, SumSplits
<1> QED
  BY <1>4, <1>5 DEF Count

LEMMA EmptyPart == ASSUME NEW bag, ResultBag(bag) PROVE Count(bag, {}) = 0
BY SumMeaning DEF Count, ResultBag, IsABag

\* Some result of a part that is not empty is the slowest.
LEMMA SlowestOf ==
    ASSUME NEW S, IsFiniteSet(S), S \subseteq Result, S # {}
    PROVE  \E r \in S : \A x \in S : x.latency <= r.latency
<1> DEFINE Slowest(T, r) == \A x \in T : x.latency <= r.latency
           G == {T \in SUBSET S : T = {} \/ \E r \in T : Slowest(T, r)}
<1>1. \A x \in S : x.latency \in Nat
  BY DEF Result
<1>2. ASSUME NEW T \in SUBSET S, \A x \in T : T \ {x} \in G
      PROVE  T \in G
  <2> SUFFICES ASSUME T # {} PROVE \E r \in T : Slowest(T, r)
    OBVIOUS
  <2>1. PICK x \in T : TRUE
    OBVIOUS
  <2>2. CASE T \ {x} = {}
    BY <1>1, <2>1, <2>2
  <2>3. CASE T \ {x} # {}
    <3>1. PICK r \in T \ {x} : Slowest(T \ {x}, r)
      BY <1>2, <2>1, <2>3
    <3>2. CASE x.latency <= r.latency
      BY <1>1, <2>1, <3>1, <3>2
    <3>3. CASE ~(x.latency <= r.latency)
      BY <1>1, <2>1, <3>1, <3>3
    <3> QED
      BY <3>2, <3>3
  <2> QED
    BY <2>2, <2>3
<1>3. S \in G
  <2> HIDE DEF G
  <2> QED
    BY <1>2, SubsetsAreReached
<1> QED
  BY <1>3

\* The least of a set of naturals is one of them, and no larger than any.
LEMMA LeastOf ==
    ASSUME NEW S, S \subseteq Nat, S # {}
    PROVE  Min(S) \in S /\ \A x \in S : Min(S) <= x
<1> DEFINE Less == {p \in Nat \X Nat : p[1] < p[2]}
<1>1. IsWellFoundedOn(Less, Nat)
  BY Zenon, NatLessThanWellFounded DEF OpToRel
<1>2. PICK n \in S : \A m \in S : ~(<<m, n>> \in Less)
  <2> HIDE DEF Less
  <2> QED
    BY <1>1, WFMin, Zenon
<1>3. \A m \in S : n <= m
  <2> SUFFICES ASSUME NEW m \in S, m < n PROVE FALSE
    OBVIOUS
  <2>1. <<m, n>> \in Less
    OBVIOUS
  <2> QED
    BY <1>2, <2>1
<1> QED
  BY <1>3 DEF Min

\* Division of integers: the quotient is not below a limit if, and only if, the dividend
\* is not below as many times the divisor.
LEMMA QuotientNotBelow ==
    ASSUME NEW x \in Int, NEW y \in Nat, y > 0, NEW a \in Int
    PROVE  x \div y \in Int /\ (x \div y >= a <=> x >= a * y)
<1> DEFINE q == x \div y
<1>1. q \in Int /\ q * y <= x /\ x < q * y + y
  OBVIOUS
<1> HIDE DEF q
<1>2. ASSUME q >= a PROVE x >= a * y
  <2>1. q * y >= a * y
    BY <1>1, <1>2
  <2> QED
    BY <1>1, <2>1
<1>3. ASSUME q < a PROVE x < a * y
  <2>1. q + 1 <= a
    BY <1>1, <1>3
  <2>2. (q + 1) * y <= a * y
    BY <1>1, <2>1
  <2>3. (q + 1) * y = q * y + y
    BY <1>1
  <2> QED
    BY <1>1, <2>2, <2>3
<1>4. x \div y \in Int /\ (x \div y >= a \/ x \div y < a)
  BY <1>1 DEF q
<1> QED
  BY <1>2, <1>3, <1>4 DEF q

\* The wrong answers that leave the share of right ones at the threshold a or over it.
FewWrong(wrong, n, a) == 2000000 * wrong <= 2 * n * (1000000 - a) + n

\* Every score is decided by counting results.  The share of right answers is at least
\* the threshold, to the sixth digit, as the count of wrong ones says (metrics.py:13-26).
LEMMA AccuracyByCount ==
    ASSUME NEW bag, ResultBag(bag), SumFunction(bag) > 0, NEW a \in Int
    PROVE  exact_match_score(bag) < a
               <=> ~FewWrong(Count(bag, {r \in DOMAIN bag : ~r.correct}), SumFunction(bag), a)
<1> DEFINE n == SumFunction(bag)
           W == {r \in DOMAIN bag : ~r.correct}
           C == {r \in DOMAIN bag : r.correct}
           wrong == Count(bag, W)
           right == Count(bag, C)
           x == 2000000 * right + n
           m == 2 * n
<1>1. exact_match_score(bag) = x \div m
  BY DEF exact_match_score, Ratio, Many, Count
<1>2. n = right + wrong /\ right \in Nat /\ wrong \in Nat /\ n \in Nat
  <2>1. C \subseteq DOMAIN bag /\ W = DOMAIN bag \ C
    OBVIOUS
  <2> HIDE DEF C, W
  <2>2. /\ right \in Nat /\ Count(bag, DOMAIN bag \ C) \in Nat
        /\ n = right + Count(bag, DOMAIN bag \ C)
    BY <2>1, PartsOfBag, Zenon
  <2> HIDE DEF n, right
  <2> QED
    BY <2>1, <2>2
<1>3. n > 0
  OBVIOUS
<1> HIDE DEF n, wrong, right
<1>4. x \in Int /\ m \in Nat /\ m > 0
  BY <1>2, <1>3
<1> HIDE DEF x, m
<1>5. x \div m \in Int /\ (x \div m >= a <=> x >= a * m)
  BY <1>4, QuotientNotBelow
<1>6. x >= a * m <=> 2000000 * wrong <= m * (1000000 - a) + n
  <2> DEFINE am == a * m
  <2>1. m * (1000000 - a) = 1000000 * m - am /\ am \in Int
    BY <1>4
  <2> HIDE DEF am
  <2>2. x >= am <=> 2000000 * wrong <= 1000000 * m - am + n
    BY <1>2, <2>1 DEF x, m
  <2> QED
    BY <2>1, <2>2 DEF am
<1>7. exact_match_score(bag) < a <=> ~(2000000 * wrong <= m * (1000000 - a) + n)
  BY <1>1, <1>5, <1>6, SMT
<1>8. FewWrong(wrong, n, a) <=> 2000000 * wrong <= m * (1000000 - a) + n
  BY SMT DEF FewWrong, m
<1>9. exact_match_score(bag) < a <=> ~FewWrong(wrong, n, a)
  BY <1>7, <1>8, SMT
<1> QED
  BY <1>9, Zenon DEF n, wrong

\* The 95th percentile is within the limit if, and only if, at most one result in twenty
\* is not (metrics.py:35-50).
LEMMA LatencyByCount ==
    ASSUME NEW bag, ResultBag(bag), SumFunction(bag) > 0, NEW limit \in Nat
    PROVE  p95_latency(bag) > limit
               <=> ~(20 * Count(bag, {r \in DOMAIN bag : r.latency > limit}) <= SumFunction(bag))
<1> DEFINE S == DOMAIN bag
           n == SumFunction(bag)
           Within95(l) == {r \in S : r.latency <= l}
           Slow == {r \in S : r.latency > limit}
           rank == Max({1, (95 * n + 99) \div 100})
           L == {l \in {r.latency : r \in S} : Count(bag, Within95(l)) >= rank}
<1>1. p95_latency(bag) = Min(L)
  BY DEF p95_latency, Many, Count
<1>2. \A r \in S : r.latency \in Nat
  BY DEF ResultBag, Result
<1>3. n \in Nat /\ n > 0
  <2>1. {} \subseteq DOMAIN bag
    OBVIOUS
  <2>2. /\ Count(bag, {}) \in Nat /\ Count(bag, DOMAIN bag \ {}) \in Nat
        /\ n = Count(bag, {}) + Count(bag, DOMAIN bag \ {})
    BY <2>1, PartsOfBag, Zenon
  <2>3. n > 0
    OBVIOUS
  <2> HIDE DEF n
  <2> QED
    BY <2>2, <2>3
<1>4. rank \in Nat /\ rank >= 1 /\ rank <= n
      /\ \A k \in Nat : k >= rank <=> 100 * k >= 95 * n
  <2> DEFINE q == (95 * n + 99) \div 100
  <2>1. q \in Nat /\ 100 * q <= 95 * n + 99 /\ 95 * n + 99 < 100 * q + 100
    BY <1>3
  <2> HIDE DEF q, n
  <2>2. Max({1, q}) = q
    <3>1. q >= 1
      BY <1>3, <2>1
    <3>2. \A x \in {1, q} : (\A y \in {1, q} : x >= y) <=> x = q
      BY <2>1, <3>1
    <3> QED
      BY <3>2 DEF Max
  <2>3. q >= 1 /\ q <= n
    BY <1>3, <2>1
  <2>4. \A k \in Nat : k >= q <=> 100 * k >= 95 * n
    BY <1>3, <2>1
  <2>5. rank = q
    BY <2>2 DEF q
  <2> HIDE DEF rank
  <2> QED
    BY <2>1, <2>3, <2>4, <2>5
<1> HIDE DEF rank, n
<1>5. S # {}
  <2>1. Count(bag, {}) = 0
    BY EmptyPart
  <2>2. Count(bag, S) = n
    BY DEF Count, SumFunction, n
  <2> QED
    BY <1>3, <2>1, <2>2
<1>6. L \subseteq Nat
  BY <1>2
<1>7. ASSUME NEW l \in Nat, NEW k \in Nat, l <= k
      PROVE  Count(bag, Within95(l)) <= Count(bag, Within95(k))
  <2>1. Within95(k) \subseteq DOMAIN bag /\ Within95(l) \subseteq Within95(k)
    BY <1>2, <1>7
  <2> HIDE DEF Within95
  <2> QED
    BY <2>1, SmallerParts
<1>8. \A l \in Nat : Count(bag, Within95(l)) \in Nat
  <2> TAKE l \in Nat
  <2>1. Within95(l) \subseteq DOMAIN bag
    OBVIOUS
  <2> HIDE DEF Within95
  <2> QED
    BY <2>1, PartsOfBag
<1>9. ASSUME NEW part \in SUBSET S, part # {}, NEW k \in Nat,
             \A r \in part : r.latency <= k,
             \A r \in S : r.latency <= k => r \in part,
             Count(bag, part) >= rank
      PROVE  \E l \in L : l <= k
  <2>1. IsFiniteSet(part) /\ part \subseteq Result
    BY FS_Subset DEF ResultBag
  <2>2. PICK r \in part : \A x \in part : x.latency <= r.latency
    BY <1>9, <2>1, SlowestOf
  <2>3. r \in S /\ r.latency \in Nat /\ r.latency <= k
    BY <1>2, <1>9
  <2>4. Within95(r.latency) = part
    BY <1>2, <1>9, <2>2, <2>3
  <2>5. r.latency \in L
    BY <1>9, <2>3, <2>4
  <2> QED
    BY <2>3, <2>5
<1>10. L # {}
  <2>1. PICK r \in S : \A x \in S : x.latency <= r.latency
    BY <1>5, SlowestOf DEF ResultBag
  <2>2. Count(bag, S) = n
    BY DEF Count, SumFunction, n
  <2>3. Within95(r.latency) = S
    BY <2>1
  <2>4. Count(bag, Within95(r.latency)) >= rank
    BY <1>3, <1>4, <2>2, <2>3
  <2> QED
    BY <2>4
<1>11. Min(L) \in L /\ \A l \in L : Min(L) <= l
  <2> HIDE DEF L
  <2> QED
    BY <1>6, <1>10, LeastOf
<1>12. Min(L) \in Nat /\ Count(bag, Within95(Min(L))) >= rank
  BY <1>6, <1>11
<1>13. Count(bag, Within95(limit)) >= rank <=> Min(L) <= limit
  <2>1. ASSUME Min(L) <= limit PROVE Count(bag, Within95(limit)) >= rank
    <3>1. Count(bag, Within95(Min(L))) <= Count(bag, Within95(limit))
      BY <1>7, <1>12, <2>1
    <3> HIDE DEF L, Within95
    <3> QED
      BY <1>4, <1>8, <1>12, <3>1
  <2>2. ASSUME Count(bag, Within95(limit)) >= rank PROVE Min(L) <= limit
    <3>1. Within95(limit) # {}
      <4>1. Count(bag, {}) = 0
        BY EmptyPart
      <4> HIDE DEF Within95
      <4> QED
        BY <1>4, <2>2, <4>1
    <3>2. PICK l \in L : l <= limit
      BY <1>9, <2>2, <3>1
    <3>3. Min(L) <= l /\ l \in Nat
      BY <1>6, <1>11
    <3> HIDE DEF L
    <3> QED
      BY <1>12, <3>2, <3>3
  <2> QED
    BY <2>1, <2>2
<1>14. Count(bag, Within95(limit)) + Count(bag, Slow) = n /\ Count(bag, Slow) \in Nat
  <2>1. Within95(limit) \subseteq DOMAIN bag /\ DOMAIN bag \ Within95(limit) = Slow
    BY <1>2
  <2> HIDE DEF Within95, Slow
  <2> QED
    BY <2>1, PartsOfBag DEF n
<1>15. Min(L) <= limit <=> 20 * Count(bag, Slow) <= n
  <2> DEFINE w == Count(bag, Within95(limit))
             s == Count(bag, Slow)
  <2>1. w \in Nat /\ s \in Nat /\ w + s = n
    BY <1>8, <1>14
  <2> HIDE DEF w, s
  <2>2. w >= rank <=> 100 * w >= 95 * n
    BY <1>4, <2>1
  <2>3. 100 * w >= 95 * n <=> 20 * s <= n
    BY <1>3, <2>1
  <2> QED
    BY <1>13, <2>2, <2>3 DEF w, s
<1> HIDE DEF L, Slow
<1> QED
  BY <1>1, <1>12, <1>15 DEF n, Slow

\* What is known of the cost is over its limit, or nothing is known (metrics.py:53-66).
LEMMA CostBySum ==
    ASSUME NEW bag, ResultBag(bag), NEW limit \in Nat
    PROVE  LET spent == SumFunction([r \in Priced(bag) |-> bag[r] * r.cost])
           IN total_estimated_cost(bag) # NoCost /\ total_estimated_cost(bag) > limit
                  <=> ~(spent <= limit)
<1> DEFINE f == [r \in Priced(bag) |-> bag[r] * r.cost]
           spent == SumFunction(f)
<1>1. Priced(bag) \subseteq DOMAIN bag /\ DOMAIN f = Priced(bag)
  BY DEF Priced
<1>2. \A r \in Priced(bag) : f[r] \in Nat
  <2> TAKE r \in Priced(bag)
  <2>1. bag[r] \in Nat /\ r.cost \in Nat
    BY DEF Priced, ResultBag, Result, IsABag
  <2>2. \A a, b \in Nat : a * b \in Nat
    OBVIOUS
  <2> QED
    BY <2>1, <2>2
<1>3. IsFiniteSet(Priced(bag))
  BY <1>1, FS_Subset DEF ResultBag
<1> HIDE DEF f
<1>4. spent = SumFunctionOnSet(f, Priced(bag)) /\ spent \in Nat
  BY <1>1, <1>2, <1>3, SumIsNatural DEF SumFunction
<1>5. CASE Priced(bag) = {}
  <2>1. spent = 0
    BY <1>2, <1>3, <1>4, <1>5, SumMeaning
  <2>2. total_estimated_cost(bag) = NoCost
    BY <1>5 DEF total_estimated_cost
  <2> QED
    BY <2>1, <2>2 DEF f
<1>6. CASE Priced(bag) # {}
  <2>1. total_estimated_cost(bag) = spent
    BY <1>6 DEF total_estimated_cost, f
  <2>2. spent # NoCost
    BY <1>4, EvaluationAssumption
  <2> HIDE DEF spent
  <2> QED
    BY <1>4, <2>1, <2>2 DEF spent, f
<1> QED
  BY <1>5, <1>6

\* A case that expects a tool fails (metrics.py:29-32): the rate is none or zero.
LEMMA ToolsByCount ==
    ASSUME NEW toolCases \in Nat
    PROVE  tool_success_score(toolCases) = IF toolCases = 0 THEN {} ELSE {0}
<1>1. CASE toolCases = 0
  BY <1>1 DEF tool_success_score
<1>2. CASE toolCases # 0
  <2> DEFINE m == 2 * toolCases
  <2>1. Ratio(0, toolCases) = toolCases \div m
    BY DEF Ratio
  <2>2. toolCases \div m = 0
    BY <1>2
  <2> QED
    BY <1>2, <2>1, <2>2 DEF tool_success_score
<1> QED
  BY <1>1, <1>2

\* The gate has no failures if, and only if, every test of it passes.
LEMMA NoFailures ==
    ASSUME NEW scores, NEW t
    PROVE  quality_gate(scores, t) = {} <=>
             /\ ~(scores.accuracy < t.accuracy)
             /\ ~(IF scores.tools = {} THEN t.requireTools
                  ELSE \A rate \in scores.tools : rate < t.tools)
             /\ ~(scores.latency > t.latency)
             /\ ~(scores.cost # NoCost /\ scores.cost > t.cost)
BY DEF quality_gate

(***************************************************************************)
(* The evidence of the evaluation.                                         *)
(***************************************************************************)

\* A verdict is that of the gate on one result for every case, and in production its
\* report is stored and published.
VerdictStands ==
    /\ SumFunction(results) = suite.cases
    /\ evaluator = "passed" <=> Report.failures = {}
    /\ suite.mode = "production" =>
           /\ attempt \in DOMAIN evidence /\ evidence[attempt] = Report
           /\ [attempt |-> attempt, report |-> Report] \in published

\* No attempt has evidence before its results are complete; what is published
\* is what the evidence of the attempt holds.
EvidenceInv ==
    /\ attempt \in Nat
    /\ DOMAIN evidence \subseteq 1..attempt
    /\ evaluator \in {"start", "evaluating"} => attempt \notin DOMAIN evidence
    /\ evaluator = "publishing" => attempt \in DOMAIN evidence /\ evidence[attempt] = Report
    /\ evaluator \in {"storing", "publishing"} =>
           suite.mode = "production" /\ SumFunction(results) = suite.cases
    /\ evaluator \in {"passed", "failed"} => VerdictStands
    /\ \A p \in published :
           p.attempt \in DOMAIN evidence /\ evidence[p.attempt] = p.report

\* What is tested before a case is evaluated, as far as the verdict depends on it.
Accepted == ValidDataset /\ ValidThresholds(suite.thresholds)

\* The results are finitely many, and nothing invalid is evaluated.
CasesInv ==
    /\ IsFiniteSet(DOMAIN results)
    /\ evaluator \notin {"start", "raised"} => Accepted

EvaluationInv == EvaluationTypeOK /\ EvidenceInv /\ CasesInv

\* A result added to a bag of results leaves a bag of results.
LEMMA ResultAdded ==
    ASSUME NEW S, NEW bag, IsABag(bag), BagToSet(bag) \subseteq S, NEW result \in S
    PROVE  LET more == bag (+) SetToBag({result})
           IN IsABag(more) /\ BagToSet(more) \subseteq S
BY DEF IsABag, BagToSet, SetToBag, (+)

LEMMA StartEvaluationInv == EvaluationInit => EvaluationInv
<1> SUFFICES ASSUME EvaluationInit
             PROVE  EvaluationInv
  OBVIOUS
<1>1. /\ suite \in Suites /\ attempt = 1 /\ evaluator = "start" /\ results = EmptyBag
      /\ evidence = << >> /\ published = {}
  BY DEF EvaluationInit, EvaluationOf
<1>2. IsABag(EmptyBag) /\ BagToSet(EmptyBag) = {}
  BY DEF IsABag, BagToSet, EmptyBag, SetToBag
<1>3. DOMAIN evidence = {}
  BY <1>1
<1>4. IsFiniteSet(DOMAIN results)
  <2>1. DOMAIN results = {}
    BY <1>1, <1>2 DEF BagToSet
  <2> QED
    BY <2>1, FS_EmptySet
<1> QED
  BY <1>1, <1>2, <1>3, <1>4, EvaluationAssumption
  DEF EvaluationInv, EvaluationTypeOK, EvidenceInv, CasesInv

\* The two ways of ending with a verdict.
LEMMA ExitStatus ==
    ExitCode \in {"passed", "failed"} /\ (ExitCode = "passed" <=> Report.failures = {})
BY DEF ExitCode

LEMMA NextEvaluationTypes ==
    ASSUME EvaluationInv, EvaluationNext
    PROVE  EvaluationTypeOK'
<1> USE DEF EvaluationInv, EvaluationTypeOK
<1>1. CASE StartEvaluation
  BY <1>1 DEF StartEvaluation
<1>2. CASE EvaluateNextCase
  <2>1. PICK r \in Replies : results' = results (+) SetToBag({evaluate_case(r)})
    BY <1>2 DEF EvaluateNextCase, predict, remote_predictor
  <2>2. evaluate_case(r) \in Result
    BY EvaluationAssumption DEF evaluate_case, Result
  <2>3. IsABag(results') /\ BagToSet(results') \subseteq Result
    BY <2>1, <2>2, ResultAdded DEF Result
  <2> QED
    BY <1>2, <2>3 DEF EvaluateNextCase, Result
<1>3. CASE Gate
  BY <1>3, ExitStatus DEF Gate
<1>4. CASE PutEvidence
  <2>1. DOMAIN evidence' \subseteq DOMAIN evidence \cup {attempt}
    BY <1>4 DEF PutEvidence, Key, put_object
  <2> QED
    BY <1>4, <2>1, EvaluationAssumption DEF PutEvidence
<1>5. CASE PutMetrics
  BY <1>5, ExitStatus DEF PutMetrics
<1>6. CASE Rerun
  <2>1. IsABag(EmptyBag) /\ BagToSet(EmptyBag) = {}
    BY DEF IsABag, BagToSet, EmptyBag, SetToBag
  <2> QED
    BY <1>6, <2>1, EvaluationAssumption DEF Rerun
<1> QED
  BY <1>1, <1>2, <1>3, <1>4, <1>5, <1>6 DEF EvaluationNext

LEMMA NextEvidence ==
    ASSUME EvaluationInv, EvaluationNext
    PROVE  EvidenceInv'
<1> USE DEF EvaluationInv, EvaluationTypeOK, EvidenceInv
<1>1. CASE StartEvaluation
  BY <1>1 DEF StartEvaluation
<1>2. CASE EvaluateNextCase
  BY <1>2 DEF EvaluateNextCase
<1>3. CASE Gate
  <2>1. /\ evaluator = "evaluating" /\ SumFunction(results) = suite.cases
        /\ UNCHANGED <<suite, attempt, results, evidence, published>>
    BY <1>3 DEF Gate
  <2>2. Report' = Report
    BY <2>1 DEF Report
  <2>3. CASE suite.mode = "production"
    <3>1. evaluator' = "storing"
      BY <1>3, <2>3 DEF Gate
    <3> QED
      BY <2>1, <2>3, <3>1
  <2>4. CASE suite.mode # "production"
    <3>1. evaluator' = ExitCode
      BY <1>3, <2>4 DEF Gate
    <3>2. VerdictStands'
      BY <2>1, <2>2, <2>4, <3>1, ExitStatus DEF VerdictStands
    <3> QED
      BY <2>1, <3>1, <3>2, ExitStatus
  <2> QED
    BY <2>3, <2>4
<1>4. CASE PutEvidence
  <2>1. CASE evaluator' = "raised" /\ UNCHANGED evidence
    BY <1>4, <2>1 DEF PutEvidence
  <2>2. CASE ~(evaluator' = "raised" /\ UNCHANGED evidence)
    <3>1. /\ attempt \notin DOMAIN evidence /\ evidence' = put_object(evidence, attempt, Report)
          /\ UNCHANGED <<suite, attempt, results, published>>
      BY <1>4, <2>2 DEF PutEvidence, Key
    <3>2. Report' = Report
      BY <3>1 DEF Report
    <3>3. /\ DOMAIN evidence' = DOMAIN evidence \cup {attempt} /\ evidence'[attempt] = Report
          /\ \A k \in DOMAIN evidence : evidence'[k] = evidence[k]
      BY <3>1 DEF put_object
    <3>4. evaluator' \in {"publishing", "storing", "raised"}
      BY <1>4, <2>2 DEF PutEvidence
    <3>5. suite.mode = "production" /\ SumFunction(results) = suite.cases
      BY <1>4 DEF PutEvidence
    <3> QED
      BY <3>1, <3>2, <3>3, <3>4, <3>5
  <2> QED
    BY <2>1, <2>2
<1>5. CASE PutMetrics
  <2>1. /\ evaluator = "publishing" /\ UNCHANGED <<suite, attempt, results, evidence>>
        /\ attempt \in DOMAIN evidence /\ evidence[attempt] = Report
        /\ SumFunction(results) = suite.cases
    BY <1>5 DEF PutMetrics
  <2>2. Report' = Report
    BY <2>1 DEF Report
  <2>3. CASE evaluator' = "raised"
    <3>1. \/ published' = published \cup {[attempt |-> attempt, report |-> Report]}
          \/ published' = published
      BY <1>5 DEF PutMetrics
    <3> QED
      BY <2>1, <2>3, <3>1
  <2>4. CASE evaluator' # "raised"
    <3>1. /\ evaluator' = ExitCode
          /\ published' = published \cup {[attempt |-> attempt, report |-> Report]}
      BY <1>5, <2>4 DEF PutMetrics
    <3>2. VerdictStands'
      BY <2>1, <2>2, <3>1, ExitStatus DEF VerdictStands
    <3> QED
      BY <2>1, <3>1, <3>2, ExitStatus
  <2> QED
    BY <2>3, <2>4
<1>6. CASE Rerun
  BY <1>6 DEF Rerun
<1> QED
  BY <1>1, <1>2, <1>3, <1>4, <1>5, <1>6 DEF EvaluationNext

LEMMA NextCases ==
    ASSUME EvaluationInv, EvaluationNext
    PROVE  CasesInv'
<1> USE DEF EvaluationInv, CasesInv
<1>0. Accepted' <=> Accepted
  <2>1. suite' = suite
    BY DEF EvaluationNext, StartEvaluation, EvaluateNextCase, Gate, PutEvidence, PutMetrics, Rerun
  <2> QED
    BY <2>1, SMT DEF Accepted, ValidDataset, ValidThresholds
<1>1. CASE StartEvaluation
  BY <1>0, <1>1 DEF StartEvaluation, Accepted
<1>2. CASE EvaluateNextCase
  <2>1. PICK r \in Replies : results' = results (+) SetToBag({evaluate_case(r)})
    BY <1>2 DEF EvaluateNextCase, predict, remote_predictor
  <2>2. DOMAIN results' = DOMAIN results \cup {evaluate_case(r)}
    BY <2>1 DEF (+), SetToBag
  <2>3. IsFiniteSet(DOMAIN results')
    BY <2>2, FS_AddElement
  <2> QED
    BY <1>0, <1>2, <2>3 DEF EvaluateNextCase
<1>3. CASE Gate
  BY <1>0, <1>3 DEF Gate
<1>4. CASE PutEvidence
  BY <1>0, <1>4 DEF PutEvidence
<1>5. CASE PutMetrics
  BY <1>0, <1>5 DEF PutMetrics
<1>6. CASE Rerun
  <2>1. DOMAIN EmptyBag = {}
    BY DEF EmptyBag, SetToBag
  <2> QED
    BY <1>6, <2>1, FS_EmptySet DEF Rerun
<1> QED
  BY <1>1, <1>2, <1>3, <1>4, <1>5, <1>6 DEF EvaluationNext

LEMMA StutterEvaluation ==
    ASSUME EvaluationInv, UNCHANGED evaluationVars
    PROVE  EvaluationInv'
<1>1. Report' = Report
  BY DEF evaluationVars, Report
<1>2. Accepted' <=> Accepted
  BY SMT DEF evaluationVars, Accepted, ValidDataset, ValidThresholds
<1> QED
  BY <1>1, <1>2 DEF EvaluationInv, EvaluationTypeOK, EvidenceInv, VerdictStands, CasesInv,
                    evaluationVars

\* The inductive invariant of the evaluation.
THEOREM EvaluationInvariant == EvaluationSpec => []EvaluationInv
<1>1. EvaluationInv /\ [EvaluationNext]_evaluationVars => EvaluationInv'
  BY NextEvaluationTypes, NextEvidence, NextCases, StutterEvaluation DEF EvaluationInv
<1> QED
  BY <1>1, StartEvaluationInv, PTL DEF EvaluationSpec

\* The evaluation keeps its types, and no attempt that was not started has evidence or
\* metrics (monitor_production.py:86-150).
THEOREM EvaluationTypeCorrect == EvaluationSpec => []EvaluationTypeOK
<1>1. EvaluationInv => EvaluationTypeOK
  BY DEF EvaluationInv
<1> QED
  BY <1>1, EvaluationInvariant, PTL

\* Evidence is immutable and what CloudWatch has of an attempt is what its evidence
\* says, for every suite, reply, failure, lost answer and number of attempts
\* (monitor_production.py:135-150).
THEOREM EvidenceSound == EvaluationSpec => EvidenceIsSound
<1>1. EvaluationInv /\ EvaluationInv' /\ [EvaluationNext]_evaluationVars =>
        [/\ \A k \in DOMAIN evidence : k \in DOMAIN evidence' /\ evidence'[k] = evidence[k]
         /\ \A p \in published' : p.attempt \in DOMAIN evidence'
                                  /\ evidence'[p.attempt] = p.report]_evaluationVars
  <2> SUFFICES ASSUME EvaluationInv, EvaluationInv', EvaluationNext
               PROVE  \A k \in DOMAIN evidence :
                          k \in DOMAIN evidence' /\ evidence'[k] = evidence[k]
    BY DEF EvaluationInv, EvidenceInv
  <2>1. UNCHANGED evidence \/ PutEvidence
    BY DEF EvaluationNext, StartEvaluation, EvaluateNextCase, Gate, PutMetrics, Rerun
  <2>2. CASE PutEvidence
    BY <2>2 DEF PutEvidence, Key, put_object
  <2> QED
    BY <2>1, <2>2
<1> QED
  BY <1>1, EvaluationInvariant, PTL DEF EvaluationSpec, EvidenceIsSound

\* Every verdict is the gate's, on as many results as the suite has cases, and a
\* production run gives one only with its report stored and published
\* (run_eval.py:88-113, monitor_production.py:135-150).
THEOREM VerdictsStand ==
    EvaluationSpec => [](evaluator \in {"passed", "failed"} => VerdictStands)
<1>1. EvaluationInv => (evaluator \in {"passed", "failed"} => VerdictStands)
  BY DEF EvaluationInv, EvidenceInv
<1> QED
  BY <1>1, EvaluationInvariant, PTL

\* A verdict is the one the counts of right, slow and priced results give: the scores
\* the gate compares round, take a percentile and add up, to the same end.
LEMMA GateByCounts ==
    ASSUME NEW bag, ResultBag(bag), SumFunction(bag) > 0, NEW toolCases \in Nat,
           NEW t \in Thresholds, ValidThresholds(t)
    PROVE  quality_gate(calculate_scores(bag, toolCases), t) = {} <=>
             /\ FewWrong(Count(bag, {r \in DOMAIN bag : ~r.correct}), SumFunction(bag),
                         t.accuracy)
             /\ 20 * Count(bag, {r \in DOMAIN bag : r.latency > t.latency}) <= SumFunction(bag)
             /\ SumFunction([r \in Priced(bag) |-> bag[r] * r.cost]) <= t.cost
             /\ toolCases = 0 => ~t.requireTools
             /\ toolCases > 0 => t.tools = 0
<1> DEFINE scores == calculate_scores(bag, toolCases)
           Right == FewWrong(Count(bag, {r \in DOMAIN bag : ~r.correct}), SumFunction(bag),
                             t.accuracy)
           Quick == 20 * Count(bag, {r \in DOMAIN bag : r.latency > t.latency})
                        <= SumFunction(bag)
           Cheap == SumFunction([r \in Priced(bag) |-> bag[r] * r.cost]) <= t.cost
<1>1. /\ t.accuracy \in Int /\ t.latency \in Nat /\ t.cost \in Nat /\ t.tools \in Nat
      /\ t.requireTools \in BOOLEAN
  <2>1. /\ t.accuracy \in Int /\ t.latency \in Int /\ t.cost \in Int /\ t.tools \in Int
        /\ t.requireTools \in BOOLEAN
    BY DEF Thresholds
  <2>2. t.latency > 0 /\ t.cost >= 0 /\ t.tools >= 0
    BY <2>1, SMT DEF ValidThresholds
  <2> QED
    BY <2>1, <2>2
<1>2. /\ scores.accuracy = exact_match_score(bag)
      /\ scores.tools = tool_success_score(toolCases)
      /\ scores.latency = p95_latency(bag)
      /\ scores.cost = total_estimated_cost(bag)
  BY DEF calculate_scores
<1>3. scores.accuracy < t.accuracy <=> ~Right
  BY <1>1, <1>2, AccuracyByCount, Zenon
<1>4. scores.latency > t.latency <=> ~Quick
  BY <1>1, <1>2, LatencyByCount, Zenon
<1>5. (scores.cost # NoCost /\ scores.cost > t.cost) <=> ~Cheap
  BY <1>1, <1>2, CostBySum, Zenon
<1>6. (IF scores.tools = {} THEN t.requireTools ELSE \A rate \in scores.tools : rate < t.tools)
          <=> ~((toolCases = 0 => ~t.requireTools) /\ (toolCases > 0 => t.tools = 0))
  <2>1. scores.tools = IF toolCases = 0 THEN {} ELSE {0}
    BY <1>2, ToolsByCount
  <2>2. CASE toolCases = 0
    BY <2>1, <2>2
  <2>3. CASE toolCases # 0
    <3>1. scores.tools = {0} /\ toolCases > 0
      BY <2>1, <2>3
    <3> HIDE DEF scores
    <3> QED
      BY <1>1, <3>1
  <2> QED
    BY <2>2, <2>3
<1> HIDE DEF scores, Right, Quick, Cheap
<1>7. quality_gate(scores, t) = {} <=>
          /\ Right /\ Quick /\ Cheap
          /\ (toolCases = 0 => ~t.requireTools) /\ (toolCases > 0 => t.tools = 0)
  BY <1>3, <1>4, <1>5, <1>6, NoFailures, Zenon
<1> QED
  BY <1>7, Zenon DEF scores, Right, Quick, Cheap

LEMMA VerdictEarned ==
    ASSUME EvaluationInv
    PROVE  PassIsEarned
<1> SUFFICES ASSUME evaluator \in {"passed", "failed"}
             PROVE  PassIsEarned
  BY DEF PassIsEarned
<1> DEFINE t == suite.thresholds
           n == suite.cases
           wrong == Many(results, LAMBDA r : ~r.correct)
           slow == Many(results, LAMBDA r : r.latency > t.latency)
           spent == SumFunction([r \in Priced(results) |-> results[r] * r.cost])
           earned == /\ FewWrong(wrong, n, t.accuracy)
                     /\ 20 * slow <= n
                     /\ spent <= t.cost
                     /\ suite.toolCases = 0 => ~t.requireTools
                     /\ suite.toolCases > 0 => t.tools = 0
<1>1. VerdictStands
  BY DEF EvaluationInv, EvidenceInv
<1>2. ResultBag(results)
  BY DEF ResultBag, Result, EvaluationInv, EvaluationTypeOK, CasesInv, BagToSet
<1>3. ValidThresholds(t) /\ n > 0
  <2>1. Accepted
    BY DEF EvaluationInv, CasesInv
  <2>2. n > 0
    BY <2>1 DEF Accepted, ValidDataset
  <2> QED
    BY <2>1, <2>2 DEF Accepted
<1>4. suite.toolCases \in Nat /\ t \in Thresholds
  BY EvaluationAssumption DEF EvaluationInv, EvaluationTypeOK
<1>5. SumFunction(results) = n
  BY <1>1 DEF VerdictStands
<1>6. /\ wrong = Count(results, {r \in DOMAIN results : ~r.correct})
      /\ slow = Count(results, {r \in DOMAIN results : r.latency > t.latency})
  BY DEF Many, Count
<1>7. Report.failures = quality_gate(calculate_scores(results, suite.toolCases), t)
  BY DEF Report
<1>8. Report.failures = {} <=> earned
  <2>1. SumFunction(results) > 0
    BY <1>3, <1>5
  <2>2. quality_gate(calculate_scores(results, suite.toolCases), t) = {} <=>
            /\ FewWrong(Count(results, {r \in DOMAIN results : ~r.correct}),
                        SumFunction(results), t.accuracy)
            /\ 20 * Count(results, {r \in DOMAIN results : r.latency > t.latency})
                   <= SumFunction(results)
            /\ SumFunction([r \in Priced(results) |-> results[r] * r.cost]) <= t.cost
            /\ suite.toolCases = 0 => ~t.requireTools
            /\ suite.toolCases > 0 => t.tools = 0
    BY <1>2, <1>3, <1>4, <2>1, GateByCounts
  <2> QED
    BY <1>5, <1>6, <1>7, <2>2
<1> HIDE DEF earned
<1>9. evaluator = "passed" =>
          /\ SumFunction(results) = n /\ earned
          /\ suite.mode = "production" =>
                 attempt \in DOMAIN evidence /\ \E p \in published : p.attempt = attempt
  BY <1>1, <1>5, <1>8 DEF VerdictStands
<1>10. evaluator = "failed" => ~earned
  BY <1>1, <1>8 DEF VerdictStands
<1> QED
  BY <1>9, <1>10, SMT DEF PassIsEarned, earned, FewWrong

\* For every suite and whatever the predictor answers: a run passes exactly when its
\* share of wrong answers, its slow cases, its known cost and its tool cases are within
\* the thresholds, on one result for every case, and in production with the evidence
\* stored and the metrics published (metrics.py:13-91, quality_gate.py:11-60).
THEOREM PassEarned == EvaluationSpec => []PassIsEarned
<1>1. EvaluationInv => PassIsEarned
  BY VerdictEarned
<1> QED
  BY <1>1, EvaluationInvariant, PTL

(***************************************************************************)
(* The drift audit.                                                        *)
(***************************************************************************)

\* The status as the report has it, and the plan it summarises.
ReportedStatus == IF status = "" THEN "error" ELSE status
ReportedPlan == IF ReportedStatus = "error" THEN NothingPlanned ELSE plan

\* What the job knows once it has made each of its steps.
DriftInv ==
    /\ plan.resources \subseteq ResourceChanges
    /\ audit \in {"plan", "report", "signal", "enforce", "passed", "failed"}
    /\ status \in {"", "clean", "drift", "error"}
    /\ signal \in {NoReport, 0, 1}
    /\ broken \subseteq {"plan", "report", "signal"}
    /\ status = "clean" => EmptyPlan
    /\ status = "drift" => ~EmptyPlan
    /\ audit \in {"plan", "report"} => report = NoReport
    /\ audit \in {"plan", "report", "signal"} => signal = NoReport
    /\ audit = "plan" => status = ""
    /\ report # NoReport =>
           /\ ~Raises(ReportedPlan, ReportedStatus)
           /\ report = Summary(ReportedPlan, ReportedStatus)
    /\ signal # NoReport => signal = DriftSignal
    /\ audit \in {"enforce", "passed", "failed"} /\ "signal" \notin broken => signal = DriftSignal
    /\ audit = "passed" => broken = {} /\ report # NoReport /\ report.passed

LEMMA StartDrift == AuditInit => DriftInv
BY DEF AuditInit, AuditOf, DriftInv

LEMMA NextDrift ==
    ASSUME DriftInv, AuditNext
    PROVE  DriftInv'
<1> USE DEF DriftInv
<1>1. CASE PlanProduction
  <2>1. UNCHANGED <<plan, report, signal>> /\ audit' = "report" /\ report = NoReport
        /\ signal = NoReport
    BY <1>1 DEF PlanProduction
  <2>2. EmptyPlan' <=> EmptyPlan
    BY <2>1 DEF EmptyPlan
  <2>3. /\ status' \in {"", "clean", "drift", "error"}
        /\ status' = "clean" => EmptyPlan
        /\ status' = "drift" => ~EmptyPlan
    BY <1>1 DEF PlanProduction
  <2>9. broken' \subseteq {"plan", "report", "signal"}
    BY <1>1 DEF PlanProduction, DriftInv
  <2> QED
    BY <2>1, <2>2, <2>3, <2>9
<1>2. CASE BuildReport
  <2>1. UNCHANGED <<plan, status, signal>> /\ audit' = "signal" /\ report = NoReport
        /\ signal = NoReport
    BY <1>2 DEF BuildReport
  <2>2. EmptyPlan' <=> EmptyPlan
    BY <2>1 DEF EmptyPlan
  <2>3. ReportedStatus' = ReportedStatus /\ ReportedPlan' = ReportedPlan
    BY <2>1 DEF ReportedStatus, ReportedPlan
  <2>4. \/ report' = report
        \/ /\ ~Raises(ReportedPlan, ReportedStatus)
           /\ report' = Summary(ReportedPlan, ReportedStatus)
    BY <1>2 DEF BuildReport, ReportedStatus, ReportedPlan
  <2>9. broken' \subseteq {"plan", "report", "signal"}
    BY <1>2 DEF BuildReport, DriftInv
  <2> QED
    BY <2>1, <2>2, <2>3, <2>4, <2>9
<1>3. CASE PublishSignal
  <2>1. UNCHANGED <<plan, status, report>> /\ audit' = "enforce" /\ signal = NoReport
    BY <1>3 DEF PublishSignal
  <2>2. EmptyPlan' <=> EmptyPlan
    BY <2>1 DEF EmptyPlan
  <2>3. ReportedStatus' = ReportedStatus /\ ReportedPlan' = ReportedPlan
    BY <2>1 DEF ReportedStatus, ReportedPlan
  <2>4. DriftSignal' = DriftSignal /\ DriftSignal \in {0, 1}
    BY <2>1 DEF DriftSignal
  <2>5. \/ signal' = DriftSignal
        \/ signal' = NoReport /\ "signal" \in broken'
    BY <1>3, <2>1 DEF PublishSignal
  <2>9. broken' \subseteq {"plan", "report", "signal"}
    BY <1>3 DEF PublishSignal, DriftInv
  <2> QED
    BY <2>1, <2>2, <2>3, <2>4, <2>5, <2>9
<1>4. CASE EnforcePolicy
  <2>1. UNCHANGED <<plan, status, report, signal, broken>> /\ audit = "enforce"
    BY <1>4 DEF EnforcePolicy
  <2>2. EmptyPlan' <=> EmptyPlan
    BY <2>1 DEF EmptyPlan
  <2>3. ReportedStatus' = ReportedStatus /\ ReportedPlan' = ReportedPlan
    BY <2>1 DEF ReportedStatus, ReportedPlan
  <2>4. DriftSignal' = DriftSignal
    BY <2>1 DEF DriftSignal
  <2>5. \/ audit' = "passed" /\ broken = {} /\ report # NoReport /\ report.passed
        \/ audit' = "failed"
    BY <1>4 DEF EnforcePolicy
  <2> QED
    BY <2>1, <2>2, <2>3, <2>4, <2>5
<1> QED
  BY <1>1, <1>2, <1>3, <1>4 DEF AuditNext

LEMMA StutterDrift ==
    ASSUME DriftInv, UNCHANGED driftVars
    PROVE  DriftInv'
BY DEF DriftInv, driftVars, EmptyPlan, ReportedStatus, ReportedPlan, DriftSignal

\* What the report of a plan says (summarize_terraform_plan.py:57-88).
LEMMA SummaryFields ==
    ASSUME NEW p, NEW s
    PROVE  /\ Summary(p, s).plan_status = s
           /\ Summary(p, s).changes = Changes(p)
           /\ Summary(p, s).passed => s = "clean"
<1>1. Summary(p, s).passed = (s = "clean" /\ Changes(p) = {})
  BY Zenon DEF Summary
<1>2. Summary(p, s).plan_status = s /\ Summary(p, s).changes = Changes(p)
  BY Zenon DEF Summary
<1> QED
  BY <1>1, <1>2

\* What the job reports is the plan.
LEMMA DriftSeen ==
    ASSUME DriftInv
    PROVE  DriftIsReported
<1>1. signal = 0 => EmptyPlan
  <2>1. 0 # NoReport
    BY NoReportAssumption
  <2>2. signal = 0 => signal = DriftSignal
    BY <2>1 DEF DriftInv
  <2>3. DriftSignal = 0 => status = "clean"
    BY DEF DriftSignal
  <2> QED
    BY <2>2, <2>3 DEF DriftInv
<1>2. ASSUME report # NoReport
      PROVE  /\ report.passed => status = "clean" /\ EmptyPlan
             /\ report.plan_status = "drift" =>
                   /\ ~EmptyPlan
                   /\ \A r \in plan.resources \ report.changes :
                          r.actions \subseteq {"no-op", "read"}
  <2>1. /\ report = Summary(ReportedPlan, ReportedStatus)
        /\ report.plan_status = ReportedStatus /\ report.changes = Changes(ReportedPlan)
        /\ report.passed => ReportedStatus = "clean"
    <3>1. report = Summary(ReportedPlan, ReportedStatus)
      BY <1>2 DEF DriftInv
    <3> QED
      BY <3>1, SummaryFields
  <2>2. report.passed => status = "clean" /\ EmptyPlan
    BY <2>1 DEF DriftInv, ReportedStatus
  <2>3. report.plan_status = "drift" => status = "drift" /\ ReportedPlan = plan
    BY <2>1 DEF ReportedStatus, ReportedPlan
  <2>4. ASSUME report.plan_status = "drift", NEW r \in plan.resources \ report.changes
        PROVE  r.actions \subseteq {"no-op", "read"}
    <3>1. r.actions \in {{}, {"no-op"}, {"read"}}
      BY <2>1, <2>3, <2>4 DEF Changes
    <3> QED
      BY <3>1
  <2> QED
    BY <2>2, <2>3, <2>4 DEF DriftInv
<1>3. audit = "passed" => EmptyPlan /\ report.passed /\ signal = 0
  <2> SUFFICES ASSUME audit = "passed"
               PROVE  EmptyPlan /\ report.passed /\ signal = 0
    OBVIOUS
  <2>1. report # NoReport /\ report.passed /\ signal = DriftSignal
    BY DEF DriftInv
  <2>2. status = "clean" /\ EmptyPlan
    BY <1>2, <2>1
  <2> QED
    BY <2>1, <2>2 DEF DriftSignal
<1> QED
  BY <1>1, <1>2, <1>3 DEF DriftIsReported

\* For every plan and whatever fails: the audit passes, and signals no drift, only on
\* an empty plan, and no report hides a change of a resource
\* (drift-production.yml:80-160, summarize_terraform_plan.py:57-88).
THEOREM DriftReported == AuditSpec => []DriftIsReported
<1>1. DriftInv /\ [AuditNext]_driftVars => DriftInv'
  BY NextDrift, StutterDrift
<1>2. DriftInv => DriftIsReported
  BY DriftSeen
<1> QED
  BY <1>1, <1>2, StartDrift, PTL DEF AuditSpec

-----------------------------------------------------------------------------
(* The diagnostics.  What a report says of a probe is decided when the     *)
(* probe is appended, and is compared with the refused probes at the end.  *)
(* The invariant says it of every probe so far; it holds since the probes  *)
(* have different names: a later refusal is never that of an earlier one.  *)

DiagnosticsInv ==
    /\ collector \in {"collecting", "complete", "incomplete", "raised"}
    /\ made \in 0..2
    /\ probes \in Seq([name : ToSet(Probes), ok : BOOLEAN])
    /\ errors \in Seq(ToSet(Probes))
    /\ Len(probes) <= 7
    /\ \A i \in 1..Len(probes) : probes[i].name = Probes[i]
    /\ \A i \in 1..Len(probes) : probes[i].ok = (Probes[i] \notin refused)
    /\ \A x \in refused : \E i \in 1..Len(probes) : x = Probes[i]
    /\ ToSet(errors) = refused
    /\ collector \in {"complete", "incomplete"} => Len(probes) = 7
    /\ collector = "complete" => errors = << >>
    /\ collector = "incomplete" => errors # << >>

\* The seven parts of production have seven names
\* (collect_production_diagnostics.py:239-245).
LEMMA ProbeNames ==
    /\ Len(Probes) = 7
    /\ \A i \in 1..7 : Probes[i] \in ToSet(Probes)
    /\ \A i, j \in 1..7 : Probes[i] = Probes[j] => i = j
<1>1. Len(Probes) = 7 /\ DOMAIN Probes = 1..7
  BY DEF Probes
<1>2. \A i \in 1..7 : Probes[i] \in ToSet(Probes)
  BY <1>1 DEF ToSet
<1>3. \A i, j \in 1..7 : Probes[i] = Probes[j] => i = j
  BY DEF Probes
<1> QED
  BY <1>1, <1>2, <1>3

LEMMA StartDiagnostics == DiagnosticsInit => DiagnosticsInv
<1> SUFFICES ASSUME DiagnosticsInit PROVE DiagnosticsInv
  OBVIOUS
<1>1. Len(probes) = 0 /\ ToSet(errors) = {}
  BY DEF DiagnosticsInit, ToSet
<1> QED
  BY <1>1 DEF DiagnosticsInit, DiagnosticsInv

\* The elements of a sequence after an append.
LEMMA AppendElements ==
    ASSUME NEW S, NEW s \in Seq(S), NEW e \in S
    PROVE  ToSet(Append(s, e)) = ToSet(s) \cup {e}
<1>1. /\ Len(Append(s, e)) = Len(s) + 1 /\ DOMAIN Append(s, e) = 1..Len(s) + 1
      /\ DOMAIN s = 1..Len(s) /\ Len(s) \in Nat
      /\ \A i \in 1..Len(s) : Append(s, e)[i] = s[i]
      /\ Append(s, e)[Len(s) + 1] = e
  OBVIOUS
<1>2. ASSUME NEW x \in ToSet(Append(s, e))
      PROVE  x \in ToSet(s) \cup {e}
  <2>1. PICK i \in 1..Len(s) + 1 : x = Append(s, e)[i]
    BY <1>1, <1>2 DEF ToSet
  <2>2. i = Len(s) + 1 \/ i \in 1..Len(s)
    BY <1>1
  <2> QED
    BY <1>1, <2>1, <2>2 DEF ToSet
<1>3. ASSUME NEW x \in ToSet(s) \cup {e}
      PROVE  x \in ToSet(Append(s, e))
  <2>1. CASE x = e
    <3>1. Len(s) + 1 \in 1..Len(s) + 1
      BY <1>1
    <3> QED
      BY <1>1, <2>1, <3>1 DEF ToSet
  <2>2. CASE x \in ToSet(s)
    <3>1. PICK i \in 1..Len(s) : x = s[i]
      BY <1>1, <2>2 DEF ToSet
    <3>2. i \in 1..Len(s) + 1
      BY <1>1
    <3> QED
      BY <1>1, <3>1, <3>2 DEF ToSet
  <2> QED
    BY <1>3, <2>1, <2>2
<1> QED
  BY <1>2, <1>3

LEMMA NextDiagnostics ==
    ASSUME DiagnosticsInv, DiagnosticsNext
    PROVE  DiagnosticsInv'
<1> DEFINE n == Len(probes) + 1
<1>1. /\ Len(Probes) = 7
      /\ \A i \in 1..7 : Probes[i] \in ToSet(Probes)
      /\ \A i, j \in 1..7 : Probes[i] = Probes[j] => i = j
      /\ Len(probes) \in Nat
  BY ProbeNames DEF DiagnosticsInv
<1>2. CASE WriteReport
  BY <1>1, <1>2 DEF WriteReport, DiagnosticsInv
<1>3. CASE collector = "collecting" /\ UNCHANGED <<made, probes, errors, refused>>
           /\ collector' = "raised"
  BY <1>3 DEF DiagnosticsInv
<1>4. CASE /\ collector = "collecting" /\ n <= 7 /\ made + 1 < Calls(Probe)
           /\ made' = made + 1 /\ UNCHANGED <<collector, probes, errors, refused>>
  <2>1. made' \in 0..2
    BY <1>4 DEF Calls, DiagnosticsInv
  <2> QED
    BY <1>4, <2>1 DEF DiagnosticsInv
<1>5. ASSUME NEW b \in BOOLEAN,
             collector = "collecting", collector' = collector, n <= 7, made' = 0,
             probes' = Append(probes, [name |-> Probe, ok |-> b]),
             refused' = IF b THEN refused ELSE refused \cup {Probe},
             errors' = IF b THEN errors ELSE Append(errors, Probe)
      PROVE  DiagnosticsInv'
  <2> DEFINE N == [name : ToSet(Probes), ok : BOOLEAN]
             e == [name |-> Probe, ok |-> b]
  <2>1. n \in 1..7 /\ Probe = Probes[n] /\ Probe \in ToSet(Probes)
    BY <1>1, <1>5 DEF Probe
  <2>2. e \in N /\ e.name = Probes[n] /\ e.ok = b
    BY <2>1
  <2>3. probes \in Seq(N) /\ errors \in Seq(ToSet(Probes))
    BY DEF DiagnosticsInv
  <2> HIDE DEF N, e
  <2>4. /\ probes' \in Seq(N) /\ Len(probes') = n
        /\ \A i \in 1..Len(probes) : probes'[i] = probes[i]
        /\ probes'[n] = e
    BY <1>5, <2>2, <2>3 DEF e
  <2>5. errors' \in Seq(ToSet(Probes))
    BY <1>5, <2>1, <2>3
  <2>6. ToSet(errors') = refused'
    <3>1. ToSet(errors) = refused
      BY DEF DiagnosticsInv
    <3>2. ToSet(Append(errors, Probe)) = ToSet(errors) \cup {Probe}
      BY <2>1, <2>3, AppendElements
    <3> QED
      BY <1>5, <3>1, <3>2
  <2>7. n \notin 1..Len(probes)
    BY <1>1
  <2>8. Probes[n] \notin refused
    <3>1. ASSUME NEW i \in 1..Len(probes) PROVE Probes[i] # Probes[n]
      <4>1. i \in 1..7 /\ i # n
        BY <1>1, <2>1
      <4> QED
        BY <1>1, <2>1, <4>1
    <3> QED
      BY <3>1 DEF DiagnosticsInv
  <2>9. ASSUME NEW i \in 1..Len(probes')
        PROVE  probes'[i].name = Probes[i] /\ probes'[i].ok = (Probes[i] \notin refused')
    <3>1. CASE i = n
      <4>1. b = (Probes[n] \notin refused')
        BY <1>5, <2>1, <2>8
      <4> QED
        BY <2>2, <2>4, <3>1, <4>1
    <3>2. CASE i \in 1..Len(probes)
      <4>1. i \in 1..7 /\ i # n
        BY <1>1, <2>1, <3>2
      <4>2. Probes[i] # Probe
        BY <1>1, <2>1, <4>1
      <4>3. (Probes[i] \notin refused') <=> (Probes[i] \notin refused)
        BY <1>5, <4>2
      <4>4. probes'[i].name = Probes[i] /\ probes'[i].ok = (Probes[i] \notin refused)
        BY <2>4, <3>2 DEF DiagnosticsInv
      <4> QED
        BY <4>3, <4>4
    <3> QED
      BY <1>1, <2>4, <3>1, <3>2
  <2>10. ASSUME NEW x \in refused'
         PROVE  \E i \in 1..Len(probes') : x = Probes[i]
    <3>1. x = Probes[n] \/ x \in refused
      BY <1>5, <2>1, <2>10
    <3>2. n \in 1..Len(probes') /\ 1..Len(probes) \subseteq 1..Len(probes')
      BY <1>1, <2>4
    <3> QED
      BY <3>1, <3>2 DEF DiagnosticsInv
  <2>11. collector' = "collecting" /\ made' \in 0..2 /\ Len(probes') <= 7
    BY <1>5, <2>4
  <2> QED
    BY <2>4, <2>5, <2>6, <2>9, <2>10, <2>11 DEF DiagnosticsInv, N
<1> QED
  <2>1. CASE CallAws
    <3>1. collector = "collecting" /\ n <= 7
      BY <1>1, <2>1 DEF CallAws
    <3> QED
      BY <1>3, <1>4, <1>5, <2>1, <3>1 DEF CallAws
  <2> QED
    BY <1>2, <2>1 DEF DiagnosticsNext

LEMMA StutterDiagnostics ==
    ASSUME DiagnosticsInv, UNCHANGED diagnosticsVars
    PROVE  DiagnosticsInv'
BY DEF DiagnosticsInv, diagnosticsVars

LEMMA DiagnosticsRead ==
    ASSUME DiagnosticsInv
    PROVE  DiagnosticsAreHonest
<1> SUFFICES ASSUME collector \in {"complete", "incomplete"}
             PROVE  /\ [i \in DOMAIN probes |-> probes[i].name] = Probes
                    /\ \A i \in DOMAIN probes : probes[i].ok = (probes[i].name \notin refused)
                    /\ ToSet(errors) = refused
                    /\ (collector = "complete") = (refused = {})
  BY DEF DiagnosticsAreHonest
<1>1. Len(probes) = 7 /\ DOMAIN probes = 1..7
  BY DEF DiagnosticsInv
<1>2. \A i \in 1..7 : probes[i].name = Probes[i] /\ probes[i].ok = (Probes[i] \notin refused)
  BY <1>1 DEF DiagnosticsInv
<1>3. [i \in DOMAIN probes |-> probes[i].name] = Probes
  <2>1. Probes = [i \in 1..7 |-> Probes[i]]
    BY DEF Probes
  <2> QED
    BY <1>1, <1>2, <2>1
<1>4. \A i \in DOMAIN probes : probes[i].ok = (probes[i].name \notin refused)
  BY <1>1, <1>2
<1>5. errors = << >> <=> refused = {}
  <2>1. errors \in Seq(ToSet(Probes)) /\ ToSet(errors) = refused
    BY DEF DiagnosticsInv
  <2>2. ASSUME errors # << >> PROVE refused # {}
    <3>1. 1 \in DOMAIN errors
      BY <2>1, <2>2
    <3> QED
      BY <2>1, <3>1 DEF ToSet
  <2>3. ASSUME errors = << >> PROVE refused = {}
    BY <2>1, <2>3 DEF ToSet
  <2> QED
    BY <2>2, <2>3
<1> QED
  BY <1>3, <1>4, <1>5 DEF DiagnosticsInv

\* Whatever AWS refuses: a report that is written has all seven probes, calls ok those
\* every call of which was answered, and its exit code is 0 only if that is all of them
\* (collect_production_diagnostics.py:31-43, 239-256).
THEOREM DiagnosticsHonest == DiagnosticsSpec => []DiagnosticsAreHonest
<1>1. DiagnosticsInv /\ [DiagnosticsNext]_diagnosticsVars => DiagnosticsInv'
  BY NextDiagnostics, StutterDiagnostics
<1>2. DiagnosticsInv => DiagnosticsAreHonest
  BY DiagnosticsRead
<1> QED
  BY <1>1, <1>2, StartDiagnostics, PTL DEF DiagnosticsSpec

\* The variables of both readers keep their types.
THEOREM AuditsTypeCorrect == AuditSpec /\ DiagnosticsSpec => []AuditsTypeOK
<1>1. DriftInv /\ [AuditNext]_driftVars => DriftInv'
  BY NextDrift, StutterDrift
<1>2. DiagnosticsInv /\ [DiagnosticsNext]_diagnosticsVars => DiagnosticsInv'
  BY NextDiagnostics, StutterDiagnostics
<1>3. DriftInv /\ DiagnosticsInv => AuditsTypeOK
  BY DEF DriftInv, DiagnosticsInv, AuditsTypeOK
<1> QED
  BY <1>1, <1>2, <1>3, StartDrift, StartDiagnostics, PTL DEF AuditSpec, DiagnosticsSpec

-----------------------------------------------------------------------------
(* The gates together.  A run of one program is a run in which the others  *)
(* do not leave their start.                                               *)

\* There is something CloudWatch may have of a window.
LEMMA SomeWindow == Truths # {}
<1>1. PICK n \in Counts : TRUE
  BY SomethingToGate
<1> DEFINE t == [requests |-> [p \in 1..Periods |-> n], target5xx |-> [p \in 1..Periods |-> 0],
                 elb5xx |-> [p \in 1..Periods |-> 0], latencyp95 |-> [p \in 1..Periods |-> 0]]
<1>2. t \in [requests : [1..Periods -> Counts], target5xx : [1..Periods -> Errors],
             elb5xx : [1..Periods -> Errors], latencyp95 : [1..Periods -> 0..2]]
  BY <1>1, ErrorBudgetAssumption
<1>3. \A p \in 1..Periods : t.latencyp95[p] + t.target5xx[p] = 0
  OBVIOUS
<1> HIDE DEF t
<1>4. t \in Truths
  BY <1>2, <1>3 DEF Truths
<1> QED
  BY <1>4

LEMMA GatesStart ==
    ASSUME MCInit
    PROVE  BudgetInit /\ EvaluationInit /\ AuditInit /\ DiagnosticsInit
<1>1. BudgetInit
  <2>1. CASE gate = "budget"
    BY <2>1 DEF MCInit
  <2>2. CASE gate # "budget"
    <3> DEFINE c == CHOOSE x \in Configs : TRUE
               t == CHOOSE x \in Truths : TRUE
    <3>1. BudgetOf(c, t, {})
      BY <2>2 DEF MCInit
    <3>2. c \in Configs /\ t \in Truths
      BY SomeWindow, SomethingToGate
    <3> HIDE DEF c, t
    <3> QED
      BY <3>1, <3>2 DEF BudgetInit
  <2> QED
    BY <2>1, <2>2
<1>2. EvaluationInit
  <2>1. CASE gate = "evaluation"
    BY <2>1 DEF MCInit
  <2>2. CASE gate # "evaluation"
    <3> DEFINE s == CHOOSE x \in Suites : TRUE
    <3>1. EvaluationOf(s)
      BY <2>2 DEF MCInit
    <3>2. s \in Suites
      BY SomethingToGate
    <3> HIDE DEF s
    <3> QED
      BY <3>1, <3>2 DEF EvaluationInit
  <2> QED
    BY <2>1, <2>2
<1>3. AuditInit
  <2>1. CASE gate = "drift"
    BY <2>1 DEF MCInit
  <2>2. CASE gate # "drift"
    <3>1. AuditOf(NothingPlanned)
      BY <2>2 DEF MCInit
    <3>2. NothingPlanned \in [resources : SUBSET ResourceChanges, outputs : BOOLEAN]
      BY DEF NothingPlanned
    <3> QED
      BY <3>1, <3>2 DEF AuditInit
  <2> QED
    BY <2>1, <2>2
<1> QED
  BY <1>1, <1>2, <1>3 DEF MCInit

\* Each program runs as its own specification says, or waits: what is shown of one alone
\* holds of it here.
THEOREM GatesRunAlone ==
    MCSpec => BudgetSpec /\ EvaluationSpec /\ AuditSpec /\ DiagnosticsSpec
<1>1. [MCNext]_<<gate, budgetVars, evaluationVars, driftVars, diagnosticsVars>> =>
        /\ [BudgetNext]_budgetVars /\ [EvaluationNext]_evaluationVars
        /\ [AuditNext]_driftVars /\ [DiagnosticsNext]_diagnosticsVars
  BY DEF MCNext
<1> QED
  BY <1>1, GatesStart, PTL DEF MCSpec, BudgetSpec, EvaluationSpec, AuditSpec, DiagnosticsSpec

\* The variables of all the gates and audits keep their types.
THEOREM GatesTypeCorrect == MCSpec => []GatesTypeOK
<1>1. BudgetTypeOK /\ EvaluationTypeOK /\ AuditsTypeOK => GatesTypeOK
  BY DEF GatesTypeOK
<1> QED
  BY <1>1, GatesRunAlone, BudgetTypeCorrect, EvaluationTypeCorrect, AuditsTypeCorrect, PTL

\* Whatever CloudWatch, the predictors, terraform and AWS answer, none of the four passes
\* or refuses on anything but what it read (check_error_budget.py, metrics.py,
\* summarize_terraform_plan.py, collect_production_diagnostics.py).
THEOREM GateVerdictsEarned == MCSpec => []VerdictsAreEarned
<1>1. BudgetVerdictIsEarned /\ PassIsEarned /\ DriftIsReported /\ DiagnosticsAreHonest
          => VerdictsAreEarned
  BY DEF VerdictsAreEarned
<1> QED
  BY <1>1, GatesRunAlone, BudgetVerdictEarned, PassEarned, DriftReported, DiagnosticsHonest, PTL

===============================================================================
