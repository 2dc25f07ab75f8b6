---------------------------- MODULE DataLemmas ----------------------------
(***************************************************************************)
(* What the proofs need of finite sets, sums and sequences.  Min and Max   *)
(* of a finite, non-empty set of integers exist: they are defined by       *)
(* CHOOSE, and a core's or cluster's C-state is the Min of its CPUs'       *)
(* states, its frequency the Max of their frequencies.  Sums are defined   *)
(* by recursion over the set; what a unit was charged in all is one.       *)
(* Sequences of sequences are flattened by recursion over their number;    *)
(* the walk through the tree is one.                                       *)
(***************************************************************************)
EXTENDS Integers, FiniteSetsExt, Functions, SequencesExt, FiniteSetTheorems,
        SequenceTheorems, WellFoundedInduction, TLAPS

(* A finite non-empty set of integers has a least element: of the sets     *)
(* {y \in S : y <= x} take one that is minimal under inclusion.            *)
LEMMA LeastExists ==
    ASSUME NEW S \in SUBSET Int, S # {}, IsFiniteSet(S)
    PROVE  \E x \in S : \A y \in S : x <= y
<1> DEFINE Below(x) == {y \in S : y <= x}
           T == {Below(x) : x \in S}
           R == StrictSubsetOrdering(S)
<1>1. T \subseteq SUBSET S /\ T # {}
  OBVIOUS
<1>2. IsWellFoundedOn(R, SUBSET S)
  BY FS_StrictSubsetOrderingWellFounded, FS_FiniteSubsetsOfFinite
<1>3. PICK m \in T : \A y \in T : <<y, m>> \notin R
  <2> HIDE DEF T, R
  <2> QED BY <1>1, <1>2, WFMin
<1>4. PICK x \in S : m = Below(x)
  OBVIOUS
<1>5. ASSUME NEW y \in S, y < x
      PROVE  FALSE
  <2>1. Below(y) \subseteq Below(x)
    <3> SUFFICES ASSUME NEW z \in S, z <= y
                 PROVE  z <= x
      OBVIOUS
    <3> QED BY <1>5
  <2>2. Below(y) # Below(x)
    <3>1. x \in Below(x)
      OBVIOUS
    <3>2. x \notin Below(y)
      BY <1>5
    <3> QED BY <3>1, <3>2
  <2>3. <<Below(y), m>> \in R
    BY <1>4, <2>1, <2>2 DEF StrictSubsetOrdering
  <2>4. Below(y) \in T
    OBVIOUS
  <2> HIDE DEF T, R, Below
  <2> QED BY <1>3, <2>3, <2>4
<1>6. ASSUME NEW y \in S
      PROVE  x <= y
  BY <1>5
<1> QED BY <1>6

(* Min(S) is the least element.                                            *)
LEMMA MinIsLeast ==
    ASSUME NEW S \in SUBSET Int, S # {}, IsFiniteSet(S)
    PROVE  Min(S) \in S /\ \A y \in S : Min(S) <= y
BY LeastExists DEF Min

(* Max(S) is the greatest element: the least of the negated set.           *)
LEMMA MaxIsGreatest ==
    ASSUME NEW S \in SUBSET Int, S # {}, IsFiniteSet(S)
    PROVE  Max(S) \in S /\ \A y \in S : Max(S) >= y
<1> DEFINE T == {-x : x \in S}
<1>1. T \in SUBSET Int /\ T # {}
  OBVIOUS
<1>2. IsFiniteSet(T)
  <2> DEFINE f == [x \in S |-> -x]
  <2>1. f \in Surjection(S, T)
    BY DEF Surjection
  <2> QED BY <2>1, FS_Surjection
<1>3. PICK m \in T : \A y \in T : m <= y
  <2> HIDE DEF T
  <2> QED BY <1>1, <1>2, LeastExists
<1>4. PICK x \in S : m = -x
  OBVIOUS
<1>5. \A y \in S : x >= y
  <2> TAKE y \in S
  <2>1. -y \in T
    OBVIOUS
  <2>2. m <= -y
    BY <1>3, <2>1
  <2> QED BY <1>4, <2>2
<1> QED BY <1>5 DEF Max

(* An upper bound that is in the set is its greatest element.              *)
LEMMA MaxIs ==
    ASSUME NEW S \in SUBSET Int, IsFiniteSet(S), NEW m \in S, \A y \in S : y <= m
    PROVE  Max(S) = m
<1>1. Max(S) \in S /\ \A y \in S : Max(S) >= y
  BY MaxIsGreatest
<1>2. Max(S) >= m /\ Max(S) <= m /\ Max(S) \in Int /\ m \in Int
  BY <1>1
<1> QED BY <1>2

(* The values an operator takes on a finite set of CPUs form a finite set. *)
LEMMA FiniteImage ==
    ASSUME NEW A, IsFiniteSet(A), NEW f
    PROVE  IsFiniteSet({f[a] : a \in A})
<1> DEFINE g == [a \in A |-> f[a]]
           B == {f[a] : a \in A}
<1>1. g \in Surjection(A, B)
  BY DEF Surjection
<1> QED BY <1>1, FS_Surjection

-----------------------------------------------------------------------------
(* Induction over the subsets of a finite set, with a set of subsets in    *)
(* the place of a predicate: a non-empty set of subsets that are not in G  *)
(* would have a minimal one.                                               *)
LEMMA SubsetInduction ==
    ASSUME NEW S, IsFiniteSet(S), NEW G,
           \A T \in SUBSET S : (\A x \in T : T \ {x} \in G) => T \in G
    PROVE  \A T \in SUBSET S : T \in G
<1> DEFINE Bad == {T \in SUBSET S : T \notin G}
           R   == StrictSubsetOrdering(S)
<1>1. SUFFICES ASSUME Bad # {}
               PROVE  FALSE
  OBVIOUS
<1>2. IsWellFoundedOn(R, SUBSET S)
  BY FS_StrictSubsetOrderingWellFounded, FS_FiniteSubsetsOfFinite
<1>3. PICK T \in Bad : \A U \in Bad : <<U, T>> \notin R
  <2>1. Bad \subseteq SUBSET S
    OBVIOUS
  <2> HIDE DEF Bad, R
  <2> QED BY <1>1, <1>2, <2>1, WFMin
<1>4. PICK x \in T : T \ {x} \notin G
  OBVIOUS
<1>5. T \ {x} \in Bad
  BY <1>4
<1>6. <<T \ {x}, T>> \in R
  BY <1>4 DEF StrictSubsetOrdering
<1> HIDE DEF Bad, R
<1> QED BY <1>3, <1>5, <1>6

-----------------------------------------------------------------------------
(* Sums.                                                                   *)

Pick(T) == CHOOSE x \in T : TRUE

(* F is the recursive function by which the sum of h is defined.           *)
IsSum(F, h, S) ==
    F = [T \in SUBSET S |-> IF T = {} THEN 0
                            ELSE h[Pick(T)] + F[T \ {Pick(T)}]]

LEMMA SumChosen ==
    ASSUME NEW h, NEW S
    PROVE  SumFunctionOnSet(h, S) = (CHOOSE F : IsSum(F, h, S))[S]
BY DEF SumFunctionOnSet, FoldFunctionOnSet, MapThenFoldSet, IsSum, Pick

LEMMA PickIn == ASSUME NEW T, T # {} PROVE Pick(T) \in T
BY DEF Pick

(* There is at most one such function.                                     *)
LEMMA SumUnique ==
    ASSUME NEW h, NEW S, IsFiniteSet(S), NEW F, NEW H,
           IsSum(F, h, S), IsSum(H, h, S)
    PROVE  F = H
<1> DEFINE G == {T \in SUBSET S : F[T] = H[T]}
<1>1. ASSUME NEW T \in SUBSET S, \A x \in T : T \ {x} \in G
      PROVE  F[T] = H[T]
  <2>1. CASE T = {}
    BY <2>1 DEF IsSum
  <2>2. CASE T # {}
    <3>1. T \ {Pick(T)} \in G
      BY <1>1, <2>2, PickIn
    <3>2. F[T] = h[Pick(T)] + F[T \ {Pick(T)}] /\ H[T] = h[Pick(T)] + H[T \ {Pick(T)}]
      BY <2>2 DEF IsSum
    <3> QED BY <3>1, <3>2
  <2> QED BY <2>1, <2>2
<1>2. \A T \in SUBSET S : T \in G
  <2>1. \A T \in SUBSET S : (\A x \in T : T \ {x} \in G) => T \in G
    BY <1>1
  <2> HIDE DEF G
  <2> QED BY <2>1, SubsetInduction
<1>3. \A T \in SUBSET S : F[T] = H[T]
  BY <1>2
<1>4. DOMAIN F = SUBSET S /\ DOMAIN H = SUBSET S /\ F = [T \in DOMAIN F |-> F[T]]
      /\ H = [T \in DOMAIN H |-> H[T]]
  BY DEF IsSum
<1> QED BY <1>3, <1>4

(* The sums over the subsets of a finite set are one.                      *)
LEMMA SumExists ==
    ASSUME NEW h, NEW S, IsFiniteSet(S)
    PROVE  IsSum([T \in SUBSET S |-> SumFunctionOnSet(h, T)], h, S)
<1> DEFINE F(T) == [U \in SUBSET T |-> SumFunctionOnSet(h, U)]
           G    == {T \in SUBSET S : IsSum(F(T), h, T)}
<1>1. ASSUME NEW T \in SUBSET S, \A x \in T : T \ {x} \in G
      PROVE  T \in G
  <2> DEFINE c == Pick(T)
             H == [U \in SUBSET T |-> IF U = T /\ T # {}
                                      THEN h[c] + SumFunctionOnSet(h, T \ {c})
                                      ELSE IF U = {} THEN 0 ELSE SumFunctionOnSet(h, U)]
  <2>1. ASSUME NEW U \in SUBSET T, U # T, U # {}
        PROVE  /\ Pick(U) \in U
               /\ SumFunctionOnSet(h, U) =
                    h[Pick(U)] + (IF U \ {Pick(U)} = {} THEN 0
                                  ELSE SumFunctionOnSet(h, U \ {Pick(U)}))
    <3>1. PICK x \in T : x \notin U
      BY <2>1
    <3>2. IsSum(F(T \ {x}), h, T \ {x})
      BY <1>1
    <3>3. U \in SUBSET (T \ {x}) /\ Pick(U) \in U /\ U \ {Pick(U)} \in SUBSET (T \ {x})
      BY <2>1, <3>1, PickIn
    <3>4. /\ F(T \ {x})[U] = h[Pick(U)] + F(T \ {x})[U \ {Pick(U)}]
          /\ F(T \ {x})[{}] = 0
      <4> DEFINE K == F(T \ {x})
      <4>1. IsSum(K, h, T \ {x}) /\ {} \in SUBSET (T \ {x})
        BY <3>2
      <4> HIDE DEF K
      <4>2. K[U] = h[Pick(U)] + K[U \ {Pick(U)}] /\ K[{}] = 0
        BY <2>1, <3>3, <4>1 DEF IsSum
      <4> QED BY <4>2 DEF K
    <3>5. /\ F(T \ {x})[U] = SumFunctionOnSet(h, U)
          /\ F(T \ {x})[U \ {Pick(U)}] = SumFunctionOnSet(h, U \ {Pick(U)})
          /\ F(T \ {x})[{}] = SumFunctionOnSet(h, {})
      BY <3>3
    <3> QED BY <3>3, <3>4, <3>5
  <2>2. IsSum(H, h, T)
    <3>1. ASSUME NEW U \in SUBSET T
          PROVE  H[U] = IF U = {} THEN 0 ELSE h[Pick(U)] + H[U \ {Pick(U)}]
      <4>1. CASE U = {}
        BY <4>1
      <4>2. CASE U # {} /\ U = T
        <5>1. c \in T /\ T \ {c} \in SUBSET T /\ T \ {c} # T
          BY <4>2, PickIn
        <5>2. H[T] = h[c] + SumFunctionOnSet(h, T \ {c})
          BY <4>2
        <5>3. H[T \ {c}] = IF T \ {c} = {} THEN 0 ELSE SumFunctionOnSet(h, T \ {c})
          BY <5>1
        <5>4. T \ {c} = {} => SumFunctionOnSet(h, T \ {c}) = 0
          <6> SUFFICES ASSUME T \ {c} = {}
                       PROVE  SumFunctionOnSet(h, {}) = 0
            OBVIOUS
          <6>1. IsSum(F({}), h, {})
            BY <1>1, <5>1
          <6>2. F({})[{}] = 0
            <7> DEFINE K == F({})
            <7>1. IsSum(K, h, {}) 
              BY <6>1
            <7> HIDE DEF K
            <7>2. K[{}] = 0
              BY <7>1 DEF IsSum
            <7> QED BY <7>2 DEF K
          <6> QED BY <6>2
        <5> HIDE DEF H, c
        <5> QED BY <4>2, <5>2, <5>3, <5>4 DEF c
      <4>3. CASE U # {} /\ U # T
        <5>1. U \ {Pick(U)} \in SUBSET T /\ U \ {Pick(U)} # T
          BY <4>3, <2>1
        <5>2. H[U] = SumFunctionOnSet(h, U)
          BY <4>3
        <5>3. H[U \ {Pick(U)}] = IF U \ {Pick(U)} = {} THEN 0
                                 ELSE SumFunctionOnSet(h, U \ {Pick(U)})
          BY <5>1
        <5> HIDE DEF H
        <5> QED BY <2>1, <4>3, <5>2, <5>3
      <4> QED BY <4>1, <4>2, <4>3
    <3> DEFINE K == [U \in SUBSET T |-> IF U = {} THEN 0 ELSE h[Pick(U)] + H[U \ {Pick(U)}]]
    <3>2. DOMAIN H = SUBSET T /\ H = [U \in SUBSET T |-> H[U]]
      OBVIOUS
    <3> HIDE DEF H
    <3>3. H = K
      BY <3>1, <3>2
    <3> QED BY <3>3 DEF IsSum
  <2>3. IsFiniteSet(T)
    BY FS_Subset
  <2>4. SumFunctionOnSet(h, T) = H[T]
    <3>1. IsSum((CHOOSE K : IsSum(K, h, T)), h, T)
      <4> HIDE DEF H
      <4> QED BY <2>2
    <3>2. (CHOOSE K : IsSum(K, h, T)) = H
      <4> HIDE DEF H
      <4> QED BY <2>2, <2>3, <3>1, SumUnique
    <3> QED BY <3>2, SumChosen
  <2>5. SumFunctionOnSet(h, {}) = 0
    <3>1. CASE T = {}
      BY <2>4, <3>1
    <3>2. CASE T # {}
      <4>1. IsSum(F(T \ {c}), h, T \ {c})
        BY <1>1, <3>2, PickIn
      <4> DEFINE K == F(T \ {c})
      <4>2. K[{}] = SumFunctionOnSet(h, {})
        OBVIOUS
      <4> HIDE DEF K
      <4>3. K[{}] = 0
        BY <4>1 DEF IsSum, K
      <4> QED BY <4>2, <4>3
    <3> QED BY <3>1, <3>2
  <2>6. \A U \in SUBSET T : H[U] = SumFunctionOnSet(h, U)
    <3> TAKE U \in SUBSET T
    <3>1. CASE U = T
      BY <2>4, <3>1
    <3>2. CASE U # T /\ U = {}
      BY <2>5, <3>2
    <3>3. CASE U # T /\ U # {}
      BY <3>3
    <3> QED BY <3>1, <3>2, <3>3
  <2>7. H = F(T)
    BY <2>6
  <2> QED
    <3> HIDE DEF H
    <3> QED BY <2>2, <2>7
<1>2. \A T \in SUBSET S : (\A x \in T : T \ {x} \in G) => T \in G
  BY <1>1
<1>3. \A T \in SUBSET S : T \in G
  <2> HIDE DEF G
  <2> QED BY <1>2, SubsetInduction, Zenon
<1> QED BY <1>3

-----------------------------------------------------------------------------
(* What is known of sums from here on.                                     *)

LEMMA SumEmpty ==
    ASSUME NEW h
    PROVE  SumFunctionOnSet(h, {}) = 0
<1> DEFINE F == [T \in SUBSET {} |-> SumFunctionOnSet(h, T)]
<1>1. IsSum(F, h, {})
  BY SumExists, FS_EmptySet
<1>2. F[{}] = SumFunctionOnSet(h, {})
  OBVIOUS
<1> HIDE DEF F
<1>3. F[{}] = 0
  BY <1>1 DEF IsSum
<1> QED BY <1>2, <1>3

LEMMA SumStep ==
    ASSUME NEW h, NEW S, IsFiniteSet(S), S # {}
    PROVE  SumFunctionOnSet(h, S) =
             h[Pick(S)] + SumFunctionOnSet(h, S \ {Pick(S)})
<1> DEFINE F == [T \in SUBSET S |-> SumFunctionOnSet(h, T)]
<1>1. IsSum(F, h, S)
  BY SumExists
<1>2. /\ F[S] = SumFunctionOnSet(h, S)
      /\ F[S \ {Pick(S)}] = SumFunctionOnSet(h, S \ {Pick(S)})
  OBVIOUS
<1> HIDE DEF F
<1>3. F[S] = h[Pick(S)] + F[S \ {Pick(S)}]
  BY <1>1 DEF IsSum
<1> QED BY <1>2, <1>3

(* A sum of integers is one, and a sum of natural numbers.                 *)
LEMMA SumInt ==
    ASSUME NEW h, NEW S, IsFiniteSet(S), \A x \in S : h[x] \in Int
    PROVE  SumFunctionOnSet(h, S) \in Int
<1> DEFINE G == {T \in SUBSET S : SumFunctionOnSet(h, T) \in Int}
<1>1. ASSUME NEW T \in SUBSET S, \A x \in T : T \ {x} \in G
      PROVE  SumFunctionOnSet(h, T) \in Int
  <2>1. CASE T = {}
    BY <2>1, SumEmpty
  <2>2. CASE T # {}
    <3>1. IsFiniteSet(T) /\ Pick(T) \in T
      BY <2>2, FS_Subset, PickIn
    <3>2. SumFunctionOnSet(h, T \ {Pick(T)}) \in Int
      BY <1>1, <3>1
    <3> QED BY <2>2, <3>1, <3>2, SumStep
  <2> QED BY <2>1, <2>2
<1>2. \A T \in SUBSET S : (\A x \in T : T \ {x} \in G) => T \in G
  BY <1>1
<1>3. \A T \in SUBSET S : T \in G
  <2> HIDE DEF G
  <2> QED BY <1>2, SubsetInduction, Zenon
<1> QED BY <1>3

LEMMA SumNat ==
    ASSUME NEW h, NEW S, IsFiniteSet(S), \A x \in S : h[x] \in Nat
    PROVE  SumFunctionOnSet(h, S) \in Nat
<1> DEFINE G == {T \in SUBSET S : SumFunctionOnSet(h, T) \in Nat}
<1>1. ASSUME NEW T \in SUBSET S, \A x \in T : T \ {x} \in G
      PROVE  SumFunctionOnSet(h, T) \in Nat
  <2>1. CASE T = {}
    BY <2>1, SumEmpty
  <2>2. CASE T # {}
    <3>1. IsFiniteSet(T) /\ Pick(T) \in T
      BY <2>2, FS_Subset, PickIn
    <3>2. SumFunctionOnSet(h, T \ {Pick(T)}) \in Nat
      BY <1>1, <3>1
    <3> QED BY <2>2, <3>1, <3>2, SumStep
  <2> QED BY <2>1, <2>2
<1>2. \A T \in SUBSET S : (\A x \in T : T \ {x} \in G) => T \in G
  BY <1>1
<1>3. \A T \in SUBSET S : T \in G
  <2> HIDE DEF G
  <2> QED BY <1>2, SubsetInduction, Zenon
<1> QED BY <1>3

(* Any element may be taken out of a sum, not only the one that is picked. *)
LEMMA SumTakeOut ==
    ASSUME NEW h, NEW S, IsFiniteSet(S), \A x \in S : h[x] \in Int, NEW a \in S
    PROVE  SumFunctionOnSet(h, S) = h[a] + SumFunctionOnSet(h, S \ {a})
<1> DEFINE G == {T \in SUBSET S : \A x \in T :
                   SumFunctionOnSet(h, T) = h[x] + SumFunctionOnSet(h, T \ {x})}
<1>1. ASSUME NEW T \in SUBSET S, \A x \in T : T \ {x} \in G, NEW x \in T
      PROVE  SumFunctionOnSet(h, T) = h[x] + SumFunctionOnSet(h, T \ {x})
  <2> DEFINE c == Pick(T)
  <2>1. c \in T /\ SumFunctionOnSet(h, T) = h[c] + SumFunctionOnSet(h, T \ {c})
    <3>1. IsFiniteSet(T)
      BY FS_Subset
    <3> QED BY <3>1, SumStep, PickIn
  <2> HIDE DEF c
  <2>2. CASE x = c
    BY <2>1, <2>2
  <2>3. CASE x # c
    <3> DEFINE U == (T \ {c}) \ {x}
    <3>1. SumFunctionOnSet(h, T \ {c}) = h[x] + SumFunctionOnSet(h, U)
      BY <1>1, <2>1, <2>3
    <3>2. SumFunctionOnSet(h, T \ {x}) = h[c] + SumFunctionOnSet(h, U)
      <4>1. SumFunctionOnSet(h, T \ {x}) = h[c] + SumFunctionOnSet(h, (T \ {x}) \ {c})
        BY <1>1, <2>1, <2>3
      <4>2. (T \ {x}) \ {c} = U
        OBVIOUS
      <4> QED BY <4>1, <4>2
    <3>3. SumFunctionOnSet(h, U) \in Int /\ h[x] \in Int /\ h[c] \in Int
      <4>1. IsFiniteSet(U) /\ U \subseteq S
        BY FS_Subset
      <4> QED BY <2>1, <4>1, SumInt
    <3> HIDE DEF U
    <3> QED BY <2>1, <3>1, <3>2, <3>3
  <2> QED BY <2>2, <2>3
<1>2. \A T \in SUBSET S : (\A x \in T : T \ {x} \in G) => T \in G
  BY <1>1
<1>3. \A T \in SUBSET S : T \in G
  <2> HIDE DEF G
  <2> QED BY <1>2, SubsetInduction, Zenon
<1> QED BY <1>3

(* Functions that agree on a set have the same sum.                        *)
LEMMA SumSame ==
    ASSUME NEW h, NEW g, NEW S, IsFiniteSet(S), \A x \in S : h[x] = g[x]
    PROVE  SumFunctionOnSet(h, S) = SumFunctionOnSet(g, S)
<1> DEFINE G == {T \in SUBSET S : SumFunctionOnSet(h, T) = SumFunctionOnSet(g, T)}
<1>1. ASSUME NEW T \in SUBSET S, \A x \in T : T \ {x} \in G
      PROVE  SumFunctionOnSet(h, T) = SumFunctionOnSet(g, T)
  <2>1. CASE T = {}
    BY <2>1, SumEmpty
  <2>2. CASE T # {}
    <3>1. IsFiniteSet(T) /\ Pick(T) \in T
      BY <2>2, FS_Subset, PickIn
    <3>2. SumFunctionOnSet(h, T \ {Pick(T)}) = SumFunctionOnSet(g, T \ {Pick(T)})
      BY <1>1, <3>1
    <3> QED BY <2>2, <3>1, <3>2, SumStep
  <2> QED BY <2>1, <2>2
<1>2. \A T \in SUBSET S : (\A x \in T : T \ {x} \in G) => T \in G
  BY <1>1
<1>3. \A T \in SUBSET S : T \in G
  <2> HIDE DEF G
  <2> QED BY <1>2, SubsetInduction, Zenon
<1> QED BY <1>3

(* A sum of zeros.                                                         *)
LEMMA SumZero ==
    ASSUME NEW h, NEW S, IsFiniteSet(S), \A x \in S : h[x] = 0
    PROVE  SumFunctionOnSet(h, S) = 0
<1> DEFINE G == {T \in SUBSET S : SumFunctionOnSet(h, T) = 0}
<1>1. ASSUME NEW T \in SUBSET S, \A x \in T : T \ {x} \in G
      PROVE  SumFunctionOnSet(h, T) = 0
  <2>1. CASE T = {}
    BY <2>1, SumEmpty
  <2>2. CASE T # {}
    <3>1. IsFiniteSet(T) /\ Pick(T) \in T
      BY <2>2, FS_Subset, PickIn
    <3>2. SumFunctionOnSet(h, T \ {Pick(T)}) = 0 /\ h[Pick(T)] = 0
      BY <1>1, <3>1
    <3> QED BY <2>2, <3>1, <3>2, SumStep
  <2> QED BY <2>1, <2>2
<1>2. \A T \in SUBSET S : (\A x \in T : T \ {x} \in G) => T \in G
  BY <1>1
<1>3. \A T \in SUBSET S : T \in G
  <2> HIDE DEF G
  <2> QED BY <1>2, SubsetInduction, Zenon
<1> QED BY <1>3

(* Functions that differ at one point have sums that differ by as much.    *)
LEMMA SumChangeAt ==
    ASSUME NEW h, NEW g, NEW S, IsFiniteSet(S), NEW a \in S,
           \A x \in S : h[x] \in Int, g[a] \in Int,
           \A x \in S : x # a => g[x] = h[x]
    PROVE  SumFunctionOnSet(g, S) = SumFunctionOnSet(h, S) + (g[a] - h[a])
<1>1. SumFunctionOnSet(g, S) = g[a] + SumFunctionOnSet(g, S \ {a})
  BY SumTakeOut
<1>2. SumFunctionOnSet(h, S) = h[a] + SumFunctionOnSet(h, S \ {a})
  BY SumTakeOut
<1>3. IsFiniteSet(S \ {a})
  BY FS_Subset
<1>4. SumFunctionOnSet(g, S \ {a}) = SumFunctionOnSet(h, S \ {a})
  BY <1>3, SumSame
<1>5. SumFunctionOnSet(h, S \ {a}) \in Int
  BY <1>3, SumInt
<1> QED BY <1>1, <1>2, <1>4, <1>5

(* A sum does not depend on how its elements are numbered.                 *)
LEMMA SumRenumbered ==
    ASSUME NEW h, NEW g, NEW S, NEW f, IsFiniteSet(S),
           \A x, y \in S : f[x] = f[y] => x = y,
           \A x \in S : h[x] \in Int /\ g[f[x]] = h[x]
    PROVE  SumFunctionOnSet(g, {f[x] : x \in S}) = SumFunctionOnSet(h, S)
<1> DEFINE Im(T) == {f[x] : x \in T}
           G == {T \in SUBSET S : SumFunctionOnSet(g, Im(T)) = SumFunctionOnSet(h, T)}
<1>1. ASSUME NEW T \in SUBSET S, \A x \in T : T \ {x} \in G
      PROVE  SumFunctionOnSet(g, Im(T)) = SumFunctionOnSet(h, T)
  <2>1. CASE T = {}
    <3>1. Im(T) = {}
      BY <2>1
    <3> HIDE DEF Im
    <3> QED BY <2>1, <3>1, SumEmpty
  <2>2. CASE T # {}
    <3>1. PICK a \in T : TRUE
      BY <2>2
    <3>2. SumFunctionOnSet(h, T) = h[a] + SumFunctionOnSet(h, T \ {a})
      <4>1. IsFiniteSet(T)
        BY FS_Subset
      <4> QED BY <4>1, SumTakeOut
    <3>3. SumFunctionOnSet(g, Im(T)) = g[f[a]] + SumFunctionOnSet(g, Im(T) \ {f[a]})
      <4>1. IsFiniteSet(Im(T))
        <5>1. IsFiniteSet(T)
          BY FS_Subset
        <5> QED BY <5>1, FiniteImage
      <4>2. f[a] \in Im(T) /\ \A y \in Im(T) : g[y] \in Int
        OBVIOUS
      <4> HIDE DEF Im
      <4> QED BY <4>1, <4>2, SumTakeOut
    <3>4. Im(T) \ {f[a]} = Im(T \ {a})
      OBVIOUS
    <3>5. SumFunctionOnSet(g, Im(T \ {a})) = SumFunctionOnSet(h, T \ {a})
      BY <1>1
    <3>6. g[f[a]] = h[a]
      OBVIOUS
    <3> HIDE DEF Im
    <3> QED BY <3>2, <3>3, <3>4, <3>5, <3>6
  <2> QED BY <2>1, <2>2
<1>2. \A T \in SUBSET S : (\A x \in T : T \ {x} \in G) => T \in G
  BY <1>1
<1>3. \A T \in SUBSET S : T \in G
  <2> HIDE DEF G
  <2> QED BY <1>2, SubsetInduction, Zenon
<1> QED BY <1>3

(* A sum of sums of two.                                                   *)
LEMMA SumAdd ==
    ASSUME NEW h, NEW g, NEW f, NEW S, IsFiniteSet(S),
           \A x \in S : h[x] \in Int /\ g[x] \in Int /\ f[x] = h[x] + g[x]
    PROVE  SumFunctionOnSet(f, S) = SumFunctionOnSet(h, S) + SumFunctionOnSet(g, S)
<1> DEFINE G == {T \in SUBSET S :
                   SumFunctionOnSet(f, T) = SumFunctionOnSet(h, T) + SumFunctionOnSet(g, T)}
<1>1. ASSUME NEW T \in SUBSET S, \A x \in T : T \ {x} \in G
      PROVE  SumFunctionOnSet(f, T) = SumFunctionOnSet(h, T) + SumFunctionOnSet(g, T)
  <2>1. CASE T = {}
    BY <2>1, SumEmpty
  <2>2. CASE T # {}
    <3> DEFINE c == Pick(T)
               U == T \ {c}
    <3>1. IsFiniteSet(T) /\ c \in T
      BY <2>2, FS_Subset, PickIn
    <3>2. SumFunctionOnSet(f, U) = SumFunctionOnSet(h, U) + SumFunctionOnSet(g, U)
      BY <1>1, <3>1
    <3>3. /\ SumFunctionOnSet(f, T) = f[c] + SumFunctionOnSet(f, U)
          /\ SumFunctionOnSet(h, T) = h[c] + SumFunctionOnSet(h, U)
          /\ SumFunctionOnSet(g, T) = g[c] + SumFunctionOnSet(g, U)
      BY <2>2, <3>1, SumStep
    <3>4. SumFunctionOnSet(h, U) \in Int /\ SumFunctionOnSet(g, U) \in Int
      <4>1. IsFiniteSet(U) /\ U \subseteq S
        BY FS_Subset
      <4> HIDE DEF U
      <4> QED BY <4>1, SumInt
    <3> HIDE DEF c, U
    <3> QED BY <3>1, <3>2, <3>3, <3>4
  <2> QED BY <2>1, <2>2
<1>2. \A T \in SUBSET S : (\A x \in T : T \ {x} \in G) => T \in G
  BY <1>1
<1>3. \A T \in SUBSET S : T \in G
  <2> HIDE DEF G
  <2> QED BY <1>2, SubsetInduction, Zenon
<1> QED BY <1>3

(* A common factor of a sum.                                               *)
LEMMA SumFactor ==
    ASSUME NEW h, NEW f, NEW S, NEW a \in Int, IsFiniteSet(S),
           \A x \in S : h[x] \in Int /\ f[x] = a * h[x]
    PROVE  SumFunctionOnSet(f, S) = a * SumFunctionOnSet(h, S)
<1> DEFINE G == {T \in SUBSET S : SumFunctionOnSet(f, T) = a * SumFunctionOnSet(h, T)}
<1>1. ASSUME NEW T \in SUBSET S, \A x \in T : T \ {x} \in G
      PROVE  SumFunctionOnSet(f, T) = a * SumFunctionOnSet(h, T)
  <2>1. CASE T = {}
    BY <2>1, SumEmpty
  <2>2. CASE T # {}
    <3> DEFINE c == Pick(T)
               U == T \ {c}
               s == SumFunctionOnSet(h, U)
    <3>1. IsFiniteSet(T) /\ c \in T
      BY <2>2, FS_Subset, PickIn
    <3>2. SumFunctionOnSet(f, U) = a * s
      BY <1>1, <3>1
    <3>3. /\ SumFunctionOnSet(f, T) = f[c] + SumFunctionOnSet(f, U)
          /\ SumFunctionOnSet(h, T) = h[c] + s
      BY <2>2, <3>1, SumStep
    <3>4. s \in Int
      <4>1. IsFiniteSet(U) /\ U \subseteq S
        BY FS_Subset
      <4> HIDE DEF U
      <4> QED BY <4>1, SumInt
    <3>5. f[c] = a * h[c] /\ h[c] \in Int
      BY <3>1
    <3> HIDE DEF c, U, s
    <3>6. a * h[c] + a * s = a * (h[c] + s)
      BY <3>4, <3>5
    <3> QED BY <3>2, <3>3, <3>5, <3>6
  <2> QED BY <2>1, <2>2
<1>2. \A T \in SUBSET S : (\A x \in T : T \ {x} \in G) => T \in G
  BY <1>1
<1>3. \A T \in SUBSET S : T \in G
  <2> HIDE DEF G
  <2> QED BY <1>2, SubsetInduction, Zenon
<1> QED BY <1>3

(* Elements that add nothing may be left out.                              *)
LEMMA SumWhere ==
    ASSUME NEW h, NEW g, NEW S, NEW R \in SUBSET S, IsFiniteSet(S),
           \A x \in S : h[x] \in Int,
           \A x \in R : g[x] = h[x], \A x \in S \ R : h[x] = 0
    PROVE  SumFunctionOnSet(h, S) = SumFunctionOnSet(g, R)
<1> DEFINE G == {T \in SUBSET S :
                   SumFunctionOnSet(h, T) = SumFunctionOnSet(h, T \cap R)}
<1>1. ASSUME NEW T \in SUBSET S, \A x \in T : T \ {x} \in G
      PROVE  SumFunctionOnSet(h, T) = SumFunctionOnSet(h, T \cap R)
  <2>1. CASE T \subseteq R
    <3>1. T \cap R = T
      BY <2>1
    <3> QED BY <3>1
  <2>2. CASE ~(T \subseteq R)
    <3>1. PICK x \in T : x \notin R
      BY <2>2
    <3>2. IsFiniteSet(T)
      BY FS_Subset
    <3>3. SumFunctionOnSet(h, T) = h[x] + SumFunctionOnSet(h, T \ {x})
      BY <3>2, SumTakeOut
    <3>4. h[x] = 0
      BY <3>1
    <3>5. SumFunctionOnSet(h, T \ {x}) = SumFunctionOnSet(h, (T \ {x}) \cap R)
      BY <1>1
    <3>6. (T \ {x}) \cap R = T \cap R
      BY <3>1
    <3>7. SumFunctionOnSet(h, T \ {x}) \in Int
      <4>1. IsFiniteSet(T \ {x}) /\ T \ {x} \subseteq S
        BY FS_Subset
      <4> QED BY <4>1, SumInt
    <3> DEFINE U == T \ {x}
    <3>8. SumFunctionOnSet(h, U \cap R) = SumFunctionOnSet(h, T \cap R)
      BY <3>6
    <3> HIDE DEF U
    <3>9. /\ SumFunctionOnSet(h, T) = h[x] + SumFunctionOnSet(h, U)
          /\ SumFunctionOnSet(h, U) = SumFunctionOnSet(h, U \cap R)
          /\ SumFunctionOnSet(h, U) \in Int
      BY <3>3, <3>5, <3>7 DEF U
    <3> QED BY <3>4, <3>8, <3>9
  <2> QED BY <2>1, <2>2
<1>2. \A T \in SUBSET S : (\A x \in T : T \ {x} \in G) => T \in G
  BY <1>1
<1>3. \A T \in SUBSET S : T \in G
  <2> HIDE DEF G
  <2> QED BY <1>2, SubsetInduction, Zenon
<1>4. SumFunctionOnSet(h, S) = SumFunctionOnSet(h, S \cap R)
  BY <1>3
<1>5. S \cap R = R /\ IsFiniteSet(R)
  BY FS_Subset
<1>6. SumFunctionOnSet(h, R) = SumFunctionOnSet(g, R)
  BY <1>5, SumSame
<1> QED BY <1>4, <1>5, <1>6

(* The order in which a table is added up does not matter.                 *)
LEMMA SumSwap ==
    ASSUME NEW S, NEW R, NEW F, IsFiniteSet(S), IsFiniteSet(R),
           \A x \in S : \A y \in R : F[x][y] \in Int
    PROVE  SumFunctionOnSet([x \in S |-> SumFunctionOnSet(F[x], R)], S) =
           SumFunctionOnSet([y \in R |-> SumFunctionOnSet([x \in S |-> F[x][y]], S)], R)
<1> DEFINE Row == [x \in S |-> SumFunctionOnSet(F[x], R)]
           Col(T) == [y \in R |-> SumFunctionOnSet([x \in S |-> F[x][y]], T)]
           G == {T \in SUBSET S : SumFunctionOnSet(Row, T) = SumFunctionOnSet(Col(T), R)}
<1>1. ASSUME NEW T \in SUBSET S, \A x \in T : T \ {x} \in G
      PROVE  SumFunctionOnSet(Row, T) = SumFunctionOnSet(Col(T), R)
  <2>1. CASE T = {}
    <3>1. \A y \in R : Col(T)[y] = 0
      BY <2>1, SumEmpty
    <3>2. SumFunctionOnSet(Row, T) = 0
      BY <2>1, SumEmpty
    <3> DEFINE K == Col(T)
    <3> HIDE DEF Row, Col
    <3>3. SumFunctionOnSet(K, R) = 0
      <4> HIDE DEF K
      <4> QED BY <3>1, SumZero DEF K
    <3> QED BY <3>2, <3>3
  <2>2. CASE T # {}
    <3>1. PICK a \in T : TRUE
      BY <2>2
    <3> DEFINE U == T \ {a}
               f == Col(T)
               h == Col(U)
    <3>2. IsFiniteSet(T) /\ IsFiniteSet(U) /\ U \subseteq S
      BY FS_Subset
    <3>3. SumFunctionOnSet(Row, T) = Row[a] + SumFunctionOnSet(Row, U)
      <4>1. \A x \in S : Row[x] \in Int
        BY SumInt
      <4>2. \A x \in T : Row[x] \in Int
        BY <4>1
      <4> HIDE DEF Row
      <4> QED BY <3>2, <4>2, SumTakeOut
    <3>4. SumFunctionOnSet(Row, U) = SumFunctionOnSet(h, R)
      BY <1>1
    <3>5. ASSUME NEW y \in R
          PROVE  h[y] \in Int /\ f[y] = F[a][y] + h[y]
      <4> DEFINE k == [x \in S |-> F[x][y]]
      <4>1. \A x \in S : k[x] \in Int
        OBVIOUS
      <4>2. f[y] = SumFunctionOnSet(k, T) /\ h[y] = SumFunctionOnSet(k, U) /\ k[a] = F[a][y]
        OBVIOUS
      <4> HIDE DEF k
      <4>3. SumFunctionOnSet(k, T) = k[a] + SumFunctionOnSet(k, T \ {a})
        BY <3>2, <4>1, SumTakeOut
      <4>4. SumFunctionOnSet(k, U) \in Int
        <5> HIDE DEF U
        <5>1. \A x \in U : k[x] \in Int
          BY <3>2, <4>1
        <5> QED BY <3>2, <5>1, SumInt
      <4> HIDE DEF f, h
      <4> QED BY <4>2, <4>3, <4>4
    <3>6. \A y \in R : F[a][y] \in Int
      OBVIOUS
    <3>7. SumFunctionOnSet(f, R) = SumFunctionOnSet(F[a], R) + SumFunctionOnSet(h, R)
      <4> HIDE DEF f, h
      <4> QED BY <3>5, <3>6, SumAdd
    <3>8. Row[a] = SumFunctionOnSet(F[a], R)
      OBVIOUS
    <3> HIDE DEF Row, h
    <3> QED BY <3>3, <3>4, <3>7, <3>8
  <2> QED BY <2>1, <2>2
<1>2. \A T \in SUBSET S : (\A x \in T : T \ {x} \in G) => T \in G
  BY <1>1
<1>3. \A T \in SUBSET S : T \in G
  <2> HIDE DEF G
  <2> QED BY <1>2, SubsetInduction, Zenon
<1> QED BY <1>3

-----------------------------------------------------------------------------
(* Sequences.                                                              *)

(* Induction up to a number, the property given as a set.                  *)
LEMMA IntervalInduction ==
    ASSUME NEW n \in Nat, NEW G, 0 \in G,
           \A k \in 0 .. n - 1 : k \in G => k + 1 \in G
    PROVE  \A k \in 0 .. n : k \in G
<1> DEFINE Bad == {k \in 0 .. n : k \notin G}
<1>1. SUFFICES ASSUME Bad # {}
               PROVE  FALSE
  OBVIOUS
<1>2. Bad \in SUBSET Int /\ IsFiniteSet(Bad)
  <2>1. IsFiniteSet(0 .. n) /\ Bad \subseteq 0 .. n
    BY FS_Interval
  <2> QED BY <2>1, FS_Subset
<1>3. PICK m \in Bad : \A y \in Bad : m <= y
  <2> HIDE DEF Bad
  <2> QED BY <1>1, <1>2, LeastExists
<1>4. m # 0 /\ m - 1 \in 0 .. n - 1 /\ m - 1 \notin Bad
  BY <1>3
<1> QED BY <1>3, <1>4

(* The function that FlattenSeq defines, up to its k-th sequence.          *)
FlattensTo(f, seqs, k) ==
    f = [i \in 1 .. k |-> IF i = 1 THEN seqs[i] ELSE f[i - 1] \o seqs[i]]

LEMMA FlattenExists ==
    ASSUME NEW seqs, NEW n \in Nat
    PROVE  \E f : FlattensTo(f, seqs, n)
<1> DEFINE G == {k \in 0 .. n : \E f : FlattensTo(f, seqs, k)}
<1>1. 0 \in G
  <2>1. FlattensTo([i \in 1 .. 0 |-> 0], seqs, 0)
    BY DEF FlattensTo
  <2> QED BY <2>1
<1>2. ASSUME NEW k \in 0 .. n - 1, k \in G
      PROVE  k + 1 \in G
  <2>1. PICK f : FlattensTo(f, seqs, k)
    BY <1>2
  <2> DEFINE g == [i \in 1 .. k + 1 |-> IF i <= k THEN f[i]
                     ELSE IF i = 1 THEN seqs[i] ELSE f[k] \o seqs[i]]
  <2>2. ASSUME NEW i \in 1 .. k + 1
        PROVE  g[i] = IF i = 1 THEN seqs[i] ELSE g[i - 1] \o seqs[i]
    <3>1. CASE i <= k
      <4>1. i \in 1 .. k /\ (i # 1 => i - 1 \in 1 .. k)
        BY <3>1
      <4>2. f[i] = IF i = 1 THEN seqs[i] ELSE f[i - 1] \o seqs[i]
        BY <2>1, <4>1 DEF FlattensTo
      <4> QED BY <3>1, <4>1, <4>2
    <3>2. CASE i = k + 1
      BY <3>2
    <3> QED BY <3>1, <3>2
  <2>3. g = [i \in 1 .. k + 1 |-> IF i = 1 THEN seqs[i] ELSE g[i - 1] \o seqs[i]]
    BY <2>2
  <2>4. FlattensTo(g, seqs, k + 1)
    <3> HIDE DEF g
    <3> QED BY <2>3 DEF FlattensTo
  <2> QED BY <2>4
<1>3. \A k \in 0 .. n : k \in G
  <2> HIDE DEF G
  <2> QED BY <1>1, <1>2, IntervalInduction
<1> QED BY <1>3

(* FlattenSeq by its two cases: nothing, and one sequence more.            *)
LEMMA FlattenCases ==
    ASSUME NEW seqs, Len(seqs) \in Nat
    PROVE  \E f : /\ FlattensTo(f, seqs, Len(seqs))
                  /\ FlattenSeq(seqs) = IF Len(seqs) = 0 THEN seqs ELSE f[Len(seqs)]
<1> DEFINE f == CHOOSE h : FlattensTo(h, seqs, Len(seqs))
<1>1. FlattensTo(f, seqs, Len(seqs))
  BY FlattenExists
<1>2. FlattenSeq(seqs) = IF Len(seqs) = 0 THEN seqs ELSE f[Len(seqs)]
  BY DEF FlattenSeq, FlattensTo
<1> QED BY <1>1, <1>2

(* A sequence of sequences over S flattens to a sequence over S.           *)
LEMMA FlattenInSeq ==
    ASSUME NEW S, NEW seqs \in Seq(Seq(S))
    PROVE  FlattenSeq(seqs) \in Seq(S)
<1> DEFINE n == Len(seqs)
<1>1. n \in Nat /\ \A i \in 1 .. n : seqs[i] \in Seq(S)
  OBVIOUS
<1>2. PICK f : /\ FlattensTo(f, seqs, n)
               /\ FlattenSeq(seqs) = IF n = 0 THEN seqs ELSE f[n]
  BY <1>1, FlattenCases
<1> DEFINE G == {k \in 0 .. n : k # 0 => f[k] \in Seq(S)}
<1>3. ASSUME NEW k \in 0 .. n - 1, k \in G
      PROVE  k + 1 \in G
  <2>1. k + 1 \in 1 .. n
    BY <1>1
  <2>2. f[k + 1] = IF k + 1 = 1 THEN seqs[k + 1] ELSE f[k] \o seqs[k + 1]
    <3>1. \A i \in 1 .. n : f[i] = IF i = 1 THEN seqs[i] ELSE f[i - 1] \o seqs[i]
      <4> HIDE DEF n
      <4> QED BY <1>2 DEF FlattensTo
    <3> QED BY <2>1, <3>1
  <2>3. seqs[k + 1] \in Seq(S)
    BY <1>1, <2>1
  <2>4. k # 0 => f[k] \o seqs[k + 1] \in Seq(S)
    BY <1>3, <2>3, ConcatProperties
  <2>5. f[k + 1] \in Seq(S)
    BY <2>2, <2>3, <2>4
  <2> QED BY <1>1, <2>1, <2>5
<1>4. 0 \in G
  BY <1>1
<1>5. \A k \in 0 .. n : k \in G
  <2> HIDE DEF G, n
  <2> QED BY <1>1, <1>3, <1>4, IntervalInduction
<1>6. n # 0 => f[n] \in Seq(S)
  BY <1>1, <1>5
<1>7. n = 0 => seqs = <<>>
  OBVIOUS
<1> QED BY <1>2, <1>6, <1>7

(* The elements of a flattened sequence are those of the sequences, in     *)
(* their order.                                                            *)
At(F, seqs, a, i, p) == i \in DOMAIN seqs /\ p \in DOMAIN seqs[i] /\ F[a] = seqs[i][p]

Flattened(F, seqs, k) ==
    /\ \A a \in DOMAIN F : \E i \in 1 .. k, p \in Nat : At(F, seqs, a, i, p)
    /\ \A a, b \in DOMAIN F : a < b =>
          \E i, j \in 1 .. k, p, q \in Nat :
              /\ At(F, seqs, a, i, p) /\ At(F, seqs, b, j, q)
              /\ i < j \/ (i = j /\ p < q)
    /\ \A i \in 1 .. k : \A p \in DOMAIN seqs[i] : \E a \in DOMAIN F : F[a] = seqs[i][p]

LEMMA FlattenedOneMore ==
    ASSUME NEW S, NEW seqs \in Seq(Seq(S)), NEW k \in Nat, k + 1 \in DOMAIN seqs,
           NEW F \in Seq(S), Flattened(F, seqs, k)
    PROVE  Flattened(F \o seqs[k + 1], seqs, k + 1)
<1> DEFINE s == seqs[k + 1]
           H == F \o s
           m == Len(F)
<1>1. /\ s \in Seq(S) /\ m \in Nat /\ Len(s) \in Nat /\ DOMAIN s = 1 .. Len(s)
      /\ DOMAIN F = 1 .. m
  <2>1. s \in Seq(S)
    OBVIOUS
  <2> HIDE DEF s
  <2> QED BY <2>1
<1>2. /\ DOMAIN H = 1 .. m + Len(s)
      /\ \A a \in 1 .. m : H[a] = F[a]
      /\ \A p \in 1 .. Len(s) : H[m + p] = s[p]
      /\ \A a \in 1 .. m + Len(s) : a > m => a - m \in 1 .. Len(s) /\ H[a] = s[a - m]
  <2> HIDE DEF s
  <2> QED BY <1>1
<1> HIDE DEF m, H
<1>3. \A a \in 1 .. m : \A i, p : At(F, seqs, a, i, p) => At(H, seqs, a, i, p)
  BY <1>2 DEF At
<1>4. \A a \in 1 .. m + Len(s) : a > m => At(H, seqs, a, k + 1, a - m)
  BY <1>1, <1>2 DEF At
<1>5. 1 .. k \subseteq 1 .. k + 1 /\ k + 1 \in 1 .. k + 1
  OBVIOUS
<1>6. ASSUME NEW a \in DOMAIN H
      PROVE  \E i \in 1 .. k + 1, p \in Nat : At(H, seqs, a, i, p)
  <2>1. CASE a <= m
    <3>1. a \in 1 .. m
      BY <1>2, <2>1
    <3>2. PICK i \in 1 .. k, p \in Nat : At(F, seqs, a, i, p)
      BY <1>1, <3>1 DEF Flattened
    <3> QED BY <1>3, <1>5, <3>1, <3>2
  <2>2. CASE a > m
    BY <1>2, <1>4, <1>5, <2>2
  <2> QED BY <1>1, <1>2, <2>1, <2>2
<1>7. ASSUME NEW a \in DOMAIN H, NEW b \in DOMAIN H, a < b
      PROVE  \E i, j \in 1 .. k + 1, p, q \in Nat :
              /\ At(H, seqs, a, i, p) /\ At(H, seqs, b, j, q)
              /\ i < j \/ (i = j /\ p < q)
  <2>1. a \in Nat /\ b \in Nat /\ a \in 1 .. m + Len(s) /\ b \in 1 .. m + Len(s)
    BY <1>1, <1>2
  <2>2. CASE b <= m
    <3>1. a \in 1 .. m /\ b \in 1 .. m
      BY <1>1, <1>7, <2>1, <2>2
    <3>2. PICK i \in 1 .. k, j \in 1 .. k, p, q \in Nat :
              /\ At(F, seqs, a, i, p) /\ At(F, seqs, b, j, q)
              /\ i < j \/ (i = j /\ p < q)
      BY <1>1, <1>7, <3>1 DEF Flattened
    <3> QED BY <1>3, <1>5, <3>1, <3>2
  <2>3. CASE a <= m /\ b > m
    <3>1. a \in 1 .. m
      BY <2>1, <2>3
    <3>2. PICK i \in 1 .. k, p \in Nat : At(F, seqs, a, i, p)
      BY <1>1, <3>1 DEF Flattened
    <3>3. At(H, seqs, a, i, p) /\ At(H, seqs, b, k + 1, b - m) /\ i < k + 1
      BY <1>3, <1>4, <2>1, <2>3, <3>1, <3>2
    <3>4. i \in 1 .. k + 1 /\ b - m \in Nat
      BY <1>1, <2>1, <2>3, <3>2
    <3> QED BY <1>5, <3>2, <3>3, <3>4, Zenon
  <2>4. CASE a > m
    <3>1. At(H, seqs, a, k + 1, a - m) /\ At(H, seqs, b, k + 1, b - m) /\ a - m < b - m
      BY <1>1, <1>4, <1>7, <2>1, <2>4
    <3>2. a - m \in Nat /\ b - m \in Nat
      BY <1>1, <1>7, <2>1, <2>4
    <3> QED BY <1>5, <3>1, <3>2, Zenon
  <2> QED BY <1>1, <2>1, <2>2, <2>3, <2>4
<1>8. ASSUME NEW i \in 1 .. k + 1, NEW p \in DOMAIN seqs[i]
      PROVE  \E a \in DOMAIN H : H[a] = seqs[i][p]
  <2>1. CASE i = k + 1
    <3>1. p \in 1 .. Len(s)
      BY <1>1, <1>8, <2>1
    <3>2. m + p \in DOMAIN H /\ H[m + p] = s[p]
      BY <1>1, <1>2, <3>1
    <3> QED BY <2>1, <3>2
  <2>2. CASE i \in 1 .. k
    <3>1. PICK a \in DOMAIN F : F[a] = seqs[i][p]
      BY <1>8, <2>2 DEF Flattened
    <3>2. a \in DOMAIN H /\ H[a] = F[a]
      BY <1>1, <1>2, <3>1
    <3> QED BY <3>1, <3>2
  <2> QED BY <2>1, <2>2
<1>9. Flattened(H, seqs, k + 1)
  BY <1>6, <1>7, <1>8 DEF Flattened
<1> QED BY <1>9 DEF H

LEMMA FlattenKeepsOrder ==
    ASSUME NEW S, NEW seqs \in Seq(Seq(S))
    PROVE  Flattened(FlattenSeq(seqs), seqs, Len(seqs))
<1> DEFINE n == Len(seqs)
<1>1. n \in Nat /\ DOMAIN seqs = 1 .. n /\ \A i \in 1 .. n : seqs[i] \in Seq(S)
  OBVIOUS
<1>2. PICK f : /\ FlattensTo(f, seqs, n)
               /\ FlattenSeq(seqs) = IF n = 0 THEN seqs ELSE f[n]
  BY <1>1, FlattenCases
<1>3. \A i \in 1 .. n : f[i] = IF i = 1 THEN seqs[i] ELSE f[i - 1] \o seqs[i]
  <2> HIDE DEF n
  <2> QED BY <1>2 DEF FlattensTo
<1> DEFINE G == {k \in 0 .. n : k # 0 => f[k] \in Seq(S) /\ Flattened(f[k], seqs, k)}
<1>4. ASSUME NEW k \in 0 .. n - 1, k \in G
      PROVE  k + 1 \in G
  <2>1. k + 1 \in 1 .. n /\ k \in Nat
    BY <1>1
  <2>2. seqs[k + 1] \in Seq(S)
    BY <1>1, <2>1
  <2>3. CASE k = 0
    <3>1. f[1] = seqs[1] /\ seqs[1] \in Seq(S) /\ 1 \in DOMAIN seqs
      BY <1>1, <1>3, <2>1, <2>2, <2>3
    <3>2. Len(seqs[1]) \in Nat /\ DOMAIN seqs[1] = 1 .. Len(seqs[1])
      BY <3>1
    <3>3. \A a \in DOMAIN seqs[1] : At(seqs[1], seqs, a, 1, a)
      BY <3>1 DEF At
    <3>4. 1 .. 1 = {1}
      OBVIOUS
    <3>5. Flattened(seqs[1], seqs, 1)
      BY <3>3, <3>4 DEF Flattened
    <3> QED BY <1>1, <2>1, <2>3, <3>1, <3>5
  <2>4. CASE k # 0
    <3>1. f[k] \in Seq(S) /\ Flattened(f[k], seqs, k)
      BY <1>4, <2>4
    <3>2. f[k + 1] = f[k] \o seqs[k + 1]
      <4>1. k + 1 # 1 /\ k + 1 - 1 = k
        BY <2>1, <2>4
      <4>2. f[k + 1] = IF k + 1 = 1 THEN seqs[k + 1] ELSE f[k + 1 - 1] \o seqs[k + 1]
        BY <1>3, <2>1
      <4> QED BY <4>1, <4>2
    <3>3. f[k + 1] \in Seq(S)
      BY <2>2, <3>1, <3>2, ConcatProperties
    <3>4. Flattened(f[k + 1], seqs, k + 1)
      BY <1>1, <2>1, <3>1, <3>2, FlattenedOneMore
    <3> QED BY <1>1, <2>1, <3>3, <3>4
  <2> QED BY <2>3, <2>4
<1>5. \A k \in 0 .. n : k \in G
  <2>1. 0 \in G
    BY <1>1
  <2> HIDE DEF G, n
  <2> QED BY <1>1, <1>4, <2>1, IntervalInduction
<1>6. CASE n # 0
  <2>1. n \in G
    BY <1>1, <1>5
  <2> QED BY <1>2, <1>6, <2>1
<1>7. CASE n = 0
  <2>1. FlattenSeq(seqs) = <<>> /\ DOMAIN FlattenSeq(seqs) = {}
    BY <1>2, <1>7
  <2>2. 1 .. 0 = {}
    OBVIOUS
  <2> QED BY <1>7, <2>1, <2>2 DEF Flattened
<1> QED BY <1>6, <1>7

Distinct(s) == \A a, b \in DOMAIN s : s[a] = s[b] => a = b

(* Distinct sequences without common elements flatten to a distinct one.   *)
LEMMA FlattenDistinct ==
    ASSUME NEW S, NEW seqs \in Seq(Seq(S)),
           \A i \in DOMAIN seqs : Distinct(seqs[i]),
           \A i, j \in DOMAIN seqs : i # j =>
              \A p \in DOMAIN seqs[i], q \in DOMAIN seqs[j] : seqs[i][p] # seqs[j][q]
    PROVE  Distinct(FlattenSeq(seqs))
<1> DEFINE F == FlattenSeq(seqs)
<1>1. F \in Seq(S) /\ Flattened(F, seqs, Len(seqs))
  BY FlattenInSeq, FlattenKeepsOrder
<1>2. DOMAIN F \subseteq Int
  <2> HIDE DEF F
  <2> QED BY <1>1
<1> HIDE DEF F
<1>3. ASSUME NEW a \in DOMAIN F, NEW b \in DOMAIN F, a < b
      PROVE  F[a] # F[b]
  <2>1. PICK i \in 1 .. Len(seqs), j \in 1 .. Len(seqs), p, q \in Nat :
              /\ At(F, seqs, a, i, p) /\ At(F, seqs, b, j, q)
              /\ i < j \/ (i = j /\ p < q)
    BY <1>1, <1>3 DEF Flattened
  <2>2. /\ i \in DOMAIN seqs /\ p \in DOMAIN seqs[i] /\ F[a] = seqs[i][p]
        /\ j \in DOMAIN seqs /\ q \in DOMAIN seqs[j] /\ F[b] = seqs[j][q]
    BY <2>1 DEF At
  <2>3. CASE i < j
    <3>1. i # j
      BY <2>1, <2>3
    <3> QED BY <2>2, <3>1
  <2>4. CASE i = j /\ p < q
    <3>1. p # q
      <4>1. seqs[i] \in Seq(S)
        BY <2>2
      <4>2. p \in Int /\ q \in Int
        BY <2>2, <2>4, <4>1
      <4> QED BY <2>4, <4>2
    <3> QED BY <2>2, <2>4, <3>1 DEF Distinct
  <2> QED BY <2>1, <2>3, <2>4
<1>4. \A a, b \in DOMAIN F : a # b => a < b \/ b < a
  BY <1>2
<1>5. Distinct(F)
  BY <1>3, <1>4 DEF Distinct
<1> QED BY <1>5 DEF F

(* InsertAt puts e at i and moves the entries from i on up by one, as the  *)
(* memmove of alloc_pstate does.                                           *)
LEMMA InsertAtProperties ==
    ASSUME NEW S, NEW s \in Seq(S), NEW i \in 1 .. Len(s) + 1, NEW e \in S
    PROVE  /\ InsertAt(s, i, e) \in Seq(S)
           /\ Len(InsertAt(s, i, e)) = Len(s) + 1
           /\ \A j \in 1 .. Len(s) + 1 : InsertAt(s, i, e)[j] =
                 IF j < i THEN s[j] ELSE IF j = i THEN e ELSE s[j - 1]
<1> DEFINE low  == SubSeq(s, 1, i - 1)
           mid  == <<e>>
           high == SubSeq(s, i, Len(s))
<1>1. /\ low \in Seq(S) /\ Len(low) = i - 1
      /\ \A j \in 1 .. i - 1 : low[j] = s[j]
  OBVIOUS
<1>2. /\ high \in Seq(S) /\ Len(high) = Len(s) + 1 - i
      /\ \A j \in 1 .. Len(s) + 1 - i : high[j] = s[i + j - 1]
  OBVIOUS
<1>3. mid \in Seq(S) /\ Len(mid) = 1 /\ mid[1] = e
  OBVIOUS
<1> HIDE DEF low, mid, high
<1>4. /\ low \o mid \in Seq(S) /\ Len(low \o mid) = i
      /\ \A j \in 1 .. i : (low \o mid)[j] = IF j < i THEN s[j] ELSE e
  <2>1. /\ low \o mid \in Seq(S) /\ Len(low \o mid) = Len(low) + Len(mid)
        /\ \A j \in 1 .. Len(low) + Len(mid) : (low \o mid)[j] =
              IF j <= Len(low) THEN low[j] ELSE mid[j - Len(low)]
    BY <1>1, <1>3, ConcatProperties
  <2>2. ASSUME NEW j \in 1 .. i
        PROVE  (low \o mid)[j] = IF j < i THEN s[j] ELSE e
    <3>1. CASE j < i
      BY <1>1, <1>3, <2>1, <3>1
    <3>2. CASE j = i
      BY <1>1, <1>3, <2>1, <3>2
    <3>3. j < i \/ j = i
      OBVIOUS
    <3> QED BY <3>1, <3>2, <3>3
  <2> QED BY <1>1, <1>3, <2>1, <2>2
<1>5. InsertAt(s, i, e) = (low \o mid) \o high
  BY DEF InsertAt, low, mid, high
<1> DEFINE both == low \o mid
<1> HIDE DEF both
<1>6. /\ both \o high \in Seq(S)
      /\ Len(both \o high) = Len(both) + Len(high)
      /\ \A j \in 1 .. Len(both) + Len(high) : (both \o high)[j] =
            IF j <= Len(both) THEN both[j] ELSE high[j - Len(both)]
  <2>1. both \in Seq(S)
    BY <1>4 DEF both
  <2> QED BY <1>2, <2>1, ConcatProperties
<1>7. Len(both) + Len(high) = Len(s) + 1 /\ Len(both) = i /\ Len(s) \in Nat
  BY <1>2, <1>4 DEF both
<1>8. ASSUME NEW j \in 1 .. Len(s) + 1
      PROVE  (both \o high)[j] =
                IF j < i THEN s[j] ELSE IF j = i THEN e ELSE s[j - 1]
  <2>1. CASE j <= i
    BY <1>4, <1>6, <1>7, <2>1 DEF both
  <2>2. CASE j > i
    <3>1. j - i \in 1 .. Len(s) + 1 - i /\ i + (j - i) - 1 = j - 1
      BY <1>7, <2>2
    <3>2. (both \o high)[j] = high[j - i]
      BY <1>6, <1>7, <2>2
    <3> QED BY <1>2, <2>2, <3>1, <3>2
  <2> QED BY <1>7, <2>1, <2>2
<1> QED BY <1>5, <1>6, <1>7, <1>8 DEF both

(* The parts of a flattened sequence lie behind one another: off[i] is     *)
(* what lies in front of the i-th.                                         *)
Places(F, seqs, off) ==
    /\ off \in [1 .. Len(seqs) + 1 -> Nat] /\ off[1] = 0
    /\ Len(F) = off[Len(seqs) + 1]
    /\ \A i \in 1 .. Len(seqs) :
          /\ off[i + 1] = off[i] + Len(seqs[i])
          /\ \A j \in 1 .. Len(seqs[i]) :
                off[i] + j \in 1 .. Len(F) /\ F[off[i] + j] = seqs[i][j]
    /\ \A p \in 1 .. Len(F) : \E i \in 1 .. Len(seqs) :
          p - off[i] \in 1 .. Len(seqs[i])

LEMMA FlattenPlaces ==
    ASSUME NEW S, NEW seqs \in Seq(Seq(S))
    PROVE  \E off : Places(FlattenSeq(seqs), seqs, off)
<1> DEFINE n == Len(seqs)
           F == FlattenSeq(seqs)
<1>1. n \in Nat /\ \A i \in 1 .. n : seqs[i] \in Seq(S) /\ Len(seqs[i]) \in Nat
  <2>1. n \in Nat /\ \A i \in 1 .. n : seqs[i] \in Seq(S)
    OBVIOUS
  <2> QED BY <2>1, LenProperties
<1>2. PICK f : /\ FlattensTo(f, seqs, n)
               /\ F = IF n = 0 THEN seqs ELSE f[n]
  BY <1>1, FlattenCases
<1>3. \A i \in 1 .. n : f[i] = IF i = 1 THEN seqs[i] ELSE f[i - 1] \o seqs[i]
  <2> HIDE DEF n
  <2> QED BY <1>2 DEF FlattensTo
<1> HIDE DEF n, F
<1> DEFINE off == [i \in 1 .. n + 1 |-> IF i = 1 THEN 0 ELSE Len(f[i - 1])]
           \* What has been laid down by k parts.
           Laid(k) ==
              /\ off[k + 1] \in Nat
              /\ k # 0 => f[k] \in Seq(S) /\ Len(f[k]) = off[k + 1]
              /\ k # 0 => off[k + 1] = off[k] + Len(seqs[k])
              /\ \A i \in 1 .. k : \A j \in 1 .. Len(seqs[i]) :
                    off[i] + j \in 1 .. off[k + 1] /\ f[k][off[i] + j] = seqs[i][j]
              /\ \A p \in 1 .. off[k + 1] : \E i \in 1 .. k :
                    p - off[i] \in 1 .. Len(seqs[i])
           G == {k \in 0 .. n : Laid(k) /\ (k # 0 => Laid(k - 1))}
<1>4. off[1] = 0 /\ \A i \in 1 .. n : off[i + 1] = Len(f[i])
  BY <1>1
<1>5. Laid(0)
  <2>1. 0 + 1 = 1 /\ 1 .. 0 = {} /\ off[1] = 0
    BY <1>4
  <2> HIDE DEF off
  <2> QED BY <2>1
<1> HIDE DEF off
<1>6. ASSUME NEW k \in 0 .. n - 1, k \in G
      PROVE  k + 1 \in G
  <2> DEFINE s == seqs[k + 1]
  <2>1. k \in Nat /\ k + 1 \in 1 .. n /\ Laid(k) /\ k + 1 \in 0 .. n
    BY <1>1, <1>6
  <2>2. s \in Seq(S) /\ Len(s) \in Nat
    BY <1>1, <2>1
  <2>3. off[k + 1] \in Nat /\ off[k + 2] = Len(f[k + 1])
    BY <1>4, <2>1
  <2>4. /\ f[k + 1] \in Seq(S) /\ off[k + 2] = off[k + 1] + Len(s)
        /\ \A p \in 1 .. off[k + 1] : k # 0 /\ f[k + 1][p] = f[k][p]
        /\ \A j \in 1 .. Len(s) : f[k + 1][off[k + 1] + j] = s[j]
    <3>1. CASE k = 0
      <4>1. f[k + 1] = s /\ off[k + 1] = 0
        BY <1>3, <1>4, <2>1, <3>1
      <4> HIDE DEF s
      <4> QED BY <2>2, <2>3, <3>1, <4>1
    <3>2. CASE k # 0
      <4>1. f[k + 1] = f[k] \o s /\ f[k] \in Seq(S) /\ Len(f[k]) = off[k + 1]
        <5>1. k + 1 # 1 /\ k + 1 - 1 = k
          BY <2>1, <3>2
        <5>2. f[k + 1] = IF k + 1 = 1 THEN seqs[k + 1] ELSE f[k + 1 - 1] \o seqs[k + 1]
          BY <1>3, <2>1
        <5>3. f[k] \in Seq(S) /\ Len(f[k]) = off[k + 1]
          BY <2>1, <3>2
        <5> QED BY <5>1, <5>2, <5>3
      <4> HIDE DEF s
      <4>2. /\ f[k] \o s \in Seq(S) /\ Len(f[k] \o s) = Len(f[k]) + Len(s)
            /\ \A p \in 1 .. Len(f[k]) + Len(s) :
                  (f[k] \o s)[p] = IF p <= Len(f[k]) THEN f[k][p] ELSE s[p - Len(f[k])]
        BY <2>2, <4>1, ConcatProperties
      <4>3. ASSUME NEW p \in 1 .. off[k + 1]
            PROVE  f[k + 1][p] = f[k][p]
        <5>1. p \in 1 .. Len(f[k]) + Len(s) /\ p <= Len(f[k])
          BY <2>2, <2>3, <4>1
        <5> QED BY <4>1, <4>2, <5>1
      <4>4. ASSUME NEW j \in 1 .. Len(s)
            PROVE  f[k + 1][off[k + 1] + j] = s[j]
        <5>1. /\ off[k + 1] + j \in 1 .. Len(f[k]) + Len(s)
              /\ ~(off[k + 1] + j <= Len(f[k]))
              /\ off[k + 1] + j - Len(f[k]) = j
          BY <2>2, <2>3, <4>1
        <5> DEFINE p == off[k + 1] + j
        <5> HIDE DEF p
        <5>2. (f[k] \o s)[p] = s[p - Len(f[k])]
          BY <4>2, <5>1 DEF p
        <5> QED BY <4>1, <5>1, <5>2 DEF p
      <4> QED BY <2>3, <3>2, <4>1, <4>2, <4>3, <4>4
    <3> QED BY <3>1, <3>2
  <2>5. ASSUME NEW i \in 1 .. k + 1, NEW j \in 1 .. Len(seqs[i])
        PROVE  off[i] + j \in 1 .. off[k + 2] /\ f[k + 1][off[i] + j] = seqs[i][j]
    <3>1. CASE i = k + 1
      <4>1. off[i] + j \in 1 .. off[k + 2]
        BY <2>2, <2>3, <2>4, <3>1
      <4> QED BY <2>4, <3>1, <4>1
    <3>2. CASE i # k + 1
      <4>1. i \in 1 .. k
        BY <2>1, <3>2
      <4>2. off[i] + j \in 1 .. off[k + 1] /\ f[k][off[i] + j] = seqs[i][j]
        BY <2>1, <4>1
      <4>3. off[i] + j \in 1 .. off[k + 2]
        BY <2>2, <2>3, <2>4, <4>2
      <4> QED BY <2>4, <4>2, <4>3
    <3> QED BY <3>1, <3>2
  <2>6. ASSUME NEW p \in 1 .. off[k + 2]
        PROVE  \E i \in 1 .. k + 1 : p - off[i] \in 1 .. Len(seqs[i])
    <3>1. CASE p <= off[k + 1]
      <4>1. p \in 1 .. off[k + 1]
        BY <2>3, <3>1
      <4>2. PICK i \in 1 .. k : p - off[i] \in 1 .. Len(seqs[i])
        BY <2>1, <4>1
      <4>3. i \in 1 .. k + 1
        BY <2>1
      <4> QED BY <4>2, <4>3
    <3>2. CASE ~(p <= off[k + 1])
      <4>1. p - off[k + 1] \in 1 .. Len(s)
        BY <2>2, <2>3, <2>4, <3>2
      <4>2. k + 1 \in 1 .. k + 1
        BY <2>1
      <4> QED BY <4>1, <4>2
    <3> QED BY <3>1, <3>2
  <2>7. k + 1 + 1 = k + 2 /\ k + 1 - 1 = k /\ k + 1 # 0
    BY <2>1
  <2>8. off[k + 2] \in Nat
    BY <2>2, <2>3, <2>4
  <2>9. Laid(k + 1)
    BY <2>3, <2>4, <2>5, <2>6, <2>7, <2>8
  <2> HIDE DEF Laid
  <2> QED BY <2>1, <2>7, <2>9
<1>7. \A k \in 0 .. n : Laid(k)
  <2>1. 0 \in G
    <3> HIDE DEF Laid
    <3> QED BY <1>1, <1>5
  <2>2. \A k \in 0 .. n : k \in G
    <3> HIDE DEF G
    <3> QED BY <1>1, <1>6, <2>1, IntervalInduction
  <2> HIDE DEF Laid
  <2> QED BY <2>2
<1>8. off \in [1 .. n + 1 -> Nat]
  <2>1. \A i \in 1 .. n + 1 : i - 1 \in 0 .. n /\ i - 1 + 1 = i
    BY <1>1
  <2>2. \A i \in 1 .. n + 1 : off[i] \in Nat
    BY <1>7, <2>1
  <2>3. DOMAIN off = 1 .. n + 1 /\ off = [i \in 1 .. n + 1 |-> off[i]]
    BY DEF off
  <2> QED BY <2>2, <2>3
<1>9. \A i \in 1 .. n : off[i + 1] = off[i] + Len(seqs[i])
  <2>1. \A i \in 1 .. n : i \in 0 .. n /\ i # 0
    OBVIOUS
  <2> QED BY <1>7, <2>1
<1>10. Len(F) = off[n + 1] /\ (n # 0 => F = f[n])
  <2>1. CASE n = 0
    <3>1. F = seqs /\ Len(seqs) = 0
      BY <1>2, <2>1 DEF n
    <3> QED BY <1>4, <2>1, <3>1
  <2>2. CASE n # 0
    <3>1. n \in 1 .. n
      BY <1>1, <2>2
    <3> QED BY <1>2, <1>4, <2>2, <3>1
  <2> QED BY <2>1, <2>2
<1>11. Laid(n)
  <2> HIDE DEF Laid
  <2> QED BY <1>1, <1>7
<1>12. /\ \A i \in 1 .. n : \A j \in 1 .. Len(seqs[i]) :
             off[i] + j \in 1 .. Len(F) /\ F[off[i] + j] = seqs[i][j]
       /\ \A p \in 1 .. Len(F) : \E i \in 1 .. n : p - off[i] \in 1 .. Len(seqs[i])
  <2>1. \A i \in 1 .. n : n # 0
    BY <1>1
  <2> QED BY <1>10, <1>11, <2>1
<1>13. Places(F, seqs, off)
  BY <1>4, <1>8, <1>9, <1>10, <1>12 DEF Places, n
<1> QED BY <1>13 DEF F

(* A sequence with one element in front.                                   *)
LEMMA Prefixed ==
    ASSUME NEW S, NEW e \in S, NEW s \in Seq(S)
    PROVE  /\ <<e>> \o s \in Seq(S)
           /\ Len(<<e>> \o s) = 1 + Len(s) /\ Len(s) \in Nat
           /\ (<<e>> \o s)[1] = e
           /\ \A i \in 1 .. Len(s) : (<<e>> \o s)[i + 1] = s[i]
<1> DEFINE one == <<e>>
<1>1. one \in Seq(S) /\ Len(one) = 1 /\ one[1] = e /\ Len(s) \in Nat
  OBVIOUS
<1> HIDE DEF one
<1>2. /\ one \o s \in Seq(S)
      /\ Len(one \o s) = Len(one) + Len(s)
      /\ \A i \in 1 .. Len(one) + Len(s) :
            (one \o s)[i] = IF i <= Len(one) THEN one[i] ELSE s[i - Len(one)]
  BY <1>1, ConcatProperties
<1>3. (one \o s)[1] = e
  BY <1>1, <1>2
<1>4. ASSUME NEW i \in 1 .. Len(s)
      PROVE  (one \o s)[i + 1] = s[i]
  <2>1. i + 1 \in 1 .. Len(one) + Len(s) /\ ~(i + 1 <= Len(one)) /\ i + 1 - Len(one) = i
    BY <1>1
  <2> QED BY <1>2, <2>1
<1>5. Len(one \o s) = 1 + Len(s)
  BY <1>1, <1>2
<1> QED BY <1>1, <1>2, <1>3, <1>4, <1>5 DEF one

(* A function on an interval from 1 is a sequence.                         *)
LEMMA FunctionIsSeq ==
    ASSUME NEW S, NEW n \in Nat, NEW f \in [1 .. n -> S]
    PROVE  f \in Seq(S) /\ Len(f) = n /\ DOMAIN f = 1 .. n
OBVIOUS

(* Three sequences behind one another.                                     *)
LEMMA ThreeParts ==
    ASSUME NEW S, NEW a \in Seq(S), NEW b \in Seq(S), NEW c \in Seq(S)
    PROVE  /\ a \o b \o c \in Seq(S)
           /\ Len(a \o b \o c) = Len(a) + Len(b) + Len(c)
           /\ \A i \in 1 .. Len(a) : (a \o b \o c)[i] = a[i]
           /\ \A i \in 1 .. Len(b) : (a \o b \o c)[Len(a) + i] = b[i]
           /\ \A i \in 1 .. Len(c) : (a \o b \o c)[Len(a) + Len(b) + i] = c[i]
<1> DEFINE ab == a \o b
<1>1. /\ ab \in Seq(S) /\ Len(ab) = Len(a) + Len(b)
      /\ \A i \in 1 .. Len(a) + Len(b) :
            ab[i] = IF i <= Len(a) THEN a[i] ELSE b[i - Len(a)]
  BY ConcatProperties
<1>2. Len(a) \in Nat /\ Len(b) \in Nat /\ Len(c) \in Nat
  OBVIOUS
<1> HIDE DEF ab
<1> DEFINE f == ab \o c
<1>3. /\ f \in Seq(S) /\ Len(f) = Len(ab) + Len(c)
      /\ \A i \in 1 .. Len(ab) + Len(c) :
            f[i] = IF i <= Len(ab) THEN ab[i] ELSE c[i - Len(ab)]
  <2>1. ab \in Seq(S)
    BY <1>1
  <2> QED BY <2>1, ConcatProperties
<1> HIDE DEF f
<1>4. \A i \in 1 .. Len(a) : f[i] = a[i]
  BY <1>1, <1>2, <1>3
<1>5. \A i \in 1 .. Len(b) : f[Len(a) + i] = b[i]
  <2> TAKE i \in 1 .. Len(b)
  <2>1. /\ Len(a) + i \in 1 .. Len(a) + Len(b) /\ Len(a) + i - Len(a) = i
        /\ Len(a) + i \in 1 .. Len(ab) + Len(c) /\ ~ Len(a) + i <= Len(a)
        /\ Len(a) + i <= Len(ab)
    BY <1>1, <1>2
  <2> QED BY <1>1, <1>3, <2>1
<1>6. \A i \in 1 .. Len(c) : f[Len(a) + Len(b) + i] = c[i]
  <2> TAKE i \in 1 .. Len(c)
  <2>1. /\ Len(a) + Len(b) + i \in 1 .. Len(ab) + Len(c)
        /\ Len(a) + Len(b) + i - Len(ab) = i /\ ~ Len(a) + Len(b) + i <= Len(ab)
    BY <1>1, <1>2
  <2> QED BY <1>3, <2>1
<1> QED BY <1>1, <1>3, <1>4, <1>5, <1>6 DEF f, ab
=============================================================================
