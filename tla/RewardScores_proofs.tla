------------------------ MODULE RewardScores_proofs ------------------------
(***************************************************************************)
(* Proofs about RewardScores, for every set of tasks, candidates and number *)
(* of runs.  First what the numbers are made of: rounding, sums over finite *)
(* sets, the rubric's score.  Then the inductive invariant IInv, and the    *)
(* orders among published scores that follow from it.                       *)
(***************************************************************************)
EXTENDS RewardScores, Subsequences_proofs

-----------------------------------------------------------------------------
(* Rounding.                                                               *)

LEMMA DivMod ==
    ASSUME NEW x \in Nat, NEW y \in Nat \ {0}
    PROVE  /\ x \div y \in Nat /\ x % y \in 0..(y - 1)
           /\ x = y * (x \div y) + (x % y)
BY SMT

\* A rounded quotient is the quotient or at most half of one off it.
LEMMA RoundBounds ==
    ASSUME NEW x \in Nat, NEW y \in Nat \ {0}
    PROVE  /\ Round(x, y) \in Nat
           /\ (2 * Round(x, y) - 1) * y <= 2 * x
           /\ 2 * x <= (2 * Round(x, y) + 1) * y
BY DivMod, SMT DEF Round

LEMMA Cancel ==
    ASSUME NEW a \in Int, NEW b \in Int, NEW y \in Nat \ {0}, a * y <= b * y
    PROVE  a <= b
BY SMT

LEMMA Scale ==
    ASSUME NEW a \in Int, NEW b \in Int, NEW y \in Nat, a <= b
    PROVE  a * y <= b * y
BY SMT

\* A tie is rounded the same way for every dividend, so rounding keeps the order.
LEMMA RoundMonotone ==
    ASSUME NEW x \in Nat, NEW z \in Nat, NEW y \in Nat \ {0}, x <= z
    PROVE  Round(x, y) <= Round(z, y)
<1> DEFINE a == x \div y
           b == z \div y
           s == x % y
           t == z % y
<1>1. a \in Nat /\ b \in Nat /\ s \in 0..(y - 1) /\ t \in 0..(y - 1)
    BY DivMod, Zenon
<1>2. x = y * a + s /\ z = y * b + t
    BY DivMod, Zenon
<1>3. Round(x, y) \in {a, a + 1} /\ Round(z, y) \in {b, b + 1}
    BY SMT DEF Round
<1>4. a = b => (s <= t /\ (Round(x, y) = a + 1 => Round(z, y) = b + 1))
    <2> SUFFICES ASSUME a = b PROVE s <= t /\ (Round(x, y) = a + 1 => Round(z, y) = b + 1)
        OBVIOUS
    <2>1. y * a = y * b
        OBVIOUS
    <2> HIDE DEF a, b, s, t
    <2>2. y * a \in Int
        BY <1>1, SMT
    <2>3. s <= t
        BY <1>1, <1>2, <2>1, <2>2, SMT
    <2>4. /\ Round(x, y) = IF 2 * s > y \/ (2 * s = y /\ a % 2 = 1) THEN a + 1 ELSE a
          /\ Round(z, y) = IF 2 * t > y \/ (2 * t = y /\ b % 2 = 1) THEN b + 1 ELSE b
        BY Zenon DEF Round, a, b, s, t
    <2>5. QED
        BY <1>1, <2>3, <2>4, SMT
<1> HIDE DEF a, b, s, t
<1>5. a <= b
    <2> SUFFICES ASSUME b + 1 <= a PROVE FALSE
        BY <1>1, SMT
    <2>1. (b + 1) * y <= a * y
        BY <1>1, Scale, SMT
    <2>2. a * y = y * a /\ (b + 1) * y = y * b + y
        BY <1>1, SMT
    <2>3. y * a \in Int /\ y * b \in Int
        BY <1>1, SMT
    <2>4. QED
        BY <1>1, <1>2, <2>1, <2>2, <2>3, SMT
<1>6. QED
    BY <1>1, <1>3, <1>4, <1>5, SMT

\* A share of the whole is rounded to at most the whole.
LEMMA RoundShare ==
    ASSUME NEW d \in Nat, NEW y \in Nat \ {0}, d <= y
    PROVE  Round(10000 * d, y) \in Shares
<1> DEFINE R == Round(10000 * d, y)
<1>1. R \in Nat /\ (2 * R - 1) * y <= 2 * (10000 * d)
    BY RoundBounds, SMT
<1> HIDE DEF R
<1>2. (2 * R - 1) * y <= 20000 * y
    BY <1>1, SMT
<1>3. 2 * R - 1 <= 20000
    BY <1>1, <1>2, Cancel, SMT
<1>4. R \in Shares
    BY <1>1, <1>3, SMTT(40) DEF Shares
<1>5. QED
    BY <1>4 DEF R

-----------------------------------------------------------------------------
(* Recursion over the subsets of a finite set.                             *)

LEMMA SubsetInduction ==
    ASSUME NEW S, IsFiniteSet(S), NEW Z,
           \A T \in SUBSET S : (\A x \in T : T \ {x} \in Z) => T \in Z
    PROVE  \A T \in SUBSET S : T \in Z
<1> DEFINE N == {n \in Nat : \A T \in SUBSET S : Cardinality(T) = n => T \in Z}
<1>1. \A T \in SUBSET S : IsFiniteSet(T) /\ Cardinality(T) \in Nat
    BY FS_Subset, FS_CardinalityType
<1>2. \A T \in SUBSET S : \A x \in T :
         T \ {x} \in SUBSET S /\ Cardinality(T \ {x}) = Cardinality(T) - 1
    BY <1>1, FS_RemoveElement
<1>3. 0 \in N
    <2> SUFFICES ASSUME NEW T \in SUBSET S, Cardinality(T) = 0 PROVE T \in Z
        BY SMT
    <2>1. T = {}
        BY <1>1, FS_EmptySet
    <2>2. QED
        BY <2>1, Zenon
<1>4. ASSUME NEW n \in N PROVE n + 1 \in N
    <2>1. n \in Nat /\ n + 1 \in Nat
        BY SMT
    <2> SUFFICES ASSUME NEW T \in SUBSET S, Cardinality(T) = n + 1 PROVE T \in Z
        BY <2>1
    <2>2. \A x \in T : Cardinality(T \ {x}) = n
        BY <1>2, <2>1, SMT
    <2>3. \A x \in T : T \ {x} \in Z
        BY <1>2, <2>2
    <2>4. QED
        BY <2>3, Zenon
<1>5. N = Nat
    <2>1. N \subseteq Nat
        OBVIOUS
    <2> HIDE DEF N
    <2>2. QED
        BY <1>3, <1>4, <2>1, NatSetInduction, Zenon
<1>6. QED
    BY <1>1, <1>5

LEMMA FiniteImage ==
    ASSUME NEW S, IsFiniteSet(S), NEW f
    PROVE  IsFiniteSet({f[x] : x \in S})
<1> DEFINE T == {f[x] : x \in S}
           g == [x \in S |-> f[x]]
<1>1. g \in Surjection(S, T)
    BY Zenon DEF Surjection
<1> HIDE DEF g, T
<1>2. IsFiniteSet(T)
    BY <1>1, FS_Surjection, Zenon
<1>3. QED
    BY <1>2 DEF T

\* Combine the elements of a set one by one, by g, starting from base.
FoldBody(base, g, f, T) ==
    IF T = {} THEN base ELSE LET x == CHOOSE x \in T : TRUE IN g[x][f[T \ {x}]]

Combines(S, V, base, g) == IsFiniteSet(S) /\ base \in V /\ g \in [S -> [V -> V]]

IsFold(S, V, base, g, f) ==
    f \in [SUBSET S -> V] /\ \A T \in SUBSET S : f[T] = FoldBody(base, g, f, T)

LEMMA FoldExists ==
    ASSUME NEW S, NEW V, NEW base, NEW g, Combines(S, V, base, g)
    PROVE  \E f : IsFold(S, V, base, g, f)
<1>0. IsFiniteSet(S) /\ base \in V /\ g \in [S -> [V -> V]]
    BY DEF Combines
<1> DEFINE Small(n) == {T \in SUBSET S : Cardinality(T) <= n}
           Good(n, f) == /\ f \in [Small(n) -> V]
                         /\ \A T \in Small(n) : f[T] = FoldBody(base, g, f, T)
           N == {n \in Nat : \E f : Good(n, f)}
<1>1. \A T \in SUBSET S : IsFiniteSet(T) /\ Cardinality(T) \in Nat
    BY <1>0, FS_Subset, FS_CardinalityType
<1>2. \A T \in SUBSET S : T # {} =>
         LET x == CHOOSE x \in T : TRUE
         IN  x \in S /\ T \ {x} \in SUBSET S /\ Cardinality(T \ {x}) = Cardinality(T) - 1
    BY <1>1, FS_RemoveElement
<1>3. 0 \in N
    <2> DEFINE f == [T \in Small(0) |-> base]
    <2>1. \A T \in Small(0) : T = {}
        <3> SUFFICES ASSUME NEW T \in SUBSET S, Cardinality(T) <= 0 PROVE T = {}
            BY Zenon
        <3>1. Cardinality(T) = 0
            BY <1>1, SMT
        <3>2. QED
            BY <1>1, <3>1, FS_EmptySet
    <2>2. Good(0, f)
        BY <1>0, <2>1, Zenon DEF FoldBody
    <2> HIDE DEF Good, f
    <2>3. 0 \in Nat
        BY SMT
    <2>4. QED
        BY <2>2, <2>3, Zenon
<1>4. ASSUME NEW n \in N PROVE n + 1 \in N
    <2>1. n \in Nat /\ n + 1 \in Nat
        BY SMT
    <2>2. PICK f : Good(n, f)
        BY Zenon
    <2> DEFINE h == [T \in Small(n + 1) |-> FoldBody(base, g, f, T)]
    <2>3. \A T \in Small(n + 1) : T # {} =>
             LET x == CHOOSE x \in T : TRUE
             IN  x \in S /\ T \ {x} \in Small(n) /\ T \ {x} \in Small(n + 1)
        BY <1>1, <1>2, <2>1, SMT
    <2>4. \A T \in Small(n + 1) : h[T] \in V
        <3> SUFFICES ASSUME NEW T \in Small(n + 1) PROVE FoldBody(base, g, f, T) \in V
            BY Zenon
        <3>1. CASE T = {}
            BY <1>0, <3>1, Zenon DEF FoldBody
        <3>2. CASE T # {}
            <4> DEFINE x == CHOOSE x \in T : TRUE
            <4>1. x \in S /\ T \ {x} \in Small(n)
                BY <2>3, <3>2, Zenon
            <4> HIDE DEF x
            <4>2. f[T \ {x}] \in V
                BY <2>2, <4>1, Zenon
            <4>3. g[x][f[T \ {x}]] \in V
                BY <1>0, <4>1, <4>2, ZenonT(40)
            <4>4. QED
                BY <3>2, <4>3, Zenon DEF FoldBody, x
        <3>3. QED
            BY <3>1, <3>2
    <2>5. \A T \in Small(n) : h[T] = f[T]
        <3>1. \A T \in Small(n) : T \in Small(n + 1)
            BY <1>1, <2>1, SMT
        <3>2. QED
            BY <2>2, <3>1, Zenon
    <2>6. \A T \in Small(n + 1) : h[T] = FoldBody(base, g, h, T)
        <3> SUFFICES ASSUME NEW T \in Small(n + 1) PROVE h[T] = FoldBody(base, g, h, T)
            OBVIOUS
        <3>1. h[T] = FoldBody(base, g, f, T)
            BY Zenon
        <3> HIDE DEF h
        <3>2. CASE T = {}
            BY <3>1, <3>2, Zenon DEF FoldBody
        <3>3. CASE T # {}
            <4> DEFINE x == CHOOSE x \in T : TRUE
            <4>1. T \ {x} \in Small(n)
                BY <2>3, <3>3, Zenon
            <4> HIDE DEF x
            <4>2. h[T \ {x}] = f[T \ {x}]
                BY <2>5, <4>1, Zenon
            <4>3. QED
                BY <3>1, <3>3, <4>2, Zenon DEF FoldBody, x
        <3>4. QED
            BY <3>2, <3>3
    <2>7. h \in [Small(n + 1) -> V]
        BY <2>4, Zenon
    <2> HIDE DEF h
    <2>8. Good(n + 1, h)
        BY <2>6, <2>7, Zenon
    <2>9. QED
        BY <2>1, <2>8, Zenon
<1>5. N = Nat
    <2>1. N \subseteq Nat
        OBVIOUS
    <2> HIDE DEF N
    <2>2. QED
        BY <1>3, <1>4, <2>1, NatSetInduction, Zenon
<1>6. PICK f : Good(Cardinality(S), f)
    <2>1. Cardinality(S) \in N
        BY <1>0, <1>1, <1>5
    <2>2. QED
        BY <2>1, Zenon
<1>7. Small(Cardinality(S)) = SUBSET S
    BY <1>0, <1>1, FS_Subset, SMT
<1>8. QED
    BY <1>6, <1>7, Zenon DEF IsFold

-----------------------------------------------------------------------------
(* Sums.                                                                   *)

Total(w, S) == MapThenSumSet(LAMBDA i : w[i], S)

SumBody(w, f, T) == IF T = {} THEN 0 ELSE LET x == CHOOSE x \in T : TRUE IN w[x] + f[T \ {x}]

IsSum(w, S, f) == f = [T \in SUBSET S |-> SumBody(w, f, T)]

SumsOf(w, S) == CHOOSE f : IsSum(w, S, f)

LEMMA SumOfSums == ASSUME NEW w, NEW S PROVE Total(w, S) = SumsOf(w, S)[S]
BY Zenon DEF Total, MapThenSumSet, MapThenFoldSet, SumsOf, IsSum, SumBody

LEMMA SomeElement ==
    ASSUME NEW T, T # {} PROVE (CHOOSE x \in T : TRUE) \in T
BY Zenon

\* The sums over all subsets exist, and are whole numbers.
LEMMA SumsAreSums ==
    ASSUME NEW w, NEW S, IsFiniteSet(S), \A i \in S : w[i] \in Int
    PROVE  \A T \in SUBSET S : /\ SumsOf(w, S)[T] = SumBody(w, SumsOf(w, S), T)
                               /\ SumsOf(w, S)[T] \in Int
<1> DEFINE g == [x \in S |-> [v \in Int |-> w[x] + v]]
           F == SumsOf(w, S)
<1>1. 0 \in Int /\ \A x \in S, v \in Int : w[x] + v \in Int
    BY SMT
<1>2. g \in [S -> [Int -> Int]]
    BY <1>1, Zenon
<1>3. PICK f \in [SUBSET S -> Int] : \A T \in SUBSET S : f[T] = FoldBody(0, g, f, T)
    <2>1. Combines(S, Int, 0, g)
        BY <1>1, <1>2, Zenon DEF Combines
    <2> HIDE DEF g
    <2>2. PICK f : IsFold(S, Int, 0, g, f)
        BY <2>1, FoldExists, Zenon
    <2>3. QED
        BY <2>2, Zenon DEF IsFold
<1>4. \A T \in SUBSET S : f[T] = SumBody(w, f, T)
    <2> SUFFICES ASSUME NEW T \in SUBSET S PROVE f[T] = SumBody(w, f, T)
        OBVIOUS
    <2>1. CASE T = {}
        BY <1>3, <2>1, Zenon DEF FoldBody, SumBody
    <2>2. CASE T # {}
        <3> DEFINE x == CHOOSE x \in T : TRUE
        <3>1. x \in S /\ T \ {x} \in SUBSET S
            BY <2>2, SomeElement, Zenon
        <3>2. f[T] = g[x][f[T \ {x}]]
            BY <1>3, <2>2, Zenon DEF FoldBody
        <3> HIDE DEF x
        <3>3. f[T \ {x}] \in Int
            BY <3>1, Zenon
        <3>4. g[x][f[T \ {x}]] = w[x] + f[T \ {x}]
            BY <3>1, <3>3, Zenon
        <3>5. f[T] = w[x] + f[T \ {x}]
            BY <3>2, <3>4, Zenon
        <3>6. QED
            BY <2>2, <3>5, Zenon DEF SumBody, x
    <2>3. QED
        BY <2>1, <2>2
<1>5. IsSum(w, S, f)
    BY <1>4, Zenon DEF IsSum
<1>6. IsSum(w, S, F)
    BY <1>5, Zenon DEF SumsOf
<1> HIDE DEF F
<1>7. \A T \in SUBSET S : F[T] = SumBody(w, F, T)
    BY <1>6, Zenon DEF IsSum
<1> DEFINE Z == {T \in SUBSET S : F[T] \in Int}
<1>8. ASSUME NEW T \in SUBSET S, \A x \in T : T \ {x} \in Z PROVE T \in Z
    <2>1. CASE T = {}
        BY <1>1, <1>7, <2>1, Zenon DEF SumBody
    <2>2. CASE T # {}
        <3> DEFINE x == CHOOSE x \in T : TRUE
        <3>1. F[T] = w[x] + F[T \ {x}]
            BY <1>7, <2>2, Zenon DEF SumBody
        <3>2. x \in T
            BY <2>2, SomeElement, Zenon
        <3> HIDE DEF x
        <3>3. x \in S /\ F[T \ {x}] \in Int
            BY <1>8, <3>2, Zenon
        <3>4. QED
            BY <1>1, <3>1, <3>3, Zenon
    <2>3. QED
        BY <2>1, <2>2
<1>9. \A T \in SUBSET S : T \in Z
    <2> HIDE DEF Z
    <2>1. QED
        BY <1>8, SubsetInduction, Zenon
<1>10. QED
    BY <1>7, <1>9, Zenon DEF F

LEMMA SumsOfSubset ==
    ASSUME NEW w, NEW S, IsFiniteSet(S), \A i \in S : w[i] \in Int, NEW U \in SUBSET S
    PROVE  SumsOf(w, S)[U] = Total(w, U)
<1> DEFINE F == SumsOf(w, S)
           G == SumsOf(w, U)
           Z == {T \in SUBSET U : F[T] = G[T]}
<1>1. IsFiniteSet(U)
    BY FS_Subset
<1>2. \A T \in SUBSET U : F[T] = SumBody(w, F, T) /\ G[T] = SumBody(w, G, T)
    <2>1. \A T \in SUBSET S : F[T] = SumBody(w, F, T)
        BY SumsAreSums, Zenon
    <2>2. \A T \in SUBSET U : G[T] = SumBody(w, G, T)
        BY <1>1, SumsAreSums, Zenon
    <2> HIDE DEF F, G
    <2>3. QED
        BY <2>1, <2>2, Zenon
<1> HIDE DEF F, G
<1>3. ASSUME NEW T \in SUBSET U, \A x \in T : T \ {x} \in Z PROVE T \in Z
    <2>1. CASE T = {}
        BY <1>2, <2>1, Zenon DEF SumBody
    <2>2. CASE T # {}
        <3> DEFINE x == CHOOSE x \in T : TRUE
        <3>1. F[T] = w[x] + F[T \ {x}] /\ G[T] = w[x] + G[T \ {x}]
            BY <1>2, <2>2, Zenon DEF SumBody
        <3>2. x \in T
            BY <2>2, SomeElement, Zenon
        <3> HIDE DEF x
        <3>3. F[T \ {x}] = G[T \ {x}]
            BY <1>3, <3>2, Zenon
        <3>4. QED
            BY <3>1, <3>3, Zenon
    <2>3. QED
        BY <2>1, <2>2
<1>4. \A T \in SUBSET U : T \in Z
    <2> HIDE DEF Z
    <2>1. QED
        BY <1>1, <1>3, SubsetInduction, Zenon
<1>5. F[U] = G[U]
    BY <1>4, Zenon
<1>6. QED
    BY <1>5, SumOfSums, Zenon DEF F, G

LEMMA SumRecursion ==
    ASSUME NEW w, NEW S, IsFiniteSet(S), \A i \in S : w[i] \in Int
    PROVE  /\ \A T \in SUBSET S : Total(w, T) \in Int
           /\ Total(w, {}) = 0
           /\ \A T \in SUBSET S : T # {} =>
                Total(w, T) = w[CHOOSE x \in T : TRUE] + Total(w, T \ {CHOOSE x \in T : TRUE})
<1> DEFINE F == SumsOf(w, S)
<1>1. \A T \in SUBSET S : F[T] = SumBody(w, F, T) /\ F[T] \in Int
    BY SumsAreSums, Zenon
<1>2. \A T \in SUBSET S : F[T] = Total(w, T)
    BY SumsOfSubset, Zenon
<1> HIDE DEF F
<1>3. \A T \in SUBSET S : Total(w, T) \in Int
    BY <1>1, <1>2, Zenon
<1>4. Total(w, {}) = 0
    <2>1. {} \in SUBSET S
        OBVIOUS
    <2>2. F[{}] = 0
        BY <1>1, <2>1, Zenon DEF SumBody
    <2>3. QED
        BY <1>2, <2>1, <2>2, Zenon
<1>5. ASSUME NEW T \in SUBSET S, T # {}
      PROVE  Total(w, T) = w[CHOOSE x \in T : TRUE] + Total(w, T \ {CHOOSE x \in T : TRUE})
    <2> DEFINE x == CHOOSE x \in T : TRUE
    <2>1. F[T] = w[x] + F[T \ {x}]
        BY <1>1, <1>5, Zenon DEF SumBody
    <2> HIDE DEF x
    <2>2. T \ {x} \in SUBSET S
        OBVIOUS
    <2>3. Total(w, T) = w[x] + Total(w, T \ {x})
        BY <1>2, <2>1, <2>2, Zenon
    <2>4. QED
        BY <2>3, Zenon DEF x
<1>6. QED
    BY <1>3, <1>4, <1>5, Zenon

\* The order of the summands does not matter: any element can be taken out.
LEMMA SumTakeOut ==
    ASSUME NEW w, NEW S, IsFiniteSet(S), \A i \in S : w[i] \in Int
    PROVE  \A T \in SUBSET S : \A x \in T : Total(w, T) = w[x] + Total(w, T \ {x})
<1> DEFINE Z == {T \in SUBSET S : \A x \in T : Total(w, T) = w[x] + Total(w, T \ {x})}
<1>1. /\ \A T \in SUBSET S : Total(w, T) \in Int
      /\ \A T \in SUBSET S : T # {} =>
            Total(w, T) = w[CHOOSE x \in T : TRUE] + Total(w, T \ {CHOOSE x \in T : TRUE})
    BY SumRecursion, Zenon
<1>2. ASSUME NEW T \in SUBSET S, \A x \in T : T \ {x} \in Z PROVE T \in Z
    <2> SUFFICES ASSUME NEW x \in T PROVE Total(w, T) = w[x] + Total(w, T \ {x})
        OBVIOUS
    <2> DEFINE c == CHOOSE y \in T : TRUE
    <2>1. c \in T /\ Total(w, T) = w[c] + Total(w, T \ {c})
        BY <1>1, Zenon
    <2> HIDE DEF c
    <2>2. CASE x = c
        BY <2>1, <2>2, Zenon
    <2>3. CASE x # c
        <3>1. x \in T \ {c} /\ c \in T \ {x} /\ (T \ {c}) \ {x} = (T \ {x}) \ {c}
            BY <2>1, <2>3
        <3>2. Total(w, T \ {c}) = w[x] + Total(w, (T \ {c}) \ {x})
            BY <1>2, <2>1, <3>1, Zenon
        <3>3. Total(w, T \ {x}) = w[c] + Total(w, (T \ {x}) \ {c})
            BY <1>2, <3>1, Zenon
        <3>4. w[x] \in Int /\ w[c] \in Int /\ Total(w, (T \ {x}) \ {c}) \in Int
            <4>1. (T \ {x}) \ {c} \in SUBSET S
                OBVIOUS
            <4>2. QED
                BY <1>1, <2>1, <4>1, Zenon
        <3> DEFINE rest == Total(w, (T \ {x}) \ {c})
        <3>5. Total(w, T) = w[c] + (w[x] + rest) /\ Total(w, T \ {x}) = w[c] + rest
            BY <2>1, <3>1, <3>2, <3>3, Zenon
        <3>6. rest \in Int
            BY <3>4
        <3> HIDE DEF rest
        <3>7. QED
            BY <3>4, <3>5, <3>6, SMT
    <2>4. QED
        BY <2>2, <2>3
<1>3. \A T \in SUBSET S : T \in Z
    <2> HIDE DEF Z
    <2>1. QED
        BY <1>2, SubsetInduction, Zenon
<1>4. QED
    BY <1>3, Zenon

\* What is positive anywhere is counted in T, so no other sum is larger.
LEMMA SumAtMost ==
    ASSUME NEW w, NEW S, IsFiniteSet(S), \A i \in S : w[i] \in Int
    PROVE  \A U \in SUBSET S : \A T \in SUBSET S :
              (\A i \in T : w[i] >= 0) /\ (\A i \in U : w[i] > 0 => i \in T)
              => Total(w, U) <= Total(w, T)
<1> DEFINE Pos(T) == \A i \in T : w[i] >= 0
           In(U, T) == \A i \in U : w[i] > 0 => i \in T
           Y == {T \in SUBSET S : Pos(T) => Total(w, T) >= 0}
           Z == {U \in SUBSET S : \A T \in SUBSET S : Pos(T) /\ In(U, T) => Total(w, U) <= Total(w, T)}
<1>1. /\ \A T \in SUBSET S : Total(w, T) \in Int
      /\ Total(w, {}) = 0
      /\ \A T \in SUBSET S : \A x \in T : Total(w, T) = w[x] + Total(w, T \ {x})
    BY SumRecursion, SumTakeOut
<1>2. ASSUME NEW T \in SUBSET S, \A x \in T : T \ {x} \in Y PROVE T \in Y
    <2>1. CASE T = {}
        BY <1>1, <2>1, SMT
    <2>2. ASSUME NEW x \in T, Pos(T) PROVE Total(w, T) >= 0
        <3>1. Pos(T \ {x}) /\ w[x] >= 0 /\ T \ {x} \in SUBSET S
            BY <2>2, Zenon
        <3>2. Total(w, T \ {x}) >= 0 /\ Total(w, T \ {x}) \in Int
            BY <1>1, <1>2, <2>2, <3>1, Zenon
        <3>3. Total(w, T) = w[x] + Total(w, T \ {x}) /\ w[x] \in Int
            BY <1>1, <2>2, Zenon
        <3>4. QED
            BY <3>1, <3>2, <3>3, SMT
    <2>3. QED
        BY <2>1, <2>2, Zenon
<1>3. \A T \in SUBSET S : T \in Y
    <2> HIDE DEF Y
    <2>1. QED
        BY <1>2, SubsetInduction, Zenon
<1>4. ASSUME NEW U \in SUBSET S, \A x \in U : U \ {x} \in Z PROVE U \in Z
    <2> SUFFICES ASSUME NEW T \in SUBSET S, Pos(T), In(U, T) PROVE Total(w, U) <= Total(w, T)
        BY Zenon
    <2>1. CASE U = {}
        BY <1>1, <1>3, <2>1, Zenon
    <2>2. ASSUME NEW x \in U PROVE Total(w, U) <= Total(w, T)
        <3>1. /\ Total(w, U) = w[x] + Total(w, U \ {x}) /\ w[x] \in Int
              /\ Total(w, U \ {x}) \in Int /\ Total(w, T) \in Int
            <4>1. U \ {x} \in SUBSET S
                OBVIOUS
            <4>2. QED
                BY <1>1, <2>2, <4>1, Zenon
        <3>2. CASE w[x] > 0
            <4>1. x \in T /\ T \ {x} \in SUBSET S /\ Pos(T \ {x}) /\ In(U \ {x}, T \ {x})
                BY <2>2, <3>2, Zenon
            <4>2. Total(w, U \ {x}) <= Total(w, T \ {x})
                BY <1>4, <2>2, <4>1, Zenon
            <4>3. Total(w, T) = w[x] + Total(w, T \ {x}) /\ Total(w, T \ {x}) \in Int
                BY <1>1, <4>1, Zenon
            <4>4. QED
                BY <3>1, <4>2, <4>3, SMT
        <3>3. CASE ~(w[x] > 0)
            <4>1. In(U \ {x}, T)
                BY Zenon
            <4>2. Total(w, U \ {x}) <= Total(w, T)
                BY <1>4, <2>2, <4>1, Zenon
            <4>3. QED
                BY <3>1, <3>3, <4>2, SMT
        <3>4. QED
            BY <3>2, <3>3
    <2>3. QED
        BY <2>1, <2>2, Zenon
<1>5. \A U \in SUBSET S : U \in Z
    <2> HIDE DEF Z
    <2>1. QED
        BY <1>4, SubsetInduction, Zenon
<1>6. QED
    BY <1>5, Zenon

-----------------------------------------------------------------------------
(* The rubric's score.                                                     *)

Weighed(items) == IsFiniteSet(DOMAIN items) /\ \A i \in DOMAIN items : items[i].weight \in Int

\* A dimension has a mass of at least 1.
LEMMA MassIsPositive ==
    ASSUME NEW items, Weighed(items), NEW d
    PROVE  Mass(items, d) \in Nat \ {0}
<1> DEFINE D == DOMAIN items
           m == Masses(items)
           U == {i \in D : items[i].dim = d}
<1>1. IsFiniteSet(D) /\ \A i \in D : m[i] \in Int /\ m[i] >= 0
    BY SMT DEF Weighed, Masses
<1>2. U \in SUBSET D /\ {} \in SUBSET D
    OBVIOUS
<1>3. Mass(items, d) = IF Total(m, U) = 0 THEN 1 ELSE Total(m, U)
    BY Zenon DEF Mass, Total
<1> HIDE DEF D, m, U
<1>4. Total(m, U) \in Int /\ Total(m, {}) = 0
    BY <1>1, <1>2, SumRecursion, Zenon
<1>5. Total(m, {}) <= Total(m, U)
    <2>1. \A i \in U : m[i] >= 0
        BY <1>1, <1>2
    <2>2. \A i \in {} : m[i] > 0 => i \in U
        OBVIOUS
    <2>3. \A i \in D : m[i] \in Int
        BY <1>1
    <2>4. QED
        BY <1>1, <1>2, <2>1, <2>2, <2>3, SumAtMost
<1>6. QED
    BY <1>3, <1>4, <1>5, SMT

\* The product of the dimensions' masses.
Product(items, S) == FoldSet(LAMBDA d, c : c * Mass(items, d), 1, S)

ProductBody(items, f, T) ==
    IF T = {} THEN 1 ELSE LET x == CHOOSE x \in T : TRUE IN f[T \ {x}] * Mass(items, x)

IsProduct(items, S, f) == f = [T \in SUBSET S |-> ProductBody(items, f, T)]

LEMMA ProductIsNatural ==
    ASSUME NEW items, Weighed(items), NEW S, IsFiniteSet(S)
    PROVE  Product(items, S) \in Nat
<1> DEFINE g == [x \in S |-> [v \in Nat |-> v * Mass(items, x)]]
           F == CHOOSE f : IsProduct(items, S, f)
<1>1. Product(items, S) = F[S]
    BY Zenon DEF Product, FoldSet, MapThenFoldSet, IsProduct, ProductBody
<1>2. 1 \in Nat /\ \A x \in S, v \in Nat : v * Mass(items, x) \in Nat
    BY MassIsPositive, SMT
<1>3. PICK f \in [SUBSET S -> Nat] : \A T \in SUBSET S : f[T] = FoldBody(1, g, f, T)
    <2>1. Combines(S, Nat, 1, g)
        BY <1>2, Zenon DEF Combines
    <2> HIDE DEF g
    <2>2. PICK f : IsFold(S, Nat, 1, g, f)
        BY <2>1, FoldExists, Zenon
    <2>3. QED
        BY <2>2, Zenon DEF IsFold
<1>4. \A T \in SUBSET S : f[T] = ProductBody(items, f, T)
    <2> SUFFICES ASSUME NEW T \in SUBSET S PROVE f[T] = ProductBody(items, f, T)
        OBVIOUS
    <2>1. CASE T = {}
        BY <1>3, <2>1, Zenon DEF FoldBody, ProductBody
    <2>2. CASE T # {}
        <3> DEFINE x == CHOOSE x \in T : TRUE
        <3>1. x \in S /\ T \ {x} \in SUBSET S
            BY <2>2, SomeElement, Zenon
        <3>2. f[T] = g[x][f[T \ {x}]]
            BY <1>3, <2>2, Zenon DEF FoldBody
        <3> HIDE DEF x
        <3>3. f[T \ {x}] \in Nat
            BY <3>1, Zenon
        <3>4. g[x][f[T \ {x}]] = f[T \ {x}] * Mass(items, x)
            BY <3>1, <3>3, Zenon
        <3>5. f[T] = f[T \ {x}] * Mass(items, x)
            BY <3>2, <3>4, Zenon
        <3>6. QED
            BY <2>2, <3>5, Zenon DEF ProductBody, x
    <2>3. QED
        BY <2>1, <2>2
<1>5. IsProduct(items, S, f)
    BY <1>4, Zenon DEF IsProduct
<1>6. IsProduct(items, S, F)
    BY <1>5, Zenon
<1> HIDE DEF F
<1>7. \A T \in SUBSET S : F[T] = ProductBody(items, F, T)
    BY <1>6, Zenon DEF IsProduct
<1> DEFINE Z == {T \in SUBSET S : F[T] \in Nat}
<1>8. ASSUME NEW T \in SUBSET S, \A x \in T : T \ {x} \in Z PROVE T \in Z
    <2>1. CASE T = {}
        BY <1>2, <1>7, <2>1, Zenon DEF ProductBody
    <2>2. CASE T # {}
        <3> DEFINE x == CHOOSE x \in T : TRUE
        <3>1. F[T] = F[T \ {x}] * Mass(items, x)
            BY <1>7, <2>2, Zenon DEF ProductBody
        <3>2. x \in T
            BY <2>2, SomeElement, Zenon
        <3> HIDE DEF x
        <3>3. x \in S /\ F[T \ {x}] \in Nat
            BY <1>8, <3>2, Zenon
        <3>4. QED
            BY <1>2, <3>1, <3>3, Zenon
    <2>3. QED
        BY <2>1, <2>2
<1>9. \A T \in SUBSET S : T \in Z
    <2> HIDE DEF Z
    <2>1. QED
        BY <1>8, SubsetInduction, Zenon
<1>10. QED
    BY <1>1, <1>9, Zenon

\* Each item's weight is a whole number, with the sign of the weight it was given.
LEMMA WeightsAreNumbers ==
    ASSUME NEW items, Weighed(items), NEW i \in DOMAIN items
    PROVE  /\ dimension_weights(items)[i] \in Int
           /\ items[i].weight < 0 => dimension_weights(items)[i] <= 0
<1> DEFINE dims == {items[k].dim : k \in DOMAIN items}
           d    == items[i].dim
           b    == IF d \in DOMAIN DIMENSION_BUDGET THEN DIMENSION_BUDGET[d] ELSE 0
           c    == Product(items, dims) \div Mass(items, d)
<1>1. dimension_weights(items)[i] = (b * items[i].weight) * c
    BY Zenon DEF dimension_weights, Product
<1>2. b \in Nat
    BY SMT DEF DIMENSION_BUDGET
<1>3. c \in Nat
    <2>1. IsFiniteSet(dims)
        <3> DEFINE dim == [k \in DOMAIN items |-> items[k].dim]
        <3>1. IsFiniteSet({dim[k] : k \in DOMAIN items})
            BY FiniteImage, Zenon DEF Weighed
        <3>2. {dim[k] : k \in DOMAIN items} = dims
            OBVIOUS
        <3>3. QED
            BY <3>1, <3>2, Zenon
    <2> HIDE DEF dims, d
    <2>2. Product(items, dims) \in Nat /\ Mass(items, d) \in Nat \ {0}
        BY <2>1, ProductIsNatural, MassIsPositive, Zenon
    <2>3. QED
        BY <2>2, DivMod
<1>4. items[i].weight \in Int
    BY DEF Weighed
<1> DEFINE w == items[i].weight
<1> HIDE DEF b, c
<1>5. b * w \in Int /\ (w < 0 => b * w <= 0)
    BY <1>2, <1>4, SMT
<1>6. (b * w) * c \in Int /\ (b * w <= 0 => (b * w) * c <= 0)
    BY <1>3, <1>5, SMT
<1>7. QED
    BY <1>1, <1>5, <1>6, Zenon

LEMMA DivAtMost ==
    ASSUME NEW x \in Nat, NEW y \in Nat \ {0}, NEW k \in Nat, x <= k * y
    PROVE  x \div y \in 0..k
<1> DEFINE a == x \div y
<1>1. a \in Nat /\ x = y * a + (x % y) /\ x % y \in 0..(y - 1)
    BY DivMod
<1> HIDE DEF a
<1>2. a * y <= k * y
    BY <1>1, SMT
<1>3. a <= k
    BY <1>1, <1>2, Cancel
<1>4. a \in 0..k
    BY <1>1, <1>3, SMT
<1>5. QED
    BY <1>4 DEF a

LEMMA DivMonotone ==
    ASSUME NEW x \in Nat, NEW z \in Nat, NEW y \in Nat \ {0}, x <= z
    PROVE  x \div y <= z \div y
<1> DEFINE a == x \div y
           b == z \div y
<1>1. /\ a \in Nat /\ x = y * a + (x % y) /\ x % y \in 0..(y - 1)
      /\ b \in Nat /\ z = y * b + (z % y) /\ z % y \in 0..(y - 1)
    BY DivMod
<1> HIDE DEF a, b
<1>2. ~(b + 1 <= a)
    <2> SUFFICES ASSUME b + 1 <= a PROVE FALSE
        OBVIOUS
    <2>1. (b + 1) * y <= a * y
        BY <1>1, Scale, SMT
    <2>2. a * y = y * a /\ (b + 1) * y = y * b + y /\ y * a \in Int /\ y * b \in Int
        BY <1>1, SMT
    <2>3. QED
        BY <1>1, <2>1, <2>2, SMT
<1>3. a <= b
    BY <1>1, <1>2, SMT
<1>4. QED
    BY <1>3 DEF a, b

LEMMA DivAntitone ==
    ASSUME NEW x \in Nat, NEW y \in Nat \ {0}, NEW z \in Nat \ {0}, y <= z
    PROVE  x \div z <= x \div y
<1> DEFINE a == x \div y
           b == x \div z
<1>1. /\ a \in Nat /\ x = y * a + (x % y) /\ x % y \in 0..(y - 1)
      /\ b \in Nat /\ x = z * b + (x % z) /\ x % z \in 0..(z - 1)
    BY DivMod
<1> HIDE DEF a, b
<1>2. ~(a + 1 <= b)
    <2> SUFFICES ASSUME a + 1 <= b PROVE FALSE
        OBVIOUS
    <2>1. (a + 1) * y <= b * y /\ y * b <= z * b
        BY <1>1, Scale, SMT
    <2>2. b * y = y * b /\ (a + 1) * y = y * a + y /\ y * a \in Int /\ y * b \in Int /\ z * b \in Int
        BY <1>1, SMT
    <2>3. QED
        BY <1>1, <2>1, <2>2, SMT
<1>3. b <= a
    BY <1>1, <1>2, SMT
<1>4. QED
    BY <1>3 DEF a, b

LEMMA DivAtLeast ==
    ASSUME NEW x \in Nat, NEW y \in Nat \ {0}, NEW k \in Nat, k * y <= x
    PROVE  k <= x \div y
<1> DEFINE a == x \div y
<1>1. a \in Nat /\ x = y * a + (x % y) /\ x % y \in 0..(y - 1)
    BY DivMod
<1> HIDE DEF a
<1>2. ~(a + 1 <= k)
    <2> SUFFICES ASSUME a + 1 <= k PROVE FALSE
        OBVIOUS
    <2>1. (a + 1) * y <= k * y
        BY <1>1, Scale, SMT
    <2>2. (a + 1) * y = y * a + y /\ y * a \in Int /\ k * y \in Int
        BY <1>1, SMT
    <2>3. QED
        BY <1>1, <2>1, <2>2, SMT
<1>3. k <= a
    BY <1>1, <1>2, SMT
<1>4. QED
    BY <1>3 DEF a

LEMMA DivBelow ==
    ASSUME NEW x \in Nat, NEW y \in Nat \ {0}, NEW k \in Nat, x < k * y
    PROVE  x \div y < k
<1> DEFINE a == x \div y
<1>1. a \in Nat /\ x = y * a + (x % y) /\ x % y \in 0..(y - 1)
    BY DivMod
<1> HIDE DEF a
<1>2. ~(k <= a)
    <2> SUFFICES ASSUME k <= a PROVE FALSE
        OBVIOUS
    <2>1. k * y <= a * y /\ a * y = y * a /\ y * a \in Int /\ k * y \in Int
        BY <1>1, Scale, SMT
    <2>2. QED
        BY <1>1, <2>1, SMT
<1>3. a < k
    BY <1>1, <1>2, SMT
<1>4. QED
    BY <1>3 DEF a

\* A dividend that is a divisor more has a quotient that is one more.
LEMMA DivStep ==
    ASSUME NEW x \in Nat, NEW z \in Nat, NEW y \in Nat \ {0}, x + y <= z
    PROVE  x \div y < z \div y
<1> DEFINE a == x \div y
           b == z \div y
<1>1. a \in Nat /\ x = y * a + (x % y) /\ x % y \in 0..(y - 1) /\ b \in Nat
    BY DivMod
<1> HIDE DEF a
<1>2. (a + 1) * y <= z
    <2>1. (a + 1) * y = y * a + y /\ y * a \in Int
        BY <1>1, SMT
    <2>2. QED
        BY <1>1, <2>1, SMT
<1>3. a + 1 <= z \div y
    <2>1. a + 1 \in Nat
        BY <1>1, SMT
    <2>2. QED
        BY <1>2, <2>1, DivAtLeast
<1> HIDE DEF b
<1>4. a < b
    <2>1. a + 1 <= b
        BY <1>3 DEF b
    <2>2. QED
        BY <1>1, <2>1, SMT
<1>5. QED
    BY <1>4 DEF a, b

\* Of two quotients of x that are one apart before they are cut, the cut ones differ.
LEMMA DivApart ==
    ASSUME NEW x \in Nat, NEW y \in Nat \ {0}, NEW z \in Nat \ {0},
           x * (z - y) >= y * z
    PROVE  x \div z < x \div y
<1> DEFINE a == x \div z
           b == x \div y
<1>1. a \in Nat /\ x = z * a + (x % z) /\ x % z \in 0..(z - 1) /\ b \in Nat
    BY DivMod
<1> HIDE DEF a
<1>2. (a + 1) * y <= x
    <2> DEFINE p == z * a
    <2>1. p \in Nat /\ p <= x
        BY <1>1, SMT
    <2> HIDE DEF p
    <2>2. p * y <= x * y
        BY <2>1, Scale, SMT
    <2>3. ((a + 1) * y) * z = p * y + y * z
        BY <1>1, SMT DEF p
    <2>4. x * (z - y) = x * z - x * y /\ x * z \in Int /\ x * y \in Int /\ y * z \in Int /\ p * y \in Int
        BY <2>1, SMT
    <2> DEFINE s == p * y
               t == x * y
               u == x * z
               v == y * z
    <2>5. s \in Int /\ t \in Int /\ u \in Int /\ v \in Int /\ s <= t /\ u - t >= v
        BY <2>2, <2>4
    <2>6. ((a + 1) * y) * z = s + v
        BY <2>3
    <2> HIDE DEF s, t, u, v
    <2>7. s + v <= u
        BY <2>5, SMT
    <2>8. ((a + 1) * y) * z <= x * z
        BY <2>6, <2>7 DEF u
    <2>9. (a + 1) * y \in Int
        BY <1>1, SMT
    <2>10. QED
        BY <2>8, <2>9, Cancel
<1>3. a + 1 <= x \div y
    <2>1. a + 1 \in Nat
        BY <1>1, SMT
    <2>2. QED
        BY <1>2, <2>1, DivAtLeast
<1> HIDE DEF b
<1>4. a < b
    <2>1. a + 1 <= b
        BY <1>3 DEF b
    <2>2. QED
        BY <1>1, <2>1, SMT
<1>5. QED
    BY <1>4 DEF a, b

\* The numerator is at most the denominator, whatever the guardrails say.
LEMMA RawAtMostDenominator ==
    ASSUME NEW items, Weighed(items), NEW found
    PROVE  /\ raw(items, found) \in Int /\ denominator(items, found) \in Nat
           /\ raw(items, found) <= denominator(items, found)
<1> DEFINE D == DOMAIN items
           w == dimension_weights(items)
           U == {i \in D : found[i] = "yes"}
           T == {i \in D : w[i] > 0 /\ found[i] # "abstain"}
<1>1. raw(items, found) = Total(w, U) /\ denominator(items, found) = Total(w, T)
    BY Zenon DEF raw, denominator, Total
<1>2. IsFiniteSet(D) /\ \A i \in D : w[i] \in Int
    BY WeightsAreNumbers, Zenon DEF Weighed
<1>3. U \in SUBSET D /\ T \in SUBSET D /\ {} \in SUBSET D
    OBVIOUS
<1>4. \A i \in T : w[i] >= 0
    BY <1>2, <1>3, SMT
<1>5. (\A i \in U : w[i] > 0 => i \in T) /\ (\A i \in {} : w[i] > 0 => i \in T)
    OBVIOUS
<1> HIDE DEF D, w, U, T
<1>6. /\ Total(w, U) \in Int /\ Total(w, T) \in Int /\ Total(w, {}) = 0
    BY <1>2, <1>3, SumRecursion, Zenon
<1>7. Total(w, U) <= Total(w, T) /\ Total(w, {}) <= Total(w, T)
    BY <1>2, <1>3, <1>4, <1>5, SumAtMost, Zenon
<1>8. QED
    BY <1>1, <1>6, <1>7, SMT

\* The rubric's score is a share of the whole.
LEMMA ScoreRange ==
    ASSUME NEW items, Weighed(items), NEW found
    PROVE  score(items, found) \in Shares
<1> DEFINE num == raw(items, found)
           den == denominator(items, found)
<1>1. num \in Int /\ den \in Nat /\ num <= den
    BY RawAtMostDenominator, Zenon
<1>2. score(items, found) =
        CASE den = 0               -> 0
          [] den > 0 /\ num >= 0   -> 500 + ((9500 * num) \div den)
          [] OTHER                 -> (500 * den) \div (den - num)
    BY SMT DEF score, FLOOR_BAND
<1> HIDE DEF num, den
<1>3. CASE den = 0
    BY <1>2, <1>3, SMT DEF Shares
<1>4. CASE den > 0 /\ num >= 0
    <2> DEFINE q == (9500 * num) \div den
    <2>1. q \in 0..9500
        BY <1>1, <1>4, DivAtMost
    <2>2. score(items, found) = 500 + q
        BY <1>1, <1>2, <1>4, SMT
    <2> HIDE DEF q
    <2>3. QED
        BY <2>1, <2>2, SMT DEF Shares
<1>5. CASE den > 0 /\ num < 0
    <2> DEFINE x == 500 * den
               y == den - num
               q == x \div y
    <2>1. x \in Nat /\ y \in Nat \ {0} /\ x <= 500 * y
        BY <1>1, <1>5, SMT
    <2>2. score(items, found) = q
        BY <1>1, <1>2, <1>5, SMT
    <2> HIDE DEF x, y
    <2>3. q \in 0..500
        BY <2>1, DivAtMost
    <2> HIDE DEF q
    <2>4. QED
        BY <2>2, <2>3, SMT DEF Shares
<1>6. QED
    BY <1>1, <1>3, <1>4, <1>5, SMT

LEMMA ScoreCases ==
    ASSUME NEW items, NEW found,
           raw(items, found) \in Int, denominator(items, found) \in Nat
    PROVE  \A num, den : num = raw(items, found) /\ den = denominator(items, found) =>
              /\ den = 0 => score(items, found) = 0
              /\ den > 0 /\ num >= 0 => score(items, found) = 500 + ((9500 * num) \div den)
              /\ den > 0 /\ num < 0 => score(items, found) = (500 * den) \div (den - num)
<1> TAKE num, den
<1> HAVE num = raw(items, found) /\ den = denominator(items, found)
<1> DEFINE a == 500 + ((9500 * num) \div den)
           b == (500 * den) \div (den - num)
<1>1. score(items, found) = CASE den = 0 -> 0 [] den > 0 /\ num >= 0 -> a [] OTHER -> b
    BY SMT DEF score, FLOOR_BAND
<1> HIDE DEF a, b
<1>2. /\ den = 0 => score(items, found) = 0
      /\ den > 0 /\ num >= 0 => score(items, found) = a
      /\ den > 0 /\ num < 0 => score(items, found) = b
    BY <1>1, SMT
<1>3. QED
    BY <1>2 DEF a, b

\* What of other differs from found is that it trips the guardrail g.
Trips(items, found, other, g) ==
    /\ items[g].weight < 0
    /\ found[g] # "yes" /\ other[g] = "yes"
    /\ \A i \in DOMAIN items \ {g} : found[i] = other[i]

LEMMA TrippedSums ==
    ASSUME NEW items, Weighed(items), NEW found, NEW other,
           NEW g \in DOMAIN items, Trips(items, found, other, g)
    PROVE  /\ denominator(items, other) = denominator(items, found)
           /\ denominator(items, found) \in Nat
           /\ raw(items, found) \in Int /\ raw(items, other) \in Int
           /\ raw(items, other) <= raw(items, found)
           /\ raw(items, found) <= denominator(items, found)
<1> DEFINE D    == DOMAIN items
           w    == dimension_weights(items)
           few  == {i \in D : found[i] = "yes"}
           more == {i \in D : other[i] = "yes"}
           num  == raw(items, found)
           sunk == raw(items, other)
           den  == denominator(items, found)
<1>1. num = Total(w, few) /\ sunk = Total(w, more)
    BY Zenon DEF raw, Total
<1>2. num \in Int /\ den \in Nat /\ num <= den /\ sunk \in Int
    BY RawAtMostDenominator, Zenon
<1>3. IsFiniteSet(D) /\ (\A i \in D : w[i] \in Int) /\ w[g] <= 0 /\ w[g] \in Int
    BY WeightsAreNumbers, Zenon DEF Weighed, Trips
<1>4. {i \in D : w[i] > 0 /\ other[i] # "abstain"} = {i \in D : w[i] > 0 /\ found[i] # "abstain"}
    BY <1>3, SMT DEF Trips
<1>5. denominator(items, other) = den
    BY <1>4, Zenon DEF denominator
<1>6. more \in SUBSET D /\ g \in more /\ more \ {g} = few
    BY Zenon DEF Trips
<1> HIDE DEF D, w, few, more
<1>7. Total(w, more) = w[g] + Total(w, few)
    <2>1. \A T \in SUBSET D : \A x \in T : Total(w, T) = w[x] + Total(w, T \ {x})
        BY <1>3, SumTakeOut, ZenonT(40)
    <2>2. QED
        BY <1>6, <2>1, Zenon
<1> HIDE DEF num, den, sunk
<1>8. sunk <= num
    BY <1>1, <1>2, <1>3, <1>7, SMT
<1>9. QED
    BY <1>2, <1>5, <1>8 DEF num, den, sunk

\* It does not rise when one more guardrail is tripped, all else being the same,
\* and falls by as much as four decimals can tell.
LEMMA ScoreFalls ==
    ASSUME NEW items, Weighed(items), NEW found, NEW other,
           NEW g \in DOMAIN items, Trips(items, found, other, g)
    PROVE  score(items, other) <= score(items, found)
<1> DEFINE num  == raw(items, found)
           sunk == raw(items, other)
           den  == denominator(items, found)
           lifted(n) == 500 + ((9500 * n) \div den)
           fallen(n) == (500 * den) \div (den - n)
<1>1. num \in Int /\ den \in Nat /\ num <= den /\ sunk \in Int
    BY TrippedSums, Zenon
<1>2. denominator(items, other) = den
    BY TrippedSums, Zenon
<1>3. sunk <= num
    BY TrippedSums, Zenon
<1> HIDE DEF num, den, sunk
<1>4. /\ den = 0 => score(items, found) = 0
      /\ den > 0 /\ num >= 0 => score(items, found) = lifted(num)
      /\ den > 0 /\ num < 0 => score(items, found) = fallen(num)
    <2>1. raw(items, found) \in Int /\ denominator(items, found) \in Nat
        BY <1>1, Zenon DEF num, den
    <2>2. num = raw(items, found) /\ den = denominator(items, found)
        BY Zenon DEF num, den
    <2>3. QED
        BY <2>1, <2>2, ScoreCases, SMT
<1>5. /\ den = 0 => score(items, other) = 0
      /\ den > 0 /\ sunk >= 0 => score(items, other) = lifted(sunk)
      /\ den > 0 /\ sunk < 0 => score(items, other) = fallen(sunk)
    <2>1. raw(items, other) \in Int /\ denominator(items, other) \in Nat
        BY <1>1, <1>2, Zenon DEF sunk
    <2>2. sunk = raw(items, other) /\ den = denominator(items, other)
        BY <1>2, Zenon DEF sunk
    <2>3. QED
        BY <2>1, <2>2, ScoreCases, SMT
<1>6. ASSUME den > 0, sunk >= 0
       PROVE  lifted(sunk) <= lifted(num) /\ lifted(sunk) \in Int /\ lifted(num) \in Int
    <2> DEFINE x == 9500 * sunk
               z == 9500 * num
    <2>1. x \in Nat /\ z \in Nat /\ x <= z /\ den \in Nat \ {0}
        BY <1>1, <1>3, <1>6, SMT
    <2> HIDE DEF x, z
    <2>2. x \div den \in Nat /\ z \div den \in Nat
        BY <2>1, DivMod
    <2>3. x \div den <= z \div den
        BY <2>1, DivMonotone
    <2> DEFINE a == x \div den
               b == z \div den
    <2>4. a \in Nat /\ b \in Nat /\ a <= b
        BY <2>2, <2>3
    <2>5. lifted(sunk) = 500 + a /\ lifted(num) = 500 + b
        BY DEF x, z
    <2> HIDE DEF a, b, lifted
    <2>6. QED
        BY <2>4, <2>5, SMT
<1>7. ASSUME den > 0, sunk < 0
       PROVE  fallen(sunk) \in 0..500
    <2> DEFINE x == 500 * den
               y == den - sunk
    <2>1. x \in Nat /\ y \in Nat \ {0} /\ x <= 500 * y
        BY <1>1, <1>7, SMT
    <2> HIDE DEF x, y
    <2>2. x \div y \in 0..500
        BY <2>1, DivAtMost
    <2>3. QED
        BY <2>2 DEF x, y
<1>8. ASSUME den > 0, num >= 0
       PROVE  lifted(num) >= 500 /\ lifted(num) \in Int
    <2> DEFINE z == 9500 * num
               b == z \div den
    <2>1. z \in Nat /\ den \in Nat \ {0}
        BY <1>1, <1>8, SMT
    <2>2. lifted(num) = 500 + b
        OBVIOUS
    <2> HIDE DEF z
    <2>3. b \in Nat
        BY <2>1, DivMod
    <2> HIDE DEF b, lifted
    <2>4. QED
        BY <2>2, <2>3, SMT
<1>9. ASSUME den > 0, num < 0
       PROVE  fallen(sunk) <= fallen(num)
    <2> DEFINE x == 500 * den
               y == den - num
               z == den - sunk
    <2>1. x \in Nat /\ y \in Nat \ {0} /\ z \in Nat \ {0} /\ y <= z
        BY <1>1, <1>3, <1>9, SMT
    <2> HIDE DEF x, y, z
    <2>2. x \div z <= x \div y
        BY <2>1, DivAntitone
    <2>3. QED
        BY <2>2 DEF x, y, z
<1> HIDE DEF lifted, fallen
<1>10. CASE den = 0
    BY <1>4, <1>5, <1>10, SMT
<1>11. CASE den > 0 /\ sunk >= 0
    BY <1>1, <1>3, <1>4, <1>5, <1>6, <1>11, SMT
<1>12. CASE den > 0 /\ sunk < 0 /\ num >= 0
    BY <1>4, <1>5, <1>7, <1>8, <1>12, SMT
<1>13. CASE den > 0 /\ sunk < 0 /\ num < 0
    BY <1>4, <1>5, <1>9, <1>13, SMT
<1>14. QED
    BY <1>1, <1>10, <1>11, <1>12, <1>13, SMT

\* It falls where four decimals can tell.
LEMMA ScoreDrops ==
    ASSUME NEW items, Weighed(items), NEW found, NEW other,
           NEW g \in DOMAIN items, Trips(items, found, other, g),
           denominator(items, found) > 0,
           Tells(denominator(items, found), raw(items, found), raw(items, other))
    PROVE  score(items, other) < score(items, found)
<1> DEFINE num  == raw(items, found)
           sunk == raw(items, other)
           den  == denominator(items, found)
           lifted(n) == 500 + ((9500 * n) \div den)
           fallen(n) == (500 * den) \div (den - n)
<1>1. num \in Int /\ den \in Nat \ {0} /\ num <= den /\ sunk \in Int /\ sunk <= num
    BY TrippedSums, SMT
<1>2. denominator(items, other) = den
    BY TrippedSums, Zenon
<1>3. \/ num >= 0 /\ sunk < 0
      \/ sunk >= 0 /\ 9500 * (num - sunk) >= den
      \/ num < 0 /\ (500 * den) * (num - sunk) >= (den - num) * (den - sunk)
    <2>1. Tells(den, num, sunk) /\ 10000 - FLOOR_BAND = 9500 /\ FLOOR_BAND = 500
        BY SMT DEF FLOOR_BAND
    <2> HIDE DEF num, den, sunk
    <2>2. QED
        BY <2>1 DEF Tells
<1>4. /\ num >= 0 => score(items, found) = lifted(num)
      /\ num < 0 => score(items, found) = fallen(num)
    <2>1. raw(items, found) \in Int /\ denominator(items, found) \in Nat
        BY <1>1, SMT
    <2>2. \A n, d : n = raw(items, found) /\ d = denominator(items, found) =>
              /\ d > 0 /\ n >= 0 => score(items, found) = 500 + ((9500 * n) \div d)
              /\ d > 0 /\ n < 0 => score(items, found) = (500 * d) \div (d - n)
        BY <2>1, ScoreCases
    <2>3. den > 0
        OBVIOUS
    <2>4. QED
        BY <2>2, <2>3
<1>5. /\ sunk >= 0 => score(items, other) = lifted(sunk)
      /\ sunk < 0 => score(items, other) = fallen(sunk)
    <2>1. raw(items, other) \in Int /\ denominator(items, other) \in Nat
        BY <1>1, <1>2, SMT
    <2>2. \A n, d : n = raw(items, other) /\ d = denominator(items, other) =>
              /\ d > 0 /\ n >= 0 => score(items, other) = 500 + ((9500 * n) \div d)
              /\ d > 0 /\ n < 0 => score(items, other) = (500 * d) \div (d - n)
        BY <2>1, ScoreCases
    <2>3. den > 0 /\ den = denominator(items, other)
        BY <1>2
    <2>4. QED
        BY <2>2, <2>3
<1> HIDE DEF num, den, sunk
<1>6. CASE num >= 0 /\ sunk < 0
    <2> DEFINE x == 500 * den
               y == den - sunk
               z == 9500 * num
               a == x \div y
               b == z \div den
    <2>1. x \in Nat /\ y \in Nat \ {0} /\ x < 500 * y /\ z \in Nat
        BY <1>1, <1>6, SMT
    <2>2. score(items, found) = 500 + b /\ score(items, other) = a
        BY <1>4, <1>5, <1>6
    <2> HIDE DEF x, y, z
    <2>3. a < 500 /\ a \in Nat /\ b \in Nat
        BY <1>1, <2>1, DivBelow, DivMod
    <2> HIDE DEF a, b
    <2>4. QED
        BY <2>2, <2>3, SMT
<1>7. CASE sunk >= 0 /\ 9500 * (num - sunk) >= den
    <2> DEFINE x == 9500 * sunk
               z == 9500 * num
               a == x \div den
               b == z \div den
    <2>1. x \in Nat /\ z \in Nat /\ x + den <= z /\ num >= 0
        BY <1>1, <1>7, SMT
    <2>2. score(items, found) = 500 + b /\ score(items, other) = 500 + a
        BY <1>4, <1>5, <1>7, <2>1
    <2> HIDE DEF x, z
    <2>3. a < b /\ a \in Nat /\ b \in Nat
        BY <1>1, <2>1, DivStep, DivMod
    <2> HIDE DEF a, b
    <2>4. QED
        BY <2>2, <2>3, SMT
<1>8. CASE num < 0 /\ (500 * den) * (num - sunk) >= (den - num) * (den - sunk)
    <2> DEFINE x == 500 * den
               y == den - num
               z == den - sunk
    <2>1. x \in Nat /\ y \in Nat \ {0} /\ z \in Nat \ {0} /\ z - y = num - sunk /\ sunk < 0
        BY <1>1, <1>8, SMT
    <2>2. x * (z - y) >= y * z
        BY <1>8, <2>1
    <2>3. score(items, found) = x \div y /\ score(items, other) = x \div z
        BY <1>4, <1>5, <1>8, <2>1
    <2> HIDE DEF x, y, z
    <2>4. QED
        BY <2>1, <2>2, <2>3, DivApart
<1>9. QED
    BY <1>3, <1>6, <1>7, <1>8

-----------------------------------------------------------------------------
(* The outcome.                                                            *)

RecordOK(record) ==
    /\ IsFiniteSet(record.gold.f2p) /\ IsFiniteSet(record.gold.s2p)
    /\ IsFiniteSet(record.gold.n2p) /\ IsFiniteSet(record.gold.p2p)
    /\ FiniteStage(record.fix)

ReportOK(report) == FiniteStage(report.test) /\ FiniteStage(report.fix)

\* The factor a broken test costs its share of.
Width(gold, report) ==
    Larger(R0, Smaller(Larger(1, Cardinality(PreserveSet(gold, report))),
                       Cardinality(Targets(gold))))

LEMMA GoldIsFinite ==
    ASSUME NEW record, RecordOK(record)
    PROVE  IsFiniteSet(Targets(Gold(record))) /\ IsFiniteSet(Gold(record).p2p)
<1>1. IsFiniteSet(record.fix.passed)
    BY DEF RecordOK, FiniteStage
<1> DEFINE b == BucketFromRawArrays(record.test, record.fix)
<1>2. /\ b.f2p \in SUBSET record.fix.passed /\ b.s2p \in SUBSET record.fix.passed
      /\ b.n2p \in SUBSET record.fix.passed /\ b.p2p \in SUBSET record.fix.passed
    BY Zenon DEF BucketFromRawArrays
<1>3. /\ IsFiniteSet(b.f2p) /\ IsFiniteSet(b.s2p) /\ IsFiniteSet(b.n2p) /\ IsFiniteSet(b.p2p)
    <2> HIDE DEF b
    <2>1. QED
        BY <1>1, <1>2, FS_Subset, Zenon
<1>4. Gold(record) \in {b, record.gold}
    BY Zenon DEF Gold
<1> DEFINE g == Gold(record)
<1>5. /\ IsFiniteSet(g.f2p) /\ IsFiniteSet(g.s2p) /\ IsFiniteSet(g.n2p) /\ IsFiniteSet(g.p2p)
    <2> HIDE DEF b, g
    <2>1. g \in {b, record.gold}
        BY <1>4 DEF g
    <2>2. QED
        BY <1>3, <2>1, Zenon DEF RecordOK
<1> HIDE DEF g
<1>6. IsFiniteSet((g.f2p \cup g.s2p) \cup g.n2p)
    BY <1>5, FS_Union, Zenon
<1>7. QED
    BY <1>5, <1>6, Zenon DEF Targets, g

\* What the formula counts.  A scored run has a target that did not pass before.
LEMMA ScoredCounts ==
    ASSUME NEW record, NEW report, RecordOK(record), ReportOK(report),
           Status(record, report) = "scored", NEW gold, gold = Gold(record)
    PROVE  /\ Cardinality(EffectiveTargets(gold, report)) \in Nat \ {0}
           /\ Cardinality(HitsNew(gold, report)) \in Nat
           /\ Cardinality(HitsNew(gold, report)) <= Cardinality(EffectiveTargets(gold, report))
           /\ IsFiniteSet(Broken(gold, report)) /\ Cardinality(Broken(gold, report)) \in Nat
           /\ Width(gold, report) \in Nat /\ Width(gold, report) >= 20
<1> DEFINE targets == Targets(gold)
           before  == targets \cap report.test.passed
           left    == EffectiveTargets(gold, report)
           hits    == HitsNew(gold, report)
           keep    == PreserveSet(gold, report)
           broken  == Broken(gold, report)
<1>1. targets # {} /\ ~Polluted(gold, report)
    BY SMT DEF Status
<1>2. IsFiniteSet(targets) /\ IsFiniteSet(gold.p2p) /\ IsFiniteSet(report.test.passed)
    BY GoldIsFinite, Zenon DEF ReportOK, FiniteStage
<1>3. left \in SUBSET targets /\ hits \in SUBSET left /\ broken \in SUBSET keep
    BY Zenon DEF EffectiveTargets, HitsNew, Broken, PreserveSet
<1>4. keep = gold.p2p \cup report.test.passed
    BY Zenon DEF PreserveSet
<1>5. left = {} => before = targets
    BY Zenon DEF EffectiveTargets
<1>6. ~ (/\ 10 * Cardinality(before) >= 8 * Cardinality(targets) /\ Cardinality(left) < 3)
    BY <1>1, Zenon DEF Polluted, EFF_MIN
<1>7. Width(gold, report) = Larger(20, Smaller(Larger(1, Cardinality(keep)), Cardinality(targets)))
    BY Zenon DEF Width, R0
<1> HIDE DEF targets, before, left, hits, keep, broken
<1>8. IsFiniteSet(left) /\ IsFiniteSet(keep)
    BY <1>2, <1>3, <1>4, FS_Subset, FS_Union, Zenon
<1>9. IsFiniteSet(hits) /\ IsFiniteSet(broken) /\ Cardinality(hits) <= Cardinality(left)
    BY <1>3, <1>8, FS_Subset, Zenon
<1>10. /\ Cardinality(targets) \in Nat /\ Cardinality(left) \in Nat /\ Cardinality(hits) \in Nat
       /\ Cardinality(broken) \in Nat /\ Cardinality(keep) \in Nat
    BY <1>2, <1>8, <1>9, FS_CardinalityType, Zenon
<1>11. Cardinality(left) # 0
    <2> SUFFICES ASSUME Cardinality(left) = 0 PROVE FALSE
        OBVIOUS
    <2>1. left = {}
        BY <1>8, FS_EmptySet, Zenon
    <2>2. QED
        BY <1>5, <1>6, <1>10, <2>1, SMT
<1>12. Width(gold, report) \in Nat /\ Width(gold, report) >= 20
    BY <1>7, <1>10, SMT DEF Larger, Smaller
<1>13. QED
    BY <1>9, <1>10, <1>11, <1>12, Zenon DEF left, hits, broken

Formula(hits, left, broken, width) ==
    Round(100 * hits * Larger(0, width - broken), left * width)

LEMMA OutcomeIsFormula ==
    ASSUME NEW record, NEW report, NEW gold, gold = Gold(record)
    PROVE  compute_score_v2g(record, report).score =
             IF Status(record, report) = "scored"
               THEN Formula(Cardinality(HitsNew(gold, report)),
                            Cardinality(EffectiveTargets(gold, report)),
                            Cardinality(Broken(gold, report)), Width(gold, report))
               ELSE 0
BY Zenon DEF compute_score_v2g, ScoreV2, Formula, Width

LEMMA FormulaIsNatural ==
    ASSUME NEW hits \in Nat, NEW left \in Nat \ {0}, NEW broken \in Nat, NEW width \in Nat \ {0}
    PROVE  Formula(hits, left, broken, width) \in Nat
<1> DEFINE k == Larger(0, width - broken)
<1>1. k \in Nat
    BY SMT DEF Larger
<1> HIDE DEF k
<1> DEFINE x == 100 * hits * k
           y == left * width
<1>2. x \in Nat /\ y \in Nat \ {0}
    BY <1>1, SMT
<1> HIDE DEF x, y
<1>3. Round(x, y) \in Nat
    BY <1>2, RoundBounds
<1>4. QED
    BY <1>3 DEF Formula, x, y, k

\* An outcome of a fifth or more, of at most twenty tests' width, is lower for
\* every test that is broken besides.
LEMMA FormulaFalls ==
    ASSUME NEW hits \in Nat, NEW left \in Nat \ {0}, hits <= left,
           NEW few \in Nat, NEW more \in Nat, few < more, Formula(hits, left, few, 20) >= 20
    PROVE  Formula(hits, left, few, 20) > Formula(hits, left, more, 20)
<1> DEFINE k == Larger(0, 20 - few)
           m == Larger(0, 20 - more)
           x == 100 * hits * k
           z == 100 * hits * m
           y == left * 20
           R == Round(x, y)
           Q == Round(z, y)
<1>1. /\ k \in 0..20 /\ m \in 0..20 /\ (k = 0 \/ m <= k - 1)
    BY SMT DEF Larger
<1>2. Formula(hits, left, few, 20) = R /\ Formula(hits, left, more, 20) = Q
    BY Zenon DEF Formula
<1> HIDE DEF k, m
<1>3. x \in Nat /\ z \in Nat /\ y \in Nat \ {0} /\ y = 20 * left
    BY <1>1, SMT
<1>4. k = 0 => x = 0
    BY <1>1, SMT
<1>5. k # 0 => x - z >= 100 * hits /\ z <= 1900 * hits
    <2> SUFFICES ASSUME k # 0 PROVE x - z >= 100 * hits /\ z <= 1900 * hits
        OBVIOUS
    <2>1. PICK e \in Nat : k = m + 1 + e
        <3>1. k - m - 1 \in Nat /\ k = m + 1 + (k - m - 1)
            BY <1>1, SMT
        <3>2. QED
            BY <3>1, Zenon
    <2>2. m <= 19
        BY <1>1, SMT
    <2>3. m * (100 * hits) <= 19 * (100 * hits)
        BY <1>1, <2>2, Scale, SMT
    <2>4. x = 100 * hits * m + 100 * hits + 100 * hits * e
        BY <1>1, <2>1, SMT
    <2>5. 100 * hits * e >= 0
        BY <2>1, SMT
    <2>6. QED
        BY <1>1, <2>1, <2>3, <2>4, <2>5, SMT
<1> HIDE DEF x, y, z
<1>6. /\ R \in Nat /\ (2 * R - 1) * y <= 2 * x /\ 2 * x <= (2 * R + 1) * y
      /\ Q \in Nat /\ (2 * Q - 1) * y <= 2 * z /\ 2 * z <= (2 * Q + 1) * y
    BY <1>3, RoundBounds
<1> HIDE DEF R, Q
<1>7. R >= 20
    BY <1>2, SMT
<1>8. 39 * y <= (2 * R - 1) * y
    BY <1>3, <1>6, <1>7, Scale, SMT
<1>9. k # 0
    BY <1>3, <1>4, <1>6, <1>8, SMT
<1>10. ~(R <= Q)
    <2> SUFFICES ASSUME R <= Q PROVE FALSE
        OBVIOUS
    <2>1. (2 * R - 1) * y <= (2 * Q - 1) * y
        BY <1>3, <1>6, Scale, SMT
    <2>2. (2 * R + 1) * y = (2 * R - 1) * y + 2 * y /\ (2 * R - 1) * y \in Int /\ (2 * Q - 1) * y \in Int
        BY <1>3, <1>6, SMT
    <2>3. x - z <= y /\ 39 * y <= 2 * z
        BY <1>3, <1>6, <1>8, <2>1, <2>2, SMT
    <2>4. QED
        BY <1>3, <1>5, <1>9, <2>3, SMT
<1>11. QED
    BY <1>2, <1>6, <1>10, SMT

-----------------------------------------------------------------------------
(* The composition.                                                        *)

LEMMA MaxMin ==
    ASSUME NEW S, S \subseteq Nat, IsFiniteSet(S), S # {}
    PROVE  /\ Max(S) \in S /\ Min(S) \in S
           /\ \A x \in S : Min(S) <= x /\ x <= Max(S)
<1> DEFINE Ends(T) == /\ \E x \in T : \A y \in T : x >= y
                      /\ \E x \in T : \A y \in T : x =< y
           Z == {T \in SUBSET S : T # {} => Ends(T)}
<1>1. ASSUME NEW T \in SUBSET S, \A x \in T : T \ {x} \in Z PROVE T \in Z
    <2> SUFFICES ASSUME NEW x \in T PROVE Ends(T)
        BY Zenon
    <2>1. x \in Nat /\ \A y \in T : y \in Nat
        BY Zenon
    <2>2. CASE T \ {x} = {}
        <3>1. \A y \in T : y = x
            BY <2>2, Zenon
        <3>2. QED
            BY <2>1, <3>1, SMT
    <2>3. CASE T \ {x} # {}
        <3>1. Ends(T \ {x})
            BY <1>1, <2>3, Zenon
        <3>2. PICK a \in T \ {x}, b \in T \ {x} :
                 \A y \in T \ {x} : a >= y /\ b =< y
            BY <3>1, Zenon
        <3>3. a \in T /\ b \in T /\ a \in Nat /\ b \in Nat
            BY <2>1, <3>2
        <3>4. \E u \in T : \A y \in T : u >= y
            <4>1. CASE a >= x
                BY <2>1, <3>2, <3>3, <4>1, SMT
            <4>2. CASE ~(a >= x)
                <5>1. \A y \in T : x >= y
                    BY <2>1, <3>2, <3>3, <4>2, SMT
                <5>2. QED
                    BY <5>1, Zenon
            <4>3. QED
                BY <4>1, <4>2
        <3>5. \E u \in T : \A y \in T : u =< y
            <4>1. CASE b =< x
                BY <2>1, <3>2, <3>3, <4>1, SMT
            <4>2. CASE ~(b =< x)
                <5>1. \A y \in T : x =< y
                    BY <2>1, <3>2, <3>3, <4>2, SMT
                <5>2. QED
                    BY <5>1, Zenon
            <4>3. QED
                BY <4>1, <4>2
        <3>6. QED
            BY <3>4, <3>5
    <2>4. QED
        BY <2>2, <2>3
<1>2. \A T \in SUBSET S : T \in Z
    <2> HIDE DEF Z
    <2>1. QED
        BY <1>1, SubsetInduction, Zenon
<1>3. Ends(S)
    BY <1>2, Zenon
<1>4. Max(S) \in S /\ \A y \in S : Max(S) >= y
    BY <1>3, Zenon DEF Max
<1>5. Min(S) \in S /\ \A y \in S : Min(S) =< y
    BY <1>3, Zenon DEF Min
<1>6. QED
    BY <1>4, <1>5, SMT

LEMMA RoundAtMost ==
    ASSUME NEW x \in Nat, NEW y \in Nat \ {0}, NEW k \in Nat, x <= k * y
    PROVE  Round(x, y) \in 0..k
<1> DEFINE R == Round(x, y)
<1>1. R \in Nat /\ (2 * R - 1) * y <= 2 * x
    BY RoundBounds
<1> HIDE DEF R
<1>2. (2 * R - 1) * y <= (2 * k) * y
    BY <1>1, SMT
<1>3. 2 * R - 1 <= 2 * k
    BY <1>1, <1>2, Cancel, SMT
<1>4. R \in 0..k
    BY <1>1, <1>3, SMT
<1>5. QED
    BY <1>4 DEF R

LEMMA HalfRange ==
    ASSUME NEW a \in 0..100, NEW b \in Shares
    PROVE  Round(a * 100 + b, 2) \in Shares
<1> DEFINE x == a * 100 + b
<1>1. PICK y \in Nat \ {0}, k \in Nat : y = 2 /\ k = 10000
    OBVIOUS
<1>2. x \in Nat
    BY SMT DEF Shares
<1>3. x <= k * y
    BY <1>1, SMT DEF Shares
<1> HIDE DEF x
<1>4. Round(x, y) \in 0..k
    BY <1>2, <1>3, RoundAtMost
<1>5. y = 2 /\ 0..k = Shares
    BY <1>1 DEF Shares
<1>6. QED
    BY <1>4, <1>5, Zenon DEF x

LEMMA HalfMonotone ==
    ASSUME NEW a \in 0..100, NEW b \in Shares, NEW c \in Shares, b <= c
    PROVE  Round(a * 100 + b, 2) <= Round(a * 100 + c, 2)
<1> DEFINE x == a * 100 + b
           z == a * 100 + c
<1>1. x \in Nat /\ z \in Nat /\ x <= z
    BY SMT DEF Shares
<1> HIDE DEF x, z
<1>2. Round(x, 2) <= Round(z, 2)
    BY <1>1, RoundMonotone
<1>3. QED
    BY <1>2 DEF x, z

\* The composition before the gate: outcome o, process p, s steps.
Blend(s, o, p) == Round(s * (100 * o) + p, s + 1)

LEMMA BlendIsNatural ==
    ASSUME NEW s \in Nat, NEW o \in Nat, NEW p \in Nat
    PROVE  Blend(s, o, p) \in Nat
<1> DEFINE x == s * (100 * o) + p
           y == s + 1
<1>1. x \in Nat /\ y \in Nat \ {0}
    BY SMT
<1> HIDE DEF x, y
<1>2. Round(x, y) \in Nat
    BY <1>1, RoundBounds
<1>3. QED
    BY <1>2 DEF Blend, x, y

LEMMA BlendMonotone ==
    ASSUME NEW s \in Nat, NEW o \in Nat, NEW p \in Nat, NEW q \in Nat, p <= q
    PROVE  Blend(s, o, p) <= Blend(s, o, q)
<1> DEFINE w == s * (100 * o)
           y == s + 1
<1>1. w \in Nat /\ y \in Nat \ {0}
    BY SMT
<1> HIDE DEF w, y
<1>2. w + p \in Nat /\ w + q \in Nat /\ w + p <= w + q
    BY <1>1, SMT
<1>3. Round(w + p, y) <= Round(w + q, y)
    BY <1>1, <1>2, RoundMonotone
<1>4. QED
    BY <1>3 DEF Blend, w, y

LEMMA StepsOfGap ==
    ASSUME NEW s \in Nat, NEW n \in Nat, n <= s, NEW d \in Nat, d * n >= 100
    PROVE  s * d \in Nat /\ s * d >= 100
<1>1. n * d <= s * d
    BY Scale
<1>2. n * d = d * n /\ s * d \in Nat /\ n * d \in Nat
    BY SMT
<1>3. QED
    BY <1>1, <1>2, SMT

\* Numbers further apart than any two shares.
Apart(u, v) == v >= u + 10000

LEMMA RoundKeepsGap ==
    ASSUME NEW u \in Nat, NEW v \in Nat, Apart(u, v), NEW s \in Nat,
           NEW p \in Shares, NEW q \in Shares
    PROVE  Round(v + p, s + 1) >= Round(u + q, s + 1)
<1> DEFINE x == v + p
           z == u + q
           y == s + 1
<1>1. x \in Nat /\ z \in Nat
    BY SMT DEF Shares
<1>2. y \in Nat \ {0}
    BY SMT
<1>3. z <= x
    BY SMTT(40) DEF Shares, Apart
<1> HIDE DEF x, z, y
<1>4. Round(z, y) \in Nat
    BY <1>1, <1>2, RoundBounds
<1>5. Round(x, y) \in Nat
    BY <1>1, <1>2, RoundBounds
<1>6. Round(z, y) <= Round(x, y)
    BY <1>1, <1>2, <1>3, RoundMonotone
<1>7. Round(x, y) >= Round(z, y)
    BY <1>4, <1>5, <1>6, SMT
<1>8. QED
    BY <1>7 DEF x, z, y

\* A gap of a step in the outcome is as much as process can give.
LEMMA BlendKeepsGap ==
    ASSUME NEW s \in Nat, NEW n \in Nat, n <= s, NEW a \in Nat, NEW b \in Nat,
           (a - b) * n >= 100, NEW p \in Shares, NEW q \in Shares
    PROVE  Blend(s, a, p) >= Blend(s, b, q)
<1> DEFINE d == a - b
           v == s * (100 * a)
           u == s * (100 * b)
<1>1. d \in Nat /\ a = b + d /\ d * n >= 100
    BY SMT
<1> HIDE DEF d
<1>2. s * d \in Nat /\ s * d >= 100
    BY <1>1, StepsOfGap
<1>3. v = u + 100 * (s * d) /\ v \in Nat /\ u \in Nat
    BY <1>1, SMT
<1> HIDE DEF v, u
<1>4. Apart(u, v)
    BY <1>2, <1>3, SMT DEF Apart
<1>5. v \in Nat /\ u \in Nat
    BY <1>3
<1>6. Round(v + p, s + 1) >= Round(u + q, s + 1)
    BY <1>4, <1>5, RoundKeepsGap, Zenon
<1>7. QED
    BY <1>6 DEF Blend, u, v

LEMMA TaskFacts ==
    ASSUME task \in Tasks
    PROVE  /\ RecordOK(task.record) /\ Weighed(task.items)
           /\ target_count \in Nat
           /\ \A c \in task.candidates : c.soft \in 0..100 /\ ReportOK(c.report)
<1>1. TaskOK(task)
    BY RewardAssumption
<1>2. RecordOK(task.record)
    BY <1>1, Zenon DEF TaskOK, RecordOK
<1>3. Weighed(task.items) /\ \A c \in task.candidates : c.soft \in 0..100 /\ ReportOK(c.report)
    BY <1>1, Zenon DEF TaskOK, Weighed, ReportOK
<1>4. Cardinality(task.record.gold.f2p) \in Nat /\ Cardinality(task.record.gold.n2p) \in Nat
    BY <1>2, FS_CardinalityType, Zenon DEF RecordOK
<1>5. target_count \in Nat
    BY <1>4, SMT DEF target_count
<1>6. QED
    BY <1>2, <1>3, <1>5

StepWidth == IF target_count > 50 THEN 50 ELSE target_count

LEMMA StepsCoverTargets ==
    ASSUME task \in Tasks
    PROVE  steps \in Nat /\ StepWidth \in Nat /\ StepWidth <= steps
<1>1. target_count \in Nat
    BY TaskFacts, Zenon
<1>2. QED
    BY <1>1, SMT DEF steps, StepWidth

LEMMA CombineIsBlend ==
    ASSUME NEW r, NEW p
    PROVE  combine(r, p) = process_gate(r) * Blend(steps, runs[r].outcome, p)
BY Zenon DEF combine, Blend

LEMMA OpenCombine ==
    ASSUME task \in Tasks, NEW r, runs[r].outcome \in Nat, process_gate(r) = 1, NEW p \in Nat
    PROVE  combine(r, p) = Blend(steps, runs[r].outcome, p) /\ combine(r, p) \in Nat
<1>1. Blend(steps, runs[r].outcome, p) \in Nat
    BY StepsCoverTargets, BlendIsNatural
<1>2. QED
    BY <1>1, CombineIsBlend, SMT

RunOf(c, replay) ==
    [says |-> c.says, soft |-> c.soft, voided |-> c.voided,
     report |-> c.report, replay |-> replay,
     outcome |-> compute_score_v2g(task.record, c.report).score]

LEMMA RunFacts ==
    ASSUME task \in Tasks, NEW r, RunOK(r)
    PROVE  /\ runs[r].outcome \in Nat
           /\ runs[r].outcome = compute_score_v2g(task.record, runs[r].report).score
           /\ ReportOK(runs[r].report)
           /\ runs[r].replay \in {NotJudged, Replay(runs[r].says)}
           /\ runs[r].soft \in 0..100 /\ runs[r].replay.rubric \in Shares
           /\ process_score(r) \in Shares
<1>1. PICK c \in task.candidates :
        /\ runs[r].says = c.says /\ runs[r].soft = c.soft /\ runs[r].report = c.report
        /\ runs[r].outcome = compute_score_v2g(task.record, c.report).score
        /\ runs[r].replay \in {NotJudged, Replay(c.says)}
    <2>1. PICK c \in task.candidates :
            \E replay \in {NotJudged, Replay(c.says)} : runs[r] = RunOf(c, replay)
        BY Zenon DEF RunOK, RunOf
    <2>2. PICK replay \in {NotJudged, Replay(c.says)} : runs[r] = RunOf(c, replay)
        BY <2>1
    <2>3. /\ runs[r].says = c.says /\ runs[r].soft = c.soft /\ runs[r].report = c.report
          /\ runs[r].outcome = compute_score_v2g(task.record, c.report).score
          /\ runs[r].replay = replay
        BY <2>2 DEF RunOf
    <2>4. QED
        BY <2>3, Zenon
<1>2. c.soft \in 0..100 /\ ReportOK(c.report) /\ RecordOK(task.record) /\ Weighed(task.items)
    BY TaskFacts, Zenon
<1>3. runs[r].outcome \in Nat
    <2> DEFINE gold == Gold(task.record)
    <2>1. CASE Status(task.record, c.report) = "scored"
        <3> DEFINE left  == Cardinality(EffectiveTargets(gold, c.report))
                   hits  == Cardinality(HitsNew(gold, c.report))
                   lost  == Cardinality(Broken(gold, c.report))
                   width == Width(gold, c.report)
        <3>1. left \in Nat \ {0} /\ hits \in Nat /\ lost \in Nat
              /\ width \in Nat /\ width >= 20
            BY <1>2, <2>1, ScoredCounts, Zenon
        <3>2. compute_score_v2g(task.record, c.report).score = Formula(hits, left, lost, width)
            BY <2>1, OutcomeIsFormula, Zenon
        <3> HIDE DEF left, hits, lost, width
        <3>3. width \in Nat \ {0}
            BY <3>1, SMT
        <3>4. Formula(hits, left, lost, width) \in Nat
            BY <3>1, <3>3, FormulaIsNatural
        <3>5. QED
            BY <1>1, <3>2, <3>4, Zenon
    <2>2. CASE Status(task.record, c.report) # "scored"
        <3>1. compute_score_v2g(task.record, c.report).score = 0
            BY <2>2, OutcomeIsFormula, Zenon
        <3>2. QED
            BY <1>1, <3>1, SMT
    <2>3. QED
        BY <2>1, <2>2
<1>4. runs[r].replay.rubric \in Shares
    <2>1. NotJudged.rubric \in Shares
        BY SMT DEF NotJudged, Shares
    <2>2. Replay(c.says).rubric = score(task.items, Outcomes(task.items, c.says))
        BY Zenon DEF Replay
    <2>3. score(task.items, Outcomes(task.items, c.says)) \in Shares
        BY <1>2, ScoreRange, Zenon
    <2>4. QED
        BY <1>1, <2>1, <2>2, <2>3, Zenon
<1>5. process_score(r) \in Shares
    <2>1. runs[r].soft \in 0..100
        BY <1>1, <1>2, Zenon
    <2>2. QED
        BY <1>4, <2>1, HalfRange DEF process_score
<1>6. QED
    BY <1>1, <1>2, <1>3, <1>4, <1>5, Zenon

\* A place between the ends of a stratum, and a stratum whose ends lie too close.
Place(lo, hi, v) == Round(10000 * (v - lo), hi - lo)
Flat(lo, hi) == hi - lo < 500

LEMMA ShareOrder == \A u, v \in Shares : u <= u /\ (v >= u <=> u <= v)
BY SMT DEF Shares

LEMMA PlaceFacts ==
    ASSUME NEW lo \in Shares, NEW hi \in Shares, ~Flat(lo, hi),
           NEW u \in Shares, NEW v \in Shares, lo <= u, u <= v, v <= hi
    PROVE  Place(lo, hi, u) \in Shares /\ Place(lo, hi, u) <= Place(lo, hi, v)
<1> DEFINE a == u - lo
           b == v - lo
           y == hi - lo
<1>1. a \in Nat /\ b \in Nat
    BY SMTT(40) DEF Shares
<1>2. y \in Nat \ {0}
    BY SMTT(40) DEF Shares, Flat
<1>3. a <= y /\ a <= b
    BY SMTT(40) DEF Shares
<1>4. Place(lo, hi, u) = Round(10000 * a, y) /\ Place(lo, hi, v) = Round(10000 * b, y)
    BY DEF Place
<1> HIDE DEF a, b, y
<1>5. Round(10000 * a, y) \in Shares
    BY <1>1, <1>2, <1>3, RoundShare
<1> DEFINE x == 10000 * a
           z == 10000 * b
<1>6. x \in Nat /\ z \in Nat /\ x <= z
    BY <1>1, <1>3, SMT
<1> HIDE DEF x, z
<1>7. Round(x, y) <= Round(z, y)
    BY <1>2, <1>6, RoundMonotone
<1>8. QED
    BY <1>4, <1>5, <1>7 DEF x, z

\* A run's place in a stratum, by the processes of the others there.
Spread(S) == ~ \A o, x \in S : process_score(o) - process_score(x) < FLAT_STRATUM

LEMMA StratifyFacts ==
    ASSUME NEW S, IsFiniteSet(S), \A o \in S : process_score(o) \in Shares, NEW r \in S
    PROVE  /\ stratify(r, S) \in Shares
           /\ \A q \in S : process_score(r) >= process_score(q)
                             => stratify(r, S) >= stratify(q, S)
           /\ ~Spread(S) => \A q \in S : stratify(q, S) = stratify(r, S)
<1> DEFINE procs == {process_score(o) : o \in S}
           hi == Max(procs)
           lo == Min(procs)
           p(q) == process_score(q)
           middle == 5000
<1>1. \A q \in S : stratify(q, S) = IF Flat(lo, hi) THEN middle ELSE Place(lo, hi, p(q))
    BY SMT DEF stratify, FLAT_STRATUM, Flat, Place
<1>2. procs \subseteq Nat /\ procs # {} /\ IsFiniteSet(procs) /\ procs \subseteq Shares
    <2> DEFINE proc == [o \in S |-> process_score(o)]
    <2>1. IsFiniteSet({proc[o] : o \in S}) /\ {proc[o] : o \in S} = procs
        BY FiniteImage, Zenon
    <2>2. Shares \subseteq Nat
        BY SMT DEF Shares
    <2>3. QED
        BY <2>1, <2>2, Zenon
<1>3. \A q \in S : p(q) \in procs
    OBVIOUS
<1>4. \E o, x \in S : hi = p(o) /\ lo = p(x)
    <2>1. hi \in procs /\ lo \in procs
        <3> HIDE DEF procs
        <3>1. QED
            BY <1>2, MaxMin, Zenon
    <2>2. QED
        BY <2>1, Zenon
<1> HIDE DEF procs, p
<1>5. /\ hi \in Shares /\ lo \in Shares
      /\ \A q \in S : p(q) \in Shares /\ lo <= p(q) /\ p(q) <= hi
    BY <1>2, <1>3, MaxMin, Zenon
<1>6. middle \in Shares
    BY SMT DEF Shares
<1> HIDE DEF hi, lo, middle
<1>7. ~Flat(lo, hi) => \A u, v \in S : p(u) <= p(v) =>
        Place(lo, hi, p(u)) \in Shares /\ Place(lo, hi, p(u)) <= Place(lo, hi, p(v))
    BY <1>5, PlaceFacts, Zenon
<1>8. \A q \in S : p(q) <= p(q) /\ (p(r) >= p(q) => p(q) <= p(r))
    BY <1>5, ShareOrder, Zenon
<1>9. stratify(r, S) \in Shares
    BY <1>1, <1>6, <1>7, <1>8, Zenon
<1>10. ASSUME NEW q \in S, p(r) >= p(q)
       PROVE  stratify(r, S) >= stratify(q, S)
    <2>1. CASE Flat(lo, hi)
        <3>1. stratify(r, S) = middle /\ stratify(q, S) = middle
            BY <1>1, <2>1, Zenon
        <3>2. QED
            BY <1>6, <3>1, SMT DEF Shares
    <2>2. CASE ~Flat(lo, hi)
        <3>1. stratify(r, S) = Place(lo, hi, p(r)) /\ stratify(q, S) = Place(lo, hi, p(q))
            BY <1>1, <2>2, Zenon
        <3>2. /\ Place(lo, hi, p(r)) \in Shares /\ Place(lo, hi, p(q)) \in Shares
              /\ Place(lo, hi, p(q)) <= Place(lo, hi, p(r))
            BY <1>7, <1>8, <1>10, <2>2, Zenon
        <3>3. QED
            BY <3>1, <3>2, ShareOrder, Zenon
    <2>3. QED
        BY <2>1, <2>2
<1>11. ASSUME ~Spread(S), NEW q \in S
       PROVE  stratify(q, S) = stratify(r, S)
    <2>1. Flat(lo, hi)
        <3>1. PICK o \in S, x \in S : hi = p(o) /\ lo = p(x)
            BY <1>4
        <3>2. QED
            BY <1>11, <3>1, SMT DEF Spread, Flat, p, FLAT_STRATUM
    <2>2. QED
        BY <1>1, <2>1, Zenon
<1>12. QED
    BY <1>9, <1>10, <1>11, Zenon DEF p

-----------------------------------------------------------------------------
(* The inductive invariant.                                                *)

LEMMA SequenceFacts ==
    ASSUME NEW s, IsSequence(s)
    PROVE  DOMAIN s = 1..Len(s) /\ Len(s) \in Nat
BY Elements, Zenon DEF IsSequence

LEMMA FunctionIsSequence ==
    ASSUME NEW n \in Nat, NEW f, DOMAIN f = 1..n, f = [k \in 1..n |-> f[k]]
    PROVE  IsSequence(f) /\ Len(f) = n
<1> DEFINE T == {f[k] : k \in DOMAIN f}
<1>1. f \in [1..n -> T]
    BY Zenon
<1> HIDE DEF T
<1>2. f \in Seq(T) /\ Len(f) = n
    BY <1>1, SMT
<1>3. QED
    BY <1>2 DEF IsSequence, T

LEMMA AppendIsSequence ==
    ASSUME NEW s, IsSequence(s), NEW x
    PROVE  /\ IsSequence(Append(s, x)) /\ Len(Append(s, x)) = Len(s) + 1
           /\ \A k \in 1..Len(s) : Append(s, x)[k] = s[k]
           /\ Append(s, x)[Len(s) + 1] = x
<1> DEFINE T == {s[k] : k \in DOMAIN s} \cup {x}
           u == Append(s, x)
<1>1. s \in Seq(T)
    BY SMT DEF IsSequence
<1>2. x \in T
    OBVIOUS
<1> HIDE DEF T
<1>3. /\ u \in Seq(T) /\ Len(u) = Len(s) + 1 /\ Len(s) \in Nat
      /\ \A k \in 1..Len(s) : u[k] = s[k]
      /\ u[Len(s) + 1] = x
    BY <1>1, <1>2, Appended, Zenon
<1> HIDE DEF u
<1>4. DOMAIN u = 1..Len(u) /\ u = [k \in 1..Len(u) |-> u[k]] /\ Len(u) \in Nat
    BY <1>3, SMT
<1>5. IsSequence(u)
    BY <1>4, FunctionIsSequence, Zenon
<1>6. QED
    BY <1>3, <1>5, Zenon DEF u

\* The numbers of a run depend on that run alone,
LEMMA SameRun ==
    ASSUME task' = task, NEW r, runs'[r] = runs[r]
    PROVE  /\ is_judged(r)' = is_judged(r)
           /\ process_score(r)' = process_score(r)
           /\ process_gate(r)' = process_gate(r)
           /\ eval_score(r)' = eval_score(r)
           /\ \A p : combine(r, p)' = combine(r, p)
           /\ RunOK(r) => RunOK(r)'
<1>1. process_score(r)' = process_score(r) /\ process_gate(r)' = process_gate(r)
    BY Zenon DEF process_score, process_gate
<1>2. is_judged(r)' = is_judged(r)
    BY Zenon DEF is_judged
<1>3. steps' = steps
    BY Zenon DEF steps, target_count
<1>4. \A p : combine(r, p)' = combine(r, p)
    BY <1>1, <1>3, Zenon DEF combine
<1>5. eval_score(r)' = eval_score(r)
    BY <1>1, <1>3, Zenon DEF eval_score, combine
<1>6. ASSUME RunOK(r) PROVE RunOK(r)'
    <2>1. \A says : Replay(says)' = Replay(says)
        BY Zenon DEF Replay
    <2>2. QED
        BY <1>6, <2>1, Zenon DEF RunOK
<1>7. QED
    BY <1>1, <1>2, <1>4, <1>5, <1>6, Zenon

\* its place in a stratum on the runs that a pass covers.
LEMMA SameComposition ==
    ASSUME task' = task, NEW S, \A o \in S : runs'[o] = runs[o], NEW r \in S
    PROVE  Composition(r, S)' = Composition(r, S)
<1>1. /\ \A o \in S : process_score(o)' = process_score(o)
      /\ eval_score(r)' = eval_score(r)
      /\ \A p : combine(r, p)' = combine(r, p)
    BY SameRun, Zenon
<1>2. Stratum(r, S)' = Stratum(r, S)
    BY Zenon DEF Stratum
<1> DEFINE place(q, lo, hi) == IF hi - lo < FLAT_STRATUM THEN 5000 ELSE Round(10000 * (q - lo), hi - lo)
           procs == {process_score(o) : o \in Stratum(r, S)}
<1>3. procs' = procs
    <2>1. Stratum(r, S) \subseteq S
        BY Zenon DEF Stratum
    <2>2. QED
        BY <1>1, <1>2, <2>1, Zenon
<1>4. /\ stratify(r, Stratum(r, S)) = place(process_score(r), Min(procs), Max(procs))
      /\ stratify(r, Stratum(r, S))' = place(process_score(r)', Min(procs'), Max(procs'))
    BY SMT DEF stratify
<1>5. stratify(r, Stratum(r, S))' = stratify(r, Stratum(r, S))
    <2> HIDE DEF place, procs
    <2>1. QED
        BY <1>1, <1>3, <1>4, Zenon
<1>6. steps' = steps /\ process_gate(r)' = process_gate(r)
    BY Zenon DEF steps, target_count, process_gate
<1>7. rl_score(r, S)' = rl_score(r, S)
    BY <1>5, <1>6, Zenon DEF rl_score, combine
<1>8. QED
    BY <1>1, <1>7, Zenon DEF Composition

\* What of the invariant is about the runs alone, for the steps that leave the
\* published numbers, and a number published of one of them.
Kind ==
    /\ task \in Tasks
    /\ IsSequence(runs) /\ IsSequence(published) /\ Len(published) = Len(runs)
    /\ DOMAIN runs = 1..Len(runs) /\ DOMAIN published = DOMAIN runs /\ Len(runs) \in Nat
    /\ \A r \in DOMAIN runs : RunOK(r)

LEMMA InvariantKind == ASSUME IInv PROVE Kind
BY SequenceFacts, Zenon DEF IInv, Kind

\* A run whose numbers are published, or were part of a pass, stays as it is.
LEMMA RunsKept ==
    ASSUME IInv, task' = task, UNCHANGED covered,
           IsSequence(runs'), IsSequence(published'), Len(published') = Len(runs'),
           DOMAIN runs \subseteq DOMAIN runs',
           \A r \in DOMAIN runs : is_judged(r) => runs'[r] = runs[r],
           \A r \in DOMAIN runs' : RunOK(r)',
           \A r \in DOMAIN runs : published'[r] = published[r],
           \A r \in (DOMAIN runs') \ DOMAIN runs : published'[r] = Unscored
    PROVE  IInv'
<1>1. \A r \in DOMAIN runs : is_judged(r) => is_judged(r)'
    BY SameRun, Zenon
<1>2. ASSUME NEW r \in DOMAIN runs', Scored(r)' PROVE Composed(r)'
    <2>1. r \in DOMAIN runs
        BY <1>2, Zenon DEF Scored, Unscored
    <2>2. Scored(r) /\ Composed(r)
        BY <1>2, <2>1, Zenon DEF IInv, Scored, Unscored
    <2>3. is_judged(r) /\ runs'[r] = runs[r] /\ published'[r] = published[r]
        BY <2>1, <2>2, Zenon DEF Composed
    <2>4. /\ is_judged(r)' /\ process_score(r)' = process_score(r)
          /\ eval_score(r)' = eval_score(r) /\ \A p : combine(r, p)' = combine(r, p)
        BY <2>3, SameRun, Zenon
    <2>5. QED
        BY <2>2, <2>3, <2>4, Zenon DEF Composed
<1>3. ASSUME NEW r \in covered
      PROVE  is_judged(r)' /\ published'[r] = Composition(r, covered)'
    <2>1. PICK S : S = covered
        OBVIOUS
    <2>2. \A o \in S : o \in DOMAIN runs /\ runs'[o] = runs[o] /\ is_judged(o)
        BY <2>1, Zenon DEF IInv
    <2>3. Composition(r, S)' = Composition(r, S)
        BY <2>1, <2>2, SameComposition, Zenon
    <2>4. Composition(r, covered)' = Composition(r, covered)
        BY <2>1, <2>3, Zenon
    <2>5. QED
        BY <1>1, <2>1, <2>2, <2>4, Zenon DEF IInv
<1>4. QED
    BY <1>2, <1>3, Zenon DEF IInv

LEMMA ConvertKeeps == ASSUME IInv, Convert PROVE IInv'
<1>1. Kind
    BY InvariantKind
<1>2. PICK c \in task.candidates :
        runs' = Append(runs, RunOf(c, NotJudged))
    BY Zenon DEF Convert, RunOf
<1> DEFINE x == RunOf(c, NotJudged)
           n == Len(runs)
<1>3. task' = task /\ UNCHANGED covered /\ published' = Append(published, Unscored)
    BY Zenon DEF Convert
<1> HIDE DEF x
<1>5. /\ IsSequence(runs') /\ Len(runs') = n + 1
      /\ (\A k \in 1..n : runs'[k] = runs[k]) /\ runs'[n + 1] = x
    BY <1>1, <1>2, AppendIsSequence, Zenon DEF Kind, x
<1>6. /\ IsSequence(published') /\ Len(published') = n + 1
      /\ (\A k \in 1..n : published'[k] = published[k]) /\ published'[n + 1] = Unscored
    <2>1. Len(published) = n /\ IsSequence(published)
        BY <1>1, Zenon DEF Kind
    <2> HIDE DEF n
    <2>2. /\ IsSequence(published') /\ Len(published') = Len(published) + 1
          /\ (\A k \in 1..Len(published) : published'[k] = published[k])
          /\ published'[Len(published) + 1] = Unscored
        BY <1>3, <2>1, AppendIsSequence, Zenon
    <2>3. QED
        BY <2>1, <2>2, Zenon
<1>7. DOMAIN runs' = 1..(n + 1) /\ DOMAIN runs = 1..n /\ n \in Nat
    BY <1>1, <1>5, SequenceFacts, Zenon DEF Kind
<1>8. /\ DOMAIN runs \subseteq DOMAIN runs' /\ n + 1 \in DOMAIN runs'
      /\ \A r \in DOMAIN runs' : r \in DOMAIN runs \/ r = n + 1
    BY <1>7, SMT
<1>9. \A r \in DOMAIN runs' : RunOK(r)'
    <2>1. ASSUME NEW r \in DOMAIN runs PROVE RunOK(r)'
        <3>1. RunOK(r) /\ runs'[r] = runs[r]
            BY <1>1, <1>5, <1>7, Zenon DEF Kind
        <3>2. QED
            BY <1>3, <3>1, SameRun, Zenon
    <2>2. PICK m : m = n + 1
        OBVIOUS
    <2>3. RunOK(m)'
        <3>1. runs'[m] = x
            BY <1>5, <2>2
        <3>2. QED
            BY <1>3, <3>1, Zenon DEF RunOK, RunOf, x
    <2>4. \A r \in DOMAIN runs' : r \in DOMAIN runs \/ r = m
        BY <1>8, <2>2
    <2>5. QED
        BY <2>1, <2>3, <2>4, Zenon
<1>10. QED
    <2>1. Len(published') = Len(runs')
        BY <1>5, <1>6
    <2>2. \A r \in DOMAIN runs : runs'[r] = runs[r] /\ published'[r] = published[r]
        BY <1>5, <1>6, <1>7, Zenon
    <2>3. \A r \in (DOMAIN runs') \ DOMAIN runs : published'[r] = Unscored
        BY <1>6, <1>8, Zenon
    <2> HIDE DEF n
    <2>4. QED
        BY <1>3, <1>5, <1>6, <1>8, <1>9, <2>1, <2>2, <2>3, RunsKept, Zenon

LEMMA JudgeKeeps == ASSUME IInv, NEW r \in DOMAIN runs, Judge(r) PROVE IInv'
<1>1. Kind
    BY InvariantKind
<1>2. /\ runs[r].replay = NotJudged
      /\ runs' = [runs EXCEPT ![r].replay = Replay(runs[r].says)]
      /\ task' = task /\ published' = published /\ covered' = covered
    BY Zenon DEF Judge
<1> DEFINE n == Len(runs)
<1>3. DOMAIN runs = 1..n /\ n \in Nat
    BY <1>1, Zenon DEF Kind
<1>4. DOMAIN runs' = 1..n /\ runs' = [k \in 1..n |-> runs'[k]]
    BY <1>2, <1>3, Zenon
<1>5. IsSequence(runs') /\ Len(runs') = n
    <2> HIDE DEF n
    <2>1. PICK f : f = runs'
        OBVIOUS
    <2>2. PICK m : m = n
        OBVIOUS
    <2>3. m \in Nat /\ DOMAIN f = 1..m /\ f = [k \in 1..m |-> f[k]]
        BY <1>3, <1>4, <2>1, <2>2
    <2>4. IsSequence(f) /\ Len(f) = m
        BY <2>3, FunctionIsSequence, Zenon
    <2>5. QED
        BY <2>1, <2>2, <2>4
<1>6. \A o \in DOMAIN runs : is_judged(o) => runs'[o] = runs[o]
    <2>1. ~is_judged(r)
        BY <1>2, SMT DEF is_judged, NotJudged
    <2>2. QED
        BY <1>2, <2>1, Zenon
<1>7. \A o \in DOMAIN runs : RunOK(o)'
    <2>1. ASSUME NEW o \in DOMAIN runs, o # r PROVE RunOK(o)'
        <3>1. RunOK(o) /\ runs'[o] = runs[o]
            BY <1>1, <1>2, <2>1, Zenon DEF Kind
        <3>2. QED
            BY <1>2, <3>1, SameRun, Zenon
    <2>2. RunOK(r)'
        <3>1. PICK c \in task.candidates : \E replay : runs[r] = RunOf(c, replay)
            BY <1>1, Zenon DEF Kind, RunOK, RunOf
        <3>2. PICK replay : runs[r] = RunOf(c, replay)
            BY <3>1
        <3>3. runs[r].says = c.says
            BY <3>2 DEF RunOf
        <3>4. runs'[r] = [runs[r] EXCEPT !.replay = Replay(c.says)]
            BY <1>2, <3>3, Zenon
        <3>5. runs'[r] = RunOf(c, Replay(c.says))
            BY <3>2, <3>4 DEF RunOf
        <3>6. Replay(c.says)' = Replay(c.says)
            BY <1>2, Zenon DEF Replay
        <3>7. QED
            BY <1>2, <3>5, <3>6, Zenon DEF RunOK, RunOf
    <2>3. QED
        BY <2>1, <2>2
<1>8. IsSequence(published') /\ Len(published') = Len(runs')
    BY <1>1, <1>2, <1>5, Zenon DEF Kind
<1>9. QED
    BY <1>2, <1>3, <1>4, <1>5, <1>6, <1>7, <1>8, RunsKept, Zenon

\* The numbers a pass computes of a run it covers.
LEMMA CompositionFields ==
    ASSUME NEW r, NEW S
    PROVE  /\ Composition(r, S).eval = eval_score(r)
           /\ Composition(r, S).rl = combine(r, stratify(r, Stratum(r, S)))
           /\ Composition(r, S).process = process_score(r)
           /\ Composition(r, S).rubric = runs[r].replay.rubric
BY DEF Composition, rl_score

LEMMA StratumFacts ==
    ASSUME Kind, NEW S \in SUBSET DOMAIN runs, NEW r \in S
    PROVE  /\ r \in Stratum(r, S) /\ IsFiniteSet(Stratum(r, S))
           /\ \A o \in Stratum(r, S) : process_score(o) \in Shares
<1>1. IsFiniteSet(DOMAIN runs)
    <2>1. DOMAIN runs = 1..Len(runs) /\ Len(runs) \in Nat
        BY Zenon DEF Kind
    <2>2. 1 \in Int /\ Len(runs) \in Int
        BY <2>1, SMT
    <2>3. QED
        BY <2>1, <2>2, FS_Interval, Zenon
<1>2. Stratum(r, S) \in SUBSET DOMAIN runs /\ r \in Stratum(r, S)
    BY Zenon DEF Stratum
<1>3. \A o \in DOMAIN runs : process_score(o) \in Shares
    BY RunFacts, Zenon DEF Kind
<1>4. IsFiniteSet(Stratum(r, S))
    BY <1>1, <1>2, FS_Subset, Zenon
<1>5. QED
    BY <1>2, <1>3, <1>4, Zenon

LEMMA PassKeeps ==
    ASSUME IInv, NEW cover \in SUBSET DOMAIN runs, NEW prune, Pass(cover, prune)
    PROVE  IInv'
<1>1. Kind
    BY InvariantKind
<1>2. PICK S : S = {r \in cover : is_judged(r)}
    OBVIOUS
<1>3. S \in SUBSET DOMAIN runs /\ \A r \in S : is_judged(r)
    BY <1>2, Zenon
<1>4. /\ published' = [r \in DOMAIN runs |-> IF r \in S THEN Composition(r, S)
                                            ELSE IF r \in cover \/ prune THEN Unscored
                                            ELSE published[r]]
      /\ covered' = S /\ task' = task /\ runs' = runs
    BY <1>2, Zenon DEF Pass
<1>5. \A r \in DOMAIN runs :
        /\ r \in S => published'[r] = Composition(r, S)
        /\ r \notin S => published'[r] \in {Unscored, published[r]}
    BY <1>4, Zenon
<1>6. /\ IsSequence(runs') /\ \A r \in DOMAIN runs' : RunOK(r)'
    <2>1. \A r \in DOMAIN runs : RunOK(r)'
        BY <1>1, <1>4, SameRun, Zenon DEF Kind
    <2>2. QED
        BY <1>1, <1>4, <2>1, Zenon DEF Kind
<1>7. IsSequence(published') /\ Len(published') = Len(runs')
    <2>1. PICK f : f = published'
        OBVIOUS
    <2>2. PICK m : m = Len(runs)
        OBVIOUS
    <2>3. m \in Nat /\ DOMAIN runs = 1..m
        BY <1>1, <2>2, Zenon DEF Kind
    <2>4. DOMAIN f = 1..m /\ f = [k \in 1..m |-> f[k]]
        BY <1>4, <2>1, <2>3, Zenon
    <2>5. IsSequence(f) /\ Len(f) = m
        BY <2>3, <2>4, FunctionIsSequence, Zenon
    <2>6. QED
        BY <1>4, <2>1, <2>2, <2>5, Zenon
<1>8. \A r \in S : Composition(r, S)' = Composition(r, S)
    BY <1>4, SameComposition, Zenon
<1>9. ASSUME NEW r \in S PROVE is_judged(r)' /\ published'[r] = Composition(r, covered)'
    <2>1. is_judged(r)' /\ published'[r] = Composition(r, S)
        BY <1>3, <1>4, <1>5, SameRun, Zenon
    <2>2. Composition(r, covered)' = Composition(r, S)'
        BY <1>4, Zenon
    <2>3. QED
        BY <1>8, <2>1, <2>2, Zenon
<1>10. ASSUME NEW r \in DOMAIN runs, Scored(r)' PROVE Composed(r)'
    <2>1. /\ is_judged(r)' = is_judged(r) /\ process_score(r)' = process_score(r)
          /\ eval_score(r)' = eval_score(r) /\ \A p : combine(r, p)' = combine(r, p)
        BY <1>4, SameRun, Zenon
    <2>2. CASE r \in S
        <3>1. published'[r] = Composition(r, S) /\ is_judged(r)
            BY <1>3, <1>5, <2>2, Zenon
        <3> DEFINE place == stratify(r, Stratum(r, S))
        <3>2. /\ published'[r].eval = eval_score(r) /\ published'[r].rl = combine(r, place)
              /\ published'[r].process = process_score(r)
              /\ published'[r].rubric = runs[r].replay.rubric
            BY <3>1, CompositionFields, Zenon
        <3>3. place \in Shares
            BY <1>1, <1>3, <2>2, StratumFacts, StratifyFacts, Zenon
        <3>4. PICK p \in Shares : p = place
            BY <3>3
        <3>5. published'[r].rl = combine(r, p)'
            BY <2>1, <3>2, <3>4, Zenon
        <3>6. QED
            BY <1>4, <2>1, <3>1, <3>2, <3>5, Zenon DEF Composed
    <2>3. CASE r \notin S
        <3>1. published'[r] = published[r] /\ Scored(r)
            BY <1>5, <1>10, <2>3, Zenon DEF Scored, Unscored
        <3>2. Composed(r)
            BY <3>1, Zenon DEF IInv
        <3>3. QED
            BY <1>4, <2>1, <3>1, <3>2, Zenon DEF Composed
    <2>4. QED
        BY <2>2, <2>3
<1>11. QED
    <2>1. \A r \in DOMAIN runs' : RunOK(r)' /\ (Scored(r)' => Composed(r)')
        BY <1>4, <1>6, <1>10, Zenon
    <2>2. \A r \in covered' : is_judged(r)' /\ published'[r] = Composition(r, covered)'
        BY <1>4, <1>9, Zenon
    <2>3. task' \in Tasks /\ covered' \subseteq DOMAIN runs'
        BY <1>1, <1>3, <1>4, Zenon DEF Kind
    <2>4. QED
        BY <1>6, <1>7, <2>1, <2>2, <2>3, Zenon DEF IInv

\* A run stays what it was converted from and is judged once; what is published
\* of it composes its own numbers (build_trajectory, cmd_judge, cmd_score).
THEOREM Invariance == Spec => []IInv
<1>1. Init => IInv
    <2> SUFFICES ASSUME Init PROVE IInv
        OBVIOUS
    <2>1. task \in Tasks /\ runs = <<>> /\ published = <<>> /\ covered = {}
        BY Zenon DEF Init
    <2>2. <<>> \in Seq({}) /\ DOMAIN <<>> = {} /\ Len(<<>>) = 0
        BY SMT
    <2>3. IsSequence(<<>>)
        <3>1. {(<<>>)[k] : k \in DOMAIN <<>>} = {}
            BY <2>2
        <3>2. QED
            BY <2>2, <3>1, Zenon DEF IsSequence
    <2>4. QED
        BY <2>1, <2>2, <2>3, Zenon DEF IInv
<1>2. IInv /\ [Next]_vars => IInv'
    <2> SUFFICES ASSUME IInv, [Next]_vars PROVE IInv'
        OBVIOUS
    <2>1. CASE Convert
        BY <2>1, ConvertKeeps
    <2>2. ASSUME NEW r \in DOMAIN runs, Judge(r) PROVE IInv'
        BY <2>2, JudgeKeeps, Zenon
    <2>3. CASE FullPass
        BY <2>3, PassKeeps, Zenon DEF FullPass
    <2>4. CASE NarrowPass
        BY <2>4, PassKeeps, Zenon DEF NarrowPass
    <2>5. CASE UNCHANGED vars
        <3>1. task' = task /\ runs' = runs /\ published' = published /\ covered' = covered
            BY <2>5, Zenon DEF vars
        <3>2. Kind
            BY InvariantKind
        <3>3. \A r \in DOMAIN runs : RunOK(r)'
            BY <3>1, <3>2, SameRun, Zenon DEF Kind
        <3>4. QED
            BY <3>1, <3>2, <3>3, RunsKept, Zenon DEF Kind
    <2>6. QED
        BY <2>1, <2>2, <2>3, <2>4, <2>5, Zenon DEF Next
<1>3. QED
    BY <1>1, <1>2, PTL DEF Spec

-----------------------------------------------------------------------------
(* The orders.                                                             *)

\* What an open run's published numbers are.
LEMMA OpenFacts ==
    ASSUME IInv, NEW r \in DOMAIN runs, Open(r)
    PROVE  /\ runs[r].outcome \in Nat /\ process_score(r) \in Shares
           /\ published[r].process = process_score(r)
           /\ published[r].eval = Blend(steps, runs[r].outcome, process_score(r))
           /\ \E p \in Shares : published[r].rl = Blend(steps, runs[r].outcome, p)
           /\ published[r].rubric = runs[r].replay.rubric /\ runs[r].replay.rubric \in Shares
           /\ runs[r].replay = Replay(runs[r].says) /\ runs[r].soft \in 0..100
<1>1. task \in Tasks /\ RunOK(r) /\ Composed(r) /\ process_gate(r) = 1
    BY Zenon DEF IInv, Open
<1>2. /\ runs[r].outcome \in Nat /\ process_score(r) \in Shares
      /\ runs[r].replay \in {NotJudged, Replay(runs[r].says)}
      /\ runs[r].soft \in 0..100 /\ runs[r].replay.rubric \in Shares
    BY <1>1, RunFacts, Zenon
<1>3. \A p \in Shares : combine(r, p) = Blend(steps, runs[r].outcome, p)
    <2>1. Shares \subseteq Nat
        BY SMT DEF Shares
    <2>2. QED
        BY <1>1, <1>2, <2>1, OpenCombine, Zenon
<1>4. runs[r].replay # NotJudged
    BY <1>1, SMT DEF Composed, is_judged, NotJudged
<1>5. published[r].eval = Blend(steps, runs[r].outcome, process_score(r))
    BY <1>1, <1>2, <1>3, Zenon DEF Composed, eval_score
<1>6. QED
    BY <1>1, <1>2, <1>3, <1>4, <1>5, Zenon DEF Composed

\* An outcome that is better by a target, as the task's width counts targets, is
\* never turned round by process, whatever passes the two runs were scored in
\* (alpha_for_task, combine).
THEOREM GapIsKept == Spec => []GapKept
<1>1. IInv => GapKept
    <2> SUFFICES ASSUME IInv, NEW r \in DOMAIN runs, NEW q \in DOMAIN runs, Open(r), Open(q),
                        (runs[r].outcome - runs[q].outcome) * StepWidth >= 100
                 PROVE  /\ published[r].eval >= published[q].eval
                        /\ published[r].rl >= published[q].rl
        BY Zenon DEF GapKept, StepWidth
    <2>1. steps \in Nat /\ StepWidth \in Nat /\ StepWidth <= steps
        BY StepsCoverTargets, Zenon DEF IInv
    <2>2. runs[r].outcome \in Nat /\ runs[q].outcome \in Nat
        BY OpenFacts, Zenon
    <2>3. \A p, x \in Shares : Blend(steps, runs[r].outcome, p) >= Blend(steps, runs[q].outcome, x)
        BY <2>1, <2>2, BlendKeepsGap, Zenon
    <2>4. QED
        BY <2>3, OpenFacts, Zenon
<1>2. QED
    BY <1>1, Invariance, PTL

\* Within a pass and an outcome, score_rl orders runs as their process does, and
\* a spread of process too small to mean anything orders nothing (stratify,
\* _compose_group).
THEOREM RlIsOrdered == Spec => []RlOrdered
<1>1. IInv => RlOrdered
    <2> SUFFICES ASSUME IInv, NEW r \in covered, NEW q \in covered, Open(r), Open(q),
                        runs[r].outcome = runs[q].outcome
                 PROVE  /\ published[r].process >= published[q].process
                             => published[r].rl >= published[q].rl
                        /\ (\A o, x \in covered :
                              runs[o].outcome = runs[r].outcome /\ runs[x].outcome = runs[r].outcome
                                => published[o].process - published[x].process < FLAT_STRATUM)
                             => published[r].rl = published[q].rl
        BY Zenon DEF RlOrdered
    <2> DEFINE S == Stratum(r, covered)
               u == stratify(r, S)
               v == stratify(q, S)
    <2>1. Kind /\ covered \in SUBSET DOMAIN runs /\ task \in Tasks
        BY InvariantKind, Zenon DEF IInv
    <2>2. r \in DOMAIN runs /\ q \in DOMAIN runs
        BY <2>1
    <2>3. Stratum(q, covered) = S /\ r \in S /\ q \in S /\ S \subseteq covered
        BY Zenon DEF Stratum
    <2>4. \A o \in covered : published[o] = Composition(o, covered)
        BY Zenon DEF IInv
    <2>5. /\ \A o \in covered : published[o].process = process_score(o)
          /\ published[r].rl = combine(r, u) /\ published[q].rl = combine(q, v)
        BY <2>3, <2>4, CompositionFields, ZenonT(40)
    <2>6. IsFiniteSet(S) /\ \A o \in S : process_score(o) \in Shares
        BY <2>1, StratumFacts, Zenon
    <2> HIDE DEF S
    <2>7. /\ u \in Shares /\ v \in Shares
          /\ process_score(r) >= process_score(q) => u >= v
          /\ ~Spread(S) => u = v
        BY <2>3, <2>6, StratifyFacts, Zenon
    <2> HIDE DEF u, v
    <2>8. u \in Nat /\ v \in Nat /\ (u >= v => v <= u)
        BY <2>7, SMT DEF Shares
    <2>9. /\ runs[r].outcome \in Nat /\ process_gate(r) = 1
          /\ runs[q].outcome \in Nat /\ process_gate(q) = 1
        BY <2>2, OpenFacts, Zenon DEF Open
    <2>10. /\ published[r].rl = Blend(steps, runs[r].outcome, u)
           /\ published[q].rl = Blend(steps, runs[r].outcome, v)
        BY <2>1, <2>5, <2>8, <2>9, OpenCombine, ZenonT(40)
    <2>11. ASSUME published[r].process >= published[q].process
           PROVE  published[r].rl >= published[q].rl
        <3>1. v <= u
            BY <2>5, <2>7, <2>8, <2>11, Zenon
        <3>2. steps \in Nat
            BY <2>1, StepsCoverTargets, Zenon
        <3> DEFINE a == Blend(steps, runs[r].outcome, v)
                   b == Blend(steps, runs[r].outcome, u)
        <3>3. a <= b /\ a \in Nat /\ b \in Nat
            BY <2>8, <2>9, <3>1, <3>2, BlendMonotone, BlendIsNatural, Zenon
        <3> HIDE DEF a, b
        <3>4. b >= a
            BY <3>3, SMT
        <3>5. QED
            BY <2>10, <3>4, Zenon DEF a, b
    <2>12. ASSUME \A o, x \in covered :
                    runs[o].outcome = runs[r].outcome /\ runs[x].outcome = runs[r].outcome
                      => published[o].process - published[x].process < FLAT_STRATUM
           PROVE  published[r].rl = published[q].rl
        <3>1. \A o \in S : o \in covered /\ runs[o].outcome = runs[r].outcome
                           /\ published[o].process = process_score(o)
            BY <2>5, Zenon DEF S, Stratum
        <3>2. ~Spread(S)
            BY <2>12, <3>1, SMT DEF Spread
        <3>3. QED
            BY <2>7, <2>10, <3>2, Zenon
    <2>13. QED
        BY <2>11, <2>12, Zenon
<1>2. QED
    BY <1>1, Invariance, PTL

\* A test that a run stops besides, by failing or skipping it, lowers an outcome
\* of a fifth or more (ScoreV2's factor).
THEOREM BreakingAlwaysCosts == Spec => []BreakingCosts
<1>1. IInv => BreakingCosts
    <2> DEFINE gold == Gold(task.record)
    <2> SUFFICES ASSUME IInv, NEW r \in DOMAIN runs, NEW q \in DOMAIN runs,
                        runs[r].report.test = runs[q].report.test,
                        HitsNew(gold, runs[r].report) = HitsNew(gold, runs[q].report),
                        Stops(r) \subseteq Stops(q), Stops(r) # Stops(q),
                        Cardinality(Targets(gold)) <= R0 \/ Cardinality(KeptTests(r)) <= R0,
                        runs[r].outcome >= 20
                 PROVE  runs[r].outcome > runs[q].outcome
        BY Zenon DEF BreakingCosts
    <2> DEFINE a == runs[r].report
               b == runs[q].report
    <2>1. /\ RecordOK(task.record) /\ ReportOK(a) /\ ReportOK(b)
          /\ runs[r].outcome = compute_score_v2g(task.record, a).score
          /\ runs[q].outcome = compute_score_v2g(task.record, b).score
        BY TaskFacts, RunFacts, Zenon DEF IInv
    <2>2. Status(task.record, a) = "scored"
        <3>1. Status(task.record, a) # "scored" => runs[r].outcome = 0
            BY <2>1, OutcomeIsFormula, Zenon
        <3>2. QED
            BY <3>1, SMT
    <2>3. CASE Status(task.record, b) # "scored"
        <3>1. runs[q].outcome = 0
            BY <2>1, <2>3, OutcomeIsFormula, Zenon
        <3>2. runs[r].outcome \in Nat
            BY RunFacts, Zenon DEF IInv
        <3>3. QED
            BY <3>1, <3>2, SMT
    <2>4. CASE Status(task.record, b) = "scored"
        <3> DEFINE hits == Cardinality(HitsNew(gold, a))
                   left == Cardinality(EffectiveTargets(gold, a))
                   few  == Cardinality(Broken(gold, a))
                   more == Cardinality(Broken(gold, b))
        <3>1. /\ EffectiveTargets(gold, b) = EffectiveTargets(gold, a)
              /\ PreserveSet(gold, b) = PreserveSet(gold, a)
              /\ KeptTests(r) = PreserveSet(gold, a)
              /\ Stops(r) = Broken(gold, a) /\ Stops(q) = Broken(gold, b)
            BY Zenon DEF EffectiveTargets, PreserveSet, KeptTests, Stops, Broken
        <3>2. /\ left \in Nat \ {0} /\ hits \in Nat /\ hits <= left
              /\ few \in Nat /\ more \in Nat /\ IsFiniteSet(Broken(gold, b))
            BY <2>1, <2>2, <2>4, ScoredCounts, Zenon
        <3>3. few < more
            <4> DEFINE A == Broken(gold, a)
                       B == Broken(gold, b)
            <4>1. A \in SUBSET B /\ A # B /\ IsFiniteSet(B)
                BY <3>1, <3>2, Zenon
            <4> HIDE DEF A, B
            <4>2. Cardinality(A) <= Cardinality(B) /\ Cardinality(A) # Cardinality(B)
                BY <4>1, FS_Subset, Zenon
            <4>3. few <= more /\ few # more
                BY <4>2 DEF A, B
            <4> HIDE DEF few, more
            <4>4. QED
                BY <3>2, <4>3, SMT
        <3>4. Width(gold, a) = 20 /\ Width(gold, b) = 20
            <4> DEFINE n == Cardinality(PreserveSet(gold, a))
                       m == Cardinality(Targets(gold))
            <4>1. /\ Width(gold, a) = Larger(20, Smaller(Larger(1, n), m))
                  /\ Width(gold, b) = Larger(20, Smaller(Larger(1, n), m))
                BY <3>1, Zenon DEF Width, R0
            <4>2. m <= 20 \/ n <= 20
                BY <3>1, Zenon DEF R0
            <4>3. n \in Nat /\ m \in Nat
                <5>1. /\ IsFiniteSet(Targets(gold)) /\ IsFiniteSet(gold.p2p)
                      /\ IsFiniteSet(a.test.passed)
                    BY <2>1, GoldIsFinite, Zenon DEF ReportOK, FiniteStage
                <5> HIDE DEF gold, a
                <5>2. IsFiniteSet(PreserveSet(gold, a))
                    BY <5>1, FS_Union, Zenon DEF PreserveSet
                <5>3. QED
                    BY <5>1, <5>2, FS_CardinalityType, Zenon
            <4> HIDE DEF n, m
            <4>4. Larger(20, Smaller(Larger(1, n), m)) = 20
                BY <4>2, <4>3, SMT DEF Larger, Smaller
            <4>5. QED
                BY <4>1, <4>4, Zenon
        <3>5. /\ runs[r].outcome = Formula(hits, left, few, 20)
              /\ runs[q].outcome = Formula(hits, left, more, 20)
            <4>1. runs[r].outcome = Formula(hits, left, few, Width(gold, a))
                BY <2>1, <2>2, OutcomeIsFormula, Zenon
            <4>2. runs[q].outcome = Formula(Cardinality(HitsNew(gold, b)),
                                            Cardinality(EffectiveTargets(gold, b)),
                                            more, Width(gold, b))
                BY <2>1, <2>4, OutcomeIsFormula, Zenon
            <4>3. HitsNew(gold, b) = HitsNew(gold, a)
                OBVIOUS
            <4> HIDE DEF gold, a, b
            <4>4. QED
                BY <3>1, <3>4, <4>1, <4>2, <4>3, Zenon
        <3> HIDE DEF hits, left, few, more
        <3>6. Formula(hits, left, few, 20) >= 20
            BY <3>5
        <3>7. QED
            BY <3>2, <3>3, <3>5, <3>6, FormulaFalls, Zenon
    <2>5. QED
        BY <2>3, <2>4
<1>2. QED
    BY <1>1, Invariance, PTL

\* Of two runs that differ only in one guardrail, the one that trips it has no
\* better scores, also when nothing was judged of it in the other run and when
\* both are below zero, and a lower rubric score where four decimals can tell
\* (RubricReport.raw, score).
THEOREM TrippingAlwaysCosts == Spec => []TrippingCosts
<1>1. IInv => TrippingCosts
    <2> SUFFICES ASSUME IInv, NEW r \in DOMAIN runs, NEW q \in DOMAIN runs,
                        NEW g \in DOMAIN task.items, Open(r), Open(q),
                        runs[r].soft = runs[q].soft, runs[r].outcome = runs[q].outcome,
                        task.items[g].weight < 0,
                        Found(r)[g] # "yes", Found(q)[g] = "yes",
                        \A i \in DOMAIN task.items \ {g} : Found(r)[i] = Found(q)[i]
                 PROVE  /\ published[q].rubric <= published[r].rubric
                        /\ published[q].eval <= published[r].eval
                        /\ Tells(runs[r].replay.positive, raw(task.items, Found(r)),
                                 raw(task.items, Found(q)))
                             => published[q].rubric < published[r].rubric
        BY Zenon DEF TrippingCosts
    <2>1. /\ \A o \in {r, q} : runs[o].replay.rubric = score(task.items, Found(o))
          /\ runs[r].replay.positive = denominator(task.items, Found(r))
        <3>1. \A o \in {r, q} : runs[o].replay = Replay(runs[o].says)
            BY OpenFacts, Zenon
        <3>2. \A says : /\ Replay(says).rubric = score(task.items, Replay(says).found)
                        /\ Replay(says).positive = denominator(task.items, Replay(says).found)
            BY DEF Replay
        <3>3. QED
            BY <3>1, <3>2, Zenon DEF Found
    <2>2. Weighed(task.items) /\ Trips(task.items, Found(r), Found(q), g)
        BY TaskFacts, Zenon DEF IInv, Trips
    <2>3. score(task.items, Found(q)) <= score(task.items, Found(r))
        BY <2>2, ScoreFalls, Zenon
    <2>4. runs[q].replay.rubric <= runs[r].replay.rubric
        BY <2>1, <2>3, Zenon
    <2>5. process_score(q) <= process_score(r)
        <3>1. /\ runs[r].soft \in 0..100
              /\ runs[q].replay.rubric \in Shares /\ runs[r].replay.rubric \in Shares
            BY OpenFacts, Zenon
        <3>2. QED
            BY <2>4, <3>1, HalfMonotone DEF process_score
    <2>6. steps \in Nat
        BY StepsCoverTargets, Zenon DEF IInv
    <2>7. /\ runs[r].outcome \in Nat /\ process_score(r) \in Nat /\ process_score(q) \in Nat
        <3>1. Shares \subseteq Nat
            BY SMT DEF Shares
        <3>2. QED
            BY <3>1, OpenFacts, Zenon
    <2>8. Blend(steps, runs[r].outcome, process_score(q)) <= Blend(steps, runs[r].outcome, process_score(r))
        BY <2>5, <2>6, <2>7, BlendMonotone, Zenon
    <2>9. ASSUME Tells(runs[r].replay.positive, raw(task.items, Found(r)), raw(task.items, Found(q)))
          PROVE  runs[q].replay.rubric < runs[r].replay.rubric
        <3>1. runs[r].replay.positive > 0
            BY Zenon DEF IInv, Open, Composed, is_judged
        <3>2. score(task.items, Found(q)) < score(task.items, Found(r))
            BY <2>1, <2>2, <2>9, <3>1, ScoreDrops, Zenon
        <3>3. QED
            BY <2>1, <3>2, Zenon
    <2>10. QED
        BY <2>4, <2>8, <2>9, OpenFacts, Zenon
<1>2. QED
    BY <1>1, Invariance, PTL
=============================================================================
