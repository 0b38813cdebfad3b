------------------------- MODULE Subsequences_proofs -------------------------
(***************************************************************************)
(* What Kept returns, for every sequence and every set.                    *)
(*                                                                         *)
(* The induction theorems of the library take an operator as a parameter.  *)
(* Here induction is stated for a set of numbers instead (NatSetInduction) *)
(* and follows from the well-foundedness of < on Nat.  It gives the        *)
(* existence of the recursive function Kept is defined by, and then the    *)
(* indices Kept takes its elements from (KeptIndices), from which the rest *)
(* follows.                                                                *)
(***************************************************************************)
EXTENDS Subsequences, SequencesExt, WellFoundedInduction, SequenceTheorems, FiniteSetTheorems, TLAPS

Less == {p \in Nat \X Nat : p[1] < p[2]}

LEMMA LessWellFounded == IsWellFoundedOn(Less, Nat)
BY NatLessThanWellFounded, Zenon DEF OpToRel, Less

\* Induction over the natural numbers, for a set.
LEMMA NatSetInduction ==
    ASSUME NEW N, N \subseteq Nat, 0 \in N, \A n \in N : n + 1 \in N
    PROVE  N = Nat
<1>1. SUFFICES ASSUME Nat \ N # {} PROVE FALSE
    OBVIOUS
<1>2. PICK x \in Nat \ N : \A y \in Nat \ N : ~(<<y, x>> \in Less)
    BY <1>1, WFMin, LessWellFounded, Zenon
<1>3. x - 1 \in Nat \ N
    BY SMT
<1>4. <<x - 1, x>> \in Less
    BY <1>3, SMT DEF Less
<1>5. QED
    BY <1>2, <1>3, <1>4, Zenon

-----------------------------------------------------------------------------
(* The recursive function exists.                                          *)

Body(s, S, f, n) ==
    IF n = 0 THEN <<>> ELSE IF s[n] \in S THEN Append(f[n - 1], s[n]) ELSE f[n - 1]

IsUpto(s, S, n, f) == f = [k \in 0..n |-> Body(s, S, f, k)]

Upto(s, S) == CHOOSE f : IsUpto(s, S, Len(s), f)

LEMMA KeptIsUpto == ASSUME NEW s, NEW S PROVE Kept(s, S) = Upto(s, S)[Len(s)]
BY Zenon DEF Kept, Upto, IsUpto, Body

LEMMA UptoExists ==
    ASSUME NEW s, NEW S, NEW n \in Nat
    PROVE  \E f : IsUpto(s, S, n, f)
<1> DEFINE N == {k \in Nat : \E f : IsUpto(s, S, k, f)}
<1>1. 0 \in N
    <2> DEFINE f == [k \in 0..0 |-> <<>>]
    <2>1. IsUpto(s, S, 0, f)
        BY SMT DEF IsUpto, Body
    <2> HIDE DEF f
    <2>2. 0 \in Nat
        BY SMT
    <2>3. QED
        BY <2>1, <2>2, Zenon
<1>2. ASSUME NEW k \in N PROVE k + 1 \in N
    <2>1. PICK f : IsUpto(s, S, k, f)
        BY DEF N
    <2>2. k \in Nat
        BY DEF N
    <2> DEFINE g == [m \in 0..(k + 1) |-> IF m = k + 1 THEN Body(s, S, f, k + 1) ELSE f[m]]
    <2>3. \A m \in 0..k : f[m] = Body(s, S, f, m)
        BY <2>1, Zenon DEF IsUpto
    <2>4. \A m \in 0..(k + 1) : m # 0 => g[m - 1] = f[m - 1]
        BY <2>2, SMT
    <2>5. \A m \in 0..(k + 1) : Body(s, S, g, m) = Body(s, S, f, m)
        <3> HIDE DEF g
        <3>1. QED
            BY <2>4, Zenon DEF Body
    <2>6. \A m \in 0..(k + 1) : g[m] = Body(s, S, f, m)
        BY <2>2, <2>3, SMT
    <2>7. g = [m \in 0..(k + 1) |-> Body(s, S, g, m)]
        BY <2>5, <2>6, Zenon
    <2>8. k + 1 \in Nat /\ IsUpto(s, S, k + 1, g)
        BY <2>2, <2>7, SMT DEF IsUpto
    <2>9. QED
        BY <2>8, Zenon
<1> HIDE DEF N
<1>3. N = Nat
    <2>1. N \subseteq Nat
        BY DEF N
    <2>2. QED
        BY <1>1, <1>2, <2>1, NatSetInduction, Zenon
<1>4. QED
    BY <1>3 DEF N

LEMMA UptoIsUpto ==
    ASSUME NEW s, NEW S, Len(s) \in Nat
    PROVE  IsUpto(s, S, Len(s), Upto(s, S))
BY UptoExists, Zenon DEF Upto

-----------------------------------------------------------------------------
(* The indices.                                                            *)

\* g leads from the positions of u to the positions among the first n of s whose
\* elements are in S, in their order.
Indices(s, S, n, u, g) ==
    /\ g \in [1..Len(u) -> 1..n]
    /\ \A j, k \in 1..Len(u) : j < k => g[j] < g[k]
    /\ \A k \in 1..Len(u) : u[k] = s[g[k]] /\ s[g[k]] \in S
    /\ \A i \in 1..n : s[i] \in S => \E k \in 1..Len(u) : g[k] = i

LEMMA Appended ==
    ASSUME NEW T, NEW u \in Seq(T), NEW x \in T
    PROVE  /\ Append(u, x) \in Seq(T) /\ Len(Append(u, x)) = Len(u) + 1 /\ Len(u) \in Nat
           /\ \A i \in 1..Len(u) : Append(u, x)[i] = u[i]
           /\ Append(u, x)[Len(u) + 1] = x
BY SMT

LEMMA UptoIndices ==
    ASSUME NEW T, NEW s \in Seq(T), NEW S, NEW n \in 0..Len(s)
    PROVE  Upto(s, S)[n] \in Seq(T) /\ \E g : Indices(s, S, n, Upto(s, S)[n], g)
<1> DEFINE f == Upto(s, S)
           Good(k) == f[k] \in Seq(T) /\ \E g : Indices(s, S, k, f[k], g)
           N == {k \in Nat : k <= Len(s) => Good(k)}
<1>1. Len(s) \in Nat /\ DOMAIN s = 1..Len(s) /\ \A i \in 1..Len(s) : s[i] \in T
    BY SMT
<1>2. \A k \in 0..Len(s) : f[k] = Body(s, S, f, k)
    <2>1. f = [k \in 0..Len(s) |-> Body(s, S, f, k)]
        BY <1>1, UptoIsUpto, Zenon DEF IsUpto
    <2> HIDE DEF f
    <2>2. QED
        BY <2>1, Zenon
<1> HIDE DEF f
<1>3. 0 \in N
    <2>1. f[0] = <<>>
        BY <1>1, <1>2, SMT DEF Body
    <2>2. Indices(s, S, 0, <<>>, [k \in 1..0 |-> 1])
        BY SMT DEF Indices
    <2>3. 0 \in Nat /\ <<>> \in Seq(T)
        BY SMT
    <2>4. QED
        BY <2>1, <2>2, <2>3, Zenon
<1>4. ASSUME NEW k \in N PROVE k + 1 \in N
    <2>1. SUFFICES ASSUME k + 1 <= Len(s) PROVE Good(k + 1)
        BY SMT
    <2>2. k \in Nat /\ k \in 0..Len(s) /\ k + 1 \in 1..Len(s) /\ k + 1 \in 0..Len(s)
        BY <1>1, <2>1, SMT
    <2>3. f[k] \in Seq(T)
        BY <2>2, SMT
    <2>4. PICK g : Indices(s, S, k, f[k], g)
        BY <2>2, SMT
    <2>5. f[k + 1] = IF s[k + 1] \in S THEN Append(f[k], s[k + 1]) ELSE f[k]
        BY <1>2, <2>2, SMT DEF Body
    <2> DEFINE u == f[k]
               x == s[k + 1]
    <2>6. x \in T
        BY <1>1, <2>2
    <2>7. CASE x \in S
        <3> DEFINE h == [i \in 1..Len(Append(u, x)) |-> IF i = Len(u) + 1 THEN k + 1 ELSE g[i]]
        <3>1. /\ Append(u, x) \in Seq(T) /\ Len(Append(u, x)) = Len(u) + 1 /\ Len(u) \in Nat
              /\ \A i \in 1..Len(u) : Append(u, x)[i] = u[i]
              /\ Append(u, x)[Len(u) + 1] = x
            <4>1. u \in Seq(T)
                BY <2>3
            <4> HIDE DEF u, x
            <4>2. QED
                BY <2>6, <4>1, Appended, Zenon
        <3> HIDE DEF u
        <3>2. /\ g \in [1..Len(u) -> 1..k]
              /\ \A i, j \in 1..Len(u) : i < j => g[i] < g[j]
              /\ \A i \in 1..Len(u) : u[i] = s[g[i]] /\ s[g[i]] \in S
              /\ \A i \in 1..k : s[i] \in S => \E j \in 1..Len(u) : g[j] = i
            BY <2>4, Zenon DEF Indices, u
        <3>3. h \in [1..Len(Append(u, x)) -> 1..(k + 1)]
            BY <2>2, <3>1, <3>2, SMT
        <3>4. \A i, j \in 1..Len(Append(u, x)) : i < j => h[i] < h[j]
            <4>1. \A i \in 1..(Len(u) + 1) : h[i] = IF i = Len(u) + 1 THEN k + 1 ELSE g[i]
                BY <3>1, Zenon
            <4>2. \A i \in 1..Len(u) : g[i] \in 1..k
                BY <3>2, Zenon
            <4> HIDE DEF h
            <4>3. \A i, j \in 1..(Len(u) + 1) : i < j => h[i] < h[j]
                <5>1. SUFFICES ASSUME NEW i \in 1..(Len(u) + 1), NEW j \in 1..(Len(u) + 1), i < j
                               PROVE  h[i] < h[j]
                    OBVIOUS
                <5>2. i \in 1..Len(u) /\ (j = Len(u) + 1 \/ j \in 1..Len(u))
                    BY <3>1, <5>1, SMT
                <5>3. i # Len(u) + 1 /\ (j \in 1..Len(u) => j # Len(u) + 1)
                    BY <3>1, <5>2, SMT
                <5>4. h[i] = g[i] /\ g[i] \in 1..k
                    BY <4>1, <4>2, <5>1, <5>2, <5>3, Zenon
                <5>5. h[j] = k + 1 \/ (h[j] = g[j] /\ g[i] < g[j])
                    BY <3>2, <4>1, <5>1, <5>2, <5>3, Zenon
                <5>6. QED
                    BY <2>2, <5>4, <5>5, SMT
            <4>4. QED
                BY <3>1, <4>3, Zenon
        <3>5. \A i \in 1..Len(Append(u, x)) : Append(u, x)[i] = s[h[i]] /\ s[h[i]] \in S
            BY <2>2, <2>7, <3>1, <3>2, SMT
        <3>6. ASSUME NEW i \in 1..(k + 1), s[i] \in S
              PROVE  \E j \in 1..Len(Append(u, x)) : h[j] = i
            <4>1. CASE i = k + 1
                <5>1. Len(u) + 1 \in 1..Len(Append(u, x)) /\ h[Len(u) + 1] = i
                    BY <3>1, <4>1, SMT
                <5>2. QED
                    BY <5>1, Zenon
            <4>2. CASE i # k + 1
                <5>1. i \in 1..k
                    BY <2>2, <4>2, SMT
                <5>2. PICK j \in 1..Len(u) : g[j] = i
                    BY <3>2, <3>6, <5>1, Zenon
                <5>3. j \in 1..Len(Append(u, x)) /\ h[j] = i
                    BY <3>1, <5>2, SMT
                <5>4. QED
                    BY <5>3, Zenon
            <4>3. QED
                BY <4>1, <4>2
        <3> HIDE DEF h
        <3>7. Indices(s, S, k + 1, Append(u, x), h)
            BY <3>3, <3>4, <3>5, <3>6, Zenon DEF Indices
        <3>8. QED
            BY <2>5, <2>7, <3>1, <3>7, Zenon DEF u
    <2>8. CASE x \notin S
        <3>1. g \in [1..Len(u) -> 1..(k + 1)]
            BY <2>2, <2>3, <2>4, SMT DEF Indices
        <3>2. \A i \in 1..(k + 1) : s[i] \in S => i \in 1..k
            BY <2>2, <2>8, SMT
        <3>3. Indices(s, S, k + 1, u, g)
            BY <2>4, <3>1, <3>2, Zenon DEF Indices
        <3>4. QED
            BY <2>3, <2>5, <2>8, <3>3, Zenon
    <2>9. QED
        BY <2>7, <2>8
<1> HIDE DEF Good
<1>5. N = Nat
    <2>1. N \subseteq Nat
        OBVIOUS
    <2> HIDE DEF N
    <2>2. QED
        BY <1>3, <1>4, <2>1, NatSetInduction, Zenon
<1>6. Good(n)
    BY <1>1, <1>5, SMT
<1>7. QED
    BY <1>6 DEF Good, f

\* Kept keeps the elements of S with their order and their number.
THEOREM KeptIndices ==
    ASSUME NEW T, NEW s \in Seq(T), NEW S
    PROVE  Kept(s, S) \in Seq(T) /\ \E g : Indices(s, S, Len(s), Kept(s, S), g)
<1>1. Len(s) \in 0..Len(s)
    BY SMT
<1>2. QED
    BY <1>1, UptoIndices, KeptIsUpto, Zenon

\* Its set of elements.
LEMMA KeptElements ==
    ASSUME NEW T, NEW s \in Seq(T), NEW S
    PROVE  ToSet(Kept(s, S)) = ToSet(s) \cap S
<1> DEFINE u == Kept(s, S)
<1>1. u \in Seq(T)
    BY KeptIndices, Zenon
<1>2. PICK g : Indices(s, S, Len(s), u, g)
    BY KeptIndices, Zenon
<1> HIDE DEF u
<1>3. ToSet(u) = {u[k] : k \in 1..Len(u)} /\ ToSet(s) = {s[k] : k \in 1..Len(s)}
    BY <1>1, SMT DEF ToSet
<1>4. QED
    BY <1>2, <1>3, SMT DEF Indices, u

\* An element of the subsequence stands for one element of the sequence.
LEMMA KeptPlaces ==
    ASSUME NEW T, NEW s \in Seq(T), NEW S
    PROVE  \E g \in [1..Len(Kept(s, S)) -> 1..Len(s)] :
              \A j, k \in 1..Len(Kept(s, S)) :
                  /\ Kept(s, S)[j] = s[g[j]]
                  /\ g[j] = g[k] => j = k
<1> DEFINE u == Kept(s, S)
<1>1. Len(u) \in Nat /\ Len(s) \in Nat
    BY KeptIndices, LenProperties, Zenon
<1>2. PICK g : Indices(s, S, Len(s), u, g)
    BY KeptIndices, Zenon
<1> HIDE DEF u
<1>3. \A j, k \in 1..Len(u) : g[j] \in Int /\ (j < k => g[j] < g[k])
    BY <1>1, <1>2, SMT DEF Indices
<1>4. \A j, k \in 1..Len(u) : g[j] = g[k] => j = k
    BY <1>1, <1>3, SMT
<1>5. QED
    BY <1>2, <1>4, Zenon DEF Indices, u

-----------------------------------------------------------------------------
(* Other sequences that lists of work are made of.                         *)

LEMMA Elements ==
    ASSUME NEW T, NEW s \in Seq(T)
    PROVE  /\ ToSet(s) \subseteq T /\ DOMAIN s = 1..Len(s) /\ Len(s) \in Nat
           /\ ToSet(s) = {s[k] : k \in 1..Len(s)}
           /\ s = <<>> <=> ToSet(s) = {}
<1>1. Len(s) \in Nat /\ DOMAIN s = 1..Len(s) /\ \A k \in 1..Len(s) : s[k] \in T
    BY SMT
<1>2. s = <<>> <=> Len(s) = 0
    BY SMT
<1>3. ToSet(s) = {s[k] : k \in 1..Len(s)}
    BY <1>1, Zenon DEF ToSet
<1>4. Len(s) = 0 <=> 1..Len(s) = {}
    <2>1. Len(s) # 0 => 1 \in 1..Len(s)
        BY <1>1, SMT
    <2>2. Len(s) = 0 => \A k \in 1..Len(s) : FALSE
        BY <1>1, SMT
    <2>3. QED
        BY <2>1, <2>2, Zenon
<1>5. QED
    BY <1>1, <1>2, <1>3, <1>4

LEMMA AppendElements ==
    ASSUME NEW T, NEW s \in Seq(T), NEW x \in T
    PROVE  ToSet(Append(s, x)) = ToSet(s) \cup {x}
<1>1. ToSet(s) = {s[k] : k \in 1..Len(s)}
    BY Elements, Zenon
<1>2. ToSet(Append(s, x)) = {Append(s, x)[k] : k \in 1..(Len(s) + 1)}
    <2>1. DOMAIN Append(s, x) = 1..(Len(s) + 1)
        BY SMT
    <2>2. QED
        BY <2>1, Zenon DEF ToSet
<1>3. /\ Len(s) \in Nat /\ \A i \in 1..Len(s) : Append(s, x)[i] = s[i]
      /\ Append(s, x)[Len(s) + 1] = x
    BY Appended
<1>4. QED
    BY <1>1, <1>2, <1>3, SMT

\* The first element of a sequence without repetition, and the rest of it.
LEMMA TailElements ==
    ASSUME NEW T, NEW s \in Seq(T), s # <<>>, IsInjective(s)
    PROVE  /\ Head(s) \in T /\ Tail(s) \in Seq(T) /\ IsInjective(Tail(s))
           /\ ToSet(s) = {Head(s)} \cup ToSet(Tail(s)) /\ Head(s) \notin ToSet(Tail(s))
           /\ Tail(s) = <<>> <=> Len(s) = 1
<1>1. /\ Len(s) \in Nat \ {0} /\ DOMAIN s = 1..Len(s)
      /\ Head(s) = s[1] /\ Head(s) \in T /\ Tail(s) \in Seq(T) /\ Len(Tail(s)) = Len(s) - 1
      /\ DOMAIN Tail(s) = 1..(Len(s) - 1) /\ \A k \in 1..(Len(s) - 1) : Tail(s)[k] = s[k + 1]
    BY SMT
<1>2. \A j, k \in 1..Len(s) : s[j] = s[k] => j = k
    BY <1>1, Zenon DEF IsInjective
<1>3. IsInjective(Tail(s))
    BY <1>1, <1>2, SMT DEF IsInjective
<1>4. ToSet(s) = {s[k] : k \in 1..Len(s)} /\ ToSet(Tail(s)) = {Tail(s)[k] : k \in 1..(Len(s) - 1)}
    BY <1>1, Zenon DEF ToSet
<1>5. ToSet(s) = {Head(s)} \cup ToSet(Tail(s))
    <2>1. ASSUME NEW x \in ToSet(s) PROVE x = s[1] \/ x \in ToSet(Tail(s))
        <3>1. PICK k \in 1..Len(s) : x = s[k]
            BY <1>4
        <3>2. CASE k = 1
            BY <3>1, <3>2
        <3>3. CASE k # 1
            <4>1. k - 1 \in 1..(Len(s) - 1) /\ Tail(s)[k - 1] = x
                BY <1>1, <3>1, <3>3, SMT
            <4>2. QED
                BY <1>4, <4>1
        <3>4. QED
            BY <3>2, <3>3
    <2>2. ASSUME NEW x \in ToSet(Tail(s)) PROVE x \in ToSet(s)
        <3>1. PICK k \in 1..(Len(s) - 1) : x = Tail(s)[k]
            BY <1>4
        <3>2. k + 1 \in 1..Len(s) /\ x = s[k + 1]
            BY <1>1, <3>1, SMT
        <3>3. QED
            BY <1>4, <3>2
    <2>3. s[1] \in ToSet(s)
        BY <1>1, <1>4, SMT
    <2>4. QED
        BY <1>1, <2>1, <2>2, <2>3
<1>6. Head(s) \notin ToSet(Tail(s))
    BY <1>1, <1>2, <1>4, SMT
<1>7. Tail(s) = <<>> <=> Len(s) = 1
    BY <1>1, SMTT(40)
<1>8. QED
    BY <1>1, <1>3, <1>5, <1>6, <1>7

\* SetToSeq enumerates a finite set, each element once.
LEMMA SetToSeqElements ==
    ASSUME NEW S, IsFiniteSet(S)
    PROVE  SetToSeq(S) \in Seq(S) /\ IsInjective(SetToSeq(S)) /\ ToSet(SetToSeq(S)) = S
<1> DEFINE n == Cardinality(S)  f == SetToSeq(S)
<1>1. n \in Nat /\ ExistsBijection(1..n, S)
    BY FS_CardinalityType, Zenon
<1>2. \E h \in [1..n -> S] : IsInjective(h)
    BY <1>1, Zenon DEF ExistsBijection, Bijection, Injection
<1>3. f \in [1..n -> S] /\ IsInjective(f)
    BY <1>2, Zenon DEF SetToSeq
<1> HIDE DEF f
<1>4. f \in Injection(1..n, S)
    BY <1>3, Zenon DEF Injection
<1>5. IsFiniteSet(1..n) /\ Cardinality(1..n) = n
    BY <1>1, FS_Interval, SMT
<1>6. f \in Surjection(1..n, S)
    BY <1>4, <1>5, FS_Injection, Zenon DEF n
<1>7. ToSet(f) = S
    BY <1>3, <1>6, SMT DEF ToSet, Surjection
<1>8. f \in Seq(S)
    BY <1>1, <1>3, SMT
<1>9. QED
    BY <1>3, <1>7, <1>8 DEF f
=============================================================================
