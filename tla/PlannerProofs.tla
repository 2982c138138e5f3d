------------------------------ MODULE PlannerProofs ------------------------------
(* What the planner's operators return, for every input.                            *)
EXTENDS AllocationPlanner, FiniteSetTheorems, TLAPS

LEMMA LeastNat ==
  ASSUME NEW S \in SUBSET Nat, S # {}
  PROVE  \E x \in S : \A y \in S : x <= y
<1>1. PICK x \in S : \A y \in S : ~(<<y, x>> \in OpToRel(<, Nat))
  BY NatLessThanWellFounded, WFMin
<1>2. ASSUME NEW y \in S PROVE x <= y
  <2>1. <<y, x>> \in Nat \X Nat OBVIOUS
  <2>2. ~(<<y, x>> \in {ss \in Nat \X Nat : ss[1] < ss[2]})
    BY <1>1 DEF OpToRel
  <2> QED BY <2>1, <2>2
<1> QED BY <1>2

(* Induction on the subsets of a finite set, for a property given as a set *)
(* G of them.                                                              *)
LEMMA SubsetInduction ==
  ASSUME NEW I, IsFiniteSet(I), NEW G,
         \A J \in SUBSET I : (\A x \in J : J \ {x} \in G) => J \in G
  PROVE  \A J \in SUBSET I : J \in G
<1> SUFFICES ASSUME ~ \A J \in SUBSET I : J \in G PROVE FALSE
  OBVIOUS
<1> DEFINE sizes == {Cardinality(J) : J \in (SUBSET I) \ G}
<1>1. sizes \in SUBSET Nat /\ sizes # {}
  BY FS_Subset, FS_CardinalityType
<1>2. PICK n \in sizes : \A m \in sizes : n <= m
  BY <1>1, LeastNat
<1>3. PICK J \in (SUBSET I) \ G : Cardinality(J) = n
  OBVIOUS
<1>4. ASSUME NEW x \in J PROVE J \ {x} \in G
  <2>1. IsFiniteSet(J) /\ J \ {x} \in SUBSET I
    BY FS_Subset
  <2>2. Cardinality(J \ {x}) = n - 1 /\ n \in Nat
    BY <1>1, <1>3, <2>1, FS_RemoveElement
  <2> QED
    BY <1>2, <2>1, <2>2
<1> QED
  BY <1>4

-----------------------------------------------------------------------------
(* A sum of natural numbers is the size of a set.                          *)
Pairs(w, I) == UNION {{i} \X (1..w[i]) : i \in I}

LEMMA PairsSize ==
  ASSUME NEW w, NEW I, IsFiniteSet(I), \A i \in I : w[i] \in Nat
  PROVE  /\ IsFiniteSet(Pairs(w, I)) /\ Cardinality(Pairs(w, I)) \in Nat
         /\ I = {} => Cardinality(Pairs(w, I)) = 0
         /\ \A x \in I : Cardinality(Pairs(w, I)) = w[x] + Cardinality(Pairs(w, I \ {x}))
<1>1. ASSUME NEW i \in I
      PROVE  IsFiniteSet({i} \X (1..w[i])) /\ Cardinality({i} \X (1..w[i])) = w[i]
  <2>1. IsFiniteSet({i}) /\ Cardinality({i}) = 1
    BY FS_Singleton
  <2>2. IsFiniteSet(1..w[i]) /\ Cardinality(1..w[i]) = w[i]
    BY FS_Interval
  <2> QED
    BY <2>1, <2>2, FS_Product
<1> DEFINE part == [i \in I |-> {i} \X (1..w[i])]
           parts == {part[i] : i \in I}
<1>2. part \in Surjection(I, parts)
  BY DEF Surjection
<1>3. IsFiniteSet(parts)
  BY <1>2, FS_Surjection
<1>4. \A T \in parts : IsFiniteSet(T)
  BY <1>1
<1>5. IsFiniteSet(UNION parts)
  BY <1>3, <1>4, FS_UNION
<1>6. UNION parts = Pairs(w, I)
  BY DEF Pairs
<1>7. IsFiniteSet(Pairs(w, I)) /\ Cardinality(Pairs(w, I)) \in Nat
  BY <1>5, <1>6, FS_CardinalityType
<1>8. ASSUME I = {} PROVE Cardinality(Pairs(w, I)) = 0
  BY <1>8, FS_EmptySet DEF Pairs
<1>9. ASSUME NEW x \in I
      PROVE  Cardinality(Pairs(w, I)) = w[x] + Cardinality(Pairs(w, I \ {x}))
  <2> DEFINE A == {x} \X (1..w[x])
             B == Pairs(w, I \ {x})
  <2>1. Pairs(w, I) = A \cup B /\ A \cap B = {}
    BY DEF Pairs
  <2>2. IsFiniteSet(B) /\ Cardinality(B) \in Nat
    BY <1>7, <2>1, FS_Subset, FS_CardinalityType
  <2>3. Cardinality(A) = w[x] /\ IsFiniteSet(A)
    BY <1>1
  <2> HIDE DEF A, B
  <2>4. Cardinality(A \cup B) = w[x] + Cardinality(B) - 0
    BY <2>1, <2>2, <2>3, FS_Union, FS_EmptySet
  <2> QED
    BY <2>1, <2>2, <2>4 DEF B
<1> QED
  BY <1>7, <1>8, <1>9

\* Some element of S, the same one each time.
Some(S) == CHOOSE x \in S : TRUE

LEMMA SumIsSize ==
  ASSUME NEW w, NEW I, IsFiniteSet(I), \A i \in I : w[i] \in Nat
  PROVE  Sum(w, I) = Cardinality(Pairs(w, I))
<1> DEFINE Eq(g) == g = [S \in SUBSET I |->
                           IF S = {} THEN 0 ELSE w[Some(S)] + g[S \ {Some(S)}]]
           size == [S \in SUBSET I |-> Cardinality(Pairs(w, S))]
           f == CHOOSE g : Eq(g)
<1>1. Sum(w, I) = f[I]
  BY DEF Sum, SumFunctionOnSet, FoldFunctionOnSet, MapThenFoldSet, Some
<1>2. ASSUME NEW S \in SUBSET I
      PROVE  size[S] = IF S = {} THEN 0 ELSE w[Some(S)] + size[S \ {Some(S)}]
  <2>1. IsFiniteSet(S) /\ \A i \in S : w[i] \in Nat
    BY FS_Subset
  <2>2. CASE S = {}
    BY <2>1, <2>2, PairsSize
  <2>3. CASE S # {}
    <3>1. Some(S) \in S
      BY <2>3 DEF Some
    <3>2. S \ {Some(S)} \in SUBSET I
      OBVIOUS
    <3>3. Cardinality(Pairs(w, S)) = w[Some(S)] + Cardinality(Pairs(w, S \ {Some(S)}))
      BY <2>1, <3>1, PairsSize
    <3> QED
      BY <2>3, <3>2, <3>3
  <2> QED
    BY <2>2, <2>3
<1>3. Eq(size)
  BY <1>2
<1>4. Eq(f)
  BY <1>3
<1> HIDE DEF f, size
<1> DEFINE G == {S \in SUBSET I : f[S] = size[S]}
<1>5. ASSUME NEW S \in SUBSET I, \A x \in S : S \ {x} \in G
      PROVE  S \in G
  <2>1. f[S] = IF S = {} THEN 0 ELSE w[Some(S)] + f[S \ {Some(S)}]
    BY <1>4
  <2>2. S # {} => Some(S) \in S
    BY DEF Some
  <2>3. S # {} => f[S \ {Some(S)}] = size[S \ {Some(S)}]
    BY <1>5, <2>2
  <2> QED
    BY <1>2, <2>1, <2>3
<1> HIDE DEF G
<1>6. \A J \in SUBSET I : J \in G
  BY <1>5, SubsetInduction
<1>7. f[I] = size[I]
  BY <1>6 DEF G
<1> QED
  BY <1>1, <1>7 DEF size

(* What a sum is: nothing of nothing, and one number more with each member.*)
LEMMA SumTerms ==
  ASSUME NEW w, NEW I, IsFiniteSet(I), \A i \in I : w[i] \in Nat
  PROVE  /\ Sum(w, I) \in Nat
         /\ I = {} => Sum(w, I) = 0
         /\ \A x \in I : Sum(w, I) = w[x] + Sum(w, I \ {x})
<1>1. \A x \in I : IsFiniteSet(I \ {x}) /\ Sum(w, I \ {x}) = Cardinality(Pairs(w, I \ {x}))
  BY FS_RemoveElement, SumIsSize
<1>2. Sum(w, I) = Cardinality(Pairs(w, I))
  BY SumIsSize
<1>3. /\ Cardinality(Pairs(w, I)) \in Nat
      /\ I = {} => Cardinality(Pairs(w, I)) = 0
      /\ \A x \in I : Cardinality(Pairs(w, I)) = w[x] + Cardinality(Pairs(w, I \ {x}))
  BY PairsSize
<1> QED
  BY <1>1, <1>2, <1>3

\* A subset and the rest.
LEMMA SumSplit ==
  ASSUME NEW w, NEW I, IsFiniteSet(I), \A i \in I : w[i] \in Nat, NEW J \in SUBSET I
  PROVE  Sum(w, I) = Sum(w, J) + Sum(w, I \ J)
<1>1. IsFiniteSet(J) /\ IsFiniteSet(I \ J)
  BY FS_Subset
<1>2. Pairs(w, I) = Pairs(w, J) \cup Pairs(w, I \ J) /\ Pairs(w, J) \cap Pairs(w, I \ J) = {}
  BY DEF Pairs
<1>3. /\ Sum(w, I) = Cardinality(Pairs(w, I)) /\ Sum(w, J) = Cardinality(Pairs(w, J))
      /\ Sum(w, I \ J) = Cardinality(Pairs(w, I \ J))
  BY <1>1, SumIsSize
<1>4. /\ IsFiniteSet(Pairs(w, J)) /\ Cardinality(Pairs(w, J)) \in Nat
      /\ IsFiniteSet(Pairs(w, I \ J)) /\ Cardinality(Pairs(w, I \ J)) \in Nat
  BY <1>1, PairsSize
<1> DEFINE A == Pairs(w, J)
           B == Pairs(w, I \ J)
<1> HIDE DEF A, B
<1>5. Cardinality(A \cup B) = Cardinality(A) + Cardinality(B)
  <2>1. IsFiniteSet(A) /\ IsFiniteSet(B) /\ A \cap B = {}
    BY <1>2, <1>4 DEF A, B
  <2>2. Cardinality(A \cup B) = Cardinality(A) + Cardinality(B) - Cardinality({})
    BY <2>1, FS_Union
  <2>3. Cardinality(A) \in Nat /\ Cardinality(B) \in Nat
    BY <1>4 DEF A, B
  <2> QED
    BY <2>2, <2>3, FS_EmptySet
<1> QED
  BY <1>2, <1>3, <1>5 DEF A, B

LEMMA SumPart ==
  ASSUME NEW w, NEW I, IsFiniteSet(I), \A i \in I : w[i] \in Nat, NEW J \in SUBSET I
  PROVE  Sum(w, J) \in Nat /\ Sum(w, J) <= Sum(w, I)
<1>1. IsFiniteSet(J) /\ IsFiniteSet(I \ J)
  BY FS_Subset
<1>2. Sum(w, J) \in Nat /\ Sum(w, I \ J) \in Nat
  BY <1>1, SumTerms
<1> QED
  BY <1>2, SumSplit

\* Sums of sums, and of equal multiples.
LEMMA SumPlus ==
  ASSUME NEW u, NEW v, NEW w, NEW I, IsFiniteSet(I),
         \A i \in I : u[i] \in Nat /\ v[i] \in Nat /\ w[i] = u[i] + v[i]
  PROVE  Sum(w, I) = Sum(u, I) + Sum(v, I)
<1> DEFINE G == {S \in SUBSET I : Sum(w, S) = Sum(u, S) + Sum(v, S)}
<1>1. ASSUME NEW S \in SUBSET I, \A x \in S : S \ {x} \in G
      PROVE  S \in G
  <2>1. IsFiniteSet(S) /\ \A i \in S : u[i] \in Nat /\ v[i] \in Nat /\ w[i] \in Nat
    BY FS_Subset
  <2>2. CASE S = {}
    BY <2>1, <2>2, SumTerms
  <2>3. CASE S # {}
    <3>1. PICK x \in S : TRUE
      BY <2>3
    <3>2. Sum(w, S \ {x}) = Sum(u, S \ {x}) + Sum(v, S \ {x})
      BY <1>1
    <3>3. /\ Sum(u, S) = u[x] + Sum(u, S \ {x}) /\ Sum(v, S) = v[x] + Sum(v, S \ {x})
          /\ Sum(w, S) = w[x] + Sum(w, S \ {x}) /\ w[x] = u[x] + v[x]
      BY <2>1, SumTerms
    <3>4. /\ Sum(u, S \ {x}) \in Nat /\ Sum(v, S \ {x}) \in Nat
          /\ u[x] \in Nat /\ v[x] \in Nat
      BY <2>1, SumPart
    <3>5. Sum(w, S) = Sum(u, S) + Sum(v, S)
      BY <3>2, <3>3, <3>4
    <3> QED
      BY <3>5
  <2> QED
    BY <2>2, <2>3
<1> HIDE DEF G
<1>2. \A J \in SUBSET I : J \in G
  BY <1>1, SubsetInduction
<1> QED
  BY <1>2 DEF G

LEMMA SumTimes ==
  ASSUME NEW u, NEW w, NEW a \in Nat, NEW I, IsFiniteSet(I),
         \A i \in I : u[i] \in Nat /\ w[i] = a * u[i]
  PROVE  Sum(w, I) = a * Sum(u, I)
<1> DEFINE G == {S \in SUBSET I : Sum(w, S) = a * Sum(u, S)}
<1>1. ASSUME NEW S \in SUBSET I, \A x \in S : S \ {x} \in G
      PROVE  S \in G
  <2>1. IsFiniteSet(S) /\ \A i \in S : u[i] \in Nat /\ w[i] \in Nat
    BY FS_Subset
  <2>2. CASE S = {}
    BY <2>1, <2>2, SumTerms
  <2>3. CASE S # {}
    <3>1. PICK x \in S : TRUE
      BY <2>3
    <3>2. Sum(w, S \ {x}) = a * Sum(u, S \ {x})
      BY <1>1
    <3>3. /\ Sum(u, S) = u[x] + Sum(u, S \ {x}) /\ w[x] = a * u[x]
          /\ Sum(w, S) = w[x] + Sum(w, S \ {x})
      BY <2>1, SumTerms
    <3>4. Sum(u, S \ {x}) \in Nat /\ u[x] \in Nat
      BY <2>1, SumPart
    <3>5. Sum(w, S) = a * Sum(u, S)
      BY <3>2, <3>3, <3>4
    <3> QED
      BY <3>5
  <2> QED
    BY <2>2, <2>3
<1> HIDE DEF G
<1>2. \A J \in SUBSET I : J \in G
  BY <1>1, SubsetInduction
<1> QED
  BY <1>2 DEF G

LEMMA SumOrder ==
  ASSUME NEW v, NEW w, NEW I, IsFiniteSet(I),
         \A i \in I : v[i] \in Nat /\ w[i] \in Nat /\ v[i] <= w[i]
  PROVE  Sum(v, I) <= Sum(w, I)
<1> DEFINE u == [i \in I |-> w[i] - v[i]]
<1>1. \A i \in I : u[i] \in Nat /\ v[i] \in Nat /\ w[i] = u[i] + v[i]
  OBVIOUS
<1> HIDE DEF u
<1>2. Sum(w, I) = Sum(u, I) + Sum(v, I)
  BY <1>1, SumPlus
<1>3. Sum(u, I) \in Nat /\ Sum(v, I) \in Nat
  BY <1>1, SumTerms
<1> QED
  BY <1>2, <1>3

\* A sum of ones and noughts counts.
LEMMA SumCounts ==
  ASSUME NEW w, NEW I, IsFiniteSet(I), \A i \in I : w[i] \in {0, 1}
  PROVE  Sum(w, I) = Cardinality({i \in I : w[i] = 1})
<1> DEFINE C(S) == {i \in S : w[i] = 1}
           G == {S \in SUBSET I : Sum(w, S) = Cardinality(C(S))}
<1>1. ASSUME NEW S \in SUBSET I, \A x \in S : S \ {x} \in G
      PROVE  S \in G
  <2>1. IsFiniteSet(S) /\ IsFiniteSet(C(S)) /\ \A i \in S : w[i] \in Nat
    BY FS_Subset
  <2>2. CASE S = {}
    <3>1. C(S) = {}
      BY <2>2
    <3> QED
      BY <2>1, <2>2, <3>1, SumTerms, FS_EmptySet
  <2>3. CASE S # {}
    <3>1. PICK x \in S : TRUE
      BY <2>3
    <3>2. Sum(w, S) = w[x] + Sum(w, S \ {x}) /\ Sum(w, S \ {x}) = Cardinality(C(S \ {x}))
      BY <1>1, <2>1, SumTerms
    <3>3. C(S \ {x}) = C(S) \ {x} /\ (x \in C(S) <=> w[x] = 1)
      OBVIOUS
    <3> HIDE DEF C
    <3>4. Cardinality(C(S) \ {x}) = IF x \in C(S) THEN Cardinality(C(S)) - 1 ELSE Cardinality(C(S))
      BY <2>1, FS_RemoveElement
    <3>5. Cardinality(C(S)) \in Nat /\ w[x] \in {0, 1}
      BY <2>1, FS_CardinalityType DEF C
    <3>6. CASE w[x] = 0
      BY <3>2, <3>3, <3>4, <3>5, <3>6
    <3>7. CASE w[x] = 1
      BY <3>2, <3>3, <3>4, <3>5, <3>7
    <3> QED
      BY <3>5, <3>6, <3>7
  <2> QED
    BY <2>2, <2>3
<1> HIDE DEF G
<1>2. \A J \in SUBSET I : J \in G
  BY <1>1, SubsetInduction
<1> QED
  BY <1>2 DEF G

LEMMA SumSame ==
  ASSUME NEW v, NEW w, NEW I, IsFiniteSet(I), \A i \in I : v[i] \in Nat /\ v[i] = w[i]
  PROVE  Sum(v, I) = Sum(w, I)
<1>1. \A i \in I : {i} \X (1..v[i]) = {i} \X (1..w[i])
  OBVIOUS
<1>2. Pairs(v, I) = Pairs(w, I)
  BY <1>1 DEF Pairs
<1> QED
  BY <1>2, SumIsSize

-----------------------------------------------------------------------------
(* Under a strict order no two members of a finite set have as many others *)
(* ahead of them.                                                          *)
Ahead(R, C, s) == {u \in C : <<u, s>> \in R}

LEMMA Numbered ==
  ASSUME NEW C, IsFiniteSet(C), NEW R,
         \A s \in C : <<s, s>> \notin R,
         \A s, t, u \in C : <<s, t>> \in R /\ <<t, u>> \in R => <<s, u>> \in R,
         \A s, t \in C : s = t \/ <<s, t>> \in R \/ <<t, s>> \in R,
         NEW a \in C, NEW b \in C
  PROVE  /\ Cardinality(Ahead(R, C, a)) \in Nat
         /\ Cardinality(Ahead(R, C, a)) = Cardinality(Ahead(R, C, b)) => a = b
<1>1. \A s \in C : IsFiniteSet(Ahead(R, C, s)) /\ Cardinality(Ahead(R, C, s)) \in Nat
  BY FS_Subset, FS_CardinalityType DEF Ahead
<1>2. ASSUME NEW s \in C, NEW t \in C, <<s, t>> \in R
      PROVE  Cardinality(Ahead(R, C, s)) # Cardinality(Ahead(R, C, t))
  <2>1. Ahead(R, C, s) \subseteq Ahead(R, C, t) /\ Ahead(R, C, s) # Ahead(R, C, t)
    BY <1>2 DEF Ahead
  <2> QED
    BY <1>1, <2>1, FS_Subset
<1> QED
  BY <1>1, <1>2

Order(R, C) ==
  /\ IsFiniteSet(C)
  /\ \A s \in C : <<s, s>> \notin R
  /\ \A s, t, u \in C : <<s, t>> \in R /\ <<t, u>> \in R => <<s, u>> \in R
  /\ \A s, t \in C : s = t \/ <<s, t>> \in R \/ <<t, s>> \in R

Rank(R, C) == [s \in C |-> Cardinality(Ahead(R, C, s))]

(* The numbers of those ahead are 0, 1, ... up to the last, once each.     *)
LEMMA RanksAll ==
  ASSUME NEW C, NEW R, Order(R, C)
  PROVE  /\ Cardinality(C) \in Nat
         /\ Rank(R, C) \in Bijection(C, 0..(Cardinality(C) - 1))
<1> DEFINE N == Cardinality(C)
           f == Rank(R, C)
<1>1. IsFiniteSet(C) /\ N \in Nat
  BY FS_CardinalityType DEF Order
<1>2. ASSUME NEW s \in C PROVE f[s] \in 0..(N - 1)
  <2>1. Ahead(R, C, s) \in SUBSET (C \ {s})
    BY DEF Ahead, Order
  <2>2. IsFiniteSet(C \ {s}) /\ Cardinality(C \ {s}) = N - 1
    BY <1>1, FS_RemoveElement
  <2>3. IsFiniteSet(Ahead(R, C, s)) /\ Cardinality(Ahead(R, C, s)) <= N - 1
    BY <2>1, <2>2, FS_Subset
  <2>4. Cardinality(Ahead(R, C, s)) \in Nat
    BY <2>3, FS_CardinalityType
  <2> QED
    BY <1>1, <2>3, <2>4 DEF Rank
<1>3. ASSUME NEW s \in C, NEW t \in C, f[s] = f[t] PROVE s = t
  BY <1>1, <1>3, Numbered DEF Order, Rank
<1>4. f \in Injection(C, 0..(N - 1))
  BY <1>2, <1>3 DEF Injection, IsInjective, Rank
<1>5. IsFiniteSet(0..(N - 1)) /\ Cardinality(0..(N - 1)) = N
  <2>1. 0 \in Int /\ N - 1 \in Int
    BY <1>1
  <2>2. IsFiniteSet(0..(N - 1)) /\ Cardinality(0..(N - 1)) = IF 0 > N - 1 THEN 0 ELSE (N - 1) - 0 + 1
    BY <2>1, FS_Interval
  <2> QED
    BY <1>1, <2>2
<1>6. f \in Surjection(C, 0..(N - 1))
  BY <1>4, <1>5, FS_Injection
<1> QED
  BY <1>1, <1>4, <1>6 DEF Bijection

(* So many have fewer than k ahead of them.                                *)
LEMMA RanksBelow ==
  ASSUME NEW C, NEW R, Order(R, C), NEW k \in 0..Cardinality(C)
  PROVE  Cardinality({s \in C : Cardinality(Ahead(R, C, s)) < k}) = k
<1> DEFINE N == Cardinality(C)
           f == Rank(R, C)
           D == {s \in C : f[s] < k}
           g == [s \in D |-> f[s]]
<1>1. N \in Nat /\ f \in [C -> 0..(N - 1)]
      /\ (\A s, t \in C : f[s] = f[t] => s = t) /\ \A n \in 0..(N - 1) : \E s \in C : f[s] = n
  BY RanksAll DEF Bijection, Injection, Surjection, IsInjective
<1>2. D = {s \in C : Cardinality(Ahead(R, C, s)) < k}
  BY DEF Rank
<1> HIDE DEF f
<1>3. \A s \in D : g[s] \in 0..(k - 1) /\ g[s] = f[s] /\ s \in C
  BY <1>1
<1>4. \A n \in 0..(k - 1) : \E s \in D : g[s] = n
  BY <1>1
<1>5. g \in Bijection(D, 0..(k - 1))
  BY <1>1, <1>3, <1>4 DEF Bijection, Injection, Surjection, IsInjective
<1>6. IsFiniteSet(D)
  <2>1. IsFiniteSet(C) /\ D \in SUBSET C
    BY DEF Order
  <2> QED
    BY <2>1, FS_Subset
<1>7. Cardinality(0..(k - 1)) = k
  <2>1. 0 \in Int /\ k - 1 \in Int /\ k \in Nat
    BY <1>1
  <2>2. Cardinality(0..(k - 1)) = IF 0 > k - 1 THEN 0 ELSE (k - 1) - 0 + 1
    BY <2>1, FS_Interval
  <2> QED
    BY <2>1, <2>2
<1> HIDE DEF g, D
<1>8. Cardinality(D) = k
  BY <1>5, <1>6, <1>7, FS_Bijection DEF ExistsBijection
<1> QED
  BY <1>2, <1>8

-----------------------------------------------------------------------------
LEMMA TargetsApart ==
  /\ \A t \in Machine : t \notin Offer /\ t \notin Endpoint
  /\ \A t \in Offer : t \notin Machine /\ t \notin Endpoint
  /\ \A t \in Endpoint : t \notin Machine /\ t \notin Offer
  BY PlannerConstants

LEMMA FleetsApart ==
  ASSUME NEW t \in Target
  PROVE  /\ t \in Machine => FleetOf(t) = "community"
         /\ t \in Offer => FleetOf(t) = "vast"
         /\ t \in Endpoint => FleetOf(t) = "modal"
  BY TargetsApart DEF FleetOf, Target

LEMMA EndpointsListed ==
  /\ IsFiniteSet(Endpoint)
  /\ \A e \in Endpoint : At(Endpoints, e) \in 1..Len(Endpoints) /\ Endpoints[At(Endpoints, e)] = e
<1>1. /\ Len(Endpoints) \in Nat /\ DOMAIN Endpoints = 1..Len(Endpoints)
      /\ Endpoints \in [1..Len(Endpoints) -> Endpoint]
      /\ Endpoint = {Endpoints[i] : i \in 1..Len(Endpoints)}
  BY PlannerConstants DEF Endpoint, ToSet
<1>2. Endpoints \in Surjection(1..Len(Endpoints), Endpoint)
  BY <1>1 DEF Surjection
<1>3. IsFiniteSet(1..Len(Endpoints))
  <2>1. 1 \in Int /\ Len(Endpoints) \in Int
    BY <1>1
  <2> QED
    BY <2>1, FS_Interval
<1>4. IsFiniteSet(Endpoint)
  BY <1>2, <1>3, FS_Surjection
<1> QED
  BY <1>1, <1>4 DEF At

(* A turn of the deal goes to one endpoint.                                *)
LEMMA DealtOnce ==
  ASSUME NEW T, NEW a \in T \cap Endpoint, NEW b \in T \cap Endpoint,
         Cardinality({e \in T \cap Endpoint : At(Endpoints, e) < At(Endpoints, a)}) =
           Cardinality({e \in T \cap Endpoint : At(Endpoints, e) < At(Endpoints, b)})
  PROVE  a = b
<1> DEFINE C == T \cap Endpoint
           R == {p \in C \X C : At(Endpoints, p[1]) < At(Endpoints, p[2])}
<1>1. IsFiniteSet(C)
  BY EndpointsListed, FS_Intersection
<1>2. \A s \in C : At(Endpoints, s) \in Int /\ Endpoints[At(Endpoints, s)] = s
  BY EndpointsListed
<1>3. \A s, t \in C : <<s, t>> \in R <=> At(Endpoints, s) < At(Endpoints, t)
  OBVIOUS
<1>4. \A s \in C : {e \in C : At(Endpoints, e) < At(Endpoints, s)} = Ahead(R, C, s)
  BY <1>3 DEF Ahead
<1>5. Cardinality(Ahead(R, C, a)) = Cardinality(Ahead(R, C, b))
  BY <1>4
<1>6. /\ \A s \in C : <<s, s>> \notin R
      /\ \A s, t, u \in C : <<s, t>> \in R /\ <<t, u>> \in R => <<s, u>> \in R
      /\ \A s, t \in C : s = t \/ <<s, t>> \in R \/ <<t, s>> \in R
  BY <1>2, <1>3
<1>7. a \in C /\ b \in C
  OBVIOUS
<1> HIDE DEF C, R
<1> QED
  BY <1>1, <1>5, <1>6, <1>7, Numbered

-----------------------------------------------------------------------------
(* What the slots offered of a snapshot are: a machine or an offer once,   *)
(* and of Modal no more than its headroom.                                 *)
Offered(snap, S) ==
  /\ IsFiniteSet(S)
  /\ \A s \in S : /\ s.place \in Nat /\ s.nth \in Nat /\ s.target \in snap.avail
                  /\ s.target \in Endpoint => s.nth \in 1..Headroom(snap, "modal")
  /\ \A s, t \in S : /\ s.place = t.place /\ s.nth = t.nth => s = t
                     /\ s.target = t.target /\ s.target \notin Endpoint => s = t
                     /\ s.target \in Endpoint /\ t.target \in Endpoint /\ s.nth = t.nth => s = t

LEMMA FewerOffered ==
  ASSUME NEW snap, NEW S, Offered(snap, S), NEW R \in SUBSET S
  PROVE  Offered(snap, R)
  BY FS_Subset DEF Offered

\* What is needed of a snapshot and of a ranking.
Known(snap) == snap.avail \in SUBSET Target /\ Headroom(snap, "modal") \in Int
Ranking(rank) == rank \in Seq(Target) /\ IsInjective(rank)

LEMMA SlotsFinite ==
  ASSUME NEW snap, Known(snap), NEW T \in SUBSET Target, NEW t \in T
  PROVE  /\ IsFiniteSet(Slots(snap, T, t)) /\ Slots(snap, T, t) \subseteq Nat
         /\ t \notin Endpoint => Slots(snap, T, t) \subseteq {1}
         /\ t \in Endpoint =>
              Slots(snap, T, t) =
                {k \in 1..Headroom(snap, "modal") :
                   (k - 1) % Cardinality(T \cap Endpoint) =
                      Cardinality({e \in T \cap Endpoint : At(Endpoints, e) < At(Endpoints, t)})}
<1>1. Headroom(snap, "modal") \in Int
  BY DEF Known
<1>2. t \in Machine \/ t \in Offer \/ t \in Endpoint
  BY DEF Target
<1>3. CASE t \in Endpoint
  <2>1. Slots(snap, T, t) = {k \in 1..Headroom(snap, "modal") :
                   (k - 1) % Cardinality(T \cap Endpoint) =
                      Cardinality({e \in T \cap Endpoint : At(Endpoints, e) < At(Endpoints, t)})}
    BY <1>3, TargetsApart DEF Slots
  <2>2. Slots(snap, T, t) \in SUBSET (1..Headroom(snap, "modal"))
    BY <2>1
  <2>3. IsFiniteSet(1..Headroom(snap, "modal"))
    BY <1>1, FS_Interval
  <2>4. IsFiniteSet(Slots(snap, T, t))
    BY <2>2, <2>3, FS_Subset
  <2> QED
    BY <1>1, <1>3, <2>1, <2>2, <2>4
<1>4. CASE t \notin Endpoint
  <2>1. Slots(snap, T, t) \in SUBSET {1}
    BY <1>2, <1>4, TargetsApart DEF Slots
  <2>2. IsFiniteSet({1})
    BY FS_Singleton
  <2>3. IsFiniteSet(Slots(snap, T, t))
    BY <2>1, <2>2, FS_Subset
  <2> QED
    BY <1>4, <2>1, <2>3
<1> QED
  BY <1>3, <1>4

LEMMA ListedOffered ==
  ASSUME NEW snap, Known(snap), NEW rank, Ranking(rank), NEW T \in SUBSET snap.avail
  PROVE  Offered(snap, Listed(snap, rank, T))
<1> DEFINE I == {n \in DOMAIN rank : rank[n] \in T}
           Of(i) == {[place |-> i, nth |-> k, target |-> rank[i]] : k \in Slots(snap, T, rank[i])}
           S == Listed(snap, rank, T)
<1>1. /\ T \in SUBSET Target /\ I \in SUBSET (1..Len(rank)) /\ Len(rank) \in Nat
      /\ \A i, j \in I : rank[i] = rank[j] => i = j
      /\ \A i \in I : rank[i] \in T /\ i \in Nat
  BY DEF Known, Ranking, IsInjective
<1>2. S = UNION {Of(i) : i \in I}
  BY DEF Listed
<1>3. ASSUME NEW i \in I PROVE IsFiniteSet(Of(i))
  <2> DEFINE K == Slots(snap, T, rank[i])
             f == [k \in K |-> [place |-> i, nth |-> k, target |-> rank[i]]]
  <2>1. IsFiniteSet(K)
    BY <1>1, SlotsFinite
  <2>2. f \in Surjection(K, Of(i))
    BY DEF Surjection
  <2> QED
    BY <2>1, <2>2, FS_Surjection
<1>4. IsFiniteSet({Of(i) : i \in I})
  <2>1. IsFiniteSet(I)
    BY <1>1, FS_Interval, FS_Subset
  <2>2. [i \in I |-> Of(i)] \in Surjection(I, {Of(i) : i \in I})
    BY DEF Surjection
  <2> QED
    BY <2>1, <2>2, FS_Surjection
<1>5. IsFiniteSet(S)
  <2>1. \A X \in {Of(i) : i \in I} : IsFiniteSet(X)
    BY <1>3
  <2> HIDE DEF Of, I
  <2>2. IsFiniteSet(UNION {Of(i) : i \in I})
    BY <1>4, <2>1, FS_UNION
  <2> QED
    BY <1>2, <2>2
<1>6. \A s \in S : /\ s = [place |-> s.place, nth |-> s.nth, target |-> s.target]
                   /\ s.place \in I /\ s.target = rank[s.place]
                   /\ s.nth \in Slots(snap, T, s.target)
  BY <1>2
<1> HIDE DEF Of, S
<1>7. ASSUME NEW s \in S
      PROVE  /\ s.place \in Nat /\ s.nth \in Nat /\ s.target \in snap.avail
             /\ s.target \in Endpoint => s.nth \in 1..Headroom(snap, "modal")
  <2>1. s.target \in T /\ s.nth \in Slots(snap, T, s.target)
    BY <1>1, <1>6
  <2>2. s.nth \in Nat
    <3>1. Slots(snap, T, s.target) \subseteq Nat
      BY <1>1, <2>1, SlotsFinite
    <3> QED
      BY <2>1, <3>1
  <2>3. ASSUME s.target \in Endpoint PROVE s.nth \in 1..Headroom(snap, "modal")
    <3> DEFINE N == Cardinality({e \in T \cap Endpoint : At(Endpoints, e) < At(Endpoints, s.target)})
    <3>1. Slots(snap, T, s.target) =
            {k \in 1..Headroom(snap, "modal") : (k - 1) % Cardinality(T \cap Endpoint) = N}
      BY <1>1, <2>1, <2>3, SlotsFinite
    <3> QED
      BY <2>1, <3>1
  <2> QED
    BY <1>1, <1>6, <2>1, <2>2, <2>3
<1>8. ASSUME NEW s \in S, NEW t \in S
      PROVE  /\ s.place = t.place /\ s.nth = t.nth => s = t
             /\ s.target = t.target /\ s.target \notin Endpoint => s = t
             /\ s.target \in Endpoint /\ t.target \in Endpoint /\ s.nth = t.nth => s = t
  <2>1. /\ s.target \in T /\ s.nth \in Slots(snap, T, s.target)
        /\ t.target \in T /\ t.nth \in Slots(snap, T, t.target)
    BY <1>1, <1>6
  <2>2. s.place = t.place /\ s.nth = t.nth => s = t
    BY <1>6
  <2>3. s.target = t.target => s.place = t.place
    BY <1>1, <1>6
  <2>4. s.target = t.target /\ s.target \notin Endpoint => s.nth = t.nth
    BY <1>1, <2>1, SlotsFinite
  <2>5. ASSUME s.target \in Endpoint, t.target \in Endpoint, s.nth = t.nth
        PROVE  s.target = t.target
    <3> DEFINE N(x) == Cardinality({e \in T \cap Endpoint : At(Endpoints, e) < At(Endpoints, x)})
    <3>1. ASSUME NEW x \in {s, t}
          PROVE  x.target \in T \cap Endpoint /\ N(x.target) = (x.nth - 1) % Cardinality(T \cap Endpoint)
      <4>1. x.target \in T /\ x.target \in Endpoint /\ x.nth \in Slots(snap, T, x.target)
        BY <2>1, <2>5
      <4>2. Slots(snap, T, x.target) =
              {k \in 1..Headroom(snap, "modal") : (k - 1) % Cardinality(T \cap Endpoint) = N(x.target)}
        BY <1>1, <4>1, SlotsFinite
      <4> QED
        BY <4>1, <4>2
    <3>2. N(s.target) = N(t.target)
      BY <2>5, <3>1
    <3> QED
      BY <3>1, <3>2, DealtOnce
  <2> QED
    BY <2>2, <2>3, <2>4, <2>5
<1> QED
  BY <1>5, <1>7, <1>8 DEF Offered, S

LEMMA EligibleOffered ==
  ASSUME NEW snap, Known(snap), NEW rank, Ranking(rank), NEW among, NEW fits
  PROVE  Offered(snap, Eligible(snap, rank, among, fits))
<1>1. snap.avail \cap among \cap fits \in SUBSET snap.avail
  OBVIOUS
<1>2. snap.avail \cap among \in SUBSET snap.avail
  OBVIOUS
<1> QED
  BY <1>1, <1>2, ListedOffered DEF Eligible

-----------------------------------------------------------------------------
(* Some slot of any that are offered has the best score.                   *)
LEMMA BestExists ==
  ASSUME NEW snap, NEW S, Offered(snap, S), NEW X \in SUBSET S, X # {}
  PROVE  \E s \in X : \A t \in X : t = s \/ Before(s, t)
<1> DEFINE P == {s.place : s \in X}
<1>1. P \in SUBSET Nat /\ P # {}
  BY DEF Offered
<1>2. PICK p \in P : \A q \in P : p <= q
  BY <1>1, LeastNat
<1> DEFINE Y == {s \in X : s.place = p}
           N == {s.nth : s \in Y}
<1>3. N \in SUBSET Nat /\ N # {}
  BY DEF Offered
<1>4. PICK n \in N : \A m \in N : n <= m
  BY <1>3, LeastNat
<1>5. PICK s \in Y : s.nth = n
  OBVIOUS
<1>6. ASSUME NEW t \in X, t # s PROVE Before(s, t)
  <2>1. s.place \in Nat /\ t.place \in Nat /\ s.nth \in Nat /\ t.nth \in Nat
    BY DEF Offered
  <2>2. s.place <= t.place
    BY <1>2
  <2>3. CASE t.place = p
    <3>1. s.nth <= t.nth
      BY <1>4, <1>5, <2>3
    <3>2. s.nth # t.nth
      BY <1>6, <2>3 DEF Offered
    <3> QED
      BY <2>1, <2>3, <3>1, <3>2 DEF Before
  <2>4. CASE t.place # p
    BY <2>1, <2>2, <2>4 DEF Before
  <2> QED
    BY <2>3, <2>4
<1> QED
  BY <1>6

(* A fleet's best slot is one of those it is chosen from.                  *)
LEMMA BestInside ==
  ASSUME NEW snap, NEW S, Offered(snap, S), NEW X \in SUBSET S, NEW s \in X
  PROVE  BestOf(X)[FleetOf(s.target)] \in X
<1> DEFINE f  == FleetOf(s.target)
           Of == {t \in X : FleetOf(t.target) = f}
<1>1. Of \in SUBSET S /\ Of # {}
  OBVIOUS
<1>2. \E x \in Of : \A t \in Of : t = x \/ Before(x, t)
  BY <1>1, BestExists
<1>3. \E x \in X : FleetOf(x.target) = f
                 /\ \A t \in X : FleetOf(t.target) = f => t = x \/ Before(x, t)
  BY <1>2
<1>4. f \in {FleetOf(t.target) : t \in X}
  OBVIOUS
<1> HIDE DEF f, Of
<1> QED
  BY <1>3, <1>4 DEF BestOf, f

(* The planner chooses among the slots it is offered, and tells them apart *)
(* by their turn.                                                          *)
LEMMA SelectTurns ==
  ASSUME NEW snap, NEW S, Offered(snap, S), NEW k
  PROVE  /\ DOMAIN Select(S, k) \subseteq S
         /\ \A s \in DOMAIN Select(S, k) : Select(S, k)[s] \in Nat
         /\ \A s, t \in DOMAIN Select(S, k) : Select(S, k)[s] = Select(S, k)[t] => s = t
         /\ Select(S, k) \in Bijection(DOMAIN Select(S, k), 0..(Cardinality(DOMAIN Select(S, k)) - 1))
<1> DEFINE own       == Leading(k, {s \in S : s.target \in Machine})
           rest      == k - Cardinality(own)
           rented    == {s \in S : s.target \notin Machine}
           best      == BestOf(rented)
           quota     == ByQuota(rest, rented, best)
           spill     == Leading(rest - Cardinality(quota), rented \ quota)
           part(s)   == IF s \in own THEN 1 ELSE IF s \in quota THEN 2 ELSE 3
           head(s)   == IF s \in quota THEN best[FleetOf(s.target)] ELSE s
           chosen    == own \cup quota \cup spill
           Sooner(s, t) == \/ part(s) < part(t)
                           \/ part(s) = part(t) /\ Before(head(s), head(t))
                           \/ part(s) = part(t) /\ head(s) = head(t) /\ Before(s, t)
           turn      == [s \in chosen |-> Cardinality({t \in chosen : Sooner(t, s)})]
           R         == {p \in chosen \X chosen : Sooner(p[1], p[2])}
<1>1. Select(S, k) = turn
  BY DEF Select, Turns
<1>2. own \subseteq S /\ rented \subseteq S /\ spill \subseteq S
  BY DEF Leading
<1>3. rented \in SUBSET S
  OBVIOUS
<1>4. quota \subseteq rented
  BY DEF ByQuota, Leading
<1>5. chosen \subseteq S
  BY <1>2, <1>4
<1>6. ASSUME NEW s \in quota PROVE best[FleetOf(s.target)] \in S
  <2> HIDE DEF rented, quota, best
  <2>1. best[FleetOf(s.target)] \in rented
    BY <1>3, <1>4, BestInside DEF best
  <2> QED
    BY <1>3, <2>1
<1> HIDE DEF own, rest, rented, best, quota, spill, chosen
<1>7. \A s \in chosen : head(s) \in S /\ part(s) \in 1..3
  BY <1>5, <1>6
<1> HIDE DEF part, head
<1>8. \A s, t \in S : /\ s.place \in Nat /\ t.place \in Nat /\ s.nth \in Nat /\ t.nth \in Nat
                      /\ s.place = t.place /\ s.nth = t.nth => s = t
  BY DEF Offered
<1>9. /\ \A s \in chosen : <<s, s>> \notin R
      /\ \A s, t, u \in chosen : <<s, t>> \in R /\ <<t, u>> \in R => <<s, u>> \in R
      /\ \A s, t \in chosen : s = t \/ <<s, t>> \in R \/ <<t, s>> \in R
  <2>1. \A s, t \in chosen : <<s, t>> \in R <=> Sooner(s, t)
    OBVIOUS
  <2>2. /\ \A s \in S : ~Before(s, s)
        /\ \A s, t, u \in S : Before(s, t) /\ Before(t, u) => Before(s, u)
        /\ \A s, t \in S : s = t \/ Before(s, t) \/ Before(t, s)
    BY <1>8 DEF Before
  <2>3. \A s \in chosen : ~Sooner(s, s)
    BY <1>5, <1>7, <2>2
  <2>4. \A s, t \in chosen : s = t \/ Sooner(s, t) \/ Sooner(t, s)
    BY <1>5, <1>7, <2>2
  <2>5. ASSUME NEW s \in chosen, NEW t \in chosen, NEW u \in chosen, Sooner(s, t), Sooner(t, u)
        PROVE  Sooner(s, u)
    <3>1. part(s) \in 1..3 /\ part(t) \in 1..3 /\ part(u) \in 1..3
      BY <1>7
    <3>2. CASE part(s) < part(t) \/ part(t) < part(u)
      BY <2>5, <3>1, <3>2
    <3>3. CASE part(s) = part(t) /\ part(t) = part(u)
      BY <1>5, <1>7, <2>2, <2>5, <3>3
    <3> QED
      BY <2>5, <3>1, <3>2, <3>3
  <2> QED
    BY <2>1, <2>3, <2>4, <2>5
<1>10. \A s \in chosen : turn[s] = Cardinality(Ahead(R, chosen, s))
  <2>1. \A s \in chosen : {t \in chosen : Sooner(t, s)} = Ahead(R, chosen, s)
    BY DEF Ahead
  <2> QED
    BY <2>1
<1>11. IsFiniteSet(chosen)
  BY <1>5, FS_Subset DEF Offered
<1> HIDE DEF R, Sooner
<1>12. ASSUME NEW s \in chosen, NEW t \in chosen
       PROVE  turn[s] \in Nat /\ (turn[s] = turn[t] => s = t)
  <2>1. /\ Cardinality(Ahead(R, chosen, s)) \in Nat
        /\ Cardinality(Ahead(R, chosen, s)) = Cardinality(Ahead(R, chosen, t)) => s = t
    BY <1>9, <1>11, Numbered
  <2> QED
    BY <1>10, <2>1
<1>13. DOMAIN turn = chosen
  OBVIOUS
<1>14. turn \in Bijection(chosen, 0..(Cardinality(chosen) - 1))
  <2>1. turn = Rank(R, chosen)
    BY <1>10 DEF Rank
  <2>2. Order(R, chosen)
    BY <1>9, <1>11 DEF Order
  <2> HIDE DEF turn
  <2>3. Rank(R, chosen) \in Bijection(chosen, 0..(Cardinality(chosen) - 1))
    BY <2>2, RanksAll
  <2> QED
    BY <2>1, <2>3
<1> HIDE DEF turn
<1> QED
  BY <1>1, <1>5, <1>12, <1>13, <1>14

-----------------------------------------------------------------------------
(* The planner hands out turns 0, 1, ... and knows a speed and a window of *)
(* every target.                                                           *)
Dealt(turn, scene) ==
  /\ IsFiniteSet(DOMAIN turn)
  /\ turn \in Bijection(DOMAIN turn, 0..(Cardinality(DOMAIN turn) - 1))
  /\ \A s \in DOMAIN turn : scene.weight[s.target] \in Nat \ {0} /\ scene.window[s.target] \in Nat

LEMMA DealtTurns ==
  ASSUME NEW turn, NEW scene, Dealt(turn, scene)
  PROVE  /\ Cardinality(DOMAIN turn) \in Nat
         /\ \A s \in DOMAIN turn : turn[s] \in 0..(Cardinality(DOMAIN turn) - 1)
         /\ \A s, t \in DOMAIN turn : turn[s] = turn[t] => s = t
         /\ \A n \in 0..(Cardinality(DOMAIN turn) - 1) : \E s \in DOMAIN turn : turn[s] = n
<1>1. Cardinality(DOMAIN turn) \in Nat
  BY FS_CardinalityType DEF Dealt
<1> QED
  BY <1>1 DEF Dealt, Bijection, Injection, Surjection, IsInjective

\* The order in which the fastest come first.
Swifter(turn, scene) == UNION {Faster(turn, scene, s) \X {s} : s \in DOMAIN turn}

LEMMA FasterOrder ==
  ASSUME NEW turn, NEW scene, Dealt(turn, scene)
  PROVE  /\ Order(Swifter(turn, scene), DOMAIN turn)
         /\ \A s \in DOMAIN turn : Faster(turn, scene, s) = Ahead(Swifter(turn, scene), DOMAIN turn, s)
<1> DEFINE D == DOMAIN turn
           R == Swifter(turn, scene)
           v == [s \in D |-> scene.weight[s.target]]
<1>0. /\ Cardinality(D) \in Nat
      /\ \A s \in D : turn[s] \in 0..(Cardinality(D) - 1)
      /\ \A s, t \in D : turn[s] = turn[t] => s = t
  BY DealtTurns
<1>1. \A s, t \in D : s \in Faster(turn, scene, t)
                         <=> v[s] > v[t] \/ (v[s] = v[t] /\ turn[s] < turn[t])
  BY DEF Faster
<1>2. \A s \in D : v[s] \in Nat /\ turn[s] \in Nat
  BY <1>0 DEF Dealt
<1> HIDE DEF v
<1>3. ASSUME NEW s \in D, NEW t \in D
      PROVE  <<s, t>> \in R <=> s \in Faster(turn, scene, t)
  BY DEF Swifter
<1>4. \A s \in D : Faster(turn, scene, s) = Ahead(R, D, s)
  <2>1. \A s \in D : Faster(turn, scene, s) \subseteq D
    BY DEF Faster
  <2> HIDE DEF R
  <2> QED
    BY <1>3, <2>1 DEF Ahead
<1> HIDE DEF D, R
<1>5. \A s \in D : <<s, s>> \notin R
  BY <1>1, <1>2, <1>3
<1>6. \A s, t, u \in D : <<s, t>> \in R /\ <<t, u>> \in R => <<s, u>> \in R
  BY <1>1, <1>2, <1>3
<1>7. ASSUME NEW s \in D, NEW t \in D, s # t
      PROVE  <<s, t>> \in R \/ <<t, s>> \in R
  BY <1>0, <1>1, <1>2, <1>3, <1>7
<1>8. IsFiniteSet(D)
  BY DEF Dealt, D
<1>9. Order(R, D)
  BY <1>5, <1>6, <1>7, <1>8 DEF Order
<1> QED
  BY <1>4, <1>9 DEF R, D

LEMMA Multiple ==
  ASSUME NEW a \in Nat \ {0}, NEW r \in Int, NEW n \in Nat, NEW m \in Nat, a * r = m, m <= a * n
  PROVE  r \in 0..n
<1>1. r >= 0
  <2>1. r < 0 => a * r < 0
    OBVIOUS
  <2> QED
    BY <2>1
<1>2. r <= n
  <2>1. ASSUME r >= n + 1 PROVE a * r >= a * (n + 1)
    <3>1. r - (n + 1) \in Nat
      BY <2>1
    <3>2. a * (r - (n + 1)) >= 0
      BY <3>1
    <3> QED
      BY <3>2
  <2>2. a * (n + 1) = a * n + a
    OBVIOUS
  <2> QED
    BY <2>1, <2>2
<1> QED
  BY <1>1, <1>2

(* The shares in proportion to speed are of frames, and of all of them.    *)
LEMMA BalancedSum ==
  ASSUME NEW turn, NEW scene, Dealt(turn, scene), NEW total \in Nat, DOMAIN turn # {}
  PROVE  /\ \A s \in DOMAIN turn : Balanced(turn, total, scene)[s] \in Nat
         /\ Sum(Balanced(turn, total, scene), DOMAIN turn) = total
<1> DEFINE D     == DOMAIN turn
           n     == Cardinality(D)
           w     == [s \in D |-> scene.weight[s.target]]
           all   == Sum(w, D)
           floor == [s \in D |-> (scene.weight[s.target] * total) \div all]
           F     == Sum(floor, D)
           r     == total - F
           extra == [s \in D |-> IF Cardinality(Faster(turn, scene, s)) < r THEN 1 ELSE 0]
           prod  == [s \in D |-> total * w[s]]
           most  == [s \in D |-> all * floor[s]]
           rem   == [s \in D |-> (total * w[s]) % all]
           ones  == [s \in D |-> 1]
           full  == [s \in D |-> all * ones[s]]
           B     == Balanced(turn, total, scene)
<1>1. B = [s \in D |-> floor[s] + extra[s]]
  BY DEF Balanced
<1>2. IsFiniteSet(D) /\ n \in Nat
  BY DealtTurns DEF Dealt
<1>3. \A s \in D : w[s] \in Nat \ {0}
  BY DEF Dealt
<1> HIDE DEF B
<1>4. all \in Nat \ {0}
  <2> HIDE DEF w
  <2>1. PICK s \in D : TRUE
    OBVIOUS
  <2>2. all = w[s] + Sum(w, D \ {s})
    BY <1>2, <1>3, SumTerms
  <2>3. Sum(w, D \ {s}) \in Nat
    <3>1. D \ {s} \in SUBSET D
      OBVIOUS
    <3> QED
      BY <1>2, <1>3, <3>1, SumPart
  <2> QED
    BY <1>3, <2>2, <2>3
<1>5. \A s \in D : floor[s] = (total * w[s]) \div all
  <2> HIDE DEF all
  <2>1. \A s \in D : scene.weight[s.target] = w[s] /\ w[s] * total = total * w[s]
    BY <1>3
  <2> QED
    BY <2>1
<1> HIDE DEF w, all, floor
<1>6. \A s \in D : /\ floor[s] \in Nat /\ rem[s] \in Nat /\ rem[s] <= all
                   /\ prod[s] \in Nat /\ most[s] \in Nat /\ prod[s] = most[s] + rem[s]
  <2>1. ASSUME NEW p \in Nat
        PROVE  /\ p \div all \in Nat /\ p % all \in Nat /\ p % all <= all
               /\ p = all * (p \div all) + (p % all)
    BY <1>4
  <2>2. \A s \in D : total * w[s] \in Nat
    BY <1>3
  <2>3. \A s \in D : all * floor[s] \in Nat
    <3>1. \A s \in D : floor[s] \in Nat
      BY <1>5, <2>1, <2>2
    <3> QED
      BY <1>4, <3>1
  <2> QED
    BY <1>5, <2>1, <2>2, <2>3
<1>7. Sum(prod, D) = total * all
  <2>1. \A s \in D : w[s] \in Nat /\ prod[s] = total * w[s]
    BY <1>3
  <2> HIDE DEF prod
  <2> QED
    BY <1>2, <2>1, SumTimes DEF all
<1>8. Sum(most, D) = all * F /\ F \in Nat
  <2>1. \A s \in D : floor[s] \in Nat /\ most[s] = all * floor[s]
    BY <1>6
  <2> HIDE DEF most
  <2>2. Sum(most, D) = all * F
    BY <1>2, <1>4, <2>1, SumTimes
  <2>3. F \in Nat
    BY <1>2, <2>1, SumTerms
  <2> QED
    BY <2>2, <2>3
<1>9. Sum(prod, D) = Sum(most, D) + Sum(rem, D)
  <2> HIDE DEF prod, most, rem
  <2> QED
    BY <1>2, <1>6, SumPlus
<1>10. Sum(ones, D) = n
  <2>1. \A s \in D : ones[s] \in {0, 1}
    OBVIOUS
  <2>2. {s \in D : ones[s] = 1} = D
    OBVIOUS
  <2> HIDE DEF ones
  <2> QED
    BY <1>2, <2>1, <2>2, SumCounts
<1>11. Sum(rem, D) \in Nat /\ Sum(rem, D) <= all * n
  <2>1. \A s \in D : ones[s] \in Nat /\ full[s] = all * ones[s]
    OBVIOUS
  <2>2. \A s \in D : full[s] = all
    BY <1>4
  <2> HIDE DEF rem, ones, full
  <2>3. Sum(full, D) = all * Sum(ones, D)
    BY <1>2, <1>4, <2>1, SumTimes
  <2>4. Sum(rem, D) <= Sum(full, D)
    BY <1>2, <1>4, <1>6, <2>2, SumOrder
  <2>5. Sum(rem, D) \in Nat
    BY <1>2, <1>6, SumTerms
  <2> QED
    BY <1>10, <2>3, <2>4, <2>5
<1>12. r \in 0..n
  <2> DEFINE m == Sum(rem, D)
  <2>1. m \in Nat /\ m <= all * n /\ total * all = all * F + m
    BY <1>7, <1>8, <1>9, <1>11
  <2> HIDE DEF m, F
  <2>2. all * (total - F) = m
    <3>1. all * (total - F) = all * total - all * F
      BY <1>4, <1>8
    <3>2. total * all = all * total /\ all * F \in Int /\ all * total \in Int
      BY <1>4, <1>8
    <3> QED
      BY <2>1, <3>1, <3>2
  <2>3. total - F \in Int
    BY <1>8
  <2> HIDE DEF n
  <2> QED
    BY <1>2, <1>4, <2>1, <2>2, <2>3, Multiple
<1>13. Sum(extra, D) = r
  <2> DEFINE R == Swifter(turn, scene)
             few == {s \in D : Cardinality(Ahead(R, D, s)) < r}
  <2>1. Order(R, D) /\ \A s \in D : Faster(turn, scene, s) = Ahead(R, D, s)
    BY FasterOrder
  <2> HIDE DEF r, R
  <2>2. Cardinality(few) = r
    BY <1>12, <2>1, RanksBelow
  <2>3. \A s \in D : extra[s] \in {0, 1}
    OBVIOUS
  <2>4. {s \in D : extra[s] = 1} = few
    BY <2>1
  <2> HIDE DEF extra, few
  <2>5. Sum(extra, D) = Cardinality({s \in D : extra[s] = 1})
    BY <1>2, <2>3, SumCounts
  <2> QED
    BY <2>2, <2>4, <2>5
<1>14. \A s \in D : floor[s] \in Nat /\ extra[s] \in Nat /\ B[s] = floor[s] + extra[s]
  BY <1>1, <1>6
<1> HIDE DEF extra
<1>15. Sum(B, D) = F + Sum(extra, D)
  BY <1>2, <1>14, SumPlus
<1>16. Sum(B, D) = total
  BY <1>8, <1>13, <1>15
<1>17. \A s \in D : B[s] \in Nat
  BY <1>14
<1> QED
  BY <1>16, <1>17 DEF B

(* Those ahead of s are those with fewer ahead of them.                    *)
LEMMA AheadRanks ==
  ASSUME NEW C, NEW R, Order(R, C), NEW s \in C
  PROVE  Ahead(R, C, s) = {t \in C : Rank(R, C)[t] < Rank(R, C)[s]}
<1> DEFINE f == Rank(R, C)
<1>1. \A t \in C : f[t] = Cardinality(Ahead(R, C, t)) /\ f[t] \in Nat /\ IsFiniteSet(Ahead(R, C, t))
  BY FS_Subset, FS_CardinalityType DEF Ahead, Order, Rank
<1> HIDE DEF f
<1>2. ASSUME NEW t \in C, NEW u \in C, <<t, u>> \in R PROVE f[t] < f[u]
  <2>1. Ahead(R, C, t) \subseteq Ahead(R, C, u) /\ Ahead(R, C, t) # Ahead(R, C, u)
    BY <1>2 DEF Ahead, Order
  <2>2. /\ Cardinality(Ahead(R, C, t)) <= Cardinality(Ahead(R, C, u))
        /\ Cardinality(Ahead(R, C, t)) # Cardinality(Ahead(R, C, u))
    BY <1>1, <2>1, FS_Subset
  <2> QED
    BY <1>1, <2>2
<1>3. ASSUME NEW t \in C PROVE <<t, s>> \in R <=> f[t] < f[s]
  <2>1. CASE <<t, s>> \in R
    BY <1>2, <2>1
  <2>2. CASE t = s
    BY <1>1, <2>2 DEF Order
  <2>3. CASE <<s, t>> \in R
    <3>1. f[s] < f[t]
      BY <1>2, <2>3
    <3>2. ~(f[t] < f[s])
      BY <1>1, <3>1
    <3>3. <<t, s>> \notin R
      BY <1>2, <3>2
    <3> QED
      BY <3>2, <3>3
  <2> QED
    BY <2>1, <2>2, <2>3 DEF Order
<1> QED
  BY <1>3 DEF Ahead, f

(* Whoever is first served takes what fits, until nothing is left: those   *)
(* served share out what there is, or all that they can hold.              *)
LEMMA Served ==
  ASSUME NEW C, NEW R, Order(R, C), NEW E \in Nat, NEW slack, NEW given,
         \A s \in C : /\ slack[s] \in Nat
                      /\ given[s] = Smaller(slack[s], Larger(0, E - Sum(slack, Ahead(R, C, s))))
  PROVE  /\ \A s \in C : given[s] \in Nat /\ given[s] <= slack[s]
         /\ Sum(given, C) = Smaller(E, Sum(slack, C))
<1> DEFINE n == Cardinality(C)
           f == Rank(R, C)
           first(k) == {s \in C : f[s] < k}
           bad == {k \in 0..n : Sum(given, first(k)) # Smaller(E, Sum(slack, first(k)))}
<1>1. /\ IsFiniteSet(C) /\ n \in Nat /\ f \in [C -> 0..(n - 1)]
      /\ (\A s, t \in C : f[s] = f[t] => s = t) /\ \A m \in 0..(n - 1) : \E s \in C : f[s] = m
  BY RanksAll DEF Bijection, Injection, Surjection, IsInjective, Order
<1>2. \A s \in C : Ahead(R, C, s) = first(f[s])
  BY AheadRanks
<1> HIDE DEF f, n
<1>3. ASSUME NEW k PROVE /\ first(k) \in SUBSET C /\ Sum(slack, first(k)) \in Nat
                         /\ IsFiniteSet(first(k))
  <2>1. first(k) \in SUBSET C
    OBVIOUS
  <2> HIDE DEF first
  <2>2. Sum(slack, first(k)) \in Nat
    BY <1>1, <2>1, SumPart
  <2>3. IsFiniteSet(first(k))
    BY <1>1, <2>1, FS_Subset
  <2> QED
    BY <2>1, <2>2, <2>3
<1>4. \A s \in C : given[s] \in Nat /\ given[s] <= slack[s]
  <2>1. ASSUME NEW s \in C PROVE given[s] \in Nat /\ given[s] <= slack[s]
    <3> DEFINE A == Sum(slack, Ahead(R, C, s))
    <3>1. A \in Nat /\ slack[s] \in Nat /\ given[s] = Smaller(slack[s], Larger(0, E - A))
      BY <1>2, <1>3
    <3> HIDE DEF A
    <3> QED
      BY <3>1 DEF Smaller, Larger
  <2> QED
    BY <2>1
<1>5. first(0) = {} /\ first(n) = C
  BY <1>1
<1>6. 0 \notin bad
  <2>1. IsFiniteSet({}) /\ \A s \in {} : given[s] \in Nat /\ slack[s] \in Nat
    BY FS_EmptySet
  <2>2. Sum(given, {}) = 0 /\ Sum(slack, {}) = 0
    BY <2>1, SumTerms
  <2> QED
    BY <1>5, <2>2 DEF Smaller
<1>7. ASSUME NEW k \in 0..(n - 1), k \notin bad PROVE k + 1 \notin bad
  <2>1. PICK s \in C : f[s] = k
    BY <1>1
  <2>2. s \in first(k + 1) /\ first(k + 1) \ {s} = first(k)
    BY <1>1, <2>1
  <2> DEFINE A == Sum(slack, first(k))
             g == Sum(given, first(k))
             A1 == Sum(slack, first(k + 1))
             g1 == Sum(given, first(k + 1))
             x == given[s]
             y == slack[s]
  <2>3. x = Smaller(y, Larger(0, E - A)) /\ y \in Nat
    BY <1>2, <2>1
  <2>4. g = Smaller(E, A)
    BY <1>1, <1>7
  <2>5. \A t \in first(k + 1) : given[t] \in Nat /\ slack[t] \in Nat
    BY <1>4
  <2>6. A \in Nat /\ IsFiniteSet(first(k + 1))
    BY <1>3
  <2> HIDE DEF first
  <2>7. A1 = y + A /\ g1 = x + g
    <3>1. A1 = y + Sum(slack, first(k + 1) \ {s})
      BY <2>2, <2>5, <2>6, SumTerms
    <3>2. g1 = x + Sum(given, first(k + 1) \ {s})
      BY <2>2, <2>5, <2>6, SumTerms
    <3> QED
      BY <2>2, <3>1, <3>2
  <2> HIDE DEF A, g, A1, g1, x, y
  <2>8. g1 = Smaller(E, A1)
    BY <2>3, <2>4, <2>6, <2>7 DEF Smaller, Larger
  <2> QED
    BY <2>8 DEF g1, A1
<1> HIDE DEF first
<1>8. n \notin bad
  <2>1. SUFFICES ASSUME bad # {} PROVE FALSE
    OBVIOUS
  <2>2. bad \in SUBSET Nat
    BY <1>1
  <2>3. PICK k \in bad : \A m \in bad : k <= m
    BY <2>1, <2>2, LeastNat
  <2>4. k \in 0..n
    OBVIOUS
  <2> HIDE DEF bad
  <2>5. k # 0
    BY <1>6
  <2>6. k - 1 \in 0..(n - 1) /\ k - 1 \notin bad /\ (k - 1) + 1 = k
    BY <1>1, <2>3, <2>4, <2>5
  <2> QED
    BY <1>7, <2>6
<1>9. Sum(given, first(n)) = Smaller(E, Sum(slack, first(n)))
  BY <1>1, <1>8
<1> QED
  BY <1>4, <1>5, <1>9

(* Fitting the frames to the windows loses none, unless all the windows    *)
(* together are too small; no slot gets more than its window holds.        *)
LEMMA FittedSum ==
  ASSUME NEW turn, NEW scene, Dealt(turn, scene), NEW balanced,
         \A s \in DOMAIN turn : balanced[s] \in Nat, NEW window,
         \A s \in DOMAIN turn : window[s] = scene.window[s.target]
  PROVE  /\ \A s \in DOMAIN turn : /\ Fitted(turn, scene, balanced)[s] \in Nat
                                   /\ Fitted(turn, scene, balanced)[s] <= window[s]
         /\ Sum(Fitted(turn, scene, balanced), DOMAIN turn)
              = Smaller(Sum(balanced, DOMAIN turn), Sum(window, DOMAIN turn))
<1> DEFINE D == DOMAIN turn
           R == Swifter(turn, scene)
           slack == [s \in D |-> Larger(0, scene.window[s.target] - balanced[s])]
           excess == [s \in D |-> Larger(0, balanced[s] - scene.window[s.target])]
           base == [s \in D |-> Smaller(balanced[s], scene.window[s.target])]
           E == Sum(excess, D)
           given == [s \in D |-> Smaller(slack[s], Larger(0, E - Sum(slack, Faster(turn, scene, s))))]
           C == Fitted(turn, scene, balanced)
<1>1. C = [s \in D |-> base[s] + given[s]]
  BY DEF Fitted
<1> HIDE DEF C
<1>2. IsFiniteSet(D) /\ \A s \in D : window[s] \in Nat
  BY DEF Dealt
<1>3. \A s \in D : /\ slack[s] \in Nat /\ excess[s] \in Nat /\ base[s] \in Nat
                   /\ balanced[s] = base[s] + excess[s] /\ window[s] = base[s] + slack[s]
  <2>1. \A s \in D : /\ slack[s] = Larger(0, window[s] - balanced[s])
                     /\ excess[s] = Larger(0, balanced[s] - window[s])
                     /\ base[s] = Smaller(balanced[s], window[s])
    OBVIOUS
  <2> HIDE DEF slack, excess, base
  <2> QED
    BY <1>2, <2>1 DEF Smaller, Larger
<1> HIDE DEF slack, excess, base
<1>4. E \in Nat
  BY <1>2, <1>3, SumTerms
<1> HIDE DEF E
<1>5. Order(R, D) /\ \A s \in D : Faster(turn, scene, s) = Ahead(R, D, s)
  BY FasterOrder
<1> HIDE DEF R
<1>6. \A s \in D : /\ slack[s] \in Nat
                   /\ given[s] = Smaller(slack[s], Larger(0, E - Sum(slack, Ahead(R, D, s))))
  BY <1>3, <1>5
<1>7. \A s \in D : C[s] = base[s] + given[s]
  BY <1>1
<1> HIDE DEF given
<1>8. /\ \A s \in D : given[s] \in Nat /\ given[s] <= slack[s]
      /\ Sum(given, D) = Smaller(E, Sum(slack, D))
  BY <1>4, <1>5, <1>6, Served
<1>9. Sum(C, D) = Sum(base, D) + Sum(given, D)
  BY <1>2, <1>3, <1>7, <1>8, SumPlus
<1>10. Sum(balanced, D) = Sum(base, D) + E
  BY <1>2, <1>3, SumPlus DEF E
<1>11. Sum(window, D) = Sum(base, D) + Sum(slack, D)
  BY <1>2, <1>3, SumPlus
<1>12. Sum(base, D) \in Nat
  BY <1>2, <1>3, SumTerms
<1>13. Sum(slack, D) \in Nat
  BY <1>2, <1>3, SumTerms
<1>14. Sum(C, D) = Smaller(Sum(balanced, D), Sum(window, D))
  BY <1>4, <1>8, <1>9, <1>10, <1>11, <1>12, <1>13 DEF Smaller
<1>15. \A s \in D : C[s] \in Nat /\ C[s] <= window[s]
  BY <1>3, <1>7, <1>8
<1> QED
  BY <1>14, <1>15 DEF C

-----------------------------------------------------------------------------
(* Frames: from the first on, a step apart.                                *)
LEMMA Scale ==
  ASSUME NEW a \in Int, NEW b \in Int, NEW c \in Nat \ {0}
  PROVE  /\ a <= b <=> a * c <= b * c
         /\ a < b <=> a * c < b * c
<1>1. ASSUME a < b PROVE a * c < b * c
  <2>1. (b - a) * c > 0
    BY <1>1
  <2>2. (b - a) * c = b * c - a * c
    OBVIOUS
  <2> QED
    BY <2>1, <2>2
<1>2. ASSUME b < a PROVE b * c < a * c
  <2>1. (a - b) * c > 0
    BY <1>2
  <2>2. (a - b) * c = a * c - b * c
    OBVIOUS
  <2> QED
    BY <2>1, <2>2
<1>3. a = b \/ a < b \/ b < a
  OBVIOUS
<1>4. a * c \in Int /\ b * c \in Int
  OBVIOUS
<1>5. CASE a = b
  BY <1>4, <1>5
<1>6. CASE a < b
  BY <1>1, <1>4, <1>6
<1>7. CASE b < a
  BY <1>2, <1>4, <1>7
<1> QED
  BY <1>3, <1>5, <1>6, <1>7

LEMMA Division ==
  ASSUME NEW a \in Nat, NEW c \in Nat \ {0}
  PROVE  /\ a \div c \in Nat /\ a % c \in Nat /\ a % c < c
         /\ a = (a \div c) * c + (a % c)
         /\ \A q \in Nat, r \in Nat : a = q * c + r /\ r < c => q = a \div c /\ r = a % c
<1>0. a = c * (a \div c) + (a % c) /\ 0 <= a % c /\ a % c < c /\ a \div c \in Int /\ a % c \in Int
  OBVIOUS
<1>1. /\ a \div c \in Nat /\ a % c \in Nat /\ a % c < c
      /\ a = c * (a \div c) + (a % c)
  <2>1. a \div c \in Nat
    OBVIOUS
  <2> QED
    BY <1>0, <2>1
<1>2. c * (a \div c) = (a \div c) * c
  BY <1>1
<1>3. ASSUME NEW q \in Nat, NEW r \in Nat, a = q * c + r, r < c
      PROVE  q = a \div c /\ r = a % c
  <2> DEFINE d == a \div c
             m == a % c
  <2>1. d \in Nat /\ m \in Nat /\ m < c /\ a = d * c + m
    BY <1>1, <1>2
  <2> HIDE DEF d, m
  <2>2. d * c \in Nat /\ q * c \in Nat
    BY <2>1
  <2>3. (d + 1) * c = d * c + c /\ (q + 1) * c = q * c + c
    BY <2>1
  <2>4. q * c < (d + 1) * c /\ d * c < (q + 1) * c
    BY <1>3, <2>1, <2>2, <2>3
  <2>5. q < d + 1 /\ d < q + 1
    BY <2>1, <2>4, Scale
  <2>6. q = d
    BY <2>1, <2>5
  <2> QED
    BY <1>3, <2>1, <2>2, <2>6 DEF d, m
<1> QED
  BY <1>1, <1>2, <1>3

LEMMA FramesAt ==
  ASSUME NEW first \in Int, NEW last \in Int, NEW step \in Nat \ {0}, NEW f
  PROVE  f \in FramesOf(first, last, step)
           <=> \E k \in Nat : f = first + k * step /\ f <= last
<1>1. ASSUME f \in FramesOf(first, last, step)
      PROVE  \E k \in Nat : f = first + k * step /\ f <= last
  <2>1. f \in Int /\ first <= f /\ f <= last /\ (f - first) % step = 0
    BY <1>1 DEF FramesOf
  <2>2. f - first \in Nat
    BY <2>1
  <2> DEFINE k == (f - first) \div step
  <2>3. k \in Nat /\ f - first = k * step + 0
    BY <2>1, <2>2, Division
  <2> HIDE DEF k
  <2> QED
    BY <2>1, <2>3
<1>2. ASSUME NEW k \in Nat, f = first + k * step, f <= last
      PROVE  f \in FramesOf(first, last, step)
  <2>1. k * step \in Nat
    OBVIOUS
  <2>2. f \in Int /\ first <= f /\ f - first = k * step + 0 /\ f - first \in Nat
    BY <1>2, <2>1
  <2>3. (f - first) % step = 0
    BY <2>2, Division
  <2> QED
    BY <1>2, <2>2, <2>3 DEF FramesOf
<1> QED
  BY <1>1, <1>2

\* How many there are.
LEMMA FramesNumber ==
  ASSUME NEW first \in Int, NEW last \in Int, NEW step \in Nat \ {0}, first <= last
  PROVE  /\ (last - first) \div step \in Nat
         /\ first + ((last - first) \div step) * step <= last
         /\ last < first + ((last - first) \div step + 1) * step
         /\ IsFiniteSet(FramesOf(first, last, step))
         /\ Cardinality(FramesOf(first, last, step)) = (last - first) \div step + 1
<1> DEFINE K == (last - first) \div step
           m == (last - first) % step
           F == FramesOf(first, last, step)
           at == [k \in 0..K |-> first + k * step]
<1>1. last - first \in Nat
  OBVIOUS
<1>2. K \in Nat /\ m \in Nat /\ m < step /\ last - first = K * step + m
  BY <1>1, Division
<1> HIDE DEF K, m, F
<1>3. K * step \in Nat /\ (K + 1) * step = K * step + step
  BY <1>2
<1>4. first + K * step <= last /\ last < first + (K + 1) * step
  BY <1>2, <1>3
<1>5. ASSUME NEW k \in Nat
      PROVE  k * step \in Nat /\ (k \in 0..K <=> first + k * step <= last)
  <2>1. k * step \in Nat
    OBVIOUS
  <2>2. k <= K <=> k * step <= K * step
    BY <1>2, Scale
  <2>3. k < K + 1 <=> k * step < (K + 1) * step
    BY <1>2, Scale
  <2>4. (K + 1) * step \in Nat
    BY <1>2
  <2> QED
    BY <1>2, <1>3, <1>4, <2>1, <2>2, <2>3, <2>4
<1>6. \A f : f \in F <=> \E k \in Nat : f = first + k * step /\ f <= last
  BY FramesAt DEF F
<1>7. at \in Surjection(0..K, F)
  <2>1. \A k \in 0..K : at[k] = first + k * step /\ k \in Nat
    BY <1>2
  <2>2. \A k \in 0..K : at[k] \in F
    BY <1>5, <1>6, <2>1
  <2>3. \A f \in F : \E k \in 0..K : f = at[k]
    BY <1>5, <1>6, <2>1
  <2> QED
    BY <2>2, <2>3 DEF Surjection
<1>8. ASSUME NEW j \in 0..K, NEW k \in 0..K, at[j] = at[k] PROVE j = k
  <2>1. j \in Int /\ k \in Int /\ j * step \in Int /\ k * step \in Int
    BY <1>2
  <2>2. j * step = k * step
    BY <1>8, <2>1
  <2>3. ~(j < k) /\ ~(k < j)
    BY <2>1, <2>2, Scale
  <2> QED
    BY <2>1, <2>3
<1>9. IsFiniteSet(0..K) /\ Cardinality(0..K) = K + 1
  <2>1. 0 \in Int /\ K \in Int
    BY <1>2
  <2>2. IsFiniteSet(0..K) /\ Cardinality(0..K) = IF 0 > K THEN 0 ELSE K - 0 + 1
    BY <2>1, FS_Interval
  <2> QED
    BY <1>2, <2>2
<1>10. at \in Injection(0..K, F)
  BY <1>7, <1>8 DEF Injection, Surjection, IsInjective
<1> HIDE DEF at
<1>11. IsFiniteSet(F) /\ Cardinality(F) = K + 1
  <2>1. IsFiniteSet(F)
    BY <1>7, <1>9, FS_Surjection
  <2>2. ExistsBijection(0..K, F)
    BY <1>7, <1>10 DEF ExistsBijection, Bijection
  <2> QED
    BY <1>9, <2>1, <2>2, FS_Bijection
<1> QED
  BY <1>2, <1>4, <1>11 DEF K, F

\* A piece of them that starts on a frame.
OnFrame(first, step, f) == \E k \in Nat : f = first + k * step

LEMMA FramesPart ==
  ASSUME NEW first \in Int, NEW last \in Int, NEW step \in Nat \ {0}, NEW start \in Int,
         OnFrame(first, step, start), NEW end \in Int, end <= last
  PROVE  /\ FramesOf(start, end, step) \subseteq FramesOf(first, last, step)
         /\ \A f \in FramesOf(first, last, step) :
              f \in FramesOf(start, end, step) <=> start <= f /\ f <= end
<1>0. \A f : f \in FramesOf(start, end, step) <=> \E i \in Nat : f = start + i * step /\ f <= end
  BY FramesAt
<1>1. PICK k \in Nat : start = first + k * step
  BY DEF OnFrame
<1>2. ASSUME NEW f \in FramesOf(start, end, step) PROVE f \in FramesOf(first, last, step)
  <2>1. PICK i \in Nat : f = start + i * step /\ f <= end
    BY <1>0
  <2>2. (k + i) * step = k * step + i * step /\ k + i \in Nat /\ i * step \in Nat
    OBVIOUS
  <2>3. f = first + (k + i) * step /\ f <= last
    BY <1>1, <2>1, <2>2
  <2> QED
    BY <2>2, <2>3, FramesAt
<1>3. ASSUME NEW f \in FramesOf(first, last, step), start <= f, f <= end
      PROVE  f \in FramesOf(start, end, step)
  <2>1. PICK i \in Nat : f = first + i * step /\ f <= last
    BY FramesAt
  <2>2. i * step \in Nat
    OBVIOUS
  <2>3. k * step <= i * step
    BY <1>1, <1>3, <2>1, <2>2
  <2>4. k <= i
    BY <2>3, Scale
  <2>5. (i - k) * step = i * step - k * step /\ i - k \in Nat
    BY <2>4
  <2>6. f = start + (i - k) * step
    BY <1>1, <2>1, <2>2, <2>5
  <2> QED
    BY <1>0, <1>3, <2>5, <2>6
<1>4. \A f \in FramesOf(start, end, step) : start <= f /\ f <= end
  BY DEF FramesOf
<1> QED
  BY <1>2, <1>3, <1>4

-----------------------------------------------------------------------------
(* The slots divide the numbers up to the sum of their counts in turn.     *)
Sofar(turn, counts, s) == Sum(counts, {t \in DOMAIN turn : turn[t] < turn[s]})

LEMMA Segments ==
  ASSUME NEW turn, NEW scene, Dealt(turn, scene), NEW counts,
         \A s \in DOMAIN turn : counts[s] \in Nat
  PROVE  /\ \A s \in DOMAIN turn :
              /\ Sofar(turn, counts, s) \in Nat
              /\ Sofar(turn, counts, s) + counts[s] <= Sum(counts, DOMAIN turn)
              /\ turn[s] = Cardinality(DOMAIN turn) - 1 =>
                   Sofar(turn, counts, s) + counts[s] = Sum(counts, DOMAIN turn)
         /\ \A s, t \in DOMAIN turn :
              turn[s] < turn[t] => Sofar(turn, counts, s) + counts[s] <= Sofar(turn, counts, t)
         /\ \A k \in Nat : k < Sum(counts, DOMAIN turn) =>
              \E s \in DOMAIN turn : /\ Sofar(turn, counts, s) <= k
                                     /\ k < Sofar(turn, counts, s) + counts[s]
<1> DEFINE D       == DOMAIN turn
           n       == Cardinality(D)
           S       == Sum(counts, D)
           P(s)    == Sofar(turn, counts, s)
           below(s) == {t \in D : turn[t] < turn[s]}
           thru(s)  == {t \in D : turn[t] <= turn[s]}
<1>1. /\ n \in Nat /\ \A s \in D : turn[s] \in 0..(n - 1)
      /\ \A s, t \in D : turn[s] = turn[t] => s = t
      /\ \A m \in 0..(n - 1) : \E s \in D : turn[s] = m
  BY DealtTurns
<1>2. IsFiniteSet(D)
  BY DEF Dealt
<1>3. \A J \in SUBSET D : /\ IsFiniteSet(J) /\ Sum(counts, J) \in Nat /\ Sum(counts, J) <= S
                          /\ \A t \in J : counts[t] \in Nat
  BY <1>2, FS_Subset, SumPart
<1>4. \A s : P(s) = Sum(counts, below(s))
  BY DEF Sofar
<1> HIDE DEF D, n, P
<1>5. \A s \in D : below(s) \in SUBSET D /\ thru(s) \in SUBSET D
  OBVIOUS
<1>6. ASSUME NEW s \in D
      PROVE  P(s) \in Nat /\ P(s) + counts[s] = Sum(counts, thru(s)) /\ Sum(counts, thru(s)) <= S
  <2>1. s \in thru(s) /\ thru(s) \ {s} = below(s)
    BY <1>1
  <2>2. IsFiniteSet(thru(s)) /\ (\A t \in thru(s) : counts[t] \in Nat) /\ Sum(counts, thru(s)) <= S
    BY <1>3, <1>5
  <2>3. Sum(counts, below(s)) \in Nat /\ counts[s] \in Nat
    BY <1>3, <1>5
  <2> HIDE DEF thru, below
  <2>4. Sum(counts, thru(s)) = counts[s] + Sum(counts, thru(s) \ {s})
    BY <2>1, <2>2, SumTerms
  <2>5. P(s) = Sum(counts, below(s))
    BY <1>4
  <2>6. Sum(counts, thru(s)) = counts[s] + Sum(counts, below(s))
    BY <2>1, <2>4
  <2>7. P(s) \in Nat
    BY <2>3, <2>5
  <2>8. P(s) + counts[s] = Sum(counts, thru(s))
    BY <2>3, <2>5, <2>6
  <2> QED
    BY <2>2, <2>7, <2>8
<1>7. ASSUME NEW s \in D, turn[s] = n - 1 PROVE P(s) + counts[s] = S
  <2>1. thru(s) = D
    BY <1>1, <1>7
  <2> QED
    BY <1>6, <2>1
<1>8. ASSUME NEW s \in D, NEW t \in D, turn[s] < turn[t] PROVE P(s) + counts[s] <= P(t)
  <2>1. thru(s) \in SUBSET below(t)
    BY <1>1, <1>8
  <2>2. IsFiniteSet(below(t)) /\ \A u \in below(t) : counts[u] \in Nat
    BY <1>3, <1>5
  <2> HIDE DEF thru, below
  <2>3. Sum(counts, thru(s)) <= Sum(counts, below(t))
    BY <2>1, <2>2, SumPart
  <2> QED
    BY <1>4, <1>6, <2>3
<1>9. ASSUME NEW k \in Nat, k < S
      PROVE  \E s \in D : P(s) <= k /\ k < P(s) + counts[s]
  <2> DEFINE H == {turn[s] : s \in {t \in D : k < P(t) + counts[t]}}
  <2>1. H # {}
    <3>1. D # {}
      <4>1. D = {} => S = 0
        BY <1>2, <1>3, SumTerms
      <4> QED
        BY <1>9, <4>1
    <3>2. n - 1 \in 0..(n - 1)
      <4>1. PICK x \in D : TRUE
        BY <3>1
      <4> QED
        BY <1>1, <4>1
    <3>3. PICK s \in D : turn[s] = n - 1
      BY <1>1, <3>2
    <3> QED
      BY <1>7, <1>9, <3>3
  <2>2. H \in SUBSET Nat
    BY <1>1
  <2>3. PICK h \in H : \A m \in H : h <= m
    BY <2>1, <2>2, LeastNat
  <2>4. PICK s \in D : turn[s] = h /\ k < P(s) + counts[s]
    OBVIOUS
  <2>5. P(s) <= k
    <3>0. P(s) \in Nat
      BY <1>6
    <3>1. SUFFICES ASSUME k < P(s) PROVE FALSE
      BY <3>0
    <3>2. CASE h = 0
      <4>1. below(s) = {}
        BY <1>1, <2>4, <3>2
      <4>2. IsFiniteSet({}) /\ \A t \in {} : counts[t] \in Nat
        BY FS_EmptySet
      <4>3. Sum(counts, {}) = 0
        BY <4>2, SumTerms
      <4> QED
        BY <1>4, <3>1, <4>1, <4>3
    <3>3. CASE h # 0
      <4>1. h - 1 \in 0..(n - 1) /\ h \in 0..(n - 1)
        BY <1>1, <2>4, <3>3
      <4>2. PICK t \in D : turn[t] = h - 1
        BY <1>1, <4>1
      <4>3. below(s) = thru(t)
        BY <1>1, <2>4, <4>1, <4>2
      <4>4. P(s) = P(t) + counts[t]
        BY <1>4, <1>6, <4>3
      <4>5. h - 1 \in H
        BY <3>1, <4>2, <4>4
      <4> HIDE DEF H
      <4>6. h <= h - 1
        BY <2>3, <4>5
      <4> QED
        BY <4>1, <4>6
    <3> QED
      BY <3>2, <3>3
  <2> QED
    BY <2>4, <2>5
<1>10. \A s \in D : /\ P(s) \in Nat /\ P(s) + counts[s] <= S
                    /\ turn[s] = n - 1 => P(s) + counts[s] = S
  BY <1>6, <1>7
<1> QED
  BY <1>8, <1>9, <1>10 DEF D, n, P

(* A chunk that starts on a frame of the row, ends inside it and has the   *)
(* frames it counts; exactly those, when it is tight.                      *)
Within(row, k, step) ==
  /\ k.first \in Int /\ k.last \in Int /\ k.count \in Nat \ {0}
  /\ OnFrame(row.first, step, k.first)
  /\ k.last <= row.last /\ k.first + (k.count - 1) * step <= k.last
Tight(k, step) == k.last < k.first + k.count * step

\* A row that has just the frames it counts.
Spans(row, step) ==
  /\ row.first \in Int /\ row.last \in Int /\ row.count \in Nat
  /\ row.first + (row.count - 1) * step <= row.last
  /\ row.last < row.first + row.count * step

LEMMA SharesFrames ==
  ASSUME NEW turn, NEW scene, Dealt(turn, scene), NEW counts,
         \A s \in DOMAIN turn : counts[s] \in Nat,
         NEW row, NEW step \in Nat \ {0}, Spans(row, step),
         Sum(counts, DOMAIN turn) <= row.count
  PROVE  /\ \A k \in Shares(turn, row, step, counts) :
              /\ Within(row, k, step)
              /\ Sum(counts, DOMAIN turn) = row.count => Tight(k, step)
         /\ Sum(counts, DOMAIN turn) = row.count =>
              \A f \in FramesOf(row.first, row.last, step) :
                \E k \in Shares(turn, row, step, counts) :
                  /\ f \in FramesOf(k.first, k.last, step)
                  /\ \A l \in Shares(turn, row, step, counts) :
                       f \in FramesOf(l.first, l.last, step) => l = k
<1> DEFINE D == DOMAIN turn
           S == Sum(counts, D)
           P(s) == Sofar(turn, counts, s)
           N == Cardinality(D)
           first(s) == row.first + P(s) * step
           last(s) == IF turn[s] = N - 1 THEN row.last ELSE first(s) + (counts[s] - 1) * step
           used == {s \in D : counts[s] > 0}
           task(s) == [group   |-> row.group,
                       chunk   |-> Cardinality({t \in used : turn[t] < turn[s]}) + 1,
                       attempt |-> 0,
                       target  |-> s.target,
                       first   |-> first(s),
                       last    |-> last(s),
                       count   |-> counts[s]]
           T == Shares(turn, row, step, counts)
<1>0. /\ row.first \in Int /\ row.last \in Int /\ row.count \in Nat
      /\ row.first + (row.count - 1) * step <= row.last
      /\ row.last < row.first + row.count * step
  BY DEF Spans
<1> USE <1>0
<1>1. /\ \A s \in D : /\ P(s) \in Nat /\ P(s) + counts[s] <= S
                      /\ turn[s] = N - 1 => P(s) + counts[s] = S
      /\ \A s, t \in D : turn[s] < turn[t] => P(s) + counts[s] <= P(t)
      /\ \A k \in Nat : k < S => \E s \in D : P(s) <= k /\ k < P(s) + counts[s]
  BY Segments
<1>2. /\ N \in Nat /\ \A s \in D : turn[s] \in 0..(N - 1)
      /\ \A s, t \in D : turn[s] = turn[t] => s = t
  BY DealtTurns
<1>3. S \in Nat /\ S <= row.count
  BY SumTerms DEF Dealt
<1>4. \A s \in D : /\ StartOf(turn, row, step, counts, s) = first(s)
                   /\ EndOf(turn, row, step, counts, s) = last(s)
  <2>1. ASSUME NEW s \in D PROVE StartOf(turn, row, step, counts, s) = first(s)
    <3>1. StartOf(turn, row, step, counts, s) = row.first + step * P(s)
      BY DEF StartOf, Sofar
    <3> HIDE DEF P
    <3>2. step * P(s) = P(s) * step
      BY <1>1
    <3> QED
      BY <3>1, <3>2
  <2> HIDE DEF first
  <2>2. \A s \in D : EndOf(turn, row, step, counts, s) = last(s)
    BY <2>1 DEF EndOf
  <2> QED
    BY <2>1, <2>2
<1> HIDE DEF P, first, last
<1>5. T = {task(s) : s \in used}
  BY <1>4 DEF Shares
<1> HIDE DEF D, S, N, T
<1>6. \A s \in used : s \in D /\ counts[s] \in Nat \ {0} /\ P(s) \in Nat
  BY <1>1 DEF D
<1>7. ASSUME NEW s \in used
      PROVE  /\ first(s) = row.first + P(s) * step /\ P(s) * step \in Nat
             /\ first(s) \in Int /\ last(s) \in Int
             /\ (counts[s] - 1) * step \in Nat
             /\ (P(s) + counts[s]) * step = P(s) * step + counts[s] * step
             /\ counts[s] * step = (counts[s] - 1) * step + step
             /\ (P(s) + counts[s]) * step <= row.count * step
             /\ row.count * step \in Nat
             /\ (row.count - 1) * step = row.count * step - step
             /\ S = row.count /\ turn[s] = N - 1 => P(s) + counts[s] = row.count
             /\ turn[s] # N - 1 => last(s) = first(s) + (counts[s] - 1) * step
             /\ turn[s] = N - 1 => last(s) = row.last
  <2>1. P(s) \in Nat /\ counts[s] \in Nat \ {0} /\ P(s) + counts[s] <= row.count
    <3>1. P(s) + counts[s] <= S /\ P(s) \in Nat /\ counts[s] \in Nat \ {0}
      BY <1>1, <1>6
    <3> QED
      BY <1>3, <3>1
  <2> DEFINE p == P(s)
             c == counts[s]
  <2>2. first(s) = row.first + p * step
    BY DEF first
  <2>3. /\ turn[s] # N - 1 => last(s) = first(s) + (c - 1) * step
        /\ turn[s] = N - 1 => last(s) = row.last
    BY DEF last
  <2>4. S = row.count /\ turn[s] = N - 1 => p + c = row.count
    BY <1>1, <1>6
  <2> HIDE DEF p, c
  <2>5. p \in Nat /\ c \in Nat \ {0} /\ p + c <= row.count
    BY <2>1 DEF p, c
  <2>6. p * step \in Nat /\ (c - 1) * step \in Nat /\ c * step \in Nat
    BY <2>5
  <2>7. (p + c) * step = p * step + c * step /\ c * step = (c - 1) * step + step
    BY <2>5
  <2>8. row.count * step \in Nat /\ (row.count - 1) * step = row.count * step - step
    OBVIOUS
  <2>9. (p + c) * step <= row.count * step
    <3>1. p + c \in Int /\ row.count \in Int
      BY <2>5
    <3> QED
      BY <2>5, <3>1, Scale
  <2>10. first(s) \in Int
    BY <2>2, <2>6
  <2>11. last(s) \in Int
    BY <2>3, <2>6, <2>10
  <2> QED
    BY <2>2, <2>3, <2>4, <2>6, <2>7, <2>8, <2>9, <2>10, <2>11 DEF p, c
<1>8. ASSUME NEW s \in used
      PROVE  /\ last(s) <= row.last /\ first(s) + (counts[s] - 1) * step <= last(s)
             /\ S = row.count => last(s) < first(s) + counts[s] * step
  <2> DEFINE a == P(s) * step
             b == (counts[s] - 1) * step
             d == counts[s] * step
             e == (P(s) + counts[s]) * step
             r == row.count * step
             q == (row.count - 1) * step
             x == first(s)
             y == last(s)
  <2>1. /\ x = row.first + a /\ a \in Nat /\ b \in Nat /\ e = a + d /\ d = b + step
        /\ e <= r /\ r \in Nat /\ q = r - step
        /\ turn[s] # N - 1 => y = x + b
        /\ turn[s] = N - 1 => y = row.last
    BY <1>7
  <2>2. S = row.count /\ turn[s] = N - 1 => e = r
    BY <1>7
  <2>3. row.first + q <= row.last /\ row.last < row.first + r
    OBVIOUS
  <2> HIDE DEF a, b, d, e, r, q, x, y
  <2>4. y <= row.last /\ x + b <= y /\ (S = row.count => y < x + d)
    BY <2>1, <2>2, <2>3
  <2> QED
    BY <2>4 DEF a, b, d, e, r, q, x, y
<1>9. ASSUME NEW k \in T
      PROVE  Within(row, k, step) /\ (S = row.count => Tight(k, step))
  <2>1. PICK s \in used : k = task(s)
    BY <1>5
  <2>2. k.first = first(s) /\ k.last = last(s) /\ k.count = counts[s]
    BY <2>1
  <2>3. /\ k.first \in Int /\ k.last \in Int /\ k.count \in Nat \ {0}
        /\ k.last <= row.last /\ k.first + (k.count - 1) * step <= k.last
        /\ S = row.count => k.last < k.first + k.count * step
    BY <1>6, <1>7, <1>8, <2>2
  <2>4. OnFrame(row.first, step, k.first)
    BY <1>6, <1>7, <2>2 DEF OnFrame
  <2> QED
    BY <2>3, <2>4 DEF Within, Tight
<1>10. ASSUME S = row.count, NEW f \in FramesOf(row.first, row.last, step)
       PROVE  \E k \in T : /\ f \in FramesOf(k.first, k.last, step)
                           /\ \A l \in T : f \in FramesOf(l.first, l.last, step) => l = k
  <2>1. PICK i \in Nat : f = row.first + i * step /\ f <= row.last
    BY FramesAt
  <2>2. ASSUME NEW s \in used
        PROVE  f \in FramesOf(first(s), last(s), step) <=> P(s) <= i /\ i < P(s) + counts[s]
    <3>1. f \in FramesOf(first(s), last(s), step) <=> first(s) <= f /\ f <= last(s)
      <4>1. OnFrame(row.first, step, first(s))
        BY <1>6, <1>7 DEF OnFrame
      <4>2. first(s) \in Int /\ last(s) \in Int /\ last(s) <= row.last
        BY <1>7, <1>8
      <4>3. row.first \in Int /\ row.last \in Int
        OBVIOUS
      <4> DEFINE x == first(s)
                 y == last(s)
                 a == row.first
                 b == row.last
      <4> HIDE DEF x, y, a, b
      <4>4. /\ a \in Int /\ b \in Int /\ x \in Int /\ y \in Int /\ y <= b
            /\ OnFrame(a, step, x)
        BY <4>1, <4>2, <4>3 DEF x, y, a, b
      <4>5. \A z \in FramesOf(a, b, step) : z \in FramesOf(x, y, step) <=> x <= z /\ z <= y
        BY <4>4, FramesPart
      <4> QED
        BY <4>5 DEF x, y, a, b
    <3> DEFINE u == i * step
               a == P(s) * step
               b == (counts[s] - 1) * step
               d == counts[s] * step
               e == (P(s) + counts[s]) * step
               x == first(s)
               y == last(s)
    <3>2. u \in Nat
      OBVIOUS
    <3>3. /\ P(s) <= i <=> a <= u
          /\ i < P(s) + counts[s] <=> u < e
      <4>1. P(s) \in Int /\ P(s) + counts[s] \in Int /\ i \in Int
        BY <1>6
      <4> QED
        BY <4>1, Scale
    <3>4. x <= f <=> a <= u
      <4>1. x = row.first + a /\ a \in Nat
        BY <1>7
      <4> HIDE DEF x, a, u
      <4> QED
        BY <2>1, <3>2, <4>1 DEF u
    <3>5. f <= y <=> u < e
      <4>1. /\ x = row.first + a /\ a \in Nat /\ b \in Nat /\ e = a + d /\ d = b + step
            /\ turn[s] # N - 1 => y = x + b
            /\ turn[s] = N - 1 => y = row.last
        BY <1>7
      <4>2. CASE turn[s] = N - 1
        <5>1. P(s) + counts[s] = row.count
          BY <1>7, <1>10, <4>2
        <5>2. e = row.count * step /\ row.count * step \in Nat
          BY <5>1
        <5> HIDE DEF u, e, y
        <5> QED
          BY <2>1, <3>2, <4>1, <4>2, <5>2 DEF u
      <4>3. CASE turn[s] # N - 1
        <5>1. y = row.first + e - step
          <6> HIDE DEF a, b, d, e, x, y
          <6> QED
            BY <4>1, <4>3
        <5>2. u <= e - step <=> u < e
          <6> DEFINE m == P(s) + counts[s]
          <6>1. m \in Int /\ i \in Int /\ m - 1 \in Int /\ e = m * step
            BY <1>6
          <6> HIDE DEF m
          <6>2. (m - 1) * step = e - step
            BY <6>1
          <6>3. i <= m - 1 <=> u <= (m - 1) * step
            BY <6>1, Scale
          <6>4. i < m <=> u < e
            BY <6>1, Scale
          <6>5. i < m <=> i <= m - 1
            BY <6>1
          <6> HIDE DEF u, e
          <6> QED
            BY <6>2, <6>3, <6>4, <6>5
        <5>3. e \in Int /\ f = row.first + u
          BY <1>6, <2>1
        <5> HIDE DEF u, e, y
        <5> QED
          BY <3>2, <5>1, <5>2, <5>3
      <4> QED
        BY <4>2, <4>3
    <3> QED
      BY <3>1, <3>3, <3>4, <3>5
  <2>3. i < S
    <3>1. i * step < row.count * step
      <4> DEFINE u == i * step
                 r == row.count * step
      <4>1. u \in Nat /\ r \in Nat /\ f = row.first + u /\ row.last < row.first + r
        BY <2>1
      <4> HIDE DEF u, r
      <4>2. u < r
        BY <2>1, <4>1
      <4> QED
        BY <4>2 DEF u, r
    <3>2. i < row.count
      BY <3>1, Scale
    <3> QED
      BY <1>10, <3>2
  <2>4. PICK s \in D : P(s) <= i /\ i < P(s) + counts[s]
    BY <1>1, <2>3
  <2>5. s \in used
    <3>1. P(s) \in Nat /\ counts[s] \in Nat
      BY <1>1, <2>4 DEF D
    <3> QED
      BY <2>4, <3>1
  <2>6. task(s) \in T /\ task(s).first = first(s) /\ task(s).last = last(s)
    BY <1>5, <2>5
  <2>7. ASSUME NEW l \in T, f \in FramesOf(l.first, l.last, step) PROVE l = task(s)
    <3>1. PICK t \in used : l = task(t)
      BY <1>5
    <3>2. l.first = first(t) /\ l.last = last(t)
      BY <3>1
    <3>3. P(t) <= i /\ i < P(t) + counts[t]
      BY <2>2, <2>7, <3>2
    <3>4. /\ turn[s] < turn[t] => P(s) + counts[s] <= P(t)
          /\ turn[t] < turn[s] => P(t) + counts[t] <= P(s)
          /\ P(s) \in Nat /\ P(t) \in Nat /\ counts[s] \in Nat /\ counts[t] \in Nat
          /\ turn[s] \in Int /\ turn[t] \in Int /\ (turn[s] = turn[t] => s = t)
      BY <1>1, <1>2, <1>6, <2>5
    <3>5. ~(turn[s] < turn[t])
      BY <2>4, <3>3, <3>4
    <3>6. ~(turn[t] < turn[s])
      BY <2>4, <3>3, <3>4
    <3>7. s = t
      <4>1. turn[s] \in Int /\ turn[t] \in Int /\ (turn[s] = turn[t] => s = t)
        BY <3>4
      <4> HIDE <1>0
      <4>2. turn[s] = turn[t]
        BY <3>5, <3>6, <4>1
      <4> QED
        BY <4>1, <4>2
    <3> QED
      BY <3>1, <3>7
  <2> QED
    BY <2>2, <2>4, <2>5, <2>6, <2>7
<1> QED
  BY <1>9, <1>10 DEF T, S, D

LEMMA ShareRecord ==
  ASSUME NEW turn, NEW row, NEW step, NEW counts, NEW k \in Shares(turn, row, step, counts)
  PROVE  k = [group |-> k.group, chunk |-> k.chunk, attempt |-> k.attempt, target |-> k.target,
              first |-> k.first, last |-> k.last, count |-> k.count]
<1> DEFINE used == {s \in DOMAIN turn : counts[s] > 0}
           N(s) == Cardinality({t \in used : turn[t] < turn[s]})
           F(s) == StartOf(turn, row, step, counts, s)
           L(s) == EndOf(turn, row, step, counts, s)
<1>1. PICK s \in used : k = [group |-> row.group, chunk |-> N(s) + 1, attempt |-> 0,
                             target |-> s.target, first |-> F(s), last |-> L(s),
                             count |-> counts[s]]
  BY DEF Shares
<1> HIDE DEF used, N, F, L
<1> QED
  BY <1>1

(* The frames of a row go to the slots chosen, all of them if the windows  *)
(* of the slots hold them.                                                 *)
LEMMA CountsSum ==
  ASSUME NEW turn, NEW scene, Dealt(turn, scene), NEW total \in Nat, DOMAIN turn # {},
         NEW window, \A s \in DOMAIN turn : window[s] = scene.window[s.target]
  PROVE  /\ \A s \in DOMAIN turn : FrameCounts(turn, total, scene)[s] \in Nat
         /\ Sum(FrameCounts(turn, total, scene), DOMAIN turn)
              = Smaller(total, Sum(window, DOMAIN turn))
         /\ Sum(window, DOMAIN turn) \in Nat
<1> DEFINE D == DOMAIN turn
           B == Balanced(turn, total, scene)
<1>1. (\A s \in D : B[s] \in Nat) /\ Sum(B, D) = total
  BY BalancedSum
<1>2. FrameCounts(turn, total, scene) = Fitted(turn, scene, B)
  BY DEF FrameCounts
<1> HIDE DEF B
<1>3. /\ \A s \in D : Fitted(turn, scene, B)[s] \in Nat
      /\ Sum(Fitted(turn, scene, B), D) = Smaller(Sum(B, D), Sum(window, D))
  BY <1>1, FittedSum
<1>4. Sum(window, D) \in Nat
  <2>1. IsFiniteSet(D) /\ \A s \in D : window[s] \in Nat
    BY DEF Dealt
  <2> QED
    BY <2>1, SumTerms
<1> QED
  BY <1>1, <1>2, <1>3, <1>4

=============================================================================
