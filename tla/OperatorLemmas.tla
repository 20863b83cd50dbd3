---------------------------- MODULE OperatorLemmas ----------------------------
(***************************************************************************)
(* What Picked, Sum and Concatenated return, for sequences and functions   *)
(* of any size; induction on numbers, and that a recursion has a solution. *)
(***************************************************************************)
EXTENDS Subsequences, Concatenations, FiniteSetTheorems, TLAPS

-----------------------------------------------------------------------------
(* Picked *)

\* The ranks of n positions are 1 .. n, and grow with the positions.
LEMMA RankFacts ==
    ASSUME NEW I, I \subseteq Nat, IsFiniteSet(I)
    PROVE  /\ Cardinality(I) \in Nat
           /\ \A i \in I : Rank(I, i) \in 1 .. Cardinality(I)
           /\ \A i, j \in I : i < j => Rank(I, i) < Rank(I, j)
<1> DEFINE U(i) == {j \in I : j <= i}
<1>1. Cardinality(I) \in Nat
  BY FS_CardinalityType
<1>2. ASSUME NEW i \in I
      PROVE  IsFiniteSet(U(i)) /\ Cardinality(U(i)) \in Nat /\ Cardinality(U(i)) <= Cardinality(I)
  <2>1. U(i) \in SUBSET I OBVIOUS
  <2> QED BY <2>1, FS_Subset, FS_CardinalityType
<1>3. ASSUME NEW i \in I PROVE Cardinality(U(i)) # 0
  <2>1. i \in U(i) OBVIOUS
  <2> QED BY <1>2, <2>1, FS_EmptySet
<1>4. ASSUME NEW i \in I, NEW j \in I, i < j PROVE Cardinality(U(i)) < Cardinality(U(j))
  <2>0. i \in Nat /\ j \in Nat /\ \A h \in I : h \in Nat OBVIOUS
  <2>1. U(i) \in SUBSET U(j)
    <3>1. \A h \in I : h <= i => h <= j BY <1>4, <2>0
    <3> QED BY <3>1
  <2>2. j \in U(j) /\ j \notin U(i) BY <1>4
  <2>3. Cardinality(U(i)) <= Cardinality(U(j)) /\ Cardinality(U(i)) # Cardinality(U(j))
    BY <1>2, <2>1, <2>2, FS_Subset
  <2> QED BY <1>2, <2>3
<1> QED BY <1>1, <1>2, <1>3, <1>4 DEF Rank

\* Each rank has its position.
LEMMA NthFacts ==
    ASSUME NEW I, I \subseteq Nat, IsFiniteSet(I)
    PROVE  /\ Cardinality(I) \in Nat
           /\ \A k \in 1 .. Cardinality(I) : Nth(I, k) \in I /\ Rank(I, Nth(I, k)) = k
           /\ \A i \in I : Rank(I, i) \in 1 .. Cardinality(I) /\ Nth(I, Rank(I, i)) = i
           /\ \A k, m \in 1 .. Cardinality(I) : k < m => Nth(I, k) < Nth(I, m)
<1> DEFINE K == 1 .. Cardinality(I)
           f == [i \in I |-> Rank(I, i)]
<1>1. /\ Cardinality(I) \in Nat
      /\ \A i \in I : Rank(I, i) \in K
      /\ \A i, j \in I : i < j => Rank(I, i) < Rank(I, j)
  BY RankFacts
<1>2. IsFiniteSet(K) /\ Cardinality(K) = Cardinality(I)
  BY <1>1, FS_Interval
<1>3. \A i, j \in I : Rank(I, i) = Rank(I, j) => i = j
  BY <1>1
<1>4. f \in Injection(I, K)
  BY <1>1, <1>3 DEF Injection, IsInjective
<1>5. f \in Surjection(I, K)
  BY <1>2, <1>4, FS_Injection
<1>6. \A k \in K : \E i \in I : Rank(I, i) = k
  BY <1>5 DEF Surjection
<1>7. \A k \in K : Nth(I, k) \in I /\ Rank(I, Nth(I, k)) = k
  BY <1>6 DEF Nth
<1>8. \A i \in I : Nth(I, Rank(I, i)) = i
  BY <1>1, <1>3, <1>7
<1>9. ASSUME NEW k \in K, NEW m \in K, k < m PROVE Nth(I, k) < Nth(I, m)
  <2>1. PICK i \in I : i = Nth(I, k) /\ Rank(I, i) = k BY <1>7
  <2>2. PICK j \in I : j = Nth(I, m) /\ Rank(I, j) = m BY <1>7
  <2>3. i \in Nat /\ j \in Nat /\ k \in Nat /\ m \in Nat BY <1>1
  <2>4. j < i => m < k BY <1>1, <2>1, <2>2
  <2>5. i # j BY <1>9, <2>1, <2>2, <2>3
  <2> QED BY <1>9, <2>1, <2>2, <2>3, <2>4, <2>5
<1> QED BY <1>1, <1>7, <1>8, <1>9

\* A subsequence has the kept entries, no others, in the same order.
LEMMA PickedFacts ==
    ASSUME NEW S, NEW s \in Seq(S), NEW I, I \subseteq DOMAIN s
    PROVE  /\ Picked(s, I) \in Seq(S)
           /\ Len(Picked(s, I)) = Cardinality(I)
           /\ \A k \in DOMAIN Picked(s, I) : Nth(I, k) \in I /\ Picked(s, I)[k] = s[Nth(I, k)]
           /\ \A i \in I : Rank(I, i) \in DOMAIN Picked(s, I)
                           /\ Picked(s, I)[Rank(I, i)] = s[i]
           /\ \A k, m \in DOMAIN Picked(s, I) : k < m => Nth(I, k) < Nth(I, m)
<1>1. I \subseteq Nat /\ IsFiniteSet(I)
  <2>1. I \in SUBSET (1 .. Len(s)) /\ Len(s) \in Nat OBVIOUS
  <2>2. IsFiniteSet(1 .. Len(s)) BY <2>1, FS_Interval
  <2> QED BY <2>1, <2>2, FS_Subset
<1>2. /\ Cardinality(I) \in Nat
      /\ \A k \in 1 .. Cardinality(I) : Nth(I, k) \in I /\ Rank(I, Nth(I, k)) = k
      /\ \A i \in I : Rank(I, i) \in 1 .. Cardinality(I) /\ Nth(I, Rank(I, i)) = i
      /\ \A k, m \in 1 .. Cardinality(I) : k < m => Nth(I, k) < Nth(I, m)
  BY <1>1, NthFacts
<1>3. \A i \in I : s[i] \in S
  OBVIOUS
<1>4. DOMAIN Picked(s, I) = 1 .. Cardinality(I) /\ Picked(s, I) \in Seq(S)
      /\ Len(Picked(s, I)) = Cardinality(I)
  BY <1>2, <1>3 DEF Picked
<1> QED BY <1>2, <1>4 DEF Picked

-----------------------------------------------------------------------------
(* Sums *)

\* The units of w, one by one.
LEMMA UnitsFacts ==
    ASSUME NEW I, NEW w \in [I -> Nat]
    PROVE  /\ \A i, k : <<i, k>> \in Units(w) <=> i \in I /\ k \in 1 .. w[i]
           /\ \A u \in Units(w) : /\ u = <<u[1], u[2]>>
                                  /\ u[1] \in I /\ u[2] \in 1 .. w[u[1]]
<1>1. Units(w) = UNION {{<<i, k>> : k \in 1 .. w[i]} : i \in I}
  BY DEF Units
<1>2. ASSUME NEW i, NEW k PROVE <<i, k>> \in Units(w) <=> i \in I /\ k \in 1 .. w[i]
  <2>1. ASSUME <<i, k>> \in Units(w) PROVE i \in I /\ k \in 1 .. w[i]
    <3>1. PICK j \in I : <<i, k>> \in {<<j, m>> : m \in 1 .. w[j]} BY <1>1, <2>1
    <3>2. PICK m \in 1 .. w[j] : <<i, k>> = <<j, m>> BY <3>1
    <3> QED BY <3>2
  <2>2. ASSUME i \in I, k \in 1 .. w[i] PROVE <<i, k>> \in Units(w)
    <3>1. <<i, k>> \in {<<i, m>> : m \in 1 .. w[i]} BY <2>2
    <3> QED BY <1>1, <2>2, <3>1
  <2> QED BY <2>1, <2>2
<1>3. ASSUME NEW u \in Units(w)
      PROVE  u = <<u[1], u[2]>> /\ u[1] \in I /\ u[2] \in 1 .. w[u[1]]
  <2>1. PICK j \in I : u \in {<<j, m>> : m \in 1 .. w[j]} BY <1>1
  <2>2. PICK m \in 1 .. w[j] : u = <<j, m>> BY <2>1
  <2> QED BY <2>2
<1> QED BY <1>2, <1>3

\* The members of a family of sets, each with its index.
Members(I, A) == UNION {{<<i, a>> : a \in A[i]} : i \in I}

\* Which these are.
LEMMA MembersFacts ==
    ASSUME NEW I, NEW A
    PROVE  /\ \A i \in I : \A a \in A[i] : <<i, a>> \in Members(I, A)
           /\ \A p \in Members(I, A) : p = <<p[1], p[2]>> /\ p[1] \in I /\ p[2] \in A[p[1]]
<1>1. ASSUME NEW i \in I, NEW a \in A[i] PROVE <<i, a>> \in Members(I, A)
  <2>1. <<i, a>> \in {<<i, b>> : b \in A[i]} OBVIOUS
  <2> QED BY <2>1 DEF Members
<1>2. ASSUME NEW p \in Members(I, A) PROVE p = <<p[1], p[2]>> /\ p[1] \in I /\ p[2] \in A[p[1]]
  <2>1. PICK i \in I : p \in {<<i, b>> : b \in A[i]} BY DEF Members
  <2>2. PICK b \in A[i] : p = <<i, b>> BY <2>1
  <2> QED BY <2>2
<1> QED BY <1>1, <1>2

\* They are as many as the sum of the sizes of the sets.
LEMMA MembersCounted ==
    ASSUME NEW I, IsFiniteSet(I), NEW w \in [I -> Nat], NEW A,
           \A i \in I : IsFiniteSet(A[i]) /\ Cardinality(A[i]) = w[i]
    PROVE  /\ IsFiniteSet(Members(I, A)) /\ IsFiniteSet(Units(w))
           /\ Cardinality(Members(I, A)) = Sum(w)
<1> DEFINE Q(i) == {<<i, a>> : a \in A[i]}
           F == {Q(i) : i \in I}
           P == Members(I, A)
<1>1. ASSUME NEW i \in I PROVE IsFiniteSet(Q(i))
  <2> DEFINE f == [a \in A[i] |-> <<i, a>>]
  <2>1. f \in Surjection(A[i], Q(i)) BY DEF Surjection
  <2> QED BY <2>1, FS_Surjection
<1>2. IsFiniteSet(F)
  <2> DEFINE f == [i \in I |-> Q(i)]
  <2>1. f \in [I -> F] OBVIOUS
  <2>2. \A T \in F : \E i \in I : f[i] = T OBVIOUS
  <2>3. f \in Surjection(I, F) BY <2>1, <2>2 DEF Surjection
  <2> QED BY <2>3, FS_Surjection
<1>3. IsFiniteSet(P)
  <2>1. \A T \in F : IsFiniteSet(T) BY <1>1
  <2>2. P = UNION F BY DEF Members
  <2> HIDE DEF F
  <2> QED BY <1>2, <2>1, <2>2, FS_UNION
<1>4. \A i \in I : \E h : h \in Bijection(1 .. w[i], A[i])
  <2> SUFFICES ASSUME NEW i \in I PROVE \E h : h \in Bijection(1 .. w[i], A[i]) OBVIOUS
  <2>1. ExistsBijection(1 .. Cardinality(A[i]), A[i]) BY FS_CardinalityType
  <2> QED BY <2>1 DEF ExistsBijection
<1> DEFINE H(i) == CHOOSE h : h \in Bijection(1 .. w[i], A[i])
           g == [u \in Units(w) |-> <<u[1], H(u[1])[u[2]]>>]
<1>5. \A i \in I : H(i) \in Bijection(1 .. w[i], A[i]) BY <1>4
<1> HIDE DEF H
<1>6. /\ \A i \in I : \A k \in 1 .. w[i] : H(i)[k] \in A[i]
      /\ \A i \in I : \A k, m \in 1 .. w[i] : H(i)[k] = H(i)[m] => k = m
      /\ \A i \in I : \A a \in A[i] : \E k \in 1 .. w[i] : H(i)[k] = a
  BY <1>5 DEF Bijection, Injection, Surjection, IsInjective
<1>7. /\ \A i \in I : \A a \in A[i] : <<i, a>> \in P
      /\ \A p \in P : \E i \in I : \E a \in A[i] : p = <<i, a>>
  BY MembersFacts
<1> HIDE DEF P
<1>8. /\ \A i, k : <<i, k>> \in Units(w) <=> i \in I /\ k \in 1 .. w[i]
      /\ \A u \in Units(w) : /\ u = <<u[1], u[2]>>
                             /\ u[1] \in I /\ u[2] \in 1 .. w[u[1]]
  BY UnitsFacts
<1>9. g \in Bijection(Units(w), P)
  <2>1. g \in [Units(w) -> P]
    <3> SUFFICES ASSUME NEW u \in Units(w) PROVE <<u[1], H(u[1])[u[2]]>> \in P OBVIOUS
    <3> QED BY <1>6, <1>7, <1>8
  <2>2. ASSUME NEW u \in Units(w), NEW v \in Units(w), g[u] = g[v] PROVE u = v
    <3>1. u[1] = v[1] /\ H(u[1])[u[2]] = H(v[1])[v[2]] BY <2>2
    <3>2. u[2] = v[2] BY <1>6, <1>8, <3>1
    <3> QED BY <1>8, <3>1, <3>2
  <2>3. ASSUME NEW p \in P PROVE \E u \in Units(w) : g[u] = p
    <3>0. PICK i \in I : \E a \in A[i] : p = <<i, a>> BY <1>7
    <3>1. PICK a \in A[i] : p = <<i, a>> BY <3>0
    <3>2. PICK k \in 1 .. w[i] : H(i)[k] = a BY <1>6
    <3>3. <<i, k>> \in Units(w) /\ g[<<i, k>>] = p BY <1>8, <3>1, <3>2
    <3> QED BY <3>3
  <2> QED BY <2>1, <2>2, <2>3 DEF Bijection, Injection, Surjection, IsInjective
<1>10. IsFiniteSet(Units(w)) /\ Cardinality(P) = Cardinality(Units(w))
  <2> HIDE DEF g
  <2>1. g \in Injection(Units(w), P) /\ g \in Surjection(Units(w), P) BY <1>9 DEF Bijection
  <2> QED BY <1>3, <2>1, FS_Injection
<1> QED BY <1>3, <1>10 DEF P, Sum

\* A sum over finitely many indices is a natural number.
LEMMA SumType ==
    ASSUME NEW I, IsFiniteSet(I), NEW w \in [I -> Nat]
    PROVE  IsFiniteSet(Units(w)) /\ Sum(w) \in Nat
<1> DEFINE A == [i \in I |-> 1 .. w[i]]
<1>1. \A i \in I : IsFiniteSet(A[i]) /\ Cardinality(A[i]) = w[i]
  <2> SUFFICES ASSUME NEW i \in I PROVE IsFiniteSet(1 .. w[i]) /\ Cardinality(1 .. w[i]) = w[i]
    OBVIOUS
  <2>1. w[i] \in Nat OBVIOUS
  <2> QED BY <2>1, FS_Interval
<1> HIDE DEF A
<1>2. IsFiniteSet(Units(w)) BY <1>1, MembersCounted
<1> QED BY <1>2, FS_CardinalityType DEF Sum

\* Indices that correspond one to one and have the same values have one sum.
LEMMA SumSame ==
    ASSUME NEW I, IsFiniteSet(I), NEW w \in [I -> Nat], NEW J, NEW v \in [J -> Nat],
           NEW g \in Bijection(I, J), \A i \in I : w[i] = v[g[i]]
    PROVE  Sum(w) = Sum(v)
<1> DEFINE h == [u \in Units(w) |-> <<g[u[1]], u[2]>>]
<1>1. /\ \A i, k : <<i, k>> \in Units(w) <=> i \in I /\ k \in 1 .. w[i]
      /\ \A u \in Units(w) : /\ u = <<u[1], u[2]>>
                             /\ u[1] \in I /\ u[2] \in 1 .. w[u[1]]
  BY UnitsFacts
<1>2. /\ \A i, k : <<i, k>> \in Units(v) <=> i \in J /\ k \in 1 .. v[i]
      /\ \A u \in Units(v) : /\ u = <<u[1], u[2]>>
                             /\ u[1] \in J /\ u[2] \in 1 .. v[u[1]]
  BY UnitsFacts
<1>3. /\ \A i \in I : g[i] \in J
      /\ \A i, j \in I : g[i] = g[j] => i = j
      /\ \A j \in J : \E i \in I : g[i] = j
  BY DEF Bijection, Injection, Surjection, IsInjective
<1>4. h \in Bijection(Units(w), Units(v))
  <2>1. h \in [Units(w) -> Units(v)]
    <3> SUFFICES ASSUME NEW u \in Units(w) PROVE <<g[u[1]], u[2]>> \in Units(v) OBVIOUS
    <3>1. u[1] \in I /\ u[2] \in 1 .. w[u[1]] BY <1>1
    <3>2. g[u[1]] \in J /\ u[2] \in 1 .. v[g[u[1]]] BY <1>3, <3>1
    <3> QED BY <1>2, <3>2
  <2>2. ASSUME NEW u \in Units(w), NEW x \in Units(w), h[u] = h[x] PROVE u = x
    <3>1. g[u[1]] = g[x[1]] /\ u[2] = x[2] BY <2>2
    <3>2. u[1] = x[1] BY <1>1, <1>3, <3>1
    <3> QED BY <1>1, <3>1, <3>2
  <2>3. ASSUME NEW y \in Units(v) PROVE \E u \in Units(w) : h[u] = y
    <3>1. y = <<y[1], y[2]>> /\ y[1] \in J /\ y[2] \in 1 .. v[y[1]] BY <1>2
    <3>2. PICK i \in I : g[i] = y[1] BY <1>3, <3>1
    <3>3. <<i, y[2]>> \in Units(w) BY <1>1, <3>1, <3>2
    <3>4. h[<<i, y[2]>>] = y BY <3>1, <3>2, <3>3
    <3> QED BY <3>3, <3>4
  <2> QED BY <2>1, <2>2, <2>3 DEF Bijection, Injection, Surjection, IsInjective
<1>5. IsFiniteSet(Units(w)) BY SumType
<1>6. ExistsBijection(Units(w), Units(v)) BY <1>4 DEF ExistsBijection
<1> QED BY <1>5, <1>6, FS_Bijection DEF Sum

\* A sum over two parts.
LEMMA SumSplit ==
    ASSUME NEW I, IsFiniteSet(I), NEW w \in [I -> Nat],
           NEW J, NEW v \in [J -> Nat], \A i \in J : i \in I /\ v[i] = w[i],
           NEW K, NEW x \in [K -> Nat], \A i \in K : i \in I /\ x[i] = w[i],
           \A i \in I : i \in J <=> i \notin K
    PROVE  Sum(w) = Sum(v) + Sum(x)
<1>1. v \in [J -> Nat] /\ x \in [K -> Nat] OBVIOUS
<1>2. IsFiniteSet(J) /\ IsFiniteSet(K)
  <2>1. J \in SUBSET I /\ K \in SUBSET I OBVIOUS
  <2> QED BY <2>1, FS_Subset
<1>3. /\ IsFiniteSet(Units(v)) /\ Sum(v) \in Nat
      /\ IsFiniteSet(Units(x)) /\ Sum(x) \in Nat
  BY <1>1, <1>2, SumType
<1>4. /\ \A i, k : <<i, k>> \in Units(w) <=> i \in I /\ k \in 1 .. w[i]
      /\ \A u \in Units(w) : /\ u = <<u[1], u[2]>>
                             /\ u[1] \in I /\ u[2] \in 1 .. w[u[1]]
  BY UnitsFacts
<1>5. /\ \A i, k : <<i, k>> \in Units(v) <=> i \in J /\ k \in 1 .. v[i]
      /\ \A u \in Units(v) : /\ u = <<u[1], u[2]>>
                             /\ u[1] \in J /\ u[2] \in 1 .. v[u[1]]
  BY <1>1, UnitsFacts
<1>6. /\ \A i, k : <<i, k>> \in Units(x) <=> i \in K /\ k \in 1 .. x[i]
      /\ \A u \in Units(x) : /\ u = <<u[1], u[2]>>
                             /\ u[1] \in K /\ u[2] \in 1 .. x[u[1]]
  BY <1>1, UnitsFacts
<1>7. (\A i \in J : v[i] = w[i]) /\ (\A i \in K : x[i] = w[i]) OBVIOUS
<1>8. Units(v) \subseteq Units(w) BY <1>4, <1>5, <1>7
<1>9. Units(x) \subseteq Units(w) BY <1>4, <1>6, <1>7
<1>10. Units(w) \subseteq Units(v) \cup Units(x) BY <1>4, <1>5, <1>6, <1>7
<1>11. Units(v) \cap Units(x) = {} BY <1>5, <1>6
<1>12. Units(w) = Units(v) \cup Units(x) BY <1>8, <1>9, <1>10
<1>13. Cardinality(Units(w))
          = Cardinality(Units(v)) + Cardinality(Units(x)) - Cardinality(Units(v) \cap Units(x))
  BY <1>3, <1>12, FS_Union
<1>14. Sum(w) = Sum(v) + Sum(x)
  <2>1. Cardinality(Units(v) \cap Units(x)) = 0 BY <1>11, FS_EmptySet
  <2>2. Cardinality(Units(v)) \in Nat /\ Cardinality(Units(x)) \in Nat BY <1>3 DEF Sum
  <2>3. Cardinality(Units(w)) = Cardinality(Units(v)) + Cardinality(Units(x))
    BY ONLY <1>13, <2>1, <2>2
  <2> QED BY <2>3 DEF Sum
<1> QED BY <1>14

\* A larger function has a larger sum; a sum is positive where some value is.
LEMMA SumGrows ==
    ASSUME NEW I, IsFiniteSet(I), NEW v \in [I -> Nat], NEW w \in [I -> Nat],
           \A i \in I : v[i] <= w[i]
    PROVE  Sum(v) <= Sum(w)
<1>1. /\ \A i, k : <<i, k>> \in Units(w) <=> i \in I /\ k \in 1 .. w[i]
  BY UnitsFacts
<1>2. \A u \in Units(v) : u = <<u[1], u[2]>> /\ u[1] \in I /\ u[2] \in 1 .. v[u[1]]
  BY UnitsFacts
<1>3. ASSUME NEW u \in Units(v) PROVE u \in Units(w)
  <2>1. u = <<u[1], u[2]>> /\ u[1] \in I /\ u[2] \in 1 .. v[u[1]] BY <1>2
  <2>2. v[u[1]] <= w[u[1]] /\ v[u[1]] \in Nat /\ w[u[1]] \in Nat BY <2>1
  <2>3. u[2] \in 1 .. w[u[1]] BY <2>1, <2>2
  <2>4. <<u[1], u[2]>> \in Units(w) BY <1>1, <2>1, <2>3
  <2> QED BY <2>1, <2>4
<1>4. Units(v) \in SUBSET Units(w) BY <1>3
<1>5. IsFiniteSet(Units(w)) BY SumType
<1> QED BY <1>4, <1>5, FS_Subset DEF Sum

\* A sum that is not zero has a value that is not.
LEMMA SumPositive ==
    ASSUME NEW I, IsFiniteSet(I), NEW w \in [I -> Nat], Sum(w) # 0
    PROVE  \E i \in I : w[i] > 0
<1>1. Units(w) # {} BY FS_EmptySet DEF Sum
<1>2. PICK u \in Units(w) : TRUE BY <1>1
<1>3. u[1] \in I /\ u[2] \in 1 .. w[u[1]] BY UnitsFacts
<1>4. w[u[1]] \in Nat BY <1>3
<1>5. w[u[1]] > 0 BY <1>3, <1>4
<1> QED BY <1>3, <1>5

\* The sum over one index.
LEMMA SumOfOne ==
    ASSUME NEW a, NEW w \in [{a} -> Nat]
    PROVE  Sum(w) = w[a]
<1> DEFINE h == [k \in 1 .. w[a] |-> <<a, k>>]
<1>0. w[a] \in Nat OBVIOUS
<1>1. /\ \A i, k : <<i, k>> \in Units(w) <=> i \in {a} /\ k \in 1 .. w[i]
      /\ \A u \in Units(w) : u = <<u[1], u[2]>> /\ u[1] \in {a} /\ u[2] \in 1 .. w[u[1]]
  BY UnitsFacts
<1>2. h \in [1 .. w[a] -> Units(w)] BY <1>1
<1>3. \A k, m \in 1 .. w[a] : h[k] = h[m] => k = m OBVIOUS
<1>4. ASSUME NEW u \in Units(w) PROVE \E k \in 1 .. w[a] : h[k] = u
  <2>1. u = <<a, u[2]>> /\ u[2] \in 1 .. w[a] BY <1>1
  <2> QED BY <2>1
<1>5. h \in Bijection(1 .. w[a], Units(w))
  BY <1>2, <1>3, <1>4 DEF Bijection, Injection, Surjection, IsInjective
<1>6. ExistsBijection(1 .. w[a], Units(w)) BY <1>5 DEF ExistsBijection
<1> QED BY <1>0, <1>6, FS_CountingElements DEF Sum

\* The sum over no index.
LEMMA SumOfNone == ASSUME NEW w \in [{} -> Nat] PROVE Sum(w) = 0
<1>1. \A u \in Units(w) : u[1] \in {} BY UnitsFacts
<1>2. Units(w) = {} BY <1>1
<1> QED BY <1>2, FS_EmptySet DEF Sum

\* Rows and columns of a table have one sum.
LEMMA SumSwap ==
    ASSUME NEW I, IsFiniteSet(I), NEW T, IsFiniteSet(T), NEW c \in [I -> [T -> Nat]]
    PROVE  Sum([i \in I |-> Sum(c[i])]) = Sum([t \in T |-> Sum([i \in I |-> c[i][t]])])
<1> DEFINE row == [i \in I |-> Sum(c[i])]
           col(t) == [i \in I |-> c[i][t]]
           columns == [t \in T |-> Sum(col(t))]
           A == [i \in I |-> Units(c[i])]
           B == [t \in T |-> Units(col(t))]
           R == Members(I, A)
           C == Members(T, B)
           h == [u \in R |-> <<u[2][1], <<u[1], u[2][2]>>>>]
<1>1. \A i \in I : c[i] \in [T -> Nat] OBVIOUS
<1>2. \A t \in T : col(t) \in [I -> Nat] /\ \A i \in I : col(t)[i] = c[i][t] OBVIOUS
<1>3. /\ \A i \in I : IsFiniteSet(Units(c[i])) /\ Cardinality(Units(c[i])) = row[i]
      /\ row \in [I -> Nat]
  <2>1. \A i \in I : IsFiniteSet(Units(c[i])) /\ Sum(c[i]) \in Nat BY <1>1, SumType
  <2> QED BY <2>1 DEF Sum
<1> HIDE DEF col
<1>4. /\ \A t \in T : IsFiniteSet(Units(col(t))) /\ Cardinality(Units(col(t))) = columns[t]
      /\ columns \in [T -> Nat]
  <2>1. \A t \in T : IsFiniteSet(Units(col(t))) /\ Sum(col(t)) \in Nat BY <1>2, SumType
  <2> QED BY <2>1 DEF Sum
<1>5. IsFiniteSet(R) /\ Cardinality(R) = Sum(row)
  <2>1. \A i \in I : IsFiniteSet(A[i]) /\ Cardinality(A[i]) = row[i] BY <1>3
  <2> HIDE DEF A, row
  <2> QED BY <1>3, <2>1, MembersCounted
<1>6. IsFiniteSet(C) /\ Cardinality(C) = Sum(columns)
  <2>1. \A t \in T : IsFiniteSet(B[t]) /\ Cardinality(B[t]) = columns[t] BY <1>4
  <2> HIDE DEF B, columns
  <2> QED BY <1>4, <2>1, MembersCounted
<1>7. \A i \in I, t \in T : \A k \in 1 .. c[i][t] : <<i, <<t, k>>>> \in R
  <2> SUFFICES ASSUME NEW i \in I, NEW t \in T, NEW k \in 1 .. c[i][t] PROVE <<i, <<t, k>>>> \in R
    OBVIOUS
  <2>1. <<t, k>> \in A[i] BY <1>1, UnitsFacts
  <2> HIDE DEF A
  <2> QED BY <2>1, MembersFacts
<1>8. \A i \in I, t \in T : \A k \in 1 .. c[i][t] : <<t, <<i, k>>>> \in C
  <2> SUFFICES ASSUME NEW i \in I, NEW t \in T, NEW k \in 1 .. c[i][t] PROVE <<t, <<i, k>>>> \in C
    OBVIOUS
  <2>0. k \in 1 .. col(t)[i] BY <1>2
  <2>1. <<i, k>> \in B[t] BY <1>2, <2>0, UnitsFacts
  <2> HIDE DEF B
  <2> QED BY <2>1, MembersFacts
<1>9. ASSUME NEW u \in R
      PROVE  /\ u = <<u[1], <<u[2][1], u[2][2]>>>>
             /\ u[1] \in I /\ u[2][1] \in T /\ u[2][2] \in 1 .. c[u[1]][u[2][1]]
  <2>1. u = <<u[1], u[2]>> /\ u[1] \in I /\ u[2] \in A[u[1]]
    <3> HIDE DEF A
    <3> QED BY MembersFacts
  <2>2. u[2] \in Units(c[u[1]]) BY <2>1
  <2>3. u[2] = <<u[2][1], u[2][2]>> /\ u[2][1] \in T /\ u[2][2] \in 1 .. c[u[1]][u[2][1]]
    BY <1>1, <2>1, <2>2, UnitsFacts
  <2> QED BY <2>1, <2>3
<1>10. ASSUME NEW y \in C
      PROVE  /\ y = <<y[1], <<y[2][1], y[2][2]>>>>
             /\ y[1] \in T /\ y[2][1] \in I /\ y[2][2] \in 1 .. c[y[2][1]][y[1]]
  <2>1. y = <<y[1], y[2]>> /\ y[1] \in T /\ y[2] \in B[y[1]]
    <3> HIDE DEF B
    <3> QED BY MembersFacts
  <2>2. y[2] \in Units(col(y[1])) BY <2>1
  <2>3. y[2] = <<y[2][1], y[2][2]>> /\ y[2][1] \in I /\ y[2][2] \in 1 .. col(y[1])[y[2][1]]
    BY <1>2, <2>1, <2>2, UnitsFacts
  <2> QED BY <1>2, <2>1, <2>3
<1> HIDE DEF R, C
<1>11. h \in Bijection(R, C)
  <2>1. h \in [R -> C]
    <3> SUFFICES ASSUME NEW u \in R PROVE <<u[2][1], <<u[1], u[2][2]>>>> \in C OBVIOUS
    <3> QED BY <1>8, <1>9
  <2>2. ASSUME NEW u \in R, NEW x \in R, h[u] = h[x] PROVE u = x
    <3>1. u[2][1] = x[2][1] /\ u[1] = x[1] /\ u[2][2] = x[2][2] BY <2>2
    <3>2. u = <<u[1], <<u[2][1], u[2][2]>>>> /\ x = <<x[1], <<x[2][1], x[2][2]>>>> BY <1>9
    <3> QED BY <3>1, <3>2
  <2>3. ASSUME NEW y \in C PROVE \E u \in R : h[u] = y
    <3>1. y = <<y[1], <<y[2][1], y[2][2]>>>> BY <1>10
    <3>2. <<y[2][1], <<y[1], y[2][2]>>>> \in R BY <1>7, <1>10
    <3>3. h[<<y[2][1], <<y[1], y[2][2]>>>>] = y BY <3>1, <3>2
    <3> QED BY <3>2, <3>3
  <2> QED BY <2>1, <2>2, <2>3 DEF Bijection, Injection, Surjection, IsInjective
<1>12. ExistsBijection(R, C) BY <1>11 DEF ExistsBijection
<1>13. Sum(row) = Sum(columns) BY <1>5, <1>6, <1>12, FS_Bijection
<1> QED BY <1>13 DEF row, columns, col

\* The sum of a function's sums with another is the sum of the two sums.
LEMMA SumPlus ==
    ASSUME NEW I, IsFiniteSet(I), NEW v \in [I -> Nat], NEW w \in [I -> Nat]
    PROVE  Sum([i \in I |-> v[i] + w[i]]) = Sum(v) + Sum(w)
<1> DEFINE c == [j \in {1, 2} |-> IF j = 1 THEN v ELSE w]
           at(i) == [j \in {1, 2} |-> c[j][i]]
           sums == [j \in {1, 2} |-> Sum(c[j])]
<1>1. IsFiniteSet({1, 2})
  <2>1. {1, 2} = {1} \cup {2} OBVIOUS
  <2>2. IsFiniteSet({1}) BY FS_Singleton
  <2>3. IsFiniteSet({1} \cup {2}) BY <2>2, FS_AddElement
  <2> QED BY <2>1, <2>3
<1>2. c \in [{1, 2} -> [I -> Nat]] /\ c[1] = v /\ c[2] = w OBVIOUS
<1> HIDE DEF c
<1>3. Sum(sums) = Sum([i \in I |-> Sum(at(i))])
  <2> HIDE DEF sums, at
  <2>1. sums = [j \in {1, 2} |-> Sum(c[j])] BY DEF sums
  <2>2. \A i \in I : at(i) = [j \in {1, 2} |-> c[j][i]] BY DEF at
  <2>3. Sum([j \in {1, 2} |-> Sum(c[j])]) = Sum([i \in I |-> Sum([j \in {1, 2} |-> c[j][i]])])
    <3> DEFINE J == {1, 2}
    <3> SUFFICES Sum([j \in J |-> Sum(c[j])]) = Sum([i \in I |-> Sum([j \in J |-> c[j][i]])])
      OBVIOUS
    <3>1. IsFiniteSet(J) /\ c \in [J -> [I -> Nat]] BY <1>1, <1>2
    <3> HIDE DEF J
    <3> QED BY <3>1, SumSwap
  <2>4. [i \in I |-> Sum([j \in {1, 2} |-> c[j][i]])] = [i \in I |-> Sum(at(i))] BY <2>2
  <2> QED BY ONLY <2>1, <2>3, <2>4
<1>4. \A x \in [{1, 2} -> Nat] : Sum(x) = x[1] + x[2]
  <2> SUFFICES ASSUME NEW x \in [{1, 2} -> Nat] PROVE Sum(x) = x[1] + x[2] OBVIOUS
  <2> DEFINE a == [j \in {1} |-> x[j]]
             b == [j \in {2} |-> x[j]]
  <2>1. a \in [{1} -> Nat] /\ a[1] = x[1] /\ b \in [{2} -> Nat] /\ b[2] = x[2] OBVIOUS
  <2> HIDE DEF a, b
  <2>2. \A i \in {1} : i \in {1, 2} /\ a[i] = x[i] BY <2>1
  <2>3. \A i \in {2} : i \in {1, 2} /\ b[i] = x[i] BY <2>1
  <2>5. \A i \in {1, 2} : i \in {1} <=> i \notin {2} OBVIOUS
  <2>6. Sum(x) = Sum(a) + Sum(b) BY <1>1, <2>1, <2>2, <2>3, <2>5, SumSplit
  <2>4. Sum(a) = a[1] /\ Sum(b) = b[2] BY <2>1, SumOfOne
  <2> QED BY <2>1, <2>4, <2>6
<1>5. Sum(sums) = Sum(v) + Sum(w)
  <2>1. Sum(v) \in Nat /\ Sum(w) \in Nat BY SumType
  <2>2. sums \in [{1, 2} -> Nat] /\ sums[1] = Sum(v) /\ sums[2] = Sum(w) BY <1>2, <2>1
  <2> HIDE DEF sums
  <2> QED BY <1>4, <2>2
<1>6. ASSUME NEW i \in I PROVE Sum(at(i)) = v[i] + w[i]
  <2>1. at(i) \in [{1, 2} -> Nat] /\ at(i)[1] = v[i] /\ at(i)[2] = w[i] BY <1>2
  <2> HIDE DEF at
  <2> QED BY <1>4, <2>1
<1>7. [i \in I |-> Sum(at(i))] = [i \in I |-> v[i] + w[i]] BY <1>6
<1> QED BY <1>3, <1>5, <1>7

\* A sum of zeros is zero.
LEMMA SumOfZeros ==
    ASSUME NEW I, IsFiniteSet(I), NEW w \in [I -> Nat], \A i \in I : w[i] = 0
    PROVE  Sum(w) = 0
<1>1. Sum(w) # 0 => \E i \in I : w[i] > 0 BY SumPositive
<1> QED BY <1>1

\* A value and the sum of the others make up the sum.
LEMMA SumHas ==
    ASSUME NEW I, IsFiniteSet(I), NEW w \in [I -> Nat], NEW i \in I
    PROVE  /\ w[i] \in Nat /\ Sum([j \in I \ {i} |-> w[j]]) \in Nat
           /\ Sum(w) = w[i] + Sum([j \in I \ {i} |-> w[j]])
<1> DEFINE a == [j \in {i} |-> w[j]]
           b == [j \in I \ {i} |-> w[j]]
<1>1. \A j \in I \ {i} : b[j] = w[j] OBVIOUS
<1>3. a \in [{i} -> Nat] /\ a[i] = w[i] /\ b \in [I \ {i} -> Nat]
  OBVIOUS
<1>4. IsFiniteSet(I \ {i})
  <2>1. I \ {i} \in SUBSET I OBVIOUS
  <2> QED BY <2>1, FS_Subset
<1> HIDE DEF a, b
<1>2. Sum(w) = Sum(a) + Sum(b)
  <2> DEFINE K == I \ {i}
  <2>1. \A j \in {i} : j \in I /\ a[j] = w[j] BY <1>3
  <2>2. b \in [K -> Nat] /\ \A j \in K : j \in I /\ b[j] = w[j] BY <1>1, <1>3
  <2>3. \A j \in I : j \in {i} <=> j \notin K OBVIOUS
  <2> HIDE DEF K
  <2> QED BY <1>3, <2>1, <2>2, <2>3, SumSplit
<1>5. Sum(a) = w[i] /\ Sum(b) \in Nat BY <1>3, <1>4, SumOfOne, SumType
<1>6. w[i] \in Nat OBVIOUS
<1> QED BY <1>2, <1>5, <1>6 DEF b

-----------------------------------------------------------------------------
(* Concatenated *)

\* An entry of a sequence.
LEMMA EntryIn ==
    ASSUME NEW S, NEW s \in Seq(S), NEW i \in 1 .. Len(s) PROVE s[i] \in S
OBVIOUS

\* The length of a sequence in a sequence.
LEMMA ElementLength ==
    ASSUME NEW S, NEW ss \in Seq(Seq(S))
    PROVE  Len(ss) \in Nat /\ \A k \in 1 .. Len(ss) : ss[k] \in Seq(S) /\ Len(ss[k]) \in Nat
<1>1. Len(ss) \in Nat /\ \A k \in 1 .. Len(ss) : ss[k] \in Seq(S) OBVIOUS
<1>2. \A s \in Seq(S) : Len(s) \in Nat OBVIOUS
<1> QED BY <1>1, <1>2

\* Finitely many naturals have a least one.
LEMMA LeastFacts ==
    ASSUME NEW I, I \subseteq Nat, IsFiniteSet(I), I # {}
    PROVE  \E i \in I : \A j \in I : i <= j
<1>1. /\ Cardinality(I) \in Nat
      /\ \A i \in I : Rank(I, i) \in 1 .. Cardinality(I)
      /\ \A i, j \in I : i < j => Rank(I, i) < Rank(I, j)
  BY RankFacts
<1>2. Cardinality(I) # 0 BY FS_EmptySet
<1>3. 1 \in 1 .. Cardinality(I) BY <1>1, <1>2
<1>4. PICK i \in I : i = Nth(I, 1) /\ Rank(I, i) = 1 BY <1>3, NthFacts
<1>5. ASSUME NEW j \in I PROVE i <= j
  <2>1. j < i => Rank(I, j) < 1 BY <1>1, <1>4
  <2>2. Rank(I, j) \in Nat /\ Rank(I, j) >= 1 BY <1>1
  <2> QED BY <2>1, <2>2
<1> QED BY <1>5

\* Where each of the sequences begins: after the ones before it.
LEMMA OffsetFacts ==
    ASSUME NEW S, NEW ss \in Seq(Seq(S))
    PROVE  /\ Offset(ss, 0) = 0
           /\ \A k \in 0 .. Len(ss) : Offset(ss, k) \in Nat
           /\ \A k \in 1 .. Len(ss) : Offset(ss, k) = Offset(ss, k - 1) + Len(ss[k])
           /\ \A j, k \in 0 .. Len(ss) : j <= k => Offset(ss, j) <= Offset(ss, k)
<1> DEFINE n == Len(ss)
           w(k) == [j \in 1 .. k |-> Len(ss[j])]
<1>1. n \in Nat /\ \A k \in 1 .. n : ss[k] \in Seq(S) /\ Len(ss[k]) \in Nat
  BY ElementLength
<1>2. \A k \in 0 .. n : w(k) \in [1 .. k -> Nat] /\ IsFiniteSet(1 .. k) /\ Sum(w(k)) \in Nat
  <2> SUFFICES ASSUME NEW k \in 0 .. n
               PROVE  w(k) \in [1 .. k -> Nat] /\ IsFiniteSet(1 .. k) /\ Sum(w(k)) \in Nat
    OBVIOUS
  <2>1. w(k) \in [1 .. k -> Nat] BY <1>1
  <2>2. IsFiniteSet(1 .. k) BY <1>1, FS_Interval
  <2> HIDE DEF w
  <2> QED BY <2>1, <2>2, SumType
<1>3. \A k : Offset(ss, k) = Sum(w(k)) BY DEF Offset
<1>4. Offset(ss, 0) = 0
  <2>1. w(0) \in [{} -> Nat] OBVIOUS
  <2> HIDE DEF w
  <2> QED BY <1>3, <2>1, SumOfNone
<1>5. ASSUME NEW k \in 0 .. n, NEW j \in 0 .. n, j <= k
      PROVE  \E d \in Nat : /\ Sum(w(k)) = Sum(w(j)) + d
                            /\ k = j + 1 => d = Len(ss[k])
  <2> DEFINE K == j + 1 .. k
             x == [i \in K |-> Len(ss[i])]
  <2>a. K \subseteq 1 .. n /\ j + 1 \in Int /\ k \in Int BY <1>1
  <2>1. x \in [K -> Nat] /\ IsFiniteSet(K)
    <3>1. IsFiniteSet(K) BY <2>a, FS_Interval
    <3>2. \A i \in K : Len(ss[i]) \in Nat BY <1>1, <2>a
    <3> QED BY <3>1, <3>2
  <2>2. \A i \in 1 .. j : i \in 1 .. k /\ w(j)[i] = w(k)[i] BY <1>1, <1>5
  <2>3. \A i \in K : i \in 1 .. k /\ x[i] = w(k)[i] BY <1>1, <1>5
  <2>4. \A i \in 1 .. k : i \in 1 .. j <=> i \notin K BY <1>1, <1>5
  <2>5. ASSUME k = j + 1 PROVE Sum(x) = Len(ss[k])
    <3>1. x \in [{k} -> Nat] /\ x[k] = Len(ss[k]) BY <1>1, <1>5, <2>1, <2>5
    <3> HIDE DEF x
    <3> QED BY <3>1, SumOfOne
  <2>b. /\ w(k) \in [1 .. k -> Nat] /\ IsFiniteSet(1 .. k) /\ w(j) \in [1 .. j -> Nat]
        /\ Sum(w(j)) \in Nat
    BY <1>2
  <2> DEFINE J == 1 .. j
             I == 1 .. k
  <2>c. /\ \A i \in J : i \in I /\ w(j)[i] = w(k)[i]
        /\ \A i \in K : i \in I /\ x[i] = w(k)[i]
        /\ \A i \in I : i \in J <=> i \notin K
        /\ w(k) \in [I -> Nat] /\ IsFiniteSet(I) /\ w(j) \in [J -> Nat]
    BY <2>2, <2>3, <2>4, <2>b
  <2> HIDE DEF K, x, w, I, J
  <2>6. Sum(w(k)) = Sum(w(j)) + Sum(x) BY ONLY <2>1, <2>c, SumSplit
  <2>7. Sum(x) \in Nat BY <2>1, SumType
  <2> QED BY <2>5, <2>6, <2>7
<1> HIDE DEF w
<1>6. ASSUME NEW k \in 1 .. n PROVE Sum(w(k)) = Sum(w(k - 1)) + Len(ss[k])
  <2>1. k \in 0 .. n /\ k - 1 \in 0 .. n /\ k - 1 <= k /\ k = (k - 1) + 1 BY <1>1
  <2> QED BY <1>5, <2>1
<1>7. ASSUME NEW j \in 0 .. n, NEW k \in 0 .. n, j <= k PROVE Sum(w(j)) <= Sum(w(k))
  <2>1. PICK d \in Nat : Sum(w(k)) = Sum(w(j)) + d BY <1>5, <1>7
  <2> QED BY <1>2, <2>1
<1> QED BY <1>2, <1>3, <1>4, <1>6, <1>7

\* Every entry of every sequence has its place, and there are no others.
LEMMA ConcatenatedFacts ==
    ASSUME NEW S, NEW ss \in Seq(Seq(S))
    PROVE  /\ Concatenated(ss) \in Seq(S)
           /\ \A k \in 1 .. Len(ss) : \A i \in 1 .. Len(ss[k]) :
                 /\ Offset(ss, k - 1) + i \in DOMAIN Concatenated(ss)
                 /\ Concatenated(ss)[Offset(ss, k - 1) + i] = ss[k][i]
           /\ \A p \in DOMAIN Concatenated(ss) :
                 \E k \in 1 .. Len(ss) : \E i \in 1 .. Len(ss[k]) : p = Offset(ss, k - 1) + i
<1> DEFINE n == Len(ss)
           O(k) == Offset(ss, k)
           Holds(k, p) == O(k - 1) < p /\ p <= O(k)
           at(p) == CHOOSE k \in 1 .. n : Holds(k, p)
           c == [p \in 1 .. O(n) |-> ss[at(p)][p - O(at(p) - 1)]]
<1>1. n \in Nat /\ \A k \in 1 .. n : ss[k] \in Seq(S) /\ Len(ss[k]) \in Nat
  BY ElementLength
<1>2. /\ O(0) = 0
      /\ \A k \in 0 .. n : O(k) \in Nat
      /\ \A k \in 1 .. n : O(k) = O(k - 1) + Len(ss[k])
      /\ \A j, k \in 0 .. n : j <= k => O(j) <= O(k)
  BY OffsetFacts
<1>3. Concatenated(ss) = c BY DEF Concatenated
<1> HIDE DEF O
<1>4. n \in 0 .. n /\ 0 \in 0 .. n /\ O(n) \in Nat BY <1>1, <1>2
<1>5. ASSUME NEW p \in 1 .. O(n) PROVE \E k \in 1 .. n : Holds(k, p)
  <2> DEFINE I == {k \in 1 .. n : p <= O(k)}
  <2>1. I \in SUBSET (1 .. n) /\ IsFiniteSet(1 .. n) BY <1>1, FS_Interval
  <2>2. IsFiniteSet(I) /\ I \subseteq Nat BY <2>1, FS_Subset
  <2>3. n \in I
    <3>1. n # 0 BY <1>2, <1>4
    <3> QED BY <1>1, <1>4, <3>1
  <2>4. \A k \in 1 .. n : k \in I <=> p <= O(k) OBVIOUS
  <2> HIDE DEF I
  <2>5. PICK k \in I : \A j \in I : k <= j BY <2>2, <2>3, LeastFacts
  <2>6. k \in 1 .. n /\ p <= O(k) BY <2>1, <2>4
  <2>7. O(k - 1) < p
    <3>1. CASE k = 1 BY <1>2, <3>1
    <3>2. CASE k # 1
      <4>1. k - 1 \in 1 .. n /\ k - 1 \in 0 .. n /\ ~(k <= k - 1) BY <1>1, <2>6, <3>2
      <4>2. ~(p <= O(k - 1)) BY <2>4, <2>5, <4>1
      <4> QED BY <1>2, <1>4, <4>1, <4>2
    <3> QED BY <3>1, <3>2
  <2> QED BY <2>6, <2>7
<1>6. ASSUME NEW p \in 1 .. O(n), NEW j \in 1 .. n, NEW k \in 1 .. n, Holds(j, p), Holds(k, p)
      PROVE  j = k
  <2>0. /\ j - 1 \in 0 .. n /\ k - 1 \in 0 .. n /\ j \in 0 .. n /\ k \in 0 .. n
        /\ p \in Nat
    BY <1>1, <1>4
  <2>1. O(j) \in Nat /\ O(k) \in Nat /\ O(j - 1) \in Nat /\ O(k - 1) \in Nat BY <1>2, <2>0
  <2>2. j < k => O(j) <= O(k - 1)
    <3>1. j < k => j <= k - 1 BY <1>1
    <3> QED BY <1>2, <2>0, <3>1
  <2>3. k < j => O(k) <= O(j - 1)
    <3>1. k < j => k <= j - 1 BY <1>1
    <3> QED BY <1>2, <2>0, <3>1
  <2>4. ~(j < k) BY <1>6, <2>0, <2>1, <2>2
  <2>5. ~(k < j) BY <1>6, <2>0, <2>1, <2>3
  <2> QED BY <1>1, <2>4, <2>5
<1>7. \A p \in 1 .. O(n) : at(p) \in 1 .. n /\ Holds(at(p), p) BY <1>5
<1>8. ASSUME NEW p \in 1 .. O(n)
      PROVE  /\ at(p) \in 1 .. n /\ p - O(at(p) - 1) \in 1 .. Len(ss[at(p)])
             /\ p = O(at(p) - 1) + (p - O(at(p) - 1))
             /\ c[p] \in S
  <2> DEFINE k == at(p)
  <2>1. k \in 1 .. n /\ O(k - 1) < p /\ p <= O(k) BY <1>7
  <2>4. c[p] = ss[k][p - O(k - 1)] OBVIOUS
  <2> HIDE DEF k, c
  <2>2. /\ O(k - 1) \in Nat /\ O(k) = O(k - 1) + Len(ss[k]) /\ p \in Nat
        /\ ss[k] \in Seq(S) /\ Len(ss[k]) \in Nat
    <3>1. k - 1 \in 0 .. n BY <1>1, <2>1
    <3> QED BY <1>1, <1>2, <1>4, <2>1, <3>1
  <2>3. p - O(k - 1) \in 1 .. Len(ss[k]) /\ p = O(k - 1) + (p - O(k - 1)) BY <2>1, <2>2
  <2>5. ss[k][p - O(k - 1)] \in S BY <2>2, <2>3, EntryIn
  <2>6. k \in 1 .. n BY <2>1
  <2> QED BY <2>3, <2>4, <2>5, <2>6 DEF k
<1>9. ASSUME NEW k \in 1 .. n, NEW i \in 1 .. Len(ss[k])
      PROVE  O(k - 1) + i \in 1 .. O(n) /\ c[O(k - 1) + i] = ss[k][i]
  <2> DEFINE p == O(k - 1) + i
  <2>0. k - 1 \in 0 .. n /\ k \in 0 .. n /\ k <= n BY <1>1
  <2>1. /\ O(k - 1) \in Nat /\ O(k) \in Nat /\ O(k) = O(k - 1) + Len(ss[k])
        /\ O(k) <= O(n) /\ Len(ss[k]) \in Nat
    BY <1>1, <1>2, <1>4, <2>0
  <2>2. p \in 1 .. O(n) /\ p > O(k - 1) /\ p <= O(k) /\ p - O(k - 1) = i BY <1>4, <2>1
  <2> HIDE DEF p
  <2>3. at(p) \in 1 .. n /\ Holds(at(p), p) BY <1>7, <2>2
  <2>4. Holds(k, p) BY <2>2
  <2>5. at(p) = k
    <3> HIDE DEF at, Holds
    <3> QED BY <1>6, <2>2, <2>3, <2>4
  <2>6. c[p] = ss[at(p)][p - O(at(p) - 1)] BY <2>2
  <2>7. c[p] = ss[k][i]
    <3> HIDE DEF at, c
    <3> QED BY <2>2, <2>5, <2>6
  <2> QED BY <2>2, <2>7 DEF p
<1>10. DOMAIN c = 1 .. O(n) OBVIOUS
<1> HIDE DEF at, Holds
<1>11. c \in Seq(S)
  <2>1. c = [p \in 1 .. O(n) |-> c[p]] OBVIOUS
  <2>2. O(n) \in Nat /\ \A p \in 1 .. O(n) : c[p] \in S BY <1>4, <1>8
  <2> HIDE DEF c
  <2> QED BY ONLY <2>1, <2>2
<1> HIDE DEF c
<1>12. \A p \in DOMAIN c : \E k \in 1 .. n : \E i \in 1 .. Len(ss[k]) : p = O(k - 1) + i
  BY <1>8, <1>10
<1> QED BY <1>3, <1>9, <1>10, <1>11, <1>12 DEF O

-----------------------------------------------------------------------------
(* Numbers and recursion *)

\* Induction on the numbers up to N, for the set of those that have the property.
LEMMA Induction ==
    ASSUME NEW N \in Nat, NEW T, 0 \in T, \A n \in Nat : n < N /\ n \in T => n + 1 \in T
    PROVE  \A n \in 0 .. N : n \in T
<1> DEFINE I == {n \in 0 .. N : n \notin T}
<1>1. I \subseteq Nat /\ IsFiniteSet(I)
  <2>1. IsFiniteSet(0 .. N) BY FS_Interval
  <2> QED BY <2>1, FS_Subset
<1>2. CASE I # {}
  <2>1. PICK m \in I : \A n \in I : m <= n BY <1>1, <1>2, LeastFacts
  <2>2. m # 0 OBVIOUS
  <2>3. m - 1 \in Nat /\ m - 1 < N /\ m - 1 \notin I BY <2>1, <2>2
  <2>4. m - 1 \in T BY <2>3
  <2>5. (m - 1) + 1 \in T BY <2>3, <2>4
  <2> QED BY <2>5
<1> QED BY <1>2

\* f is what the steps G make of base, one after the other.
Recurses(f, n, S, base, G) ==
    /\ f \in [0 .. n -> S] /\ f[0] = base
    /\ \A i \in 1 .. n : f[i] = G[<<i, f[i - 1]>>]

\* A recursion on the numbers up to n, by steps in a set, has a solution.
LEMMA Recursion ==
    ASSUME NEW n \in Nat, NEW S, NEW base \in S, NEW G \in [(1 .. n) \X S -> S]
    PROVE  \E f : Recurses(f, n, S, base, G)
<1> DEFINE F(f, k) == /\ f \in [0 .. k -> S] /\ f[0] = base
                      /\ \A i \in 1 .. k : f[i] = G[<<i, f[i - 1]>>]
           T == {k \in 0 .. n : \E f : F(f, k)}
<1>1. 0 \in T
  <2> DEFINE f == [i \in 0 .. 0 |-> base]
  <2>1. f \in [0 .. 0 -> S] /\ f[0] = base OBVIOUS
  <2> HIDE DEF f
  <2>2. F(f, 0) BY <2>1
  <2> QED BY <2>2
<1>2. ASSUME NEW k \in Nat, k < n, k \in T PROVE k + 1 \in T
  <2>1. PICK f : F(f, k) BY <1>2
  <2> DEFINE g == [i \in 0 .. k + 1 |-> IF i = k + 1 THEN G[<<k + 1, f[k]>>] ELSE f[i]]
  <2>2. G[<<k + 1, f[k]>>] \in S
    <3>1. k + 1 \in 1 .. n /\ f[k] \in S BY <1>2, <2>1
    <3> QED BY <3>1
  <2>3. g \in [0 .. k + 1 -> S] BY <2>1, <2>2
  <2>4. g[0] = base BY <2>1
  <2>5. ASSUME NEW i \in 1 .. k + 1 PROVE g[i] = G[<<i, g[i - 1]>>]
    <3>1. CASE i = k + 1
      <4>1. g[i] = G[<<k + 1, f[k]>>] /\ g[i - 1] = f[k] BY <3>1
      <4> QED BY <3>1, <4>1
    <3>2. CASE i \in 1 .. k
      <4>1. g[i] = f[i] /\ g[i - 1] = f[i - 1] BY <3>2
      <4> QED BY <2>1, <3>2, <4>1
    <3> QED BY <3>1, <3>2
  <2> HIDE DEF g
  <2>6. F(g, k + 1) BY <2>3, <2>4, <2>5
  <2>7. k + 1 \in 0 .. n BY <1>2
  <2> QED BY <2>6, <2>7
<1> HIDE DEF T
<1>3. \A k \in 0 .. n : k \in T BY <1>1, <1>2, Induction
<1>4. n \in T BY <1>3
<1> QED BY <1>4 DEF T, Recurses

\* Quotient and remainder, and that there is only one of each.
LEMMA Division ==
    ASSUME NEW a \in Int, NEW s \in Nat, s > 0
    PROVE  /\ a \div s \in Int /\ a % s \in 0 .. s - 1 /\ a = s * (a \div s) + (a % s)
           /\ \A q \in Int, r \in 0 .. s - 1 : a = s * q + r => q = a \div s /\ r = a % s
<1>1. a \div s \in Int /\ a % s \in 0 .. s - 1 /\ a = s * (a \div s) + (a % s)
  OBVIOUS
<1>2. ASSUME NEW q \in Int, NEW r \in 0 .. s - 1, NEW u \in Int, NEW v \in 0 .. s - 1,
             s * q + r = s * u + v, q < u
      PROVE  FALSE
  <2>1. u = q + (u - q) /\ u - q >= 1 /\ u - q \in Int BY <1>2
  <2>2. s * u = s * q + s * (u - q) OBVIOUS
  <2>3. s * (u - q) >= s BY <2>1
  <2>4. s * q \in Int /\ s * u \in Int /\ s * (u - q) \in Int OBVIOUS
  <2>5. r - v >= s BY <1>2, <2>2, <2>3, <2>4
  <2> QED BY <2>5
<1>3. ASSUME NEW q \in Int, NEW r \in 0 .. s - 1, a = s * q + r
      PROVE  q = a \div s /\ r = a % s
  <2>1. q = a \div s BY <1>1, <1>2, <1>3
  <2> QED BY <1>1, <1>3, <2>1
<1> QED BY <1>1, <1>3

=============================================================================
