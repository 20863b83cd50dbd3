------------------------- MODULE MessageStoreProofs -------------------------
(***************************************************************************)
(* Proofs about MessageStore, for records, receptions and restarts of any  *)
(* number: that the file loses and counts twice no reception, that it can  *)
(* be loaded, that what the Display shows was earned by three receptions,  *)
(* and that a verified text is shown.                                      *)
(*                                                                         *)
(* Safety, at the end, is one invariant of four parts.  StoreInv says that *)
(* each record of the file has the receptions its text and its evidence    *)
(* claim; BooksInv that the counts of the file and the history agree;      *)
(* ShownInv follows from both; VisibleInv ties the text that suppresses    *)
(* repeats to the Display.  Most of the work is about sums: a merge and    *)
(* the bound move receptions between records.                              *)
(***************************************************************************)
EXTENDS MessageStore, SequenceTheorems, OperatorLemmas, FiniteSetTheorems, TLAPS

-----------------------------------------------------------------------------
(* Receptions and consensus *)

\* One(t) counts one reception.
LEMMA OneFacts ==
    ASSUME NEW t \in Texts
    PROVE  /\ One(t) \in [Texts -> Nat]
           /\ \A u \in Texts : One(t)[u] = IF u = t THEN 1 ELSE 0
           /\ Sum(One(t)) = 1
<1>1. One(t) \in [Texts -> Nat] /\ \A u \in Texts : One(t)[u] = IF u = t THEN 1 ELSE 0
  BY DEF One, NoCounts
<1>2. IsFiniteSet(Texts) BY MessageAssumption
<1> DEFINE rest == [u \in Texts \ {t} |-> One(t)[u]]
<1>3. Sum(One(t)) = One(t)[t] + Sum(rest) BY <1>1, <1>2, SumHas
<1>4. IsFiniteSet(Texts \ {t})
  <2>1. Texts \ {t} \in SUBSET Texts OBVIOUS
  <2> QED BY <1>2, <2>1, FS_Subset
<1>5. rest \in [Texts \ {t} -> Nat] /\ \A u \in Texts \ {t} : rest[u] = 0 BY <1>1
<1> HIDE DEF rest
<1>6. Sum(rest) = 0 BY <1>4, <1>5, SumOfZeros
<1> QED BY <1>1, <1>3, <1>6

\* A voted text is a reception, but for letters from receptions aligned with it.
LEMMA ConsensusFacts ==
    ASSUME NEW counts \in [Texts -> Nat], NEW text \in Consensus(counts)
    PROVE  Letters(text, counts)
<1>1. PICK m \in Medoids(counts) : \E order \in SetToSeqs(Variants(counts)) :
              text = Voted(m, Winners(counts, m), order)
  BY DEF Consensus
<1>2. PICK order \in SetToSeqs(Variants(counts)) : text = Voted(m, Winners(counts, m), order)
  BY <1>1
<1>3. m \in Texts /\ counts[m] > 0 BY DEF Medoids, Variants
<1> DEFINE n == Cardinality(Variants(counts))
<1>4. n \in Nat
  <2>1. Variants(counts) \in SUBSET Texts BY DEF Variants
  <2>2. IsFiniteSet(Variants(counts)) BY <2>1, MessageAssumption, FS_Subset
  <2> QED BY <2>2, FS_CardinalityType
<1>5. order \in [1 .. n -> Variants(counts)] BY DEF SetToSeqs
<1> HIDE DEF n
<1> DEFINE Read(p, i) ==
               {w \in Winners(counts, m) : w[1] = p /\ <<m, p, order[i], w[2]>> \in Readings}
           I(p) == {i \in DOMAIN order : Read(p, i) # {}}
<1>6. /\ DOMAIN text = DOMAIN m
      /\ \A p \in DOMAIN m :
            text[p] = IF I(p) = {} THEN m[p] ELSE (CHOOSE w \in Read(p, Nth(I(p), 1)) : TRUE)[2]
  BY <1>2 DEF Voted
<1>7. ASSUME NEW p \in DOMAIN text, text[p] # m[p]
      PROVE  \E t \in Texts : counts[t] > 0 /\ <<m, p, t, text[p]>> \in Readings
  <2> DEFINE i == Nth(I(p), 1)
  <2>1. i \in I(p)
    <3>0. I(p) \in SUBSET (1 .. n) BY <1>5
    <3> HIDE DEF I
    <3>1. I(p) # {} BY <1>6, <1>7
    <3>2. I(p) \subseteq Nat /\ IsFiniteSet(I(p))
      <4>1. IsFiniteSet(1 .. n) BY <1>4, FS_Interval
      <4>2. IsFiniteSet(I(p)) BY <3>0, <4>1, FS_Subset
      <4> QED BY <1>4, <3>0, <4>2
    <3>3. Cardinality(I(p)) \in Nat /\ Cardinality(I(p)) # 0
      BY <3>1, <3>2, FS_CardinalityType, FS_EmptySet
    <3>4. 1 \in 1 .. Cardinality(I(p)) BY <3>3
    <3> QED BY <3>1, <3>2, <3>4, NthFacts
  <2>2. text[p] = (CHOOSE w \in Read(p, i) : TRUE)[2] BY <1>6, <1>7
  <2>3. i \in DOMAIN order /\ Read(p, i) # {} BY <2>1
  <2> HIDE DEF i
  <2>4. \E w \in Read(p, i) : w[2] = text[p] BY <2>2, <2>3
  <2>5. <<m, p, order[i], text[p]>> \in Readings BY <2>4
  <2>6. order[i] \in Texts /\ counts[order[i]] > 0 BY <1>5, <2>3 DEF Variants
  <2> QED BY <2>5, <2>6
<1> QED BY <1>3, <1>6, <1>7 DEF Letters

-----------------------------------------------------------------------------
(* Records *)

\* all has r and, each once, the records that are not at the positions I.
Placed(all, I, r) ==
    \E p \in DOMAIN all :
        /\ all[p] = r
        /\ \E g \in Bijection(DOMAIN all \ {p}, DOMAIN records \ I) :
              \A k \in DOMAIN all \ {p} : all[k] = records[g[k]]

\* A record is put among those that stay, each of which keeps its content.
LEMMA WithRecordFacts ==
    ASSUME NEW S, records \in Seq(S), NEW I, I \subseteq DOMAIN records, NEW r
    PROVE  /\ WithRecord(I, r) \in Seq(S \cup {r})
           /\ Placed(WithRecord(I, r), I, r)
<1> DEFINE rest == DOMAIN records \ I
           older == {i \in rest : \/ records[i].last < r.last
                                  \/ records[i].last = r.last /\ (I # {} => i < Newest(I))}
           younger == rest \ older
           a == Picked(records, older)
           b == Picked(records, younger)
           all == WithRecord(I, r)
           n == Cardinality(older)
           m == Cardinality(younger)
           p == n + 1
<1>1. all = a \o <<r>> \o b BY DEF WithRecord
<1>2. /\ rest \subseteq DOMAIN records /\ older \subseteq rest /\ younger \subseteq rest
      /\ rest = older \cup younger /\ older \cap younger = {}
  OBVIOUS
<1> HIDE DEF rest, older, younger, all
<1>3. /\ a \in Seq(S) /\ Len(a) = n
      /\ \A k \in DOMAIN a : Nth(older, k) \in older /\ a[k] = records[Nth(older, k)]
      /\ \A i \in older : Rank(older, i) \in DOMAIN a
      /\ \A k, l \in DOMAIN a : k < l => Nth(older, k) < Nth(older, l)
  BY <1>2, PickedFacts
<1>4. /\ b \in Seq(S) /\ Len(b) = m
      /\ \A k \in DOMAIN b : Nth(younger, k) \in younger /\ b[k] = records[Nth(younger, k)]
      /\ \A i \in younger : Rank(younger, i) \in DOMAIN b
      /\ \A k, l \in DOMAIN b : k < l => Nth(younger, k) < Nth(younger, l)
  BY <1>2, PickedFacts
<1>5. /\ n \in Nat /\ \A i \in older : Rank(older, i) \in 1 .. n /\ Nth(older, Rank(older, i)) = i
      /\ m \in Nat /\ \A i \in younger : Rank(younger, i) \in 1 .. m
                                         /\ Nth(younger, Rank(younger, i)) = i
  <2>1. older \subseteq Nat /\ younger \subseteq Nat /\ IsFiniteSet(older) /\ IsFiniteSet(younger)
    <3>0. Len(records) \in Nat /\ DOMAIN records = 1 .. Len(records) OBVIOUS
    <3>1. older \in SUBSET (1 .. Len(records)) /\ younger \in SUBSET (1 .. Len(records))
      BY <1>2, <3>0
    <3>2. IsFiniteSet(1 .. Len(records)) BY <3>0, FS_Interval
    <3>3. IsFiniteSet(older) /\ IsFiniteSet(younger) BY <3>1, <3>2, FS_Subset
    <3>4. \A i \in 1 .. Len(records) : i \in Nat BY <3>0
    <3> QED BY <3>1, <3>3, <3>4
  <2> QED BY <2>1, NthFacts
<1>6. DOMAIN a = 1 .. n /\ DOMAIN b = 1 .. m BY <1>3, <1>4, <1>5
<1> HIDE DEF a, b, n, m
<1>7. /\ all \in Seq(S \cup {r}) /\ Len(all) = n + 1 + m
      /\ \A k \in 1 .. n : all[k] = a[k]
      /\ all[p] = r
      /\ \A k \in 1 .. m : all[p + k] = b[k]
  <2>1. a \in Seq(S \cup {r}) /\ b \in Seq(S \cup {r}) /\ <<r>> \in Seq(S \cup {r})
    BY <1>3, <1>4
  <2>2. a \o <<r>> \in Seq(S \cup {r}) /\ Len(a \o <<r>>) = n + 1
        /\ (\A k \in 1 .. n : (a \o <<r>>)[k] = a[k]) /\ (a \o <<r>>)[p] = r
    BY <1>3, <1>5, <1>6, <2>1
  <2> DEFINE c == a \o <<r>>
  <2> HIDE DEF c
  <2>3. c \o b \in Seq(S \cup {r}) /\ Len(c \o b) = n + 1 + m
        /\ (\A k \in 1 .. p : (c \o b)[k] = c[k]) /\ \A k \in 1 .. m : (c \o b)[p + k] = b[k]
    <3>1. c \in Seq(S \cup {r}) /\ Len(c) = p /\ Len(b) = m /\ m \in Nat /\ p \in Nat
      BY <1>4, <1>5, <2>2 DEF c
    <3>2. c \o b \in Seq(S \cup {r}) /\ Len(c \o b) = p + m
      BY ONLY <2>1, <3>1, ConcatProperties
    <3>3. \A k \in 1 .. p : (c \o b)[k] = c[k] BY <2>1, <3>1
    <3>4. \A k \in 1 .. m : (c \o b)[p + k] = b[k] BY <2>1, <3>1
    <3> QED BY <3>2, <3>3, <3>4
  <2>4. all = c \o b BY <1>1 DEF c
  <2>5. c[p] = r /\ \A k \in 1 .. n : c[k] = a[k] BY <2>2 DEF c
  <2>6. p \in 1 .. p /\ \A k \in 1 .. n : k \in 1 .. p BY <1>5
  <2> QED BY <2>3, <2>4, <2>5, <2>6
<1> DEFINE others == DOMAIN all \ {p}
           g == [k \in others |-> IF k <= n THEN Nth(older, k) ELSE Nth(younger, k - p)]
<1>8. DOMAIN all = 1 .. (p + m) /\ p \in DOMAIN all /\ p \in Nat
  BY <1>5, <1>7
<1>9. ASSUME NEW k \in others
      PROVE  \/ k \in 1 .. n /\ k <= n
             \/ k \in Nat /\ ~(k <= n) /\ k - p \in 1 .. m /\ k = p + (k - p)
  BY <1>5, <1>8
<1>10. ASSUME NEW k \in others PROVE g[k] \in rest /\ all[k] = records[g[k]]
  <2>1. CASE k \in 1 .. n /\ k <= n
    <3>1. g[k] = Nth(older, k) BY <2>1
    <3> QED BY <1>2, <1>3, <1>6, <1>7, <2>1, <3>1
  <2>2. CASE ~(k <= n) /\ k - p \in 1 .. m /\ k = p + (k - p)
    <3>1. g[k] = Nth(younger, k - p) BY <2>2
    <3>2. all[p + (k - p)] = b[k - p] BY <1>7, <2>2
    <3> QED BY <1>2, <1>4, <1>6, <2>2, <3>1, <3>2
  <2> QED BY <1>9, <2>1, <2>2
<1>11. ASSUME NEW k \in others, NEW l \in others, g[k] = g[l] PROVE k = l
  <2>0. \A i \in older : i \notin younger BY <1>2
  <2>1. CASE k \in 1 .. n /\ k <= n
    <3>1. g[k] = Nth(older, k) /\ g[k] \in older BY <1>3, <1>6, <2>1
    <3>2. CASE l \in 1 .. n /\ l <= n
      <4>1. g[l] = Nth(older, l) BY <3>2
      <4>2. ~(k < l) /\ ~(l < k)
        <5>1. \A i \in older : i \in 1 .. Len(records) BY <1>2
        <5>2. g[k] \in Int /\ g[l] \in Int BY <1>11, <3>1, <5>1
        <5>3. \A x, y \in 1 .. n : x < y => Nth(older, x) < Nth(older, y) BY <1>3, <1>6
        <5>4. Nth(older, k) = Nth(older, l) /\ Nth(older, k) \in Int BY <1>11, <3>1, <4>1, <5>2
        <5> QED BY ONLY <2>1, <3>2, <5>3, <5>4
      <4> QED BY <2>1, <3>2, <4>2
    <3>3. CASE ~(l <= n) /\ l - p \in 1 .. m
      <4>1. g[l] = Nth(younger, l - p) BY <3>3
      <4>2. g[l] \in younger BY <1>4, <1>6, <3>3, <4>1
      <4> QED BY <1>11, <2>0, <3>1, <4>2
    <3> QED BY <1>9, <3>2, <3>3
  <2>2. CASE ~(k <= n) /\ k \in Nat /\ k - p \in 1 .. m
    <3>1. g[k] = Nth(younger, k - p) BY <2>2
    <3>2. g[k] \in younger BY <1>4, <1>6, <2>2, <3>1
    <3>3. CASE l \in 1 .. n /\ l <= n
      <4>1. g[l] = Nth(older, l) /\ g[l] \in older BY <1>3, <1>6, <3>3
      <4> QED BY <1>11, <2>0, <3>2, <4>1
    <3>4. CASE ~(l <= n) /\ l \in Nat /\ l - p \in 1 .. m
      <4>1. g[l] = Nth(younger, l - p) BY <3>4
      <4>2. ~(k - p < l - p) /\ ~(l - p < k - p)
        <5>1. \A i \in younger : i \in 1 .. Len(records) BY <1>2
        <5>2. g[k] \in Int /\ g[l] \in Int BY <1>11, <3>2, <5>1
        <5>3. \A x, y \in 1 .. m : x < y => Nth(younger, x) < Nth(younger, y) BY <1>4, <1>6
        <5>4. Nth(younger, k - p) = Nth(younger, l - p) /\ Nth(younger, k - p) \in Int
          BY <1>11, <3>1, <4>1, <5>2
        <5> QED BY ONLY <2>2, <3>4, <5>3, <5>4
      <4> QED BY <1>8, <2>2, <3>4, <4>2
    <3> QED BY <1>9, <3>3, <3>4
  <2> QED BY <1>9, <2>1, <2>2
<1>12. ASSUME NEW i \in rest PROVE \E k \in others : g[k] = i
  <2>1. CASE i \in older
    <3> DEFINE k == Rank(older, i)
    <3>1. k \in 1 .. n /\ Nth(older, k) = i BY <1>5, <2>1
    <3> HIDE DEF k
    <3>2. k \in others /\ k <= n BY <1>5, <1>8, <3>1
    <3>3. g[k] = i BY <3>1, <3>2
    <3> QED BY <3>2, <3>3
  <2>2. CASE i \in younger
    <3> DEFINE k == Rank(younger, i)
    <3>1. k \in 1 .. m /\ Nth(younger, k) = i BY <1>5, <2>2
    <3> HIDE DEF k
    <3>2. p + k \in others /\ ~(p + k <= n) /\ (p + k) - p = k BY <1>5, <1>8, <3>1
    <3>3. g[p + k] = i BY <3>1, <3>2
    <3> QED BY <3>2, <3>3
  <2> QED BY <1>2, <2>1, <2>2
<1>13. g \in Bijection(others, rest)
  <2>1. g \in [others -> rest] BY <1>10
  <2> QED BY <2>1, <1>11, <1>12 DEF Bijection, Injection, Surjection, IsInjective
<1> HIDE DEF g, p
<1>14. \A k \in DOMAIN all \ {p} : all[k] = records[g[k]] BY <1>10
<1>15. \E x \in DOMAIN all :
           /\ all[x] = r
           /\ \E h \in Bijection(DOMAIN all \ {x}, rest) :
                 \A k \in DOMAIN all \ {x} : all[k] = records[h[k]]
  BY <1>7, <1>8, <1>13, <1>14
<1> QED BY ONLY <1>7, <1>15 DEF all, rest, Placed

\* What each record of rs adds to the count of t on f.
Shares(rs, f, t) == [i \in DOMAIN rs |-> IF rs[i].freq = f THEN rs[i].counts[t] ELSE 0]

\* The records of rs have counts.
Counted(rs) == \A i \in DOMAIN rs : rs[i].counts \in [Texts -> Nat]

\* A count on a frequency is the sum of the records' shares of it.
LEMMA SharesFacts ==
    ASSUME NEW S, NEW rs \in Seq(S), Counted(rs), NEW f, NEW t \in Texts
    PROVE  /\ IsFiniteSet(DOMAIN rs) /\ Shares(rs, f, t) \in [DOMAIN rs -> Nat]
           /\ CountsOn(rs, f)[t] = Sum(Shares(rs, f, t)) /\ CountsOn(rs, f)[t] \in Nat
<1> DEFINE D == DOMAIN rs
           w == Shares(rs, f, t)
           J == On(rs, f)
           K == D \ J
           a == [i \in J |-> w[i]]
           b == [i \in K |-> w[i]]
<1>1. IsFiniteSet(D)
  <2>1. D = 1 .. Len(rs) /\ Len(rs) \in Nat OBVIOUS
  <2> QED BY <2>1, FS_Interval
<1>2. w \in [D -> Nat] BY DEF Shares, Counted
<1>3. J \in SUBSET D /\ K \in SUBSET D /\ D = J \cup K /\ J \cap K = {} BY DEF On
<1>4. IsFiniteSet(J) /\ IsFiniteSet(K) BY <1>1, <1>3, FS_Subset
<1>5. /\ \A i \in J : w[i] = rs[i].counts[t]
      /\ \A i \in K : w[i] = 0
  BY DEF On, Shares
<1> HIDE DEF w, J, D
<1>7. a \in [J -> Nat] /\ b \in [K -> Nat] /\ \A i \in K : b[i] = 0 BY <1>2, <1>3, <1>5
<1>6. Sum(w) = Sum(a) + Sum(b)
  <2>1. (\A i \in J : a[i] = w[i]) /\ \A i \in K : b[i] = w[i] OBVIOUS
  <2> HIDE DEF a, b
  <2>2. \A i \in J : i \in D /\ a[i] = w[i] BY <1>3, <2>1
  <2>3. \A i \in K : i \in D /\ b[i] = w[i] BY <1>3, <2>1
  <2>4. \A i \in D : i \in J <=> i \notin K BY <1>3
  <2> HIDE DEF K
  <2> QED BY <1>1, <1>2, <1>7, <2>2, <2>3, <2>4, SumSplit
<1>8. Sum(b) = 0
  <2> HIDE DEF b
  <2> QED BY <1>4, <1>7, SumOfZeros
<1>9. Sum(a) \in Nat
  <2> HIDE DEF a
  <2> QED BY <1>4, <1>7, SumType
<1>10. CountsOn(rs, f)[t] = Sum(a)
  <2>1. [i \in J |-> rs[i].counts[t]] = a BY <1>5
  <2>2. CountsOn(rs, f)[t] = Sum([i \in J |-> rs[i].counts[t]]) BY DEF CountsOn, CountsAt, J
  <2> QED BY ONLY <2>1, <2>2
<1>11. Sum(w) = Sum(a) BY <1>6, <1>8, <1>9
<1> QED BY <1>1, <1>2, <1>9, <1>10, <1>11 DEF w, D

\* No record has more receptions of a text than its frequency.
LEMMA RecordCounts ==
    ASSUME NEW S, NEW rs \in Seq(S), Counted(rs), NEW i \in DOMAIN rs, NEW t \in Texts
    PROVE  rs[i].counts[t] <= CountsOn(rs, rs[i].freq)[t]
<1> DEFINE f == rs[i].freq
           w == Shares(rs, f, t)
<1>1. IsFiniteSet(DOMAIN rs) /\ w \in [DOMAIN rs -> Nat] /\ CountsOn(rs, f)[t] = Sum(w)
  BY SharesFacts
<1>2. w[i] = rs[i].counts[t] BY DEF Shares
<1> HIDE DEF w
<1>3. w[i] \in Nat /\ Sum(w) = w[i] + Sum([j \in DOMAIN rs \ {i} |-> w[j]])
      /\ Sum([j \in DOMAIN rs \ {i} |-> w[j]]) \in Nat
  BY <1>1, SumHas
<1> QED BY <1>1, <1>2, <1>3

\* The bound keeps the last records.
LEMMA BoundedFacts ==
    ASSUME NEW S, NEW rs \in Seq(S)
    PROVE  /\ Excess(rs) \in 0 .. Len(rs)
           /\ PushedOut(rs) \in Seq(S) /\ Len(PushedOut(rs)) = Excess(rs)
           /\ \A k \in 1 .. Excess(rs) : PushedOut(rs)[k] = rs[k]
           /\ Bounded(rs) \in Seq(S) /\ Len(Bounded(rs)) = Len(rs) - Excess(rs)
           /\ Len(Bounded(rs)) <= MaxRecords
           /\ \A k \in 1 .. (Len(rs) - Excess(rs)) : Bounded(rs)[k] = rs[Excess(rs) + k]
           /\ Len(rs) <= MaxRecords => Bounded(rs) = rs
<1>1. MaxRecords \in Nat \ {0} BY MessageAssumption
<1>2. Excess(rs) \in 0 .. Len(rs) /\ Len(rs) - Excess(rs) <= MaxRecords
      /\ (Len(rs) <= MaxRecords => Excess(rs) = 0) /\ Len(rs) \in Nat
  BY <1>1 DEF Excess
<1>3. PushedOut(rs) \in Seq(S) /\ Len(PushedOut(rs)) = Excess(rs)
      /\ \A k \in 1 .. Excess(rs) : PushedOut(rs)[k] = rs[k]
  BY <1>2 DEF PushedOut
<1>4. Bounded(rs) \in Seq(S) /\ Len(Bounded(rs)) = Len(rs) - Excess(rs)
      /\ \A k \in 1 .. (Len(rs) - Excess(rs)) : Bounded(rs)[k] = rs[Excess(rs) + k]
  BY <1>2 DEF Bounded
<1>5. ASSUME Len(rs) <= MaxRecords PROVE Bounded(rs) = rs
  <2>1. Excess(rs) = 0 BY <1>2, <1>5
  <2>2. Len(Bounded(rs)) = Len(rs) /\ \A k \in 1 .. Len(rs) : Bounded(rs)[k] = rs[k]
    BY <1>2, <1>4, <2>1
  <2> QED BY <1>4, <2>2
<1> QED BY <1>1, <1>2, <1>3, <1>4, <1>5

\* What it pushes out and what it keeps count what there was.
LEMMA BoundedCounts ==
    ASSUME NEW S, NEW rs \in Seq(S), Counted(rs), NEW f, NEW t \in Texts
    PROVE  /\ Counted(PushedOut(rs)) /\ Counted(Bounded(rs))
           /\ CountsOn(PushedOut(rs), f)[t] \in Nat /\ CountsOn(Bounded(rs), f)[t] \in Nat
           /\ CountsOn(rs, f)[t] = CountsOn(PushedOut(rs), f)[t] + CountsOn(Bounded(rs), f)[t]
<1> DEFINE e == Excess(rs)
           out == PushedOut(rs)
           kept == Bounded(rs)
           w == Shares(rs, f, t)
           v == Shares(out, f, t)
           x == Shares(kept, f, t)
           J == 1 .. e
           K == (e + 1) .. Len(rs)
           b == [i \in K |-> w[i]]
           g == [k \in DOMAIN kept |-> e + k]
<1>1. /\ e \in 0 .. Len(rs) /\ Len(rs) \in Nat
      /\ out \in Seq(S) /\ DOMAIN out = J /\ \A k \in J : out[k] = rs[k]
      /\ kept \in Seq(S) /\ DOMAIN kept = 1 .. (Len(rs) - e)
      /\ \A k \in 1 .. (Len(rs) - e) : kept[k] = rs[e + k]
  BY BoundedFacts
<1> HIDE DEF e, out, kept
<1>2. DOMAIN rs = 1 .. Len(rs) /\ DOMAIN rs = J \cup K /\ J \cap K = {}
  <2>1. DOMAIN rs = 1 .. Len(rs) OBVIOUS
  <2>2. 1 .. Len(rs) = J \cup K /\ J \cap K = {} BY <1>1
  <2> QED BY <2>1, <2>2
<1>2a. \A k \in DOMAIN kept : kept[k] = rs[e + k] /\ e + k \in K
  BY <1>1
<1>3. Counted(out) /\ Counted(kept)
  <2>1. Counted(out) BY <1>1, <1>2 DEF Counted
  <2>2. Counted(kept) BY <1>2, <1>2a DEF Counted
  <2> QED BY <2>1, <2>2
<1>4. IsFiniteSet(DOMAIN rs) /\ w \in [DOMAIN rs -> Nat] /\ CountsOn(rs, f)[t] = Sum(w)
  BY SharesFacts
<1>5. /\ v \in [J -> Nat] /\ CountsOn(out, f)[t] = Sum(v) /\ CountsOn(out, f)[t] \in Nat
  BY <1>1, <1>3, SharesFacts
<1>6. /\ IsFiniteSet(DOMAIN kept) /\ x \in [DOMAIN kept -> Nat]
      /\ CountsOn(kept, f)[t] = Sum(x) /\ CountsOn(kept, f)[t] \in Nat
  BY <1>1, <1>3, SharesFacts
<1>7. b \in [K -> Nat]
  <2>1. \A i \in K : w[i] \in Nat BY <1>2, <1>4
  <2> HIDE DEF w, K
  <2> QED BY <2>1
<1>8. Sum(w) = Sum(v) + Sum(b)
  <2>1. \A i \in J : v[i] = w[i] BY <1>1, <1>2 DEF Shares
  <2>2. \A i \in K : b[i] = w[i] OBVIOUS
  <2>3. \A i \in J : i \in DOMAIN rs /\ v[i] = w[i] BY <1>2, <2>1
  <2>4. \A i \in K : i \in DOMAIN rs /\ b[i] = w[i] BY <1>2, <2>2
  <2>5. \A i \in DOMAIN rs : i \in J <=> i \notin K BY <1>2
  <2> DEFINE D == DOMAIN rs
  <2>6. IsFiniteSet(D) /\ w \in [D -> Nat] BY <1>4
  <2>7. \A i \in J : i \in D /\ v[i] = w[i] BY <2>3
  <2>8. \A i \in K : i \in D /\ b[i] = w[i] BY <2>4
  <2>9. \A i \in D : i \in J <=> i \notin K BY <2>5
  <2>10. v \in [J -> Nat] BY <1>5
  <2> HIDE DEF w, v, b, J, K, D
  <2> QED BY ONLY <1>7, <2>6, <2>7, <2>8, <2>9, <2>10, SumSplit, SMTT(30)
<1>9. Sum(x) = Sum(b)
  <2>2. g \in Bijection(DOMAIN kept, K)
    <3>1. g \in [DOMAIN kept -> K] BY <1>2a
    <3>2. \A k, m \in DOMAIN kept : g[k] = g[m] => k = m BY <1>1
    <3>3. ASSUME NEW i \in K PROVE \E k \in DOMAIN kept : g[k] = i
      <4>1. i - e \in DOMAIN kept /\ e + (i - e) = i BY <1>1
      <4> QED BY <4>1
    <3> QED BY <3>1, <3>2, <3>3 DEF Bijection, Injection, Surjection, IsInjective
  <2>3. ASSUME NEW k \in DOMAIN kept PROVE x[k] = b[g[k]]
    <3>1. x[k] = IF kept[k].freq = f THEN kept[k].counts[t] ELSE 0 BY DEF Shares
    <3>2. g[k] = e + k /\ e + k \in K BY <1>2a
    <3>3. w[e + k] = IF rs[e + k].freq = f THEN rs[e + k].counts[t] ELSE 0
      BY <1>2, <3>2 DEF Shares
    <3>4. b[e + k] = w[e + k]
      <4> HIDE DEF w, K
      <4> QED BY <3>2
    <3> QED BY <1>2a, <3>1, <3>2, <3>3, <3>4
  <2> HIDE DEF x, b, g, K
  <2> QED BY <1>6, <1>7, <2>2, <2>3, SumSame
<1>10. CountsOn(rs, f)[t] = CountsOn(out, f)[t] + CountsOn(kept, f)[t]
  BY ONLY <1>4, <1>5, <1>6, <1>8, <1>9
<1> QED BY <1>3, <1>5, <1>6, <1>10 DEF out, kept

-----------------------------------------------------------------------------
(* An observation *)

\* What Kept says of one record.
Sound(r) ==
    /\ r.freq \in Freqs /\ r.first <= r.last
    /\ r.counts \in [Texts -> Nat] /\ r.evidence = Sum(r.counts)
    /\ r.verified => r.evidence >= 3 /\ Letters(r.text, r.counts)

\* Records that Kept allows are a sequence of sound ones, no longer than the bound.
LEMMA KeptFacts ==
    ASSUME NEW rs, Kept(rs)
    PROVE  /\ rs \in Seq({rs[i] : i \in DOMAIN rs}) /\ Len(rs) <= MaxRecords
           /\ Counted(rs) /\ \A i \in DOMAIN rs : Sound(rs[i])
BY DEF Kept, Sound, Counted

\* And the other way round.
LEMMA KeptIf ==
    ASSUME NEW S, NEW rs \in Seq(S), Len(rs) <= MaxRecords, \A i \in DOMAIN rs : Sound(rs[i])
    PROVE  Kept(rs)
<1> DEFINE R == {rs[i] : i \in DOMAIN rs}
<1>1. Len(rs) \in Nat /\ DOMAIN rs = 1 .. Len(rs) /\ rs = [i \in 1 .. Len(rs) |-> rs[i]]
  OBVIOUS
<1>2. \A i \in 1 .. Len(rs) : rs[i] \in R BY <1>1
<1> HIDE DEF R
<1>3. rs \in Seq(R) BY <1>1, <1>2
<1> QED BY <1>3 DEF R, Kept, Sound

\* The sum of two counts is a count, and their sums add up.
LEMMA PlusFacts ==
    ASSUME NEW c \in [Texts -> Nat], NEW d \in [Texts -> Nat]
    PROVE  /\ Plus(c, d) \in [Texts -> Nat] /\ \A u \in Texts : Plus(c, d)[u] = c[u] + d[u]
           /\ Sum(Plus(c, d)) = Sum(c) + Sum(d)
<1>1. Plus(c, d) \in [Texts -> Nat] /\ \A u \in Texts : Plus(c, d)[u] = c[u] + d[u]
  BY DEF Plus
<1>2. IsFiniteSet(Texts) BY MessageAssumption
<1>3. Sum([t \in Texts |-> c[t] + d[t]]) = Sum(c) + Sum(d) BY <1>2, SumPlus
<1> QED BY <1>1, <1>3 DEF Plus

\* The receptions of some records, text by text and record by record.
LEMMA CountsAtFacts ==
    ASSUME NEW S, NEW rs \in Seq(S), \A i \in DOMAIN rs : Sound(rs[i]), NEW I \in SUBSET DOMAIN rs
    PROVE  /\ IsFiniteSet(I) /\ CountsAt(rs, I) \in [Texts -> Nat]
           /\ Sum([i \in I |-> rs[i].evidence]) = Sum(CountsAt(rs, I))
<1> DEFINE c == [i \in I |-> rs[i].counts]
           col(u) == [i \in I |-> rs[i].counts[u]]
<1>1. IsFiniteSet(I)
  <2>1. DOMAIN rs = 1 .. Len(rs) /\ Len(rs) \in Nat OBVIOUS
  <2>2. IsFiniteSet(1 .. Len(rs)) BY <2>1, FS_Interval
  <2> QED BY <2>1, <2>2, FS_Subset
<1>2. \A i \in I : rs[i].counts \in [Texts -> Nat] /\ rs[i].evidence = Sum(rs[i].counts)
  BY DEF Sound
<1>3. c \in [I -> [Texts -> Nat]] /\ \A i \in I : c[i] = rs[i].counts BY <1>2
<1>4. ASSUME NEW u \in Texts PROVE Sum(col(u)) \in Nat
  <2>1. col(u) \in [I -> Nat] BY <1>2
  <2> HIDE DEF col
  <2> QED BY <1>1, <2>1, SumType
<1>5. CountsAt(rs, I) \in [Texts -> Nat] BY <1>4 DEF CountsAt
<1>6. [i \in I |-> rs[i].evidence] = [i \in I |-> Sum(c[i])] BY <1>2, <1>3
<1>7. CountsAt(rs, I) = [t \in Texts |-> Sum([i \in I |-> c[i][t]])]
  <2>1. \A t \in Texts : [i \in I |-> c[i][t]] = [i \in I |-> rs[i].counts[t]] BY <1>3
  <2> QED BY <2>1 DEF CountsAt
<1>8. Sum([i \in I |-> Sum(c[i])]) = Sum([t \in Texts |-> Sum([i \in I |-> c[i][t]])])
  <2>1. IsFiniteSet(Texts) BY MessageAssumption
  <2> HIDE DEF c
  <2> QED BY <1>1, <1>3, <2>1, SumSwap
<1>9. Sum([i \in I |-> rs[i].evidence]) = Sum(CountsAt(rs, I))
  BY ONLY <1>6, <1>7, <1>8
<1> QED BY <1>1, <1>5, <1>9

\* A record observed has the receptions of its matches and the new one, and is
\* verified by three of them, which have the letters of its text.
LEMMA ObservedFacts ==
    ASSUME Kept(records), NEW t \in Texts, NEW f \in Freqs, NEW sure, NEW r \in Observed(t, f, sure)
    PROVE  /\ Matches(t, f) \in SUBSET DOMAIN records
           /\ \A i \in Matches(t, f) : records[i].freq = f
           /\ r.freq = f /\ r.counts = Plus(CountsAt(records, Matches(t, f)), One(t))
           /\ Valid(r) => Sound(r)
<1> DEFINE I == Matches(t, f)
           had == CountsAt(records, I)
           counts == Plus(had, One(t))
           S == {records[i] : i \in DOMAIN records}
<1>1. records \in Seq(S) /\ \A i \in DOMAIN records : Sound(records[i]) BY KeptFacts
<1>2. I \in SUBSET DOMAIN records /\ \A i \in I : records[i].freq = f BY DEF Matches, On
<1> HIDE DEF I, S
<1>3. /\ IsFiniteSet(I) /\ had \in [Texts -> Nat]
      /\ Sum([i \in I |-> records[i].evidence]) = Sum(had)
  BY <1>1, <1>2, CountsAtFacts
<1>4. /\ One(t) \in [Texts -> Nat] /\ Sum(One(t)) = 1 BY OneFacts
<1> HIDE DEF had
<1>5. counts \in [Texts -> Nat] /\ Sum(counts) = Sum(had) + 1
  BY <1>3, <1>4, PlusFacts
<1>6. CASE I = {}
  <2>1. r = Fresh(t, f, sure) BY <1>6 DEF Observed, I
  <2>2. r.freq = f /\ r.first = wall /\ r.last = wall /\ r.counts = One(t) /\ r.evidence = 1
        /\ r.verified = FALSE
    BY <2>1 DEF Fresh
  <2>3. counts = One(t)
    <3>1. \A u \in Texts : had[u] = 0
      <4> SUFFICES ASSUME NEW u \in Texts PROVE had[u] = 0 OBVIOUS
      <4> DEFINE w == [i \in I |-> records[i].counts[u]]
      <4>1. had[u] = Sum(w) BY DEF had, CountsAt
      <4>2. w \in [{} -> Nat] BY <1>6
      <4> HIDE DEF w
      <4> QED BY <4>1, <4>2, SumOfNone
    <3>2. \A u \in Texts : counts[u] = One(t)[u] BY <1>3, <1>4, <3>1 DEF Plus
    <3> HIDE DEF counts
    <3> QED BY <1>4, <1>5, <3>2
  <2>4. Valid(r) => Sound(r) BY <1>4, <2>2 DEF Valid, Sound
  <2> QED BY <1>2, <2>2, <2>3, <2>4 DEF I, had
<1>7. CASE I # {}
  <2>1. r \in Merged(I, t, f, sure) BY <1>7 DEF Observed, I
  <2> DEFINE e == Sum([i \in I |-> records[i].evidence]) + 1
             isSure == sure \/ \E i \in I : records[i].sure
             from == Min({records[i].first : i \in I})
             entry(text) == [text |-> text, freq |-> f, first |-> from, last |-> wall,
                             counts |-> counts, evidence |-> e, sure |-> isSure,
                             verified |-> Verified(text, counts, e, isSure)]
  <2>0. PICK text \in Consensus(counts) : r = entry(text) BY <2>1 DEF Merged, had
  <2> HIDE DEF isSure, from
  <2>2. /\ r.text = text /\ r.freq = f /\ r.counts = counts /\ r.evidence = e
        /\ r.verified = Verified(text, counts, e, isSure)
    BY <2>0
  <2>3. e = Sum(counts) BY <1>3, <1>5
  <2> HIDE DEF counts, e
  <2>4. Letters(text, counts) BY <1>5, <2>2, ConsensusFacts
  <2>5. r.verified => r.evidence >= 3 BY <2>2 DEF Verified
  <2>6. Valid(r) => Sound(r) BY <1>5, <2>2, <2>3, <2>4, <2>5 DEF Valid, Sound
  <2> QED BY <1>2, <2>2, <2>6 DEF I, had, counts
<1> QED BY <1>6, <1>7

\* The records with a new reception are those there were, but the matches, and
\* the observed one; they count one reception more.
LEMMA ObservedCounts ==
    ASSUME Kept(records), NEW t \in Texts, NEW f \in Freqs, NEW sure,
           NEW r \in Observed(t, f, sure), Valid(r), NEW all, all = WithRecord(Matches(t, f), r)
    PROVE  /\ \E S : all \in Seq(S)
           /\ \E p \in DOMAIN all : all[p] = r
           /\ \A k \in DOMAIN all : all[k] = r \/ \E i \in DOMAIN records : all[k] = records[i]
           /\ \A k \in DOMAIN all : Sound(all[k])
           /\ \A g, u : u \in Texts =>
                 /\ CountsOn(all, g)[u] \in Nat /\ CountsOn(records, g)[u] \in Nat
                 /\ CountsOn(all, g)[u] = CountsOn(records, g)[u]
                                          + (IF g = f THEN One(t)[u] ELSE 0)
<1> DEFINE I == Matches(t, f)
           S == {records[i] : i \in DOMAIN records}
           R == S \cup {r}
           D == DOMAIN all
           E == DOMAIN records
           rest == E \ I
<1>1. /\ records \in Seq(S) /\ Counted(records) /\ \A i \in E : Sound(records[i])
  BY KeptFacts
<1>2. /\ I \in SUBSET E /\ \A i \in I : records[i].freq = f
      /\ r.freq = f /\ r.counts = Plus(CountsAt(records, I), One(t)) /\ Sound(r)
  BY ObservedFacts
<1> HIDE DEF I, S
<1>3. all \in Seq(R) /\ Placed(all, I, r)
  <2>1. all = WithRecord(I, r) BY DEF I
  <2> QED BY <1>1, <1>2, <2>1, WithRecordFacts
<1> HIDE DEF R
<1>4. PICK p \in D : /\ all[p] = r
                     /\ \E h \in Bijection(D \ {p}, rest) :
                           \A k \in D \ {p} : all[k] = records[h[k]]
  BY <1>3 DEF Placed
<1> DEFINE O == D \ {p}
<1>5. PICK h \in Bijection(O, rest) : \A k \in O : all[k] = records[h[k]] BY <1>4
<1>6. \A k \in O : h[k] \in rest /\ h[k] \in E BY <1>5 DEF Bijection, Injection
<1>7. \A k \in D : all[k] = r \/ \E i \in E : all[k] = records[i]
  BY <1>4, <1>5, <1>6
<1>8. \A k \in D : Sound(all[k]) BY <1>1, <1>2, <1>7
<1>9. Counted(all) BY <1>8 DEF Counted, Sound
<1>10. ASSUME NEW g, NEW u \in Texts
       PROVE  /\ CountsOn(all, g)[u] \in Nat /\ CountsOn(records, g)[u] \in Nat
              /\ CountsOn(all, g)[u] = CountsOn(records, g)[u]
                                       + (IF g = f THEN One(t)[u] ELSE 0)
  <2> DEFINE W == Shares(all, g, u)
             V == Shares(records, g, u)
             Wo == [k \in O |-> W[k]]
             Vr == [i \in rest |-> V[i]]
             Vi == [i \in I |-> V[i]]
             had == CountsAt(records, I)
  <2>1. IsFiniteSet(D) /\ W \in [D -> Nat] /\ CountsOn(all, g)[u] = Sum(W)
        /\ CountsOn(all, g)[u] \in Nat
    BY <1>3, <1>9, SharesFacts
  <2>2. IsFiniteSet(E) /\ V \in [E -> Nat] /\ CountsOn(records, g)[u] = Sum(V)
        /\ CountsOn(records, g)[u] \in Nat
    BY <1>1, SharesFacts
  <2>3. W[p] = IF g = f THEN r.counts[u] ELSE 0 BY <1>2, <1>4 DEF Shares
  <2>4. \A k \in O : W[k] = V[h[k]] BY <1>5, <1>6 DEF Shares
  <2>5. \A i \in I : V[i] = IF g = f THEN records[i].counts[u] ELSE 0 BY <1>2 DEF Shares
  <2> HIDE DEF W, V, D, E
  <2>6. Wo \in [O -> Nat] /\ Vr \in [rest -> Nat] /\ Vi \in [I -> Nat]
    <3>1. \A k \in O : k \in D OBVIOUS
    <3>2. \A i \in rest : i \in E OBVIOUS
    <3>3. \A i \in I : i \in E BY <1>2
    <3> QED BY <2>1, <2>2, <3>1, <3>2, <3>3
  <2>7. IsFiniteSet(O) /\ IsFiniteSet(I)
    <3>1. O \in SUBSET D OBVIOUS
    <3> QED BY <1>2, <2>1, <2>2, <3>1, FS_Subset
  <2>8. Sum(W) = W[p] + Sum(Wo) /\ W[p] \in Nat /\ Sum(Wo) \in Nat
    BY <2>1, SumHas
  <2>9. Sum(V) = Sum(Vi) + Sum(Vr)
    <3>1. \A i \in I : i \in E /\ Vi[i] = V[i] BY <1>2
    <3>2. \A i \in rest : i \in E /\ Vr[i] = V[i] OBVIOUS
    <3>3. \A i \in E : i \in I <=> i \notin rest OBVIOUS
    <3> HIDE DEF Vi, Vr, rest
    <3> QED BY <2>2, <2>6, <3>1, <3>2, <3>3, SumSplit
  <2>10. Sum(Wo) = Sum(Vr)
    <3>1. \A k \in O : Wo[k] = Vr[h[k]] BY <1>6, <2>4
    <3> HIDE DEF Wo, Vr, O, rest
    <3> QED BY <1>5, <2>6, <2>7, <3>1, SumSame
  <2>11. W[p] = Sum(Vi) + (IF g = f THEN One(t)[u] ELSE 0)
    <3>1. CASE g = f
      <4>1. Vi = [i \in I |-> records[i].counts[u]] BY <2>5, <3>1
      <4>2. had[u] = Sum(Vi)
        <5>1. had[u] = Sum([i \in I |-> records[i].counts[u]]) BY DEF CountsAt
        <5> QED BY ONLY <4>1, <5>1
      <4>3. r.counts[u] = had[u] + One(t)[u] BY <1>2 DEF Plus
      <4> HIDE DEF had, Vi
      <4> QED BY <2>3, <3>1, <4>2, <4>3
    <3>2. CASE g # f
      <4>1. \A i \in I : Vi[i] = 0 BY <2>5, <3>2
      <4>2. Sum(Vi) = 0
        <5> HIDE DEF Vi
        <5> QED BY <2>6, <2>7, <4>1, SumOfZeros
      <4>3. W[p] = 0 BY <2>3, <3>2
      <4> HIDE DEF Vi
      <4> QED BY <3>2, <4>2, <4>3
    <3> QED BY <3>1, <3>2
  <2>12. Sum(Vi) \in Nat /\ (IF g = f THEN One(t)[u] ELSE 0) \in Nat
    <3>1. Sum(Vi) \in Nat
      <4> HIDE DEF Vi
      <4> QED BY <2>6, <2>7, SumType
    <3>2. One(t)[u] \in Nat BY OneFacts
    <3> QED BY <3>1, <3>2
  <2> DEFINE one == IF g = f THEN One(t)[u] ELSE 0
  <2> HIDE DEF one, Vi, Vr, Wo
  <2>13. Sum(W) = Sum(V) + one
    <3>1. W[p] = Sum(Vi) + one /\ Sum(Vi) \in Nat /\ one \in Nat BY <2>11, <2>12 DEF one
    <3> QED BY ONLY <2>8, <2>9, <2>10, <3>1
  <2> QED BY <2>1, <2>2, <2>13 DEF one
<1> QED BY <1>3, <1>4, <1>7, <1>8, <1>10

-----------------------------------------------------------------------------
(* The file and the books *)

\* The file is sound, and what a running service has is what it saved last.
StoreInv ==
    /\ Kept(disk)
    /\ up \in BOOLEAN
    /\ records = IF up THEN disk ELSE <<>>

\* The books are counts, and agree with the file.
BooksInv ==
    /\ heard \in [Freqs -> [Texts -> Nat]] /\ dropped \in [Freqs -> [Texts -> Nat]]
    /\ EveryReceptionCounts

\* CLEAR leaves a file that is sound.
LEMMA KeptEmpty == Kept(<<>>)
<1>1. MaxRecords \in Nat BY MessageAssumption
<1>2. <<>> \in Seq({}) /\ Len(<<>>) = 0 /\ DOMAIN <<>> = {} OBVIOUS
<1> DEFINE rs == <<>>
<1>3. rs \in Seq({}) /\ Len(rs) <= MaxRecords /\ \A i \in DOMAIN rs : Sound(rs[i])
  BY <1>1, <1>2
<1> HIDE DEF rs
<1>4. Kept(rs) BY <1>3, KeptIf
<1> QED BY <1>4 DEF rs

\* The receptions of a frequency are counts.
LEMMA CountsOnFacts ==
    ASSUME NEW rs, Kept(rs), NEW f
    PROVE  CountsOn(rs, f) \in [Texts -> Nat]
<1>1. \A t \in Texts : CountsOn(rs, f)[t] \in Nat
  <2> DEFINE S == {rs[i] : i \in DOMAIN rs}
  <2>1. rs \in Seq(S) /\ Counted(rs) BY KeptFacts
  <2> HIDE DEF S
  <2> QED BY <2>1, SharesFacts
<1>2. CountsOn(rs, f) = [t \in Texts |-> CountsOn(rs, f)[t]] BY DEF CountsOn, CountsAt
<1> QED BY <1>1, <1>2

\* What is saved after an observation, and what the bound pushes out of it.
LEMMA SavedFacts ==
    ASSUME Kept(records), NEW t \in Texts, NEW f \in Freqs, NEW sure,
           NEW r \in Observed(t, f, sure), Valid(r), NEW all, all = WithRecord(Matches(t, f), r)
    PROVE  /\ Sound(r) /\ r.freq = f
           /\ Kept(Bounded(all))
           /\ \A k \in DOMAIN Bounded(all) :
                 Bounded(all)[k] = r \/ \E i \in DOMAIN records : Bounded(all)[k] = records[i]
           /\ \A g : CountsOn(PushedOut(all), g) \in [Texts -> Nat]
           /\ \A g, u : u \in Texts =>
                 CountsOn(Bounded(all), g)[u] + CountsOn(PushedOut(all), g)[u]
                    = CountsOn(records, g)[u] + (IF g = f THEN One(t)[u] ELSE 0)
           /\ \A u \in Texts : r.counts[u] <= CountsOn(records, f)[u] + One(t)[u]
<1> DEFINE kept == Bounded(all)
           out == PushedOut(all)
<1>1. Sound(r) /\ r.freq = f BY ObservedFacts
<1>2. PICK S : all \in Seq(S) BY ObservedCounts
<1>3. /\ \A k \in DOMAIN all : all[k] = r \/ \E i \in DOMAIN records : all[k] = records[i]
      /\ \A k \in DOMAIN all : Sound(all[k])
      /\ \E p \in DOMAIN all : all[p] = r
  BY ObservedCounts
<1>4. \A g, u : u \in Texts =>
         /\ CountsOn(all, g)[u] \in Nat /\ CountsOn(records, g)[u] \in Nat
         /\ CountsOn(all, g)[u] = CountsOn(records, g)[u] + (IF g = f THEN One(t)[u] ELSE 0)
  BY ObservedCounts
<1>5. Counted(all) BY <1>3 DEF Counted, Sound
<1>6. /\ kept \in Seq(S) /\ Len(kept) <= MaxRecords
      /\ \A k \in DOMAIN kept : \E j \in DOMAIN all : kept[k] = all[j]
  <2>1. /\ Excess(all) \in 0 .. Len(all)
        /\ kept \in Seq(S) /\ Len(kept) = Len(all) - Excess(all) /\ Len(kept) <= MaxRecords
        /\ \A k \in 1 .. (Len(all) - Excess(all)) : kept[k] = all[Excess(all) + k]
    BY <1>2, BoundedFacts
  <2> HIDE DEF kept
  <2>2. ASSUME NEW k \in DOMAIN kept PROVE \E j \in DOMAIN all : kept[k] = all[j]
    <3>1. k \in 1 .. (Len(all) - Excess(all)) /\ Len(all) \in Nat BY <1>2, <2>1
    <3>2. Excess(all) + k \in DOMAIN all BY <1>2, <2>1, <3>1
    <3> QED BY <2>1, <3>1, <3>2
  <2> QED BY <2>1, <2>2
<1>7. \A g, u : u \in Texts =>
         /\ CountsOn(out, g)[u] \in Nat /\ CountsOn(kept, g)[u] \in Nat
         /\ CountsOn(all, g)[u] = CountsOn(out, g)[u] + CountsOn(kept, g)[u]
  BY <1>2, <1>5, BoundedCounts
<1> HIDE DEF kept, out
<1>8. Kept(kept)
  <2>1. \A k \in DOMAIN kept : Sound(kept[k]) BY <1>3, <1>6
  <2> QED BY <1>6, <2>1, KeptIf
<1>9. \A k \in DOMAIN kept : kept[k] = r \/ \E i \in DOMAIN records : kept[k] = records[i]
  BY <1>3, <1>6
<1>10. ASSUME NEW g PROVE CountsOn(out, g) \in [Texts -> Nat]
  <2>1. CountsOn(out, g) = [u \in Texts |-> CountsOn(out, g)[u]] BY DEF CountsOn, CountsAt
  <2> QED BY <1>7, <2>1
<1>11. ASSUME NEW g, NEW u, u \in Texts
       PROVE  CountsOn(kept, g)[u] + CountsOn(out, g)[u]
                 = CountsOn(records, g)[u] + (IF g = f THEN One(t)[u] ELSE 0)
  <2>1. /\ CountsOn(out, g)[u] \in Nat /\ CountsOn(kept, g)[u] \in Nat
        /\ CountsOn(all, g)[u] = CountsOn(out, g)[u] + CountsOn(kept, g)[u]
    BY <1>7, <1>11
  <2>2. CountsOn(all, g)[u] = CountsOn(records, g)[u] + (IF g = f THEN One(t)[u] ELSE 0)
    BY <1>4, <1>11
  <2> QED BY ONLY <2>1, <2>2
<1>12. ASSUME NEW u \in Texts PROVE r.counts[u] <= CountsOn(records, f)[u] + One(t)[u]
  <2>1. PICK p \in DOMAIN all : all[p] = r BY <1>3
  <2>2. r.counts[u] <= CountsOn(all, f)[u] BY <1>1, <1>2, <1>5, <2>1, RecordCounts
  <2>3. CountsOn(all, f)[u] = CountsOn(records, f)[u] + One(t)[u] BY <1>4
  <2> QED BY <2>2, <2>3
<1> QED BY <1>1, <1>8, <1>9, <1>10, <1>11, <1>12 DEF kept, out

\* A step of Observe that saves, and one that does not.
LEMMA ObserveFacts ==
    ASSUME StoreInv, NEW t, NEW f, NEW sure, Observe(t, f, sure)
    PROVE  /\ up /\ records = disk /\ Kept(records) /\ leftOut' = leftOut
           /\ \E r \in Observed(t, f, sure) :
                 LET all == WithRecord(Matches(t, f), r)
                 IN /\ Valid(r)
                    /\ \/ /\ records' = Bounded(all) /\ disk' = Bounded(all) /\ up' = up
                          /\ Account(t, f, PushedOut(all)) /\ Popup(r)
                       \/ /\ disk' = Bounded(all) /\ Account(t, f, PushedOut(all))
                          /\ ServiceEnds /\ shown' = shown
                       \/ /\ ServiceEnds /\ disk' = disk /\ shown' = shown
                          /\ heard' = heard /\ dropped' = dropped
BY DEF Observe, StoreInv

\* A decoded text is one of the texts.
LEMMA NextFacts ==
    ASSUME [Next]_vars
    PROVE  \/ \E t \in Texts, f \in Freqs, sure \in BOOLEAN :
                 Observe(t, f, sure) \/ ObserveRefused(t, f, sure)
           \/ Clear \/ Crash \/ Restart \/ Tick \/ SetClockBack \/ UNCHANGED vars
<1>1. Decodes \subseteq Texts \X BOOLEAN BY MessageAssumption
<1>2. ASSUME NEW d \in Decodes PROVE d[1] \in Texts /\ d[2] \in BOOLEAN BY <1>1
<1> QED BY <1>2 DEF Next

\* The service starts with a file that this program wrote.
THEOREM StoreInit == Init => StoreInv
BY MessageAssumption DEF Init, StoreInv

\* A save leaves sound records, a failed one the old file, and a service that
\* ends forgets its records.
THEOREM StoreStep == StoreInv /\ [Next]_vars => StoreInv'
<1> SUFFICES ASSUME StoreInv, [Next]_vars
             PROVE  Kept(disk') /\ up' \in BOOLEAN /\ records' = IF up' THEN disk' ELSE <<>>
  BY DEF StoreInv, Kept, Letters
<1>1. /\ Kept(disk) /\ up \in BOOLEAN /\ records = IF up THEN disk ELSE <<>>
  BY DEF StoreInv
<1>2. ASSUME ServiceEnds PROVE up' = FALSE /\ records' = <<>> BY <1>2 DEF ServiceEnds
<1>3. ASSUME NEW t \in Texts, NEW f \in Freqs, NEW sure \in BOOLEAN, Observe(t, f, sure)
      PROVE  Kept(disk') /\ up' \in BOOLEAN /\ records' = IF up' THEN disk' ELSE <<>>
  <2>1. Kept(records) /\ up BY <1>3, ObserveFacts
  <2> DEFINE all(r) == WithRecord(Matches(t, f), r)
  <2>2. PICK r \in Observed(t, f, sure) :
           /\ Valid(r)
           /\ \/ records' = Bounded(all(r)) /\ disk' = Bounded(all(r)) /\ up' = up
              \/ disk' = Bounded(all(r)) /\ ServiceEnds
              \/ disk' = disk /\ ServiceEnds
    BY <1>3, ObserveFacts
  <2>3. Kept(Bounded(all(r))) BY <2>1, <2>2, SavedFacts
  <2> HIDE DEF all
  <2> QED BY <1>1, <1>2, <2>1, <2>2, <2>3
<1>4. ASSUME NEW t, NEW f, NEW sure, ObserveRefused(t, f, sure)
      PROVE  Kept(disk') /\ up' \in BOOLEAN /\ records' = IF up' THEN disk' ELSE <<>>
  BY <1>1, <1>2, <1>4 DEF ObserveRefused
<1>5. CASE Clear
  <2>1. \/ disk' = disk /\ ServiceEnds
        \/ disk' = <<>> /\ ServiceEnds
        \/ disk' = <<>> /\ records' = <<>> /\ up' = up
    BY <1>5 DEF Clear, SaveOutcomes
  <2> QED BY <1>1, <1>2, <2>1, KeptEmpty
<1>6. CASE Crash
  BY <1>1, <1>2, <1>6 DEF Crash
<1>7. CASE Restart
  <2>1. up' = TRUE /\ disk' = disk /\ records' = Bounded(disk) BY <1>7 DEF Restart
  <2>2. Bounded(disk) = disk
    <3> DEFINE S == {disk[i] : i \in DOMAIN disk}
    <3>1. disk \in Seq(S) /\ Len(disk) <= MaxRecords BY <1>1, KeptFacts
    <3> HIDE DEF S
    <3> QED BY <3>1, BoundedFacts
  <2> QED BY <1>1, <2>1, <2>2
<1>8. CASE Tick \/ SetClockBack \/ UNCHANGED vars
  <2>1. disk' = disk /\ up' = up /\ records' = records BY <1>8 DEF Tick, SetClockBack, vars
  <2> QED BY <1>1, <2>1
<1> QED BY NextFacts, <1>3, <1>4, <1>5, <1>6, <1>7, <1>8

\* What some receptions earn, more of them earn.
LEMMA MoreIsEarned ==
    ASSUME NEW c \in [Texts -> Nat], NEW h \in [Texts -> Nat], \A t \in Texts : c[t] <= h[t],
           NEW text, Sum(c) >= 3, Letters(text, c)
    PROVE  Sum(h) >= 3 /\ Letters(text, h)
<1>1. Sum(h) >= 3
  <2>1. IsFiniteSet(Texts) BY MessageAssumption
  <2>2. Sum(c) <= Sum(h) BY <2>1, SumGrows
  <2>3. Sum(c) \in Nat /\ Sum(h) \in Nat BY <2>1, SumType
  <2> QED BY <2>2, <2>3
<1>2. \A t \in Texts : c[t] > 0 => h[t] > 0
  <2> SUFFICES ASSUME NEW t \in Texts, c[t] > 0 PROVE h[t] > 0 OBVIOUS
  <2>1. c[t] \in Nat /\ h[t] \in Nat /\ c[t] <= h[t] OBVIOUS
  <2> QED BY <2>1
<1>3. Letters(text, h) BY <1>2 DEF Letters
<1> QED BY <1>1, <1>3

\* The text of a verified record of the file was heard as often as it takes.
LEMMA VerifiedIsEarned ==
    ASSUME Kept(disk), BooksInv, NEW i \in DOMAIN disk, disk[i].verified
    PROVE  /\ disk[i].freq \in Freqs /\ Sum(heard[disk[i].freq]) >= 3
           /\ Letters(disk[i].text, heard[disk[i].freq])
<1> DEFINE f == disk[i].freq
           c == disk[i].counts
           S == {disk[j] : j \in DOMAIN disk}
<1>1. disk \in Seq(S) /\ Counted(disk) /\ Sound(disk[i]) BY KeptFacts
<1> HIDE DEF S
<1>2. /\ f \in Freqs /\ c \in [Texts -> Nat] /\ Sum(c) >= 3 /\ Letters(disk[i].text, c)
  BY <1>1 DEF Sound
<1>3. heard[f] \in [Texts -> Nat] /\ dropped[f] \in [Texts -> Nat]
      /\ Plus(CountsOn(disk, f), dropped[f]) = heard[f]
  BY <1>2 DEF BooksInv, EveryReceptionCounts
<1>4. ASSUME NEW t \in Texts PROVE c[t] <= heard[f][t]
  <2>1. c[t] <= CountsOn(disk, f)[t] BY <1>1, RecordCounts
  <2>2. CountsOn(disk, f)[t] + dropped[f][t] = heard[f][t]
    <3>1. Plus(CountsOn(disk, f), dropped[f])[t] = CountsOn(disk, f)[t] + dropped[f][t] BY DEF Plus
    <3> QED BY <1>3, <3>1
  <2>3. CountsOn(disk, f)[t] \in Nat BY CountsOnFacts
  <2>4. c[t] \in Nat /\ dropped[f][t] \in Nat BY <1>2, <1>3
  <2> QED BY <2>1, <2>2, <2>3, <2>4
<1> HIDE DEF f, c
<1>5. Sum(heard[f]) >= 3 /\ Letters(disk[i].text, heard[f])
  BY <1>2, <1>3, <1>4, MoreIsEarned
<1> QED BY <1>2, <1>5 DEF f

\* The history starts with what the file has.
THEOREM BooksInit == Init => BooksInv
<1> SUFFICES ASSUME Init PROVE BooksInv OBVIOUS
<1>1. /\ Kept(disk) /\ heard = [f \in Freqs |-> CountsOn(disk, f)]
      /\ dropped = [f \in Freqs |-> NoCounts]
  BY MessageAssumption DEF Init
<1>2. NoCounts \in [Texts -> Nat] /\ \A t \in Texts : NoCounts[t] = 0 BY DEF NoCounts
<1>3. \A f \in Freqs : CountsOn(disk, f) \in [Texts -> Nat] BY <1>1, CountsOnFacts
<1>4. \A f \in Freqs : Plus(CountsOn(disk, f), dropped[f]) = heard[f]
  <2> SUFFICES ASSUME NEW f \in Freqs PROVE Plus(CountsOn(disk, f), NoCounts) = CountsOn(disk, f)
    BY <1>1
  <2> DEFINE c == CountsOn(disk, f)
  <2>1. c \in [Texts -> Nat] BY <1>3
  <2> HIDE DEF c
  <2>2. Plus(c, NoCounts) = c BY <1>2, <2>1 DEF Plus
  <2> QED BY <2>2 DEF c
<1>5. \A r \in Range(disk) : r.evidence = Sum(r.counts)
  BY <1>1, KeptFacts DEF Range, Sound
<1>6. heard \in [Freqs -> [Texts -> Nat]] /\ dropped \in [Freqs -> [Texts -> Nat]]
  BY <1>1, <1>2, <1>3
<1> QED BY <1>4, <1>5, <1>6 DEF BooksInv, EveryReceptionCounts

\* One reception more on the books, with what its save pushed out.
LEMMA AccountFacts ==
    ASSUME BooksInv, NEW t \in Texts, NEW f \in Freqs, NEW out,
           \A g : CountsOn(out, g) \in [Texts -> Nat], Account(t, f, out)
    PROVE  /\ heard' \in [Freqs -> [Texts -> Nat]] /\ dropped' \in [Freqs -> [Texts -> Nat]]
           /\ \A g \in Freqs : \A u \in Texts :
                 /\ heard'[g][u] = heard[g][u] + (IF g = f THEN One(t)[u] ELSE 0)
                 /\ dropped'[g][u] = dropped[g][u] + CountsOn(out, g)[u]
<1>1. heard \in [Freqs -> [Texts -> Nat]] /\ dropped \in [Freqs -> [Texts -> Nat]]
  BY DEF BooksInv
<1>2. /\ heard' = [heard EXCEPT ![f][t] = @ + 1]
      /\ dropped' = [g \in Freqs |-> Plus(dropped[g], CountsOn(out, g))]
  BY DEF Account
<1>3. \A g \in Freqs : /\ Plus(dropped[g], CountsOn(out, g)) \in [Texts -> Nat]
                       /\ \A u \in Texts : Plus(dropped[g], CountsOn(out, g))[u]
                                             = dropped[g][u] + CountsOn(out, g)[u]
  BY <1>1, PlusFacts
<1>4. \A u \in Texts : One(t)[u] = IF u = t THEN 1 ELSE 0 BY OneFacts
<1>5. \A g \in Freqs : \A u \in Texts :
         heard'[g][u] = heard[g][u] + (IF g = f THEN One(t)[u] ELSE 0)
  BY <1>1, <1>2, <1>4
<1>6. heard' \in [Freqs -> [Texts -> Nat]] BY <1>1, <1>2
<1> QED BY <1>2, <1>3, <1>5, <1>6

\* A step keeps the books and what they account for, unless it is a reception
\* saved or CLEAR.
THEOREM BooksStep == StoreInv /\ BooksInv /\ [Next]_vars => BooksInv'
<1> SUFFICES ASSUME StoreInv, BooksInv, [Next]_vars PROVE BooksInv'
  OBVIOUS
<1>1. /\ heard \in [Freqs -> [Texts -> Nat]] /\ dropped \in [Freqs -> [Texts -> Nat]]
      /\ \A f \in Freqs : Plus(CountsOn(disk, f), dropped[f]) = heard[f]
  BY DEF BooksInv, EveryReceptionCounts
<1>2. SUFFICES /\ heard' \in [Freqs -> [Texts -> Nat]] /\ dropped' \in [Freqs -> [Texts -> Nat]]
               /\ \A f \in Freqs : Plus(CountsOn(disk', f), dropped'[f]) = heard'[f]
  <2>1. Kept(disk)' BY StoreStep DEF StoreInv
  <2>2. Kept(disk') BY <2>1 DEF Kept, Letters
  <2>3. \A r \in Range(disk') : r.evidence = Sum(r.counts)
    <3> SUFFICES ASSUME NEW r \in Range(disk') PROVE r.evidence = Sum(r.counts) OBVIOUS
    <3>1. PICK i \in DOMAIN disk' : r = disk'[i] BY DEF Range
    <3>2. Sound(disk'[i]) BY <2>2, KeptFacts
    <3> QED BY <3>1, <3>2 DEF Sound
  <2> QED BY <2>3 DEF BooksInv, EveryReceptionCounts, Range, Plus, CountsOn, CountsAt, On
<1>3. CASE heard' = heard /\ dropped' = dropped /\ disk' = disk
  BY <1>1, <1>3
<1>4. ASSUME NEW t \in Texts, NEW f \in Freqs, NEW sure \in BOOLEAN, Observe(t, f, sure),
             ~(heard' = heard /\ dropped' = dropped /\ disk' = disk)
      PROVE  /\ heard' \in [Freqs -> [Texts -> Nat]] /\ dropped' \in [Freqs -> [Texts -> Nat]]
             /\ \A g \in Freqs : Plus(CountsOn(disk', g), dropped'[g]) = heard'[g]
  <2> DEFINE all(r) == WithRecord(Matches(t, f), r)
  <2>1. records = disk /\ Kept(records) BY <1>4, ObserveFacts
  <2>2. PICK r \in Observed(t, f, sure) :
           Valid(r) /\ disk' = Bounded(all(r)) /\ Account(t, f, PushedOut(all(r)))
    BY <1>4, ObserveFacts
  <2> DEFINE out == PushedOut(all(r))
             kept == Bounded(all(r))
  <2>3. /\ \A g : CountsOn(out, g) \in [Texts -> Nat]
        /\ \A g, u : u \in Texts => CountsOn(kept, g)[u] + CountsOn(out, g)[u]
                        = CountsOn(disk, g)[u] + (IF g = f THEN One(t)[u] ELSE 0)
        /\ Kept(kept)
    BY <2>1, <2>2, SavedFacts
  <2> HIDE DEF all
  <2>4. disk' = kept /\ Account(t, f, out) BY <2>2
  <2> HIDE DEF out, kept
  <2>5. /\ heard' \in [Freqs -> [Texts -> Nat]] /\ dropped' \in [Freqs -> [Texts -> Nat]]
        /\ \A g \in Freqs : \A u \in Texts :
              /\ heard'[g][u] = heard[g][u] + (IF g = f THEN One(t)[u] ELSE 0)
              /\ dropped'[g][u] = dropped[g][u] + CountsOn(out, g)[u]
    BY <2>3, <2>4, AccountFacts
  <2>6. ASSUME NEW g \in Freqs PROVE Plus(CountsOn(kept, g), dropped'[g]) = heard'[g]
    <3>1. ASSUME NEW u \in Texts PROVE CountsOn(kept, g)[u] + dropped'[g][u] = heard'[g][u]
      <4> DEFINE one == IF g = f THEN One(t)[u] ELSE 0
                 a == CountsOn(kept, g)[u]
                 b == CountsOn(out, g)[u]
                 c == CountsOn(disk, g)[u]
      <4>1. a \in Nat /\ c \in Nat BY <2>1, <2>3, CountsOnFacts
      <4>2. b \in Nat BY <2>3
      <4>3. one \in Nat BY OneFacts
      <4>4. a + b = c + one BY <2>3
      <4>5. c + dropped[g][u] = heard[g][u]
        <5>1. Plus(CountsOn(disk, g), dropped[g])[u] = c + dropped[g][u] BY DEF Plus
        <5> QED BY <1>1, <5>1
      <4>6. dropped[g][u] \in Nat /\ heard[g][u] \in Nat BY <1>1
      <4>7. heard'[g][u] = heard[g][u] + one /\ dropped'[g][u] = dropped[g][u] + b BY <2>5
      <4> HIDE DEF one, a, b, c
      <4>8. a + dropped'[g][u] = heard'[g][u] BY ONLY <4>1, <4>2, <4>3, <4>4, <4>5, <4>6, <4>7
      <4> QED BY <4>8 DEF a
    <3>2. heard'[g] = [u \in Texts |-> heard'[g][u]] BY <2>5
    <3>3. Plus(CountsOn(kept, g), dropped'[g])
            = [u \in Texts |-> CountsOn(kept, g)[u] + dropped'[g][u]]
      BY DEF Plus
    <3> QED BY ONLY <3>1, <3>2, <3>3
  <2> QED BY <2>4, <2>5, <2>6
<1>5. CASE Clear
  <2>1. \/ heard' = heard /\ dropped' = dropped /\ disk' = disk
        \/ /\ disk' = <<>> /\ heard' = [f \in Freqs |-> NoCounts]
           /\ dropped' = [f \in Freqs |-> NoCounts]
    BY <1>5 DEF Clear
  <2>2. CASE disk' = <<>> /\ heard' = [f \in Freqs |-> NoCounts]
             /\ dropped' = [f \in Freqs |-> NoCounts]
    <3>1. NoCounts \in [Texts -> Nat] /\ \A t \in Texts : NoCounts[t] = 0 BY DEF NoCounts
    <3>2. ASSUME NEW f \in Freqs PROVE Plus(CountsOn(<<>>, f), NoCounts) = NoCounts
      <4>1. \A t \in Texts : CountsOn(<<>>, f)[t] = 0
        <5> SUFFICES ASSUME NEW t \in Texts PROVE CountsOn(<<>>, f)[t] = 0 OBVIOUS
        <5> DEFINE J == On(<<>>, f)
                   w == [i \in J |-> <<>>[i].counts[t]]
        <5>1. CountsOn(<<>>, f)[t] = Sum(w) BY DEF CountsOn, CountsAt
        <5>2. J = {} BY DEF On
        <5>3. w \in [{} -> Nat] BY <5>2
        <5> HIDE DEF w
        <5> QED BY <5>1, <5>3, SumOfNone
      <4>2. Plus(CountsOn(<<>>, f), NoCounts) = [t \in Texts |-> CountsOn(<<>>, f)[t] + NoCounts[t]]
        BY DEF Plus
      <4>3. NoCounts = [t \in Texts |-> NoCounts[t]] BY <3>1
      <4> QED BY <3>1, <4>1, <4>2, <4>3
    <3> QED BY <2>2, <3>1, <3>2
  <2> QED BY <1>3, <2>1, <2>2
<1>6. ASSUME NEW t, NEW f, NEW sure, ObserveRefused(t, f, sure)
      PROVE  heard' = heard /\ dropped' = dropped /\ disk' = disk
  BY <1>6 DEF ObserveRefused, history
<1>7. Crash \/ Restart \/ Tick \/ SetClockBack \/ UNCHANGED vars
         => heard' = heard /\ dropped' = dropped /\ disk' = disk
  BY DEF Crash, Restart, Tick, SetClockBack, vars, history
<1> QED BY NextFacts, <1>3, <1>4, <1>5, <1>6, <1>7

-----------------------------------------------------------------------------
(* The Display *)

\* What is on the Display was heard there as often as it takes.
Earned(m, h) == m[2] \in Freqs /\ Sum(h[m[2]]) >= 3 /\ Letters(m[1], h[m[2]])
ShownInv == \A m \in shown : Earned(m, heard)

\* Verified records of the file were heard as often as it takes.
LEMMA MessagesAreEarned ==
    ASSUME Kept(disk), BooksInv, NEW I, I \subseteq VerifiedIn(disk), NEW m \in Messages(disk, I)
    PROVE  Earned(m, heard)
<1>1. PICK i \in I : m = <<disk[i].text, disk[i].freq>> BY DEF Messages
<1>2. i \in DOMAIN disk /\ disk[i].verified BY DEF VerifiedIn
<1>3. /\ disk[i].freq \in Freqs /\ Sum(heard[disk[i].freq]) >= 3
      /\ Letters(disk[i].text, heard[disk[i].freq])
  BY <1>2, VerifiedIsEarned
<1> QED BY <1>1, <1>3 DEF Earned

\* The service first replays verified records of the file.
THEOREM ShownInit == Init => ShownInv
<1> SUFFICES ASSUME Init PROVE ShownInv OBVIOUS
<1>1. Kept(disk) /\ BooksInv BY StoreInit, BooksInit DEF StoreInv
<1>2. shown = Messages(disk, Replayed(disk)) /\ Replayed(disk) \subseteq VerifiedIn(disk)
  BY DEF Init, Replayed
<1> QED BY <1>1, <1>2, MessagesAreEarned DEF ShownInv

\* A popup, a replay and CLEAR show nothing that is not earned.
THEOREM ShownStep == StoreInv /\ BooksInv /\ ShownInv /\ [Next]_vars => ShownInv'
<1> SUFFICES ASSUME StoreInv, BooksInv, ShownInv, [Next]_vars PROVE ShownInv'
  OBVIOUS
<1>0. /\ heard \in [Freqs -> [Texts -> Nat]] /\ dropped \in [Freqs -> [Texts -> Nat]]
      /\ \A f \in Freqs : Plus(CountsOn(disk, f), dropped[f]) = heard[f]
  BY DEF BooksInv, EveryReceptionCounts
<1> SUFFICES \A m \in shown' : Earned(m, heard')
  BY DEF ShownInv, Earned, Letters
<1>1. \A m \in shown : Earned(m, heard) BY DEF ShownInv
<1>2. ASSUME shown' \subseteq shown, heard' = heard PROVE \A m \in shown' : Earned(m, heard')
  BY <1>1, <1>2
<1>3. ASSUME NEW t \in Texts, NEW f \in Freqs, NEW sure \in BOOLEAN, Observe(t, f, sure)
      PROVE  \A m \in shown' : Earned(m, heard')
  <2>1. CASE heard' = heard /\ shown' = shown BY <1>2, <2>1
  <2>2. CASE ~(heard' = heard /\ shown' = shown)
    <3> DEFINE all(r) == WithRecord(Matches(t, f), r)
    <3>1. records = disk /\ Kept(disk) BY <1>3, ObserveFacts
    <3>2. PICK r \in Observed(t, f, sure) :
             /\ Valid(r) /\ Account(t, f, PushedOut(all(r)))
             /\ Popup(r) \/ shown' = shown
      BY <1>3, <2>2, ObserveFacts
    <3>3. /\ Sound(r) /\ r.freq = f
          /\ \A g : CountsOn(PushedOut(all(r)), g) \in [Texts -> Nat]
          /\ \A u \in Texts : r.counts[u] <= CountsOn(disk, f)[u] + One(t)[u]
      BY <3>1, <3>2, SavedFacts
    <3> HIDE DEF all
    <3>4. /\ heard' \in [Freqs -> [Texts -> Nat]]
          /\ \A g \in Freqs : \A u \in Texts :
                heard'[g][u] = heard[g][u] + (IF g = f THEN One(t)[u] ELSE 0)
      BY <3>2, <3>3, AccountFacts
    <3>5. \A u \in Texts : One(t)[u] \in Nat BY OneFacts
    <3>6. ASSUME NEW m, Earned(m, heard) PROVE Earned(m, heard')
      <4> DEFINE c == heard[m[2]]
                 h == heard'[m[2]]
      <4>1. m[2] \in Freqs /\ Sum(c) >= 3 /\ Letters(m[1], c) BY <3>6 DEF Earned
      <4>2. c \in [Texts -> Nat] /\ h \in [Texts -> Nat] BY <1>0, <3>4, <4>1
      <4>3. ASSUME NEW u \in Texts PROVE c[u] <= h[u]
        <5>1. h[u] = c[u] + (IF m[2] = f THEN One(t)[u] ELSE 0) BY <3>4, <4>1
        <5>2. c[u] \in Nat /\ One(t)[u] \in Nat BY <3>5, <4>2
        <5> HIDE DEF c, h
        <5> QED BY <5>1, <5>2
      <4> HIDE DEF c, h
      <4>4. Sum(h) >= 3 /\ Letters(m[1], h) BY <4>1, <4>2, <4>3, MoreIsEarned
      <4> QED BY <4>1, <4>4 DEF Earned, h
    <3>7. ASSUME r.verified PROVE Earned(<<r.text, r.freq>>, heard')
      <4> DEFINE c == r.counts
                 h == heard'[f]
      <4>1. c \in [Texts -> Nat] /\ Sum(c) >= 3 /\ Letters(r.text, c) BY <3>3, <3>7 DEF Sound
      <4>2. h \in [Texts -> Nat] BY <3>4
      <4>3. ASSUME NEW u \in Texts PROVE c[u] <= h[u]
        <5> DEFINE b == CountsOn(disk, f)[u]
        <5>1. c[u] <= b + One(t)[u] BY <3>3
        <5>2. h[u] = heard[f][u] + One(t)[u] BY <3>4
        <5>3. heard[f][u] = b + dropped[f][u]
          <6>1. Plus(CountsOn(disk, f), dropped[f])[u] = b + dropped[f][u] BY DEF Plus
          <6> QED BY <1>0, <6>1
        <5>4. b \in Nat BY <3>1, CountsOnFacts
        <5>5. /\ c[u] \in Nat /\ One(t)[u] \in Nat /\ heard[f][u] \in Nat /\ dropped[f][u] \in Nat
          BY <1>0, <3>5, <4>1
        <5> HIDE DEF b, c, h
        <5> QED BY <5>1, <5>2, <5>3, <5>4, <5>5
      <4> HIDE DEF c, h
      <4>4. Sum(h) >= 3 /\ Letters(r.text, h) BY <4>1, <4>2, <4>3, MoreIsEarned
      <4> QED BY <3>3, <4>4 DEF Earned, h
    <3>8. \A m \in shown' : m \in shown \/ (r.verified /\ m = <<r.text, r.freq>>)
      BY <3>2 DEF Popup
    <3> QED BY <1>1, <3>6, <3>7, <3>8
  <2> QED BY <2>1, <2>2
<1>4. ASSUME NEW t, NEW f, NEW sure, ObserveRefused(t, f, sure)
      PROVE  shown' \subseteq shown /\ heard' = heard
  BY <1>4 DEF ObserveRefused, history
<1>5. CASE Clear BY <1>5 DEF Clear
<1>6. CASE Restart
  <2>1. records' = disk
    <3> DEFINE S == {disk[i] : i \in DOMAIN disk}
    <3>1. disk \in Seq(S) /\ Len(disk) <= MaxRecords BY KeptFacts DEF StoreInv
    <3> HIDE DEF S
    <3> QED BY <1>6, <3>1, BoundedFacts DEF Restart
  <2>2. heard' = heard /\ shown' = shown \cup Messages(disk, Replayed(disk))
    BY <1>6, <2>1 DEF Restart
  <2>3. Replayed(disk) \subseteq VerifiedIn(disk) BY DEF Replayed
  <2>4. \A m \in Messages(disk, Replayed(disk)) : Earned(m, heard)
    BY <2>3, MessagesAreEarned DEF StoreInv
  <2> QED BY <1>1, <2>2, <2>4
<1>7. Crash \/ Tick \/ SetClockBack \/ UNCHANGED vars => shown' \subseteq shown /\ heard' = heard
  BY DEF Crash, Tick, SetClockBack, vars, history
<1> QED BY NextFacts, <1>2, <1>3, <1>4, <1>5, <1>6, <1>7

\* The text that suppresses its repeats is on the Display.
VisibleInv ==
    /\ VerifiedIsShown
    /\ sinceLast \in Nat
    /\ sinceLast < DuplicateWindow => \E f \in Freqs : <<lastMessage, f>> \in shown

\* The smaller of two numbers.
LEMMA MinFacts ==
    ASSUME NEW a \in Nat, NEW b \in Nat
    PROVE  Min({a, b}) \in {a, b} /\ Min({a, b}) <= a /\ Min({a, b}) <= b
<1>1. \E x \in {a, b} : \A y \in {a, b} : x <= y
  <2>1. CASE a <= b BY <2>1
  <2>2. CASE ~(a <= b) BY <2>2
  <2> QED BY <2>1, <2>2
<1> DEFINE S == {a, b}
<1>2. Min(S) = CHOOSE x \in S : \A y \in S : x <= y BY DEF Min
<1>3. Min(S) \in S /\ \A y \in S : Min(S) <= y BY <1>1, <1>2
<1> QED BY <1>3

\* Each verified record of the file is replayed or left out.
THEOREM VisibleInit == Init => VisibleInv
<1> SUFFICES ASSUME Init PROVE VisibleInv OBVIOUS
<1>1. /\ Kept(disk) /\ records = disk /\ sinceLast = DuplicateWindow
      /\ shown = Messages(disk, Replayed(disk))
      /\ leftOut = Messages(disk, VerifiedIn(disk) \ Replayed(disk))
  BY MessageAssumption DEF Init
<1>2. DuplicateWindow \in Nat BY MessageAssumption
<1>3. VerifiedIsShown
  <2> SUFFICES ASSUME NEW i \in VerifiedIn(records)
               PROVE  \/ \E f \in Freqs : <<records[i].text, f>> \in shown
                      \/ <<records[i].text, records[i].freq>> \in leftOut
    BY DEF VerifiedIsShown
  <2>1. records[i].freq \in Freqs BY <1>1, KeptFacts DEF VerifiedIn, Sound
  <2>2. i \in Replayed(disk) \/ i \in VerifiedIn(disk) \ Replayed(disk) BY <1>1
  <2> QED BY <1>1, <2>1, <2>2 DEF Messages
<1> QED BY <1>1, <1>2, <1>3 DEF VisibleInv

\* The popup of a verified record leaves its text on the Display, and the text
\* that suppresses repeats.
LEMMA PopupFacts ==
    ASSUME NEW r, r.freq \in Freqs, Popup(r), VisibleInv
    PROVE  /\ shown \subseteq shown'
           /\ r.verified => \E f \in Freqs : <<r.text, f>> \in shown'
           /\ sinceLast' \in Nat
           /\ sinceLast' < DuplicateWindow => \E f \in Freqs : <<lastMessage', f>> \in shown'
<1>1. /\ sinceLast \in Nat
      /\ sinceLast < DuplicateWindow => \E f \in Freqs : <<lastMessage, f>> \in shown
  BY DEF VisibleInv
<1>2. CASE ~r.verified BY <1>1, <1>2 DEF Popup
<1>3. CASE r.verified
  <2>1. shown \subseteq shown' /\ lastMessage' = r.text /\ sinceLast' = 0
    BY <1>3 DEF Popup
  <2>2. \E f \in Freqs : <<r.text, f>> \in shown'
    <3>1. CASE r.text = lastMessage /\ sinceLast < DuplicateWindow BY <1>1, <2>1, <3>1
    <3>2. CASE ~(r.text = lastMessage /\ sinceLast < DuplicateWindow)
      <4>1. <<r.text, r.freq>> \in shown' BY <1>3, <3>2 DEF Popup
      <4> QED BY <4>1
    <3> QED BY <3>1, <3>2
  <2> QED BY <2>1, <2>2
<1> QED BY <1>2, <1>3

\* No step hides the text of a verified record of a running service.
THEOREM VisibleStep == StoreInv /\ VisibleInv /\ [Next]_vars => VisibleInv'
<1> SUFFICES ASSUME StoreInv, VisibleInv, [Next]_vars PROVE VisibleInv'
  OBVIOUS
<1>0. DuplicateWindow \in Nat BY MessageAssumption
<1>1. /\ sinceLast \in Nat
      /\ sinceLast < DuplicateWindow => \E f \in Freqs : <<lastMessage, f>> \in shown
      /\ up => \A i \in VerifiedIn(records) :
                  \/ \E f \in Freqs : <<records[i].text, f>> \in shown
                  \/ <<records[i].text, records[i].freq>> \in leftOut
  BY DEF VisibleInv, VerifiedIsShown
<1>2. SUFFICES /\ sinceLast' \in Nat
               /\ sinceLast' < DuplicateWindow => \E f \in Freqs : <<lastMessage', f>> \in shown'
               /\ up' => \A i \in VerifiedIn(records') :
                            \/ \E f \in Freqs : <<records'[i].text, f>> \in shown'
                            \/ <<records'[i].text, records'[i].freq>> \in leftOut'
  BY DEF VisibleInv, VerifiedIsShown, VerifiedIn
<1> DEFINE Goal == /\ sinceLast' \in Nat
                   /\ sinceLast' < DuplicateWindow => \E f \in Freqs : <<lastMessage', f>> \in shown'
                   /\ up' => \A i \in VerifiedIn(records') :
                                \/ \E f \in Freqs : <<records'[i].text, f>> \in shown'
                                \/ <<records'[i].text, records'[i].freq>> \in leftOut'
<1>3. ASSUME ServiceEnds PROVE Goal
  <2>1. sinceLast' = DuplicateWindow /\ up' = FALSE BY <1>3 DEF ServiceEnds
  <2>2. ~(sinceLast' < DuplicateWindow) BY <1>0, <2>1
  <2> QED BY <1>0, <2>1, <2>2
<1>4. ASSUME NEW t \in Texts, NEW f \in Freqs, NEW sure \in BOOLEAN, Observe(t, f, sure)
      PROVE  Goal
  <2>1. CASE ServiceEnds BY <1>3, <2>1
  <2>2. CASE ~ServiceEnds
    <3> DEFINE all(r) == WithRecord(Matches(t, f), r)
    <3>1. Kept(records) /\ up /\ leftOut' = leftOut BY <1>4, ObserveFacts
    <3>2. PICK r \in Observed(t, f, sure) :
             Valid(r) /\ records' = Bounded(all(r)) /\ Popup(r)
      BY <1>4, <2>2, ObserveFacts
    <3>3. /\ Sound(r)
          /\ \A k \in DOMAIN Bounded(all(r)) :
                \/ Bounded(all(r))[k] = r
                \/ \E i \in DOMAIN records : Bounded(all(r))[k] = records[i]
      BY <3>1, <3>2, SavedFacts
    <3> HIDE DEF all
    <3>4. \A k \in DOMAIN records' :
             records'[k] = r \/ \E i \in DOMAIN records : records'[k] = records[i]
      BY <3>2, <3>3
    <3>5. /\ shown \subseteq shown'
          /\ r.verified => \E g \in Freqs : <<r.text, g>> \in shown'
          /\ sinceLast' \in Nat
          /\ sinceLast' < DuplicateWindow => \E g \in Freqs : <<lastMessage', g>> \in shown'
      BY <3>2, <3>3, PopupFacts DEF Sound
    <3>6. ASSUME NEW k \in VerifiedIn(records')
          PROVE  \/ \E g \in Freqs : <<records'[k].text, g>> \in shown'
                 \/ <<records'[k].text, records'[k].freq>> \in leftOut'
      <4>1. k \in DOMAIN records' /\ records'[k].verified BY DEF VerifiedIn
      <4>2. CASE records'[k] = r BY <3>5, <4>1, <4>2
      <4>3. ASSUME NEW i \in DOMAIN records, records'[k] = records[i]
            PROVE  \/ \E g \in Freqs : <<records'[k].text, g>> \in shown'
                   \/ <<records'[k].text, records'[k].freq>> \in leftOut'
        <5>1. i \in VerifiedIn(records) BY <4>1, <4>3 DEF VerifiedIn
        <5> QED BY <1>1, <3>1, <3>5, <4>3, <5>1
      <4> QED BY <3>4, <4>1, <4>2, <4>3
    <3> QED BY <3>5, <3>6
  <2> QED BY <2>1, <2>2
<1>5. ASSUME NEW t, NEW f, NEW sure, ObserveRefused(t, f, sure) PROVE Goal
  BY <1>3, <1>5 DEF ObserveRefused
<1>6. CASE Clear
  <2>1. CASE ServiceEnds BY <1>3, <2>1
  <2>2. CASE ~ServiceEnds
    <3>1. records' = <<>> /\ sinceLast' = DuplicateWindow BY <1>6, <2>2 DEF Clear
    <3>2. ~(sinceLast' < DuplicateWindow) BY <1>0, <3>1
    <3>3. VerifiedIn(records') = {} BY <3>1 DEF VerifiedIn
    <3> QED BY <1>0, <3>1, <3>2, <3>3
  <2> QED BY <2>1, <2>2
<1>7. CASE Crash BY <1>3, <1>7 DEF Crash
<1>8. CASE Restart
  <2>1. records' = disk
    <3> DEFINE S == {disk[i] : i \in DOMAIN disk}
    <3>1. disk \in Seq(S) /\ Len(disk) <= MaxRecords BY KeptFacts DEF StoreInv
    <3> HIDE DEF S
    <3> QED BY <1>8, <3>1, BoundedFacts DEF Restart
  <2>2. /\ shown' = shown \cup Messages(disk, Replayed(disk))
        /\ leftOut' = Messages(disk, VerifiedIn(disk) \ Replayed(disk))
        /\ sinceLast' = sinceLast /\ lastMessage' = lastMessage
    BY <1>8, <2>1 DEF Restart
  <2>3. ASSUME NEW i \in VerifiedIn(records')
        PROVE  \/ \E g \in Freqs : <<records'[i].text, g>> \in shown'
               \/ <<records'[i].text, records'[i].freq>> \in leftOut'
    <3>1. disk[i].freq \in Freqs BY <2>1, KeptFacts DEF StoreInv, VerifiedIn, Sound
    <3>2. i \in Replayed(disk) \/ i \in VerifiedIn(disk) \ Replayed(disk) BY <2>1
    <3>3. CASE i \in Replayed(disk)
      <4>1. <<disk[i].text, disk[i].freq>> \in shown' BY <2>2, <3>3 DEF Messages
      <4> QED BY <2>1, <3>1, <4>1
    <3>4. CASE i \in VerifiedIn(disk) \ Replayed(disk)
      <4>1. <<disk[i].text, disk[i].freq>> \in leftOut' BY <2>2, <3>4 DEF Messages
      <4> QED BY <2>1, <4>1
    <3> QED BY <3>2, <3>3, <3>4
  <2> QED BY <1>1, <2>2, <2>3
<1>9. CASE Tick
  <2>1. /\ sinceLast' = Min({DuplicateWindow, sinceLast + 1})
        /\ up' = up /\ records' = records /\ shown' = shown /\ leftOut' = leftOut
        /\ lastMessage' = lastMessage
    BY <1>9 DEF Tick, history
  <2>2. sinceLast' \in Nat /\ (sinceLast' < DuplicateWindow => sinceLast < DuplicateWindow)
    <3>1. sinceLast + 1 \in Nat BY <1>1
    <3>2. sinceLast' \in {DuplicateWindow, sinceLast + 1} BY <1>0, <2>1, <3>1, MinFacts
    <3> QED BY <1>0, <1>1, <3>1, <3>2
  <2> QED BY <1>1, <2>1, <2>2
<1>10. CASE SetClockBack \/ UNCHANGED vars
  <2>1. /\ sinceLast' = sinceLast /\ lastMessage' = lastMessage
        /\ up' = up /\ records' = records /\ shown' = shown /\ leftOut' = leftOut
    BY <1>10 DEF SetClockBack, vars, history
  <2> QED BY <1>1, <2>1
<1> QED BY NextFacts, <1>4, <1>5, <1>6, <1>7, <1>8, <1>9, <1>10

-----------------------------------------------------------------------------
(* The theorems *)

\* One invariant of four parts.
Safety == StoreInv /\ BooksInv /\ ShownInv /\ VisibleInv

\* Safety holds in every reachable state.
THEOREM SafetyHolds == Spec => []Safety
<1>1. Init => Safety
  BY StoreInit, BooksInit, ShownInit, VisibleInit DEF Safety
<1>2. Safety /\ [Next]_vars => Safety'
  BY StoreStep, BooksStep, ShownStep, VisibleStep DEF Safety
<1> QED BY <1>1, <1>2, PTL DEF Spec

\* The books are balanced: the file, with what the bound pushed out, counts
\* every reception whose save took place, and none twice.
THEOREM BooksBalance == Spec => []EveryReceptionCounts
<1>1. Safety => EveryReceptionCounts BY DEF Safety, BooksInv
<1> QED BY <1>1, SafetyHolds, PTL

\* The service can load its own file, however its clock was set.
THEOREM FileIsValid == Spec => []FileLoads
<1>1. Safety => FileLoads
  <2> SUFFICES ASSUME Kept(disk) PROVE FileLoads BY DEF Safety, StoreInv
  <2>1. Len(disk) <= MaxRecords BY KeptFacts
  <2>2. ASSUME NEW r \in Range(disk) PROVE r.first <= r.last
    <3>1. PICK i \in DOMAIN disk : r = disk[i] BY DEF Range
    <3> QED BY <3>1, KeptFacts DEF Sound
  <2> QED BY <2>1, <2>2 DEF FileLoads
<1> QED BY <1>1, SafetyHolds, PTL

\* What the Display shows was earned by three receptions.
THEOREM ShownEarned == Spec => []ShownIsEarned
<1>1. Safety => ShownIsEarned BY DEF Safety, ShownInv, Earned, ShownIsEarned
<1> QED BY <1>1, SafetyHolds, PTL

\* A verified text is on the Display, unless the replay left it out.
THEOREM VerifiedShown == Spec => []VerifiedIsShown
<1>1. Safety => VerifiedIsShown BY DEF Safety, VisibleInv
<1> QED BY <1>1, SafetyHolds, PTL

=============================================================================
