----------------------------- MODULE MappingProofs -----------------------------
(***************************************************************************)
(* What the operators of Mapping compute for any configuration: that       *)
(* sorting enumerates, that unique names stay unique from the legacy       *)
(* objects to the merged configuration, and that the two descriptions of   *)
(* it in an archive agree on what is where.                                *)
(***************************************************************************)
EXTENDS Mapping, FiniteSetTheorems, TLAPS

-----------------------------------------------------------------------------
(* Sorting.                                                                *)

\* A finite set has an enumeration in the order of any keys that tell its members
\* apart: each has its rank for a position.
LEMMA InOrderExists ==
    ASSUME NEW S, IsFiniteSet(S), NEW key \in [S -> Nat],
           \A x, y \in S : key[x] = key[y] => x = y
    PROVE  \E s \in [1..Cardinality(S) -> S] :
               IsInjective(s) /\ \A i, j \in DOMAIN s : i < j => key[s[i]] <= key[s[j]]
  <1> DEFINE n == Cardinality(S)
             Below(x) == {y \in S : key[y] < key[x]}
             rank == [x \in S |-> Cardinality(Below(x)) + 1]
  <1>1. n \in Nat
    BY FS_CardinalityType
  <1>2. ASSUME NEW x \in S
        PROVE IsFiniteSet(Below(x)) /\ Cardinality(Below(x)) \in 0..(n - 1)
    <2>1. Below(x) \in SUBSET S /\ x \notin Below(x)
      OBVIOUS
    <2> DEFINE B == Below(x)
    <2> HIDE DEF B
    <2>2. IsFiniteSet(B) /\ Cardinality(B) <= n /\ (n = Cardinality(B) => S = B)
      BY <2>1, FS_Subset DEF B
    <2>3. Cardinality(B) \in Nat
      BY <2>2, FS_CardinalityType
    <2>4. Cardinality(B) # n
      BY <2>1, <2>2 DEF B
    <2>. QED BY <1>1, <2>2, <2>3, <2>4 DEF B
  <1> HIDE DEF Below
  <1>3. ASSUME NEW x \in S, NEW y \in S, key[x] < key[y]
        PROVE rank[x] < rank[y]
    <2> DEFINE B == Below(x)
               C == Below(y)
    <2>1. B \in SUBSET C /\ x \in C /\ x \notin B
      BY <1>3 DEF Below
    <2>2. rank[x] = Cardinality(B) + 1 /\ rank[y] = Cardinality(C) + 1
      OBVIOUS
    <2>3. IsFiniteSet(C) /\ Cardinality(B) \in Nat /\ Cardinality(C) \in Nat
      BY <1>1, <1>2
    <2> HIDE DEF B, C
    <2>4. Cardinality(B) <= Cardinality(C) /\ (Cardinality(C) = Cardinality(B) => C = B)
      BY <2>1, <2>3, FS_Subset
    <2>. QED BY <2>1, <2>2, <2>3, <2>4
  <1>4. rank \in [S -> 1..n]
    BY <1>1, <1>2
  <1> HIDE DEF rank
  <1>5. rank \in Injection(S, 1..n)
    <2>1. ASSUME NEW x \in S, NEW y \in S, rank[x] = rank[y]
          PROVE x = y
      <3>1. rank[x] \in Int /\ rank[y] \in Int /\ key[x] \in Nat /\ key[y] \in Nat
        BY <1>1, <1>4
      <3>2. ~(key[x] < key[y]) /\ ~(key[y] < key[x])
        BY <1>3, <2>1, <3>1
      <3>. QED BY <3>1, <3>2
    <2>2. DOMAIN rank = S
      BY <1>4
    <2>. QED BY <1>4, <2>1, <2>2 DEF Injection, IsInjective
  <1>6. IsFiniteSet(1..n) /\ Cardinality(1..n) = n
    BY <1>1, FS_Interval
  <1>7. \A i \in 1..n : \E x \in S : rank[x] = i
    <2> DEFINE T == 1..n
    <2>1. rank \in Injection(S, T) /\ IsFiniteSet(T) /\ Cardinality(S) = Cardinality(T)
      BY <1>5, <1>6
    <2> HIDE DEF T, n
    <2>2. rank \in Surjection(S, T)
      BY <2>1, FS_Injection
    <2>. QED BY <2>2 DEF Surjection, T
  <1> DEFINE s == [i \in 1..n |-> CHOOSE x \in S : rank[x] = i]
  <1>8. ASSUME NEW i \in 1..n
        PROVE s[i] \in S /\ rank[s[i]] = i
    BY <1>7
  <1>9. DOMAIN s = 1..n
    OBVIOUS
  <1>10. s \in [1..n -> S]
    BY <1>7
  <1> HIDE DEF s
  <1>11. IsInjective(s)
    BY <1>8, <1>9 DEF IsInjective
  <1>12. ASSUME NEW i \in 1..n, NEW j \in 1..n, i < j
         PROVE key[s[i]] <= key[s[j]]
    <2>1. s[i] \in S /\ s[j] \in S /\ rank[s[i]] = i /\ rank[s[j]] = j
      BY <1>8
    <2>2. ~(key[s[j]] < key[s[i]])
      BY <1>1, <1>3, <1>12, <2>1
    <2>. QED BY <2>1, <2>2
  <1>. QED BY <1>9, <1>10, <1>11, <1>12

LEMMA InOrder ==
    ASSUME NEW S, IsFiniteSet(S), NEW key \in [S -> Nat],
           \A x, y \in S : key[x] = key[y] => x = y
    PROVE  LET s == InOrderOf(key)
               n == Cardinality(S)
           IN  /\ n \in Nat
               /\ s \in [1..n -> S]
               /\ \A i, j \in 1..n : i < j => key[s[i]] < key[s[j]]
               /\ \A x \in S : \E i \in 1..n : s[i] = x
  <1> DEFINE n == Cardinality(S)
             s == InOrderOf(key)
             Ordered(t) == IsInjective(t) /\ \A i, j \in DOMAIN t : i < j => key[t[i]] <= key[t[j]]
  <1>1. n \in Nat
    BY FS_CardinalityType
  <1>2. DOMAIN key = S
    OBVIOUS
  <1>3. s = CHOOSE t \in [1..n -> S] : Ordered(t)
    BY <1>2, Zenon DEF InOrderOf
  <1>4. \E t \in [1..n -> S] : Ordered(t)
    BY InOrderExists
  <1> HIDE DEF s, Ordered
  <1>5. s \in [1..n -> S] /\ Ordered(s)
    BY <1>3, <1>4, Zenon
  <1>6. s \in Injection(1..n, S)
    BY <1>5 DEF Ordered, Injection
  <1>7. \A x \in S : \E i \in 1..n : s[i] = x
    <2> DEFINE T == 1..n
    <2>1. IsFiniteSet(T) /\ Cardinality(T) = n
      BY <1>1, FS_Interval
    <2>2. s \in Injection(T, S) /\ Cardinality(T) = Cardinality(S)
      BY <1>6, <2>1
    <2> HIDE DEF T, n
    <2>3. s \in Surjection(T, S)
      BY <2>1, <2>2, FS_Injection
    <2>. QED BY <2>3 DEF Surjection, T
  <1>8. ASSUME NEW i \in 1..n, NEW j \in 1..n, i < j
        PROVE key[s[i]] < key[s[j]]
    <2>1. s[i] \in S /\ s[j] \in S /\ s[i] # s[j] /\ key[s[i]] <= key[s[j]]
      BY <1>1, <1>5, <1>8 DEF Ordered, IsInjective
    <2>. QED BY <2>1
  <1>. QED BY <1>1, <1>5, <1>7, <1>8 DEF s

Increasing(n, a) == \A i, j \in 1..n : i < j => a[i] < a[j]
ValuesAmong(n, a, b) == \A i \in 1..n : \E j \in 1..n : a[i] = b[j]
BelowIn(n, a, i) == {v \in Nat : v < a[i] /\ \E j \in 1..n : v = a[j]}

\* The values of an increasing sequence that are below its i-th are i - 1.
LEMMA CountBelow ==
    ASSUME NEW n \in Nat, NEW a \in [1..n -> Nat], Increasing(n, a), NEW i \in 1..n
    PROVE  IsFiniteSet(BelowIn(n, a, i)) /\ Cardinality(BelowIn(n, a, i)) = i - 1
  <1> DEFINE below == BelowIn(n, a, i)
             m == i - 1
             f == [j \in 1..m |-> a[j]]
  <1>1. m \in Nat /\ \A j \in 1..m : j \in 1..n /\ j < i
    OBVIOUS
  <1>2. \A j \in 1..n : a[j] < a[i] => j \in 1..m
    <2> SUFFICES ASSUME NEW j \in 1..n, a[j] < a[i] PROVE j < i
      OBVIOUS
    <2>1. a[i] \in Nat /\ a[j] \in Nat /\ (i < j => a[i] < a[j]) /\ (i = j => a[i] = a[j])
      BY DEF Increasing
    <2>. QED BY <2>1
  <1>3. f \in [1..m -> below]
    BY <1>1 DEF Increasing, BelowIn
  <1>4. \A v \in below : \E j \in 1..m : f[j] = v
    BY <1>2 DEF BelowIn
  <1>5. ASSUME NEW j \in 1..m, NEW k \in 1..m, f[j] = f[k]
        PROVE j = k
    <2>1. j \in 1..n /\ k \in 1..n /\ a[j] = a[k] /\ a[j] \in Nat /\ a[k] \in Nat
      BY <1>1, <1>5
    <2>2. (j < k => a[j] < a[k]) /\ (k < j => a[k] < a[j])
      BY <2>1 DEF Increasing
    <2>. QED BY <2>1, <2>2
  <1> HIDE DEF below, f, m
  <1>6. f \in Bijection(1..m, below)
    BY <1>3, <1>4, <1>5 DEF Bijection, Injection, Surjection, IsInjective
  <1>7. ExistsBijection(1..m, below)
    BY <1>6 DEF ExistsBijection
  <1>8. Cardinality(below) = m /\ IsFiniteSet(below)
    BY <1>1, <1>7, FS_CountingElements, FS_NatBijection
  <1>. QED BY <1>8 DEF below, m

\* A proper part is smaller.
LEMMA NotSmaller ==
    ASSUME NEW B, IsFiniteSet(B), NEW A \in SUBSET B, Cardinality(A) = Cardinality(B)
    PROVE  A = B
  BY FS_Subset

\* Of two sequences of the same numbers, the one whose i-th is larger has more below it.
LEMMA MoreBelow ==
    ASSUME NEW n \in Nat, NEW a \in [1..n -> Nat], NEW b \in [1..n -> Nat],
           ValuesAmong(n, a, b), NEW i \in 1..n, a[i] < b[i]
    PROVE  BelowIn(n, a, i) \in SUBSET BelowIn(n, b, i) /\ BelowIn(n, a, i) # BelowIn(n, b, i)
  <1>1. a[i] \in Nat /\ b[i] \in Nat
    OBVIOUS
  <1>2. ASSUME NEW v \in BelowIn(n, a, i) PROVE v \in BelowIn(n, b, i)
    <2>1. PICK j \in 1..n : v = a[j]
      BY DEF BelowIn
    <2>2. PICK k \in 1..n : a[j] = b[k]
      BY DEF ValuesAmong
    <2>3. v \in Nat /\ v < a[i] /\ v = b[k]
      BY <2>1, <2>2 DEF BelowIn
    <2>4. v < b[i]
      BY <1>1, <2>3
    <2>. QED BY <2>3, <2>4 DEF BelowIn
  <1>3. a[i] \in BelowIn(n, b, i)
    BY <1>1 DEF BelowIn, ValuesAmong
  <1>4. a[i] \notin BelowIn(n, a, i)
    BY <1>1 DEF BelowIn
  <1>. QED BY <1>2, <1>3, <1>4

\* Two increasing sequences of the same numbers are equal.
LEMMA SameOrder ==
    ASSUME NEW n \in Nat, NEW a \in [1..n -> Nat], NEW b \in [1..n -> Nat],
           Increasing(n, a), Increasing(n, b), ValuesAmong(n, a, b), ValuesAmong(n, b, a)
    PROVE  a = b
  <1> SUFFICES ASSUME NEW i \in 1..n PROVE a[i] = b[i]
    OBVIOUS
  <1>1. /\ IsFiniteSet(BelowIn(n, a, i)) /\ IsFiniteSet(BelowIn(n, b, i))
        /\ Cardinality(BelowIn(n, a, i)) = Cardinality(BelowIn(n, b, i))
    BY CountBelow
  <1>2. a[i] \in Nat /\ b[i] \in Nat
    OBVIOUS
  <1>3. ASSUME a[i] < b[i] PROVE FALSE
    <2>1. BelowIn(n, a, i) \in SUBSET BelowIn(n, b, i) /\ BelowIn(n, a, i) # BelowIn(n, b, i)
      BY <1>3, MoreBelow
    <2>. QED BY <1>1, <2>1, NotSmaller
  <1>4. ASSUME b[i] < a[i] PROVE FALSE
    <2>1. BelowIn(n, b, i) \in SUBSET BelowIn(n, a, i) /\ BelowIn(n, b, i) # BelowIn(n, a, i)
      BY <1>4, MoreBelow
    <2>. QED BY <1>1, <2>1, NotSmaller
  <1>. QED BY <1>2, <1>3, <1>4

\* The elements of a sequence are finitely many.
LEMMA FiniteToSet ==
    ASSUME NEW S, NEW s \in Seq(S)
    PROVE  IsFiniteSet(ToSet(s)) /\ Cardinality(ToSet(s)) <= Len(s)
  <1>1. s \in Surjection(1..Len(s), ToSet(s)) /\ Len(s) \in Nat
    BY DEF Surjection, ToSet
  <1>2. ExistsSurjection(1..Len(s), ToSet(s))
    BY <1>1 DEF ExistsSurjection
  <1>. QED BY <1>1, <1>2, FS_NatSurjection, FS_SurjCardinalityBound

LEMMA SortedIs ==
    ASSUME NEW S \in SUBSET Mappings, IsFiniteSet(S),
           \A x, y \in S : x.name = y.name => x = y
    PROVE  LET q == SortedByName(S)
           IN  /\ q \in Seq(S)
               /\ Len(q) = Cardinality(S)
               /\ ToSet(q) = S
               /\ \A i, j \in DOMAIN q : i < j => q[i].name < q[j].name
  <1> DEFINE key == [mapping \in S |-> mapping.name]
             n == Cardinality(S)
             q == InOrderOf(key)
  <1>1. key \in [S -> Nat] /\ \A x, y \in S : key[x] = key[y] => x = y
    BY NamesAssumption DEF Mappings
  <1>2. \A x \in S : key[x] = x.name
    OBVIOUS
  <1> HIDE DEF key
  <1>3. /\ n \in Nat
        /\ q \in [1..n -> S]
        /\ \A i, j \in 1..n : i < j => key[q[i]] < key[q[j]]
        /\ \A x \in S : \E i \in 1..n : q[i] = x
    BY <1>1, InOrder, Zenon
  <1>4. SortedByName(S) = q
    BY DEF SortedByName, key
  <1> HIDE DEF q, n
  <1>5. q \in Seq(S) /\ Len(q) = n /\ DOMAIN q = 1..n
    BY <1>3
  <1>6. ToSet(q) = S
    BY <1>3, <1>5 DEF ToSet
  <1>7. \A i, j \in 1..n : i < j => q[i].name < q[j].name
    BY <1>2, <1>3
  <1>. QED BY <1>4, <1>5, <1>6, <1>7 DEF n

-----------------------------------------------------------------------------
(* Names.                                                                  *)

Distinct(mappings) ==
    \A i, j \in DOMAIN mappings : mappings[i].name = mappings[j].name => i = j

Apart(some, others) ==
    \A one \in ToSet(some), other \in ToSet(others) : one.name # other.name

\* Counting the names of a sequence tells whether one is there twice.
LEMMA CountedNames ==
    ASSUME NEW mappings \in Seq(Mappings)
    PROVE  /\ IsFiniteSet(NamesIn(mappings))
           /\ Cardinality(NamesIn(mappings)) \in Nat
           /\ Cardinality(NamesIn(mappings)) = Len(mappings) <=> Distinct(mappings)
  <1> DEFINE n == Len(mappings)
             T == NamesIn(mappings)
             f == [i \in 1..n |-> mappings[i].name]
  <1>1. n \in Nat /\ DOMAIN mappings = 1..n
    OBVIOUS
  <1>2. T = {mappings[i].name : i \in 1..n}
    BY <1>1 DEF NamesIn, ToSet
  <1> HIDE DEF n, T
  <1>3. f \in Surjection(1..n, T)
    BY <1>2 DEF Surjection
  <1>4. f \in Injection(1..n, T) <=> Distinct(mappings)
    <2>1. f \in [1..n -> T]
      BY <1>3 DEF Surjection
    <2>2. f \in Injection(1..n, T) <=>
              \A i, j \in 1..n : mappings[i].name = mappings[j].name => i = j
      BY <2>1 DEF Injection, IsInjective
    <2>. QED BY <1>1, <2>2 DEF Distinct
  <1>5. IsFiniteSet(1..n) /\ Cardinality(1..n) = n
    BY <1>1, FS_Interval
  <1> DEFINE S == 1..n
  <1> HIDE DEF S, f
  <1>6. IsFiniteSet(T) /\ (Cardinality(T) = Cardinality(S) <=> f \in Injection(S, T))
    <2>1. f \in Surjection(S, T) /\ IsFiniteSet(S)
      BY <1>3, <1>5 DEF S
    <2>. QED BY <2>1, FS_Surjection
  <1>7. Cardinality(T) \in Nat
    BY <1>6, FS_CardinalityType
  <1>. QED BY <1>4, <1>5, <1>6, <1>7 DEF S, T, n

LEMMA DistinctConcat ==
    ASSUME NEW some \in Seq(Mappings), NEW others \in Seq(Mappings)
    PROVE  /\ Distinct(some \o others) <=>
                  Distinct(some) /\ Distinct(others) /\ Apart(some, others)
           /\ ToSet(some \o others) = ToSet(some) \cup ToSet(others)
           /\ NamesIn(some \o others) = NamesIn(some) \cup NamesIn(others)
  <1> DEFINE m == Len(some)
             n == Len(others)
             all == some \o others
  <1>1. /\ m \in Nat /\ n \in Nat
        /\ DOMAIN some = 1..m /\ DOMAIN others = 1..n /\ DOMAIN all = 1..(m + n)
        /\ \A i \in 1..m : all[i] = some[i] /\ i \in 1..(m + n)
        /\ \A i \in 1..n : all[m + i] = others[i] /\ m + i \in 1..(m + n)
        /\ \A i \in 1..(m + n) : i \notin 1..m => i - m \in 1..n /\ all[i] = others[i - m]
    OBVIOUS
  <1> HIDE DEF m, n, all
  <1>2. ToSet(all) = ToSet(some) \cup ToSet(others)
    <2>1. ASSUME NEW x \in ToSet(all) PROVE x \in ToSet(some) \cup ToSet(others)
      <3>1. PICK i \in 1..(m + n) : x = all[i]
        BY <1>1 DEF ToSet
      <3>. QED BY <1>1, <3>1 DEF ToSet
    <2>2. ASSUME NEW x \in ToSet(some) PROVE x \in ToSet(all)
      <3>1. PICK i \in 1..m : x = some[i]
        BY <1>1 DEF ToSet
      <3>. QED BY <1>1, <3>1 DEF ToSet
    <2>3. ASSUME NEW x \in ToSet(others) PROVE x \in ToSet(all)
      <3>1. PICK i \in 1..n : x = others[i]
        BY <1>1 DEF ToSet
      <3>. QED BY <1>1, <3>1 DEF ToSet
    <2>. QED BY <2>1, <2>2, <2>3
  <1>3. ASSUME Distinct(all)
        PROVE Distinct(some) /\ Distinct(others) /\ Apart(some, others)
    <2>1. Distinct(some)
      BY <1>1, <1>3 DEF Distinct
    <2>2. Distinct(others)
      <3> SUFFICES ASSUME NEW i \in 1..n, NEW j \in 1..n, others[i].name = others[j].name
                   PROVE i = j
        BY <1>1 DEF Distinct
      <3>1. /\ all[m + i] = others[i] /\ all[m + j] = others[j]
            /\ m + i \in DOMAIN all /\ m + j \in DOMAIN all
        BY <1>1
      <3>2. all[m + i].name = all[m + j].name
        BY <3>1
      <3>3. m + i = m + j
        BY <1>3, <3>1, <3>2 DEF Distinct
      <3>. QED BY <1>1, <3>3
    <2>3. Apart(some, others)
      <3> SUFFICES ASSUME NEW i \in 1..m, NEW j \in 1..n, some[i].name = others[j].name
                   PROVE FALSE
        BY <1>1 DEF Apart, ToSet
      <3>1. i = m + j
        BY <1>1, <1>3 DEF Distinct
      <3>. QED BY <1>1, <3>1
    <2>. QED BY <2>1, <2>2, <2>3
  <1>4. ASSUME Distinct(some), Distinct(others), Apart(some, others)
        PROVE Distinct(all)
    <2> SUFFICES ASSUME NEW i \in 1..(m + n), NEW j \in 1..(m + n), all[i].name = all[j].name
                 PROVE i = j
      BY <1>1 DEF Distinct
    <2>1. CASE i \in 1..m /\ j \in 1..m
      BY <1>1, <1>4, <2>1 DEF Distinct
    <2>2. CASE i \notin 1..m /\ j \notin 1..m
      <3>1. /\ all[i] = others[i - m] /\ all[j] = others[j - m]
            /\ i - m \in DOMAIN others /\ j - m \in DOMAIN others
        BY <1>1, <2>2
      <3>2. others[i - m].name = others[j - m].name
        BY <3>1
      <3>3. i - m = j - m
        BY <1>4, <3>1, <3>2 DEF Distinct
      <3>. QED BY <1>1, <3>3
    <2>3. CASE i \in 1..m /\ j \notin 1..m
      <3>1. /\ all[i] = some[i] /\ all[j] = others[j - m]
            /\ i \in DOMAIN some /\ j - m \in DOMAIN others
        BY <1>1, <2>3
      <3>2. some[i] \in ToSet(some) /\ others[j - m] \in ToSet(others)
        BY <3>1 DEF ToSet
      <3>. QED BY <1>4, <3>1, <3>2 DEF Apart
    <2>4. CASE i \notin 1..m /\ j \in 1..m
      <3>1. /\ all[j] = some[j] /\ all[i] = others[i - m]
            /\ j \in DOMAIN some /\ i - m \in DOMAIN others
        BY <1>1, <2>4
      <3>2. some[j] \in ToSet(some) /\ others[i - m] \in ToSet(others)
        BY <3>1 DEF ToSet
      <3>. QED BY <1>4, <3>1, <3>2 DEF Apart
    <2>. QED BY <2>1, <2>2, <2>3, <2>4
  <1>. QED BY <1>2, <1>3, <1>4 DEF all, NamesIn

\* What the count of all names says of the mappings.
LEMMA UniqueNamesAre ==
    ASSUME NEW config, config.inputs \in Seq(Mappings), config.outputs \in Seq(Mappings)
    PROVE  UniqueNames(config) <=> /\ Distinct(config.inputs) /\ Distinct(config.outputs)
                                   /\ Apart(config.inputs, config.outputs)
  <1> DEFINE inputs == config.inputs
             outputs == config.outputs
  <1>1. inputs \in Seq(Mappings) /\ outputs \in Seq(Mappings)
    OBVIOUS
  <1>2. UniqueNames(config) <=> Cardinality(NamesIn(inputs) \cup NamesIn(outputs)) =
                                    Len(inputs) + Len(outputs)
    BY DEF UniqueNames, NamesOf
  <1> HIDE DEF inputs, outputs
  <1>3. inputs \o outputs \in Seq(Mappings) /\ Len(inputs \o outputs) = Len(inputs) + Len(outputs)
    BY <1>1
  <1>4. UniqueNames(config) <=> Distinct(inputs \o outputs)
    BY <1>1, <1>2, <1>3, DistinctConcat, CountedNames
  <1>. QED BY <1>1, <1>4, DistinctConcat DEF inputs, outputs

-----------------------------------------------------------------------------
(* From the objects to the configuration.                                  *)

\* Positions of a sequence, in their order.
LEMMA AscendingIs ==
    ASSUME NEW n \in Nat, NEW P \in SUBSET (1..n)
    PROVE  LET s == Ascending(P)
               m == Cardinality(P)
           IN  /\ m \in Nat
               /\ s \in [1..m -> P]
               /\ \A i, j \in 1..m : i < j => s[i] < s[j]
               /\ \A x \in P : \E i \in 1..m : s[i] = x
  <1> DEFINE key == [i \in P |-> i]
             m == Cardinality(P)
             s == InOrderOf(key)
  <1>1. IsFiniteSet(P)
    <2> DEFINE T == 1..n
    <2>1. IsFiniteSet(T) /\ P \in SUBSET T
      BY FS_Interval
    <2> HIDE DEF T
    <2>. QED BY <2>1, FS_Subset
  <1>2. key \in [P -> Nat] /\ \A x, y \in P : key[x] = key[y] => x = y
    OBVIOUS
  <1>3. \A x \in P : key[x] = x
    OBVIOUS
  <1> HIDE DEF key
  <1>4. /\ m \in Nat
        /\ s \in [1..m -> P]
        /\ \A i, j \in 1..m : i < j => key[s[i]] < key[s[j]]
        /\ \A x \in P : \E i \in 1..m : s[i] = x
    BY <1>1, <1>2, InOrder, Zenon
  <1>5. Ascending(P) = s
    BY DEF Ascending, key
  <1> HIDE DEF s, m
  <1>6. \A i, j \in 1..m : i < j => s[i] < s[j]
    BY <1>3, <1>4
  <1>. QED BY <1>4, <1>5, <1>6 DEF m

\* A kind's objects are all there, each once.
LEMMA OfKindIs ==
    ASSUME NEW S, NEW objects \in Seq(S), NEW kind
    PROVE  LET q == OfKind(objects, kind)
           IN  /\ q \in Seq({object \in S : object.kind = kind})
               /\ \A x : x \in ToSet(q) <=> x \in ToSet(objects) /\ x.kind = kind
               /\ Distinct(objects) => Distinct(q)
  <1> DEFINE q == OfKind(objects, kind)
             P == {i \in DOMAIN objects : objects[i].kind = kind}
             s == Ascending(P)
             n == Cardinality(P)
  <1>1. P \in SUBSET (1..Len(objects)) /\ Len(objects) \in Nat
    OBVIOUS
  <1>2. /\ \A i \in P : i \in DOMAIN objects /\ objects[i] \in S /\ objects[i].kind = kind
        /\ \A i \in DOMAIN objects : objects[i].kind = kind => i \in P
    OBVIOUS
  <1>3. q = [k \in DOMAIN s |-> objects[s[k]]]
    BY DEF OfKind
  <1> HIDE DEF P, q
  <1>4. /\ n \in Nat
        /\ s \in [1..n -> P]
        /\ \A i, j \in 1..n : i < j => s[i] < s[j]
        /\ \A x \in P : \E i \in 1..n : s[i] = x
    BY <1>1, AscendingIs
  <1> HIDE DEF s, n
  <1>5. DOMAIN q = 1..n /\ \A k \in 1..n : s[k] \in P /\ q[k] = objects[s[k]]
    BY <1>3, <1>4
  <1>6. q \in Seq({object \in S : object.kind = kind})
    <2> DEFINE T == {object \in S : object.kind = kind}
    <2>1. \A k \in 1..n : q[k] \in T
      BY <1>2, <1>5
    <2>2. q = [k \in 1..n |-> q[k]]
      BY <1>3, <1>5
    <2> HIDE DEF T
    <2>3. q \in [1..n -> T]
      BY <2>1, <2>2
    <2>. QED BY <1>4, <2>3 DEF T
  <1>7. \A x : x \in ToSet(q) <=> x \in ToSet(objects) /\ x.kind = kind
    <2>1. ASSUME NEW x \in ToSet(q) PROVE x \in ToSet(objects) /\ x.kind = kind
      <3>1. PICK k \in 1..n : x = q[k]
        BY <1>5 DEF ToSet
      <3>. QED BY <1>2, <1>5, <3>1 DEF ToSet
    <2>2. ASSUME NEW x \in ToSet(objects), x.kind = kind PROVE x \in ToSet(q)
      <3>1. PICK i \in DOMAIN objects : x = objects[i]
        BY DEF ToSet
      <3>2. i \in P
        BY <1>2, <2>2, <3>1
      <3>3. PICK k \in 1..n : s[k] = i
        BY <1>4, <3>2
      <3>. QED BY <1>5, <3>1, <3>3 DEF ToSet
    <2>. QED BY <2>1, <2>2
  <1>8. ASSUME Distinct(objects) PROVE Distinct(q)
    <2> SUFFICES ASSUME NEW j \in 1..n, NEW k \in 1..n, q[j].name = q[k].name
                 PROVE j = k
      BY <1>5 DEF Distinct
    <2>1. /\ s[j] \in DOMAIN objects /\ s[k] \in DOMAIN objects
          /\ objects[s[j]].name = objects[s[k]].name
      BY <1>2, <1>5
    <2>2. s[j] = s[k]
      BY <1>8, <2>1 DEF Distinct
    <2>3. s[j] \in 1..Len(objects) /\ s[k] \in 1..Len(objects)
      BY <2>1
    <2>. QED BY <1>4, <2>2, <2>3
  <1>. QED BY <1>6, <1>7, <1>8 DEF q

\* The legacy objects, container by container, are all of them.
LEMMA ExtractLegacyIs ==
    ASSUME NEW objects \in Seq({mapping \in Mappings : mapping.kind # "meter"})
    PROVE  LET config == ExtractLegacy(objects)
           IN  /\ config \in Configs
               /\ ToSet(config.inputs) = {object \in ToSet(objects) : object.kind \in InputKinds}
               /\ ToSet(config.outputs) = {object \in ToSet(objects) : object.kind \in OutputKinds}
               /\ ToSet(objects) = ToSet(config.inputs) \cup ToSet(config.outputs)
               /\ Distinct(objects) => UniqueNames(config)
  <1> DEFINE S == {mapping \in Mappings : mapping.kind # "meter"}
             A == OfKind(objects, "actuator")
             B == OfKind(objects, "schedule")
             C == OfKind(objects, "ems_global")
             D == OfKind(objects, "variable")
             config == ExtractLegacy(objects)
  <1>1. config = [inputs |-> A \o B \o C, outputs |-> D]
    BY DEF ExtractLegacy
  <1>2. \A object \in ToSet(objects) :
            object.kind \in {"actuator", "schedule", "ems_global", "variable"}
    BY DEF ToSet, Mappings, InputKinds, OutputKinds
  <1> DEFINE Kind(q, kind) ==
                /\ q \in Seq(Mappings)
                /\ ToSet(q) = {object \in ToSet(objects) : object.kind = kind}
                /\ Distinct(objects) => Distinct(q)
  <1>3. ASSUME NEW kind PROVE Kind(OfKind(objects, kind), kind)
    <2> DEFINE q == OfKind(objects, kind)
    <2>1. objects \in Seq(S)
      OBVIOUS
    <2>2. q \in Seq({object \in S : object.kind = kind})
      BY <2>1, OfKindIs
    <2>3. q \in Seq(Mappings)
      BY <2>2
    <2> HIDE DEF S
    <2>4. \A x : x \in ToSet(q) <=> x \in ToSet(objects) /\ x.kind = kind
      BY <2>1, OfKindIs
    <2>5. Distinct(objects) => Distinct(q)
      BY <2>1, OfKindIs
    <2>. QED BY <2>3, <2>4, <2>5
  <1>4. Kind(A, "actuator") /\ Kind(B, "schedule") /\ Kind(C, "ems_global") /\ Kind(D, "variable")
    BY <1>3
  <1> HIDE DEF S, A, B, C, D, config
  <1>5. /\ A \o B \in Seq(Mappings) /\ A \o B \o C \in Seq(Mappings)
        /\ A \o B \o C = (A \o B) \o C
    BY <1>4
  <1>6. ToSet(A \o B) = ToSet(A) \cup ToSet(B)
    BY <1>4, DistinctConcat
  <1>7. ToSet(A \o B \o C) = ToSet(A) \cup ToSet(B) \cup ToSet(C)
    <2> DEFINE AB == A \o B
    <2>1. AB \in Seq(Mappings) /\ C \in Seq(Mappings)
      BY <1>4, <1>5
    <2> HIDE DEF AB
    <2>2. ToSet(AB \o C) = ToSet(AB) \cup ToSet(C)
      BY <2>1, DistinctConcat
    <2>. QED BY <1>6, <2>2 DEF AB
  <1>8. config \in Configs /\ config.inputs = A \o B \o C /\ config.outputs = D
    BY <1>1, <1>4, <1>5 DEF Configs
  <1>9. ToSet(config.inputs) = {object \in ToSet(objects) : object.kind \in InputKinds}
    BY <1>4, <1>7, <1>8 DEF InputKinds
  <1>10. ToSet(config.outputs) = {object \in ToSet(objects) : object.kind \in OutputKinds}
    BY <1>2, <1>4, <1>8 DEF OutputKinds
  <1>11. ToSet(objects) = ToSet(config.inputs) \cup ToSet(config.outputs)
    BY <1>2, <1>9, <1>10 DEF InputKinds, OutputKinds
  <1>12. ASSUME Distinct(objects) PROVE UniqueNames(config)
    <2>1. \A one, other \in ToSet(objects) : one.kind # other.kind => one.name # other.name
      BY <1>12 DEF Distinct, ToSet
    <2>2. Apart(A, B) /\ Apart(A \o B, C) /\ Apart(A \o B \o C, D)
      BY <1>4, <1>6, <1>7, <2>1 DEF Apart
    <2>3. Distinct(A \o B)
      BY <1>4, <1>12, <2>2, DistinctConcat
    <2>4. Distinct(A \o B \o C)
      BY <1>4, <1>5, <1>12, <2>2, <2>3, DistinctConcat
    <2>. QED BY <1>4, <1>5, <1>8, <1>12, <2>2, <2>4, UniqueNamesAre
  <1>. QED BY <1>8, <1>9, <1>10, <1>11, <1>12 DEF config

\* A sequence without repetitions has as many elements as positions.
LEMMA DistinctCount ==
    ASSUME NEW mappings \in Seq(Mappings), Distinct(mappings)
    PROVE  /\ IsFiniteSet(ToSet(mappings)) /\ Cardinality(ToSet(mappings)) = Len(mappings)
           /\ \A one, other \in ToSet(mappings) : one.name = other.name => one = other
  <1> DEFINE n == Len(mappings)
             T == ToSet(mappings)
  <1>1. n \in Nat /\ DOMAIN mappings = 1..n
    OBVIOUS
  <1>2. mappings \in Bijection(1..n, T)
    BY <1>1 DEF Bijection, Injection, Surjection, IsInjective, Distinct, ToSet
  <1> HIDE DEF n, T
  <1>3. Cardinality(T) = n
    BY <1>1, <1>2, FS_CountingElements DEF ExistsBijection
  <1>4. IsFiniteSet(T)
    BY FiniteToSet DEF T
  <1>5. \A one, other \in T : one.name = other.name => one = other
    BY DEF T, ToSet, Distinct
  <1>. QED BY <1>3, <1>4, <1>5 DEF n, T

\* An overlay of mappings of its own.
IsOverlay(overlay) ==
    /\ overlay.inputs \in Seq({mapping \in Mappings : mapping.kind \in InputKinds})
    /\ overlay.outputs \in Seq({mapping \in Mappings : mapping.kind \in OutputKinds})

LEMMA NamesAreNumbers == \A mapping \in Mappings : mapping.name \in Nat
  BY NamesAssumption DEF Mappings

\* The parts of one direction that MergeConfigs sorts have no name twice ...
LEMMA MergedSet ==
    ASSUME NEW old \in Seq(Mappings), NEW new \in Seq(Mappings), NEW N,
           Distinct(old), Distinct(new), NamesIn(new) \subseteq N,
           NEW S, \A x : x \in S <=> \/ x \in ToSet(old) /\ x.name \notin N
                                  \/ x \in ToSet(new)
    PROVE  /\ SortedByName(S) \in Seq(Mappings)
           /\ ToSet(SortedByName(S)) = S
           /\ Distinct(SortedByName(S))
  <1> DEFINE kept == {mapping \in ToSet(old) : mapping.name \notin N}
             T == ToSet(new)
             O == ToSet(old)
             q == SortedByName(S)
  <1>1. /\ IsFiniteSet(O) /\ IsFiniteSet(T)
        /\ \A one, other \in O : one.name = other.name => one = other
        /\ \A one, other \in T : one.name = other.name => one = other
    BY DistinctCount
  <1>2. O \in SUBSET Mappings /\ T \in SUBSET Mappings /\ kept \in SUBSET O
    BY DEF ToSet
  <1>3. \A mapping \in T : mapping.name \in N
    BY DEF NamesIn
  <1>. S = kept \cup T
    OBVIOUS
  <1>4. S \in SUBSET Mappings /\ \A x, y \in S : x.name = y.name => x = y
    BY <1>1, <1>2, <1>3
  <1> HIDE DEF T, O, kept
  <1>5. IsFiniteSet(kept)
    BY <1>1, <1>2, FS_Subset
  <1>6. IsFiniteSet(S)
    BY <1>1, <1>5, FS_Union
  <1> HIDE DEF q
  <1>7. /\ q \in Seq(S) /\ ToSet(q) = S
        /\ \A i, j \in DOMAIN q : i < j => q[i].name < q[j].name
    BY <1>4, <1>6, SortedIs DEF q
  <1>8. q \in Seq(Mappings)
    BY <1>4, <1>7
  <1>9. Distinct(q)
    <2> SUFFICES ASSUME NEW i \in DOMAIN q, NEW j \in DOMAIN q, q[i].name = q[j].name
                 PROVE i = j
      BY DEF Distinct
    <2>1. i \in 1..Len(q) /\ j \in 1..Len(q) /\ Len(q) \in Nat
      BY <1>7
    <2>2. q[i] \in Mappings
      BY <1>8
    <2>3. q[i].name \in Nat
      BY <2>2, NamesAreNumbers
    <2>4. i < j => q[i].name < q[j].name
      BY <1>7
    <2>5. j < i => q[j].name < q[i].name
      BY <1>7
    <2>. QED BY <2>1, <2>3, <2>4, <2>5
  <1>. QED BY <1>7, <1>8, <1>9 DEF q

\* ... and neither has the result.
LEMMA MergeConfigsIs ==
    ASSUME NEW legacy \in Configs, NEW overlay, overlay # None, IsOverlay(overlay),
           UniqueNames(legacy), UniqueNames(overlay)
    PROVE  LET merged == MergeConfigs(legacy, overlay)
               Kept(mappings) ==
                   {mapping \in ToSet(mappings) : mapping.name \notin NamesOf(overlay)}
           IN  /\ merged \in Configs
               /\ ToSet(merged.inputs) = Kept(legacy.inputs) \cup ToSet(overlay.inputs)
               /\ ToSet(merged.outputs) = Kept(legacy.outputs) \cup ToSet(overlay.outputs)
               /\ UniqueNames(merged)
  <1> DEFINE merged == MergeConfigs(legacy, overlay)
             N == NamesOf(overlay)
             I == {mapping \in ToSet(legacy.inputs) : mapping.name \notin N}
                    \cup ToSet(overlay.inputs)
             O == {mapping \in ToSet(legacy.outputs) : mapping.name \notin N}
                    \cup ToSet(overlay.outputs)
  <1>1. merged = [inputs |-> SortedByName(I), outputs |-> SortedByName(O)]
    BY DEF MergeConfigs
  <1>2. /\ legacy.inputs \in Seq(Mappings) /\ legacy.outputs \in Seq(Mappings)
        /\ overlay.inputs \in Seq(Mappings) /\ overlay.outputs \in Seq(Mappings)
    BY DEF Configs, IsOverlay
  <1>3. /\ Distinct(legacy.inputs) /\ Distinct(legacy.outputs)
        /\ Apart(legacy.inputs, legacy.outputs)
        /\ Distinct(overlay.inputs) /\ Distinct(overlay.outputs)
        /\ Apart(overlay.inputs, overlay.outputs)
    BY <1>2, UniqueNamesAre
  <1>4. NamesIn(overlay.inputs) \subseteq N /\ NamesIn(overlay.outputs) \subseteq N
    BY DEF NamesOf
  <1>5. /\ SortedByName(I) \in Seq(Mappings)
        /\ ToSet(SortedByName(I)) = I /\ Distinct(SortedByName(I))
    <2>1. \A x : x \in I <=> \/ x \in ToSet(legacy.inputs) /\ x.name \notin N
                            \/ x \in ToSet(overlay.inputs)
      OBVIOUS
    <2> HIDE DEF N, I
    <2>. QED BY <1>2, <1>3, <1>4, <2>1, MergedSet
  <1>6. /\ SortedByName(O) \in Seq(Mappings)
        /\ ToSet(SortedByName(O)) = O /\ Distinct(SortedByName(O))
    <2>1. \A x : x \in O <=> \/ x \in ToSet(legacy.outputs) /\ x.name \notin N
                            \/ x \in ToSet(overlay.outputs)
      OBVIOUS
    <2> HIDE DEF N, O
    <2>. QED BY <1>2, <1>3, <1>4, <2>1, MergedSet
  <1>7. \A one \in I, other \in O : one.name # other.name
    <2>1. /\ \A mapping \in ToSet(overlay.inputs) : mapping.name \in N
          /\ \A mapping \in ToSet(overlay.outputs) : mapping.name \in N
      BY <1>4 DEF NamesIn
    <2> HIDE DEF N
    <2>. QED BY <1>3, <2>1 DEF Apart
  <1> HIDE DEF I, O, merged
  <1>8. Apart(SortedByName(I), SortedByName(O))
    BY <1>5, <1>6, <1>7 DEF Apart
  <1>9. merged \in Configs /\ UniqueNames(merged)
    BY <1>1, <1>5, <1>6, <1>8, UniqueNamesAre DEF Configs
  <1>. QED BY <1>1, <1>5, <1>6, <1>9 DEF I, O, merged

\* The vectors of the configuration are in the order of modelDescription.xml.
LEMMA SortedDumpIs ==
    ASSUME NEW mappings \in Seq(Mappings), Distinct(mappings)
    PROVE  LET q == SortedByName(ToSet(mappings))
               d == SortedDump(mappings)
           IN  /\ q \in Seq(Mappings) /\ ToSet(q) = ToSet(mappings)
               /\ Len(q) = Len(mappings) /\ Distinct(q)
               /\ d \in Seq(Mappings) /\ Len(d) = Len(mappings)
               /\ \A i \in 1..Len(mappings) : d[i] = Dumped(q[i])
  <1> DEFINE n == Len(mappings)
             dumps == [i \in 1..n |-> Dumped(mappings[i])]
             S == ToSet(mappings)
             T == {Dumped(mapping) : mapping \in S}
             q == SortedByName(S)
             d == SortedByName(T)
  <1>1. n \in Nat /\ \A i \in 1..n : mappings[i] \in Mappings
    OBVIOUS
  <1>2. \A mapping \in Mappings : Dumped(mapping) \in Mappings /\ Dumped(mapping).name = mapping.name
    BY DEF Dumped, Mappings
  <1>3. dumps \in Seq(Mappings) /\ Len(dumps) = n /\ Distinct(dumps)
    BY <1>1, <1>2 DEF Distinct
  <1>4. ToSet(dumps) = T
    <2>1. S = {mappings[i] : i \in 1..n}
      BY DEF ToSet
    <2>. QED BY <1>1, <2>1 DEF ToSet
  <1>5. S \in SUBSET Mappings /\ T \in SUBSET Mappings
    BY <1>2 DEF ToSet
  <1>6. /\ IsFiniteSet(S) /\ Cardinality(S) = n
        /\ \A one, other \in S : one.name = other.name => one = other
    BY DistinctCount
  <1>7. /\ IsFiniteSet(T) /\ Cardinality(T) = n
        /\ \A one, other \in T : one.name = other.name => one = other
    <2> HIDE DEF dumps, T
    <2>. QED BY <1>3, <1>4, DistinctCount
  <1>8. \A x \in T : \E mapping \in S : x = Dumped(mapping)
    OBVIOUS
  <1>9. \A mapping \in S : Dumped(mapping) \in T
    OBVIOUS
  <1> HIDE DEF n, S, T, q, d
  <1>10. /\ q \in Seq(S) /\ Len(q) = n /\ ToSet(q) = S
         /\ \A i, j \in DOMAIN q : i < j => q[i].name < q[j].name
    BY <1>5, <1>6, SortedIs DEF q
  <1>11. /\ d \in Seq(T) /\ Len(d) = n /\ ToSet(d) = T
         /\ \A i, j \in DOMAIN d : i < j => d[i].name < d[j].name
    BY <1>5, <1>7, SortedIs DEF d
  <1>12. /\ DOMAIN q = 1..n /\ DOMAIN d = 1..n
         /\ \A i \in 1..n : /\ q[i] \in S /\ q[i] \in Mappings /\ q[i].name \in Nat
                           /\ d[i] \in T /\ d[i] \in Mappings /\ d[i].name \in Nat
    <2>1. DOMAIN q = 1..n /\ \A i \in 1..n : q[i] \in S
      BY <1>10
    <2>2. DOMAIN d = 1..n /\ \A i \in 1..n : d[i] \in T
      BY <1>11
    <2>. QED BY <1>5, <2>1, <2>2, NamesAreNumbers
  <1> DEFINE a == [i \in 1..n |-> q[i].name]
             b == [i \in 1..n |-> d[i].name]
  <1>13. a \in [1..n -> Nat] /\ b \in [1..n -> Nat]
    BY <1>12
  <1>14. Increasing(n, a) /\ Increasing(n, b)
    BY <1>10, <1>11, <1>12 DEF Increasing
  <1>15. ValuesAmong(n, a, b)
    <2> SUFFICES ASSUME NEW i \in 1..n PROVE \E j \in 1..n : q[i].name = d[j].name
      BY DEF ValuesAmong
    <2>1. Dumped(q[i]) \in T /\ Dumped(q[i]).name = q[i].name
      BY <1>2, <1>9, <1>12
    <2>2. PICK j \in 1..n : d[j] = Dumped(q[i])
      BY <1>11, <1>12, <2>1 DEF ToSet
    <2>. QED BY <2>1, <2>2
  <1>16. ValuesAmong(n, b, a)
    <2> SUFFICES ASSUME NEW i \in 1..n PROVE \E j \in 1..n : d[i].name = q[j].name
      BY DEF ValuesAmong
    <2>1. PICK mapping \in S : d[i] = Dumped(mapping)
      BY <1>8, <1>12
    <2>2. d[i].name = mapping.name
      BY <1>2, <1>5, <2>1
    <2>3. PICK j \in 1..n : q[j] = mapping
      BY <1>10, <1>12 DEF ToSet
    <2>. QED BY <2>2, <2>3
  <1>17. a = b
    <2> HIDE DEF a, b
    <2>. QED BY <1>1, <1>13, <1>14, <1>15, <1>16, SameOrder DEF n
  <1>18. ASSUME NEW i \in 1..n PROVE d[i] = Dumped(q[i])
    <2>1. PICK mapping \in S : d[i] = Dumped(mapping)
      BY <1>8, <1>12
    <2>2. a[i] = q[i].name /\ b[i] = d[i].name
      OBVIOUS
    <2>3. q[i].name = mapping.name
      BY <1>2, <1>5, <1>17, <2>1, <2>2
    <2>4. q[i] = mapping
      BY <1>6, <1>12, <2>3
    <2>. QED BY <2>1, <2>4
  <1>19. Distinct(q)
    <2> SUFFICES ASSUME NEW i \in 1..n, NEW j \in 1..n, q[i].name = q[j].name
                 PROVE i = j
      BY <1>12 DEF Distinct
    <2>1. q[i].name \in Nat /\ i \in DOMAIN q /\ j \in DOMAIN q
      BY <1>12
    <2>2. i < j => q[i].name < q[j].name
      BY <1>10, <2>1
    <2>3. j < i => q[j].name < q[i].name
      BY <1>10, <2>1
    <2>. QED BY <2>1, <2>2, <2>3
  <1>20. q \in Seq(Mappings) /\ d \in Seq(Mappings)
    BY <1>5, <1>10, <1>11
  <1>21. SortedDump(mappings) = d
    BY DEF SortedDump, d, T, S
  <1>. QED BY <1>10, <1>11, <1>18, <1>19, <1>20, <1>21 DEF q, S, n

-----------------------------------------------------------------------------
(* The two descriptions.                                                   *)

\* A vector of the configuration has the mappings without their aliases.
LEMMA DumpedFrom ==
    ASSUME NEW mappings \in Seq(Mappings), Distinct(mappings)
    PROVE  /\ SortedDump(mappings) \in Seq(Mappings)
           /\ Len(SortedDump(mappings)) = Len(mappings)
           /\ \A x \in ToSet(SortedDump(mappings)) :
                  \E mapping \in ToSet(mappings) : x = Dumped(mapping)
  <1> DEFINE q == SortedByName(ToSet(mappings))
             d == SortedDump(mappings)
             n == Len(mappings)
  <1>1. /\ q \in Seq(Mappings) /\ ToSet(q) = ToSet(mappings) /\ Len(q) = n
        /\ d \in Seq(Mappings) /\ Len(d) = n
        /\ \A i \in 1..n : d[i] = Dumped(q[i])
    BY SortedDumpIs
  <1> HIDE DEF q, d, n
  <1>2. ASSUME NEW x \in ToSet(d)
        PROVE \E mapping \in ToSet(mappings) : x = Dumped(mapping)
    <2>1. PICK i \in 1..n : x = d[i]
      BY <1>1 DEF ToSet
    <2>2. q[i] \in ToSet(q)
      BY <1>1 DEF ToSet
    <2>. QED BY <1>1, <2>1, <2>2
  <1>. QED BY <1>1, <1>2 DEF d, n

\* The positions of three blocks.
LEMMA ThreeBlocks ==
    ASSUME NEW A, NEW P \in Seq(A), NEW I \in Seq(A), NEW O \in Seq(A)
    PROVE  /\ P \o I \o O \in Seq(A)
           /\ Len(P \o I \o O) = Len(P) + Len(I) + Len(O)
           /\ \A i \in 1..Len(P) : (P \o I \o O)[i] = P[i]
           /\ \A i \in 1..Len(I) : (P \o I \o O)[Len(P) + i] = I[i]
           /\ \A i \in 1..Len(O) : (P \o I \o O)[Len(P) + Len(I) + i] = O[i]
  OBVIOUS

\* The variables come in three blocks, and the mapped ones in the order of the vectors.
InBlocks(config, description, payload) ==
    LET m == Len(config.inputs)
        n == Len(config.outputs)
        inputs == SortedByName(ToSet(config.inputs))
        outputs == SortedByName(ToSet(config.outputs))
        variables == description.variables
    IN  /\ DOMAIN variables = 1..(ParameterCount + m + n)
        /\ Len(variables) = ParameterCount + m + n
        /\ \A i \in 1..ParameterCount : variables[i].causality = "parameter"
        /\ \A i \in 1..m :
               /\ variables[ParameterCount + i].causality = "input"
               /\ variables[ParameterCount + i].name = inputs[i].name
               /\ AddressedInput(payload, variables[ParameterCount + i].reference) =
                      Dumped(inputs[i])
        /\ \A i \in 1..n :
               /\ variables[ParameterCount + m + i].causality = "output"
               /\ variables[ParameterCount + m + i].name = outputs[i].name
               /\ AddressedOutput(payload, variables[ParameterCount + m + i].reference) =
                      Dumped(outputs[i])
        /\ description.dependencies = (ParameterCount + 1)..(ParameterCount + m)
        /\ description.unknowns = (ParameterCount + 1 + m)..(ParameterCount + m + n)

LEMMA DescribedVariables ==
    ASSUME NEW config, config.inputs \in Seq(Mappings), config.outputs \in Seq(Mappings),
           UniqueNames(config),
           NEW description, description.variables = ModelDescription(config).variables,
           description.dependencies = ModelDescription(config).dependencies,
           description.unknowns = ModelDescription(config).unknowns,
           NEW payload, payload.inputs = SortedDump(config.inputs),
           payload.outputs = SortedDump(config.outputs)
    PROVE  InBlocks(config, description, payload)
  <1> DEFINE m == Len(config.inputs)
             n == Len(config.outputs)
             q == SortedByName(ToSet(config.inputs))
             r == SortedByName(ToSet(config.outputs))
             P == [i \in 1..ParameterCount |-> [causality |-> "parameter", reference |-> i]]
             I == [i \in DOMAIN q |-> [causality |-> "input", name |-> q[i].name,
                                       reference |-> INPUT_VR_BASE + i - 1]]
             O == [i \in DOMAIN r |-> [causality |-> "output", name |-> r[i].name,
                                       reference |-> OUTPUT_VR_BASE + i - 1]]
             V == P \o I \o O
             D == {FirstMappedIndex + i - 1 : i \in DOMAIN q}
             U == {FirstMappedIndex + Len(q) + i - 1 : i \in DOMAIN r}
  <1>1. Distinct(config.inputs) /\ Distinct(config.outputs)
    BY UniqueNamesAre
  <1>2. m \in Nat /\ n \in Nat /\ ParameterCount \in Nat
    BY DEF ParameterCount
  <1>3. /\ q \in Seq(Mappings) /\ Len(q) = m /\ DOMAIN q = 1..m
        /\ \A i \in 1..m : payload.inputs[i] = Dumped(q[i])
    <2>1. q \in Seq(Mappings) /\ Len(q) = m
      BY <1>1, SortedDumpIs
    <2>2. \A i \in 1..m : SortedDump(config.inputs)[i] = Dumped(q[i])
      BY <1>1, SortedDumpIs
    <2>. QED BY <2>1, <2>2
  <1>4. /\ r \in Seq(Mappings) /\ Len(r) = n /\ DOMAIN r = 1..n
        /\ \A i \in 1..n : payload.outputs[i] = Dumped(r[i])
    <2>1. r \in Seq(Mappings) /\ Len(r) = n
      BY <1>1, SortedDumpIs
    <2>2. \A i \in 1..n : SortedDump(config.outputs)[i] = Dumped(r[i])
      BY <1>1, SortedDumpIs
    <2>. QED BY <2>1, <2>2
  <1>5. ModelDescription(config) = [variables |-> V, dependencies |-> D, unknowns |-> U]
    BY Zenon DEF ModelDescription
  <1> HIDE DEF m, n, q, r
  <1>6. description.variables = V /\ description.dependencies = D /\ description.unknowns = U
    <2> HIDE DEF V, D, U
    <2>. QED BY <1>5
  <1>7. D = (ParameterCount + 1)..(ParameterCount + m)
    <2>1. D = {ParameterCount + 1 + i - 1 : i \in 1..m}
      BY <1>3 DEF FirstMappedIndex
    <2>3. \A i \in 1..m : ParameterCount + 1 + i - 1 \in (ParameterCount + 1)..(ParameterCount + m)
      BY <1>2
    <2>2. \A k \in (ParameterCount + 1)..(ParameterCount + m) : k - ParameterCount \in 1..m /\ k = ParameterCount + 1 + (k - ParameterCount) - 1
      BY <1>2
    <2> HIDE DEF D
    <2>. QED BY <1>2, <2>1, <2>2, <2>3
  <1>8. U = (ParameterCount + 1 + m)..(ParameterCount + m + n)
    <2>1. U = {ParameterCount + 1 + m + i - 1 : i \in 1..n}
      BY <1>3, <1>4 DEF FirstMappedIndex
    <2>2. \A k \in (ParameterCount + 1 + m)..(ParameterCount + m + n) :
              k - ParameterCount - m \in 1..n /\ k = ParameterCount + 1 + m + (k - ParameterCount - m) - 1
      BY <1>2
    <2>3. \A i \in 1..n : ParameterCount + 1 + m + i - 1 \in (ParameterCount + 1 + m)..(ParameterCount + m + n)
      BY <1>2
    <2> HIDE DEF U
    <2>. QED BY <2>1, <2>2, <2>3
  <1>9. /\ DOMAIN P = 1..ParameterCount /\ DOMAIN I = 1..m /\ DOMAIN O = 1..n
        /\ \A i \in 1..ParameterCount : P[i].causality = "parameter"
        /\ \A i \in 1..m : /\ I[i].causality = "input" /\ I[i].name = q[i].name
                          /\ I[i].reference = 1000 + i - 1
        /\ \A i \in 1..n : /\ O[i].causality = "output" /\ O[i].name = r[i].name
                          /\ O[i].reference = 100000 + i - 1
    BY <1>3, <1>4 DEF INPUT_VR_BASE, OUTPUT_VR_BASE
  <1> DEFINE B == {P[i] : i \in DOMAIN P}
             C == {I[i] : i \in DOMAIN I}
             E == {O[i] : i \in DOMAIN O}
             A == B \cup C \cup E
  <1>10. P \in [1..ParameterCount -> B] /\ I \in [1..m -> C] /\ O \in [1..n -> E]
    <2>1. P \in [DOMAIN P -> B]
      OBVIOUS
    <2>2. I \in [DOMAIN I -> C]
      OBVIOUS
    <2>3. O \in [DOMAIN O -> E]
      OBVIOUS
    <2> HIDE DEF P, I, O, B, C, E
    <2>. QED BY <1>9, <2>1, <2>2, <2>3
  <1> HIDE DEF P, I, O, B, C, E
  <1>11. /\ P \in Seq(A) /\ Len(P) = ParameterCount
         /\ I \in Seq(A) /\ Len(I) = m
         /\ O \in Seq(A) /\ Len(O) = n
    <2>1. P \in Seq(B) /\ Len(P) = ParameterCount
      BY <1>2, <1>10
    <2>2. I \in Seq(C) /\ Len(I) = m
      BY <1>2, <1>10
    <2>3. O \in Seq(E) /\ Len(O) = n
      BY <1>2, <1>10
    <2>. QED BY <2>1, <2>2, <2>3
  <1> HIDE DEF A
  <1>12. /\ V \in Seq(A) /\ Len(V) = ParameterCount + m + n
         /\ \A i \in 1..ParameterCount : V[i] = P[i]
         /\ \A i \in 1..m : V[ParameterCount + i] = I[i]
         /\ \A i \in 1..n : V[ParameterCount + m + i] = O[i]
    <2> DEFINE l == Len(P)
               h == Len(I)
               k == Len(O)
    <2>1. /\ V \in Seq(A) /\ Len(V) = l + h + k
          /\ \A i \in 1..l : V[i] = P[i]
          /\ \A i \in 1..h : V[l + i] = I[i]
          /\ \A i \in 1..k : V[l + h + i] = O[i]
      <3>1. P \in Seq(A) /\ I \in Seq(A) /\ O \in Seq(A)
        BY <1>11
      <3> HIDE DEF D, U
      <3>. QED BY <3>1, ThreeBlocks
    <2>2. l = ParameterCount /\ h = m /\ k = n
      BY <1>11
    <2> HIDE DEF l, h, k, V
    <2>. QED BY <2>1, <2>2
  <1> HIDE DEF V, D, U
  <1>13. DOMAIN V = 1..(ParameterCount + m + n)
    BY <1>12
  <1>14. ASSUME NEW i \in 1..m
         PROVE AddressedInput(payload, I[i].reference) = Dumped(q[i])
    <2>1. I[i].reference - 1000 + 1 = i
      BY <1>2, <1>9
    <2>. QED BY <1>3, <2>1 DEF AddressedInput, INPUT_VR_BASE
  <1>15. ASSUME NEW i \in 1..n
         PROVE AddressedOutput(payload, O[i].reference) = Dumped(r[i])
    <2>1. O[i].reference - 100000 + 1 = i
      BY <1>2, <1>9
    <2>. QED BY <1>4, <2>1 DEF AddressedOutput, OUTPUT_VR_BASE
  <1>16. ASSUME NEW i \in 1..m
         PROVE /\ V[ParameterCount + i].causality = "input" /\ V[ParameterCount + i].name = q[i].name
               /\ AddressedInput(payload, V[ParameterCount + i].reference) = Dumped(q[i])
    BY <1>9, <1>12, <1>14
  <1>17. ASSUME NEW i \in 1..n
         PROVE /\ V[ParameterCount + m + i].causality = "output" /\ V[ParameterCount + m + i].name = r[i].name
               /\ AddressedOutput(payload, V[ParameterCount + m + i].reference) = Dumped(r[i])
    BY <1>9, <1>12, <1>15
  <1>18. \A i \in 1..ParameterCount : V[i].causality = "parameter"
    BY <1>9, <1>12
  <1>. QED BY <1>6, <1>7, <1>8, <1>12, <1>13, <1>16, <1>17, <1>18, Zenon
           DEF InBlocks, m, n, q, r
=============================================================================
