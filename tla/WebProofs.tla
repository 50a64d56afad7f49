----------------------------- MODULE WebProofs ------------------------------
(***************************************************************************)
(* What the owner's browser shows, for every catalog, any terms and any    *)
(* number of clicks, rows, faults and events elsewhere.  The activity      *)
(* feed: toasts in order with none left out, and pages that neither repeat *)
(* nor miss a row.  The pages on which the owner signs: one transaction a  *)
(* click, words that are true, and decisions that do not cross.            *)
(***************************************************************************)
EXTENDS StreamProperties, OwnerPages, SequenceTheorems, FiniteSetTheorems, TLAPS

-----------------------------------------------------------------------------
(***************************************************************************)
(* Sets of rows in order.                                                  *)
(***************************************************************************)
Below(S, r) == {q \in S : q < r}
Above(S, r) == {q \in S : q > r}

\* A rank that tells the elements of a finite set apart takes every value.
LEMMA RankOnto ==
  ASSUME NEW S, IsFiniteSet(S), NEW rank \in [S -> 0..(Cardinality(S) - 1)],
         \A q, r \in S : rank[q] = rank[r] => q = r
  PROVE  \A k \in 0..(Cardinality(S) - 1) : \E r \in S : rank[r] = k
  <1> DEFINE T == 0..(Cardinality(S) - 1)
  <1>1. Cardinality(S) \in Nat
    BY FS_CardinalityType
  <1>2. IsFiniteSet(T) /\ Cardinality(T) = Cardinality(S)
    BY <1>1, FS_Interval
  <1>3. rank \in Injection(S, T)
    BY SMTT(30) DEF Injection, IsInjective
  <1> HIDE DEF T
  <1>4. rank \in Surjection(S, T)
    BY <1>2, <1>3, FS_Injection
  <1> QED
    BY <1>4 DEF Surjection, T

LEMMA BelowRank ==
  ASSUME NEW S \in SUBSET Int, IsFiniteSet(S)
  PROVE  /\ \A r \in S : Cardinality(Below(S, r)) \in 0..(Cardinality(S) - 1)
         /\ \A q, r \in S : q < r => Cardinality(Below(S, q)) < Cardinality(Below(S, r))
  <1>1. Cardinality(S) \in Nat
    BY FS_CardinalityType
  <1>2. \A r \in S : Below(S, r) \in SUBSET S /\ r \notin Below(S, r)
    BY DEF Below
  <1>3. \A r \in S : IsFiniteSet(Below(S, r)) /\ Cardinality(Below(S, r)) \in Nat
    BY <1>2, FS_Subset, FS_CardinalityType
  <1>4. ASSUME NEW r \in S PROVE Cardinality(Below(S, r)) \in 0..(Cardinality(S) - 1)
    BY <1>1, <1>2, <1>3, FS_Subset
  <1>5. ASSUME NEW q \in S, NEW r \in S, q < r
        PROVE  Cardinality(Below(S, q)) < Cardinality(Below(S, r))
    <2>1. Below(S, q) \in SUBSET Below(S, r) /\ q \in Below(S, r)
      <3>1. q \in Int /\ r \in Int /\ \A x \in S : x \in Int
        OBVIOUS
      <3>2. \A x \in S : x < q => x < r
        BY <1>5, <3>1
      <3> QED
        BY <1>5, <3>2 DEF Below
    <2>2. Below(S, q) # Below(S, r)
      BY <1>2, <2>1
    <2>3. /\ Cardinality(Below(S, q)) <= Cardinality(Below(S, r))
          /\ Cardinality(Below(S, r)) # Cardinality(Below(S, q))
      BY <1>3, <2>1, <2>2, FS_Subset
    <2> QED
      BY <1>3, <2>3
  <1> QED
    BY <1>4, <1>5

LEMMA AboveRank ==
  ASSUME NEW S \in SUBSET Int, IsFiniteSet(S)
  PROVE  /\ \A r \in S : Cardinality(Above(S, r)) \in 0..(Cardinality(S) - 1)
         /\ \A q, r \in S : q > r => Cardinality(Above(S, q)) < Cardinality(Above(S, r))
  <1>1. Cardinality(S) \in Nat
    BY FS_CardinalityType
  <1>2. \A r \in S : Above(S, r) \in SUBSET S /\ r \notin Above(S, r)
    BY DEF Above
  <1>3. \A r \in S : IsFiniteSet(Above(S, r)) /\ Cardinality(Above(S, r)) \in Nat
    BY <1>2, FS_Subset, FS_CardinalityType
  <1>4. ASSUME NEW r \in S PROVE Cardinality(Above(S, r)) \in 0..(Cardinality(S) - 1)
    BY <1>1, <1>2, <1>3, FS_Subset
  <1>5. ASSUME NEW q \in S, NEW r \in S, q > r
        PROVE  Cardinality(Above(S, q)) < Cardinality(Above(S, r))
    <2>1. Above(S, q) \in SUBSET Above(S, r) /\ q \in Above(S, r)
      <3>1. q \in Int /\ r \in Int /\ \A x \in S : x \in Int
        OBVIOUS
      <3>2. \A x \in S : x > q => x > r
        BY <1>5, <3>1
      <3> QED
        BY <1>5, <3>2 DEF Above
    <2>2. Above(S, q) # Above(S, r)
      BY <1>2, <2>1
    <2>3. /\ Cardinality(Above(S, q)) <= Cardinality(Above(S, r))
          /\ Cardinality(Above(S, r)) # Cardinality(Above(S, q))
      BY <1>3, <2>1, <2>2, FS_Subset
    <2> QED
      BY <1>3, <2>3
  <1> QED
    BY <1>4, <1>5

\* Every element once, in ascending order.
Increasing(s) == \A i, j \in DOMAIN s : i < j => s[i] < s[j]
Decreasing(s) == \A i, j \in DOMAIN s : i < j => s[i] > s[j]

LEMMA AscendingSorts ==
  ASSUME NEW S \in SUBSET Int, IsFiniteSet(S)
  PROVE  /\ Ascending(S) \in Seq(S) /\ Len(Ascending(S)) = Cardinality(S)
         /\ \A r \in S : \E i \in DOMAIN Ascending(S) : Ascending(S)[i] = r
         /\ Increasing(Ascending(S))
  <1> DEFINE n == Cardinality(S)
             rank == [r \in S |-> Cardinality(Below(S, r))]
             a == Ascending(S)
  <1>1. n \in Nat
    BY FS_CardinalityType
  <1>2. /\ rank \in [S -> 0..(n - 1)]
        /\ \A q, r \in S : q < r => rank[q] < rank[r]
    BY BelowRank
  <1>3. \A q, r \in S : rank[q] = rank[r] => q = r
    <2>1. \A q, r \in S : rank[q] \in Int /\ q \in Int
      BY <1>1, <1>2
    <2> HIDE DEF rank
    <2> QED
      BY <1>2, <2>1
  <1>4. \A k \in 0..(n - 1) : \E r \in S : rank[r] = k
    <2> HIDE DEF rank
    <2> QED
      BY <1>2, <1>3, RankOnto
  <1>5. \A i \in 1..n : \E r \in S : Cardinality({q \in S : q < r}) = i - 1
    <2> SUFFICES ASSUME NEW i \in 1..n
                 PROVE  \E r \in S : Cardinality({q \in S : q < r}) = i - 1
      OBVIOUS
    <2>1. PICK r \in S : rank[r] = i - 1
      <3>1. i - 1 \in 0..(n - 1)
        BY <1>1
      <3> HIDE DEF rank, n
      <3> QED
        BY <1>4, <3>1
    <2> QED
      BY <2>1 DEF Below
  <1>6. \A i \in 1..n : a[i] \in S /\ Cardinality({q \in S : q < a[i]}) = i - 1
    <2> SUFFICES ASSUME NEW i \in 1..n
                 PROVE  a[i] \in S /\ Cardinality({q \in S : q < a[i]}) = i - 1
      OBVIOUS
    <2>1. a[i] = CHOOSE r \in S : Cardinality({q \in S : q < r}) = i - 1
      BY DEF Ascending
    <2>2. \E r \in S : Cardinality({q \in S : q < r}) = i - 1
      BY <1>5
    <2> HIDE DEF a, n
    <2> QED
      BY <2>1, <2>2
  <1>7. \A i \in 1..n : a[i] \in S /\ rank[a[i]] = i - 1
    BY <1>6 DEF Below
  <1>8. a \in [1..n -> S]
    BY <1>6 DEF Ascending
  <1> HIDE DEF a, rank, n
  <1>9. /\ a \in Seq(S) /\ Len(a) = n /\ DOMAIN a = 1..n
        /\ \A r \in S : \E i \in DOMAIN a : a[i] = r
    <2>1. a \in Seq(S) /\ Len(a) = n /\ DOMAIN a = 1..n
      BY <1>1, <1>8
    <2>2. ASSUME NEW r \in S PROVE \E i \in DOMAIN a : a[i] = r
      <3>1. rank[r] \in 0..(n - 1)
        BY <1>2
      <3>2. rank[r] + 1 \in 1..n /\ (rank[r] + 1) - 1 = rank[r]
        BY <1>1, <3>1
      <3>3. a[rank[r] + 1] \in S /\ rank[a[rank[r] + 1]] = rank[r]
        BY <1>7, <3>2
      <3>4. a[rank[r] + 1] = r
        BY <1>3, <3>3
      <3> QED
        BY <2>1, <3>2, <3>4
    <2> QED
      BY <2>1, <2>2
  <1>10. Increasing(a)
    <2> SUFFICES ASSUME NEW i \in 1..n, NEW j \in 1..n, i < j PROVE a[i] < a[j]
      BY <1>9 DEF Increasing
    <2>1. /\ a[i] \in S /\ a[j] \in S /\ a[i] \in Int /\ a[j] \in Int
          /\ rank[a[i]] = i - 1 /\ rank[a[j]] = j - 1
      BY <1>7
    <2>2. ~(a[j] < a[i]) /\ a[i] # a[j]
      BY <1>2, <2>1
    <2> QED
      BY <2>1, <2>2
  <1> QED
    BY <1>9, <1>10 DEF a, n

LEMMA DescendingSorts ==
  ASSUME NEW S \in SUBSET Int, IsFiniteSet(S)
  PROVE  /\ Descending(S) \in Seq(S) /\ Len(Descending(S)) = Cardinality(S)
         /\ \A r \in S : \E i \in DOMAIN Descending(S) : Descending(S)[i] = r
         /\ Decreasing(Descending(S))
  <1> DEFINE n == Cardinality(S)
             rank == [r \in S |-> Cardinality(Above(S, r))]
             a == Descending(S)
  <1>1. n \in Nat
    BY FS_CardinalityType
  <1>2. /\ rank \in [S -> 0..(n - 1)]
        /\ \A q, r \in S : q > r => rank[q] < rank[r]
    BY AboveRank
  <1>3. \A q, r \in S : rank[q] = rank[r] => q = r
    <2>1. \A q, r \in S : rank[q] \in Int /\ q \in Int
      BY <1>1, <1>2
    <2> HIDE DEF rank
    <2> QED
      BY <1>2, <2>1
  <1>4. \A k \in 0..(n - 1) : \E r \in S : rank[r] = k
    <2> HIDE DEF rank
    <2> QED
      BY <1>2, <1>3, RankOnto
  <1>5. \A i \in 1..n : \E r \in S : Cardinality({q \in S : q > r}) = i - 1
    <2> SUFFICES ASSUME NEW i \in 1..n
                 PROVE  \E r \in S : Cardinality({q \in S : q > r}) = i - 1
      OBVIOUS
    <2>1. PICK r \in S : rank[r] = i - 1
      <3>1. i - 1 \in 0..(n - 1)
        BY <1>1
      <3> HIDE DEF rank, n
      <3> QED
        BY <1>4, <3>1
    <2> QED
      BY <2>1 DEF Above
  <1>6. \A i \in 1..n : a[i] \in S /\ Cardinality({q \in S : q > a[i]}) = i - 1
    <2> SUFFICES ASSUME NEW i \in 1..n
                 PROVE  a[i] \in S /\ Cardinality({q \in S : q > a[i]}) = i - 1
      OBVIOUS
    <2>1. a[i] = CHOOSE r \in S : Cardinality({q \in S : q > r}) = i - 1
      BY DEF Descending
    <2>2. \E r \in S : Cardinality({q \in S : q > r}) = i - 1
      BY <1>5
    <2> HIDE DEF a, n
    <2> QED
      BY <2>1, <2>2
  <1>7. \A i \in 1..n : a[i] \in S /\ rank[a[i]] = i - 1
    BY <1>6 DEF Above
  <1>8. a \in [1..n -> S]
    BY <1>6 DEF Descending
  <1> HIDE DEF a, rank, n
  <1>9. /\ a \in Seq(S) /\ Len(a) = n /\ DOMAIN a = 1..n
        /\ \A r \in S : \E i \in DOMAIN a : a[i] = r
    <2>1. a \in Seq(S) /\ Len(a) = n /\ DOMAIN a = 1..n
      BY <1>1, <1>8
    <2>2. ASSUME NEW r \in S PROVE \E i \in DOMAIN a : a[i] = r
      <3>1. rank[r] \in 0..(n - 1)
        BY <1>2
      <3>2. rank[r] + 1 \in 1..n /\ (rank[r] + 1) - 1 = rank[r]
        BY <1>1, <3>1
      <3>3. a[rank[r] + 1] \in S /\ rank[a[rank[r] + 1]] = rank[r]
        BY <1>7, <3>2
      <3>4. a[rank[r] + 1] = r
        BY <1>3, <3>3
      <3> QED
        BY <2>1, <3>2, <3>4
    <2> QED
      BY <2>1, <2>2
  <1>10. Decreasing(a)
    <2> SUFFICES ASSUME NEW i \in 1..n, NEW j \in 1..n, i < j PROVE a[i] > a[j]
      BY <1>9 DEF Decreasing
    <2>1. /\ a[i] \in S /\ a[j] \in S /\ a[i] \in Int /\ a[j] \in Int
          /\ rank[a[i]] = i - 1 /\ rank[a[j]] = j - 1
      BY <1>7
    <2>2. ~(a[j] > a[i]) /\ a[i] # a[j]
      BY <1>2, <2>1
    <2> QED
      BY <2>1, <2>2
  <1> QED
    BY <1>9, <1>10 DEF a, n

-----------------------------------------------------------------------------
(***************************************************************************)
(* Sequences of rows put together.                                         *)
(***************************************************************************)
LEMMA ElementsOf ==
  ASSUME NEW T, NEW s \in Seq(T)
  PROVE  /\ Elements(s) \in SUBSET T
         /\ Elements(s) = {} <=> s = <<>>
         /\ \A x : x \in Elements(s) <=> \E i \in 1..Len(s) : x = s[i]
         /\ s # <<>> => s[1] \in Elements(s) /\ LastOf(s) \in Elements(s)
  <1>1. Len(s) \in Nat /\ DOMAIN s = 1..Len(s) /\ \A i \in 1..Len(s) : s[i] \in T
    BY LenProperties, ElementOfSeq
  <1>2. s = <<>> <=> Len(s) = 0
    BY EmptySeq
  <1>3. s # <<>> => 1 \in 1..Len(s) /\ Len(s) \in 1..Len(s)
    BY <1>1, <1>2
  <1>4. \A x : x \in Elements(s) <=> \E i \in 1..Len(s) : x = s[i]
    BY <1>1 DEF Elements
  <1>5. Elements(s) \in SUBSET T
    BY <1>1, <1>4
  <1>6. Elements(s) = {} <=> s = <<>>
    BY <1>1, <1>2, <1>3, <1>4, SMTT(30)
  <1>7. s # <<>> => s[1] \in Elements(s) /\ LastOf(s) \in Elements(s)
    BY <1>3, <1>4 DEF LastOf
  <1> QED
    BY <1>4, <1>5, <1>6, <1>7

LEMMA ElementsOfConcat ==
  ASSUME NEW T, NEW s \in Seq(T), NEW t \in Seq(T)
  PROVE  /\ s \o t \in Seq(T)
         /\ Elements(s \o t) = Elements(s) \cup Elements(t)
         /\ t # <<>> => LastOf(s \o t) = LastOf(t)
         /\ s # <<>> => (s \o t)[1] = s[1]
  <1>1. /\ s \o t \in Seq(T) /\ Len(s \o t) = Len(s) + Len(t)
        /\ \A i \in 1..(Len(s) + Len(t)) :
             (s \o t)[i] = (IF i <= Len(s) THEN s[i] ELSE t[i - Len(s)])
        /\ Len(s) \in Nat /\ Len(t) \in Nat
        /\ s # <<>> => Len(s) > 0
        /\ t # <<>> => Len(t) > 0
    BY ConcatProperties, LenProperties, EmptySeq
  <1>2. ASSUME NEW x, x \in Elements(s \o t) PROVE x \in Elements(s) \cup Elements(t)
    <2>1. PICK i \in 1..(Len(s) + Len(t)) : x = (s \o t)[i]
      BY <1>1, <1>2, ElementsOf
    <2>2. CASE i <= Len(s)
      <3>1. i \in 1..Len(s) /\ x = s[i]
        BY <1>1, <2>1, <2>2
      <3> QED
        BY <3>1, ElementsOf
    <2>3. CASE ~(i <= Len(s))
      <3>1. i - Len(s) \in 1..Len(t) /\ x = t[i - Len(s)]
        BY <1>1, <2>1, <2>3
      <3> QED
        BY <3>1, ElementsOf
    <2> QED
      BY <2>2, <2>3
  <1>3. ASSUME NEW x, x \in Elements(s) PROVE x \in Elements(s \o t)
    <2>1. PICK i \in 1..Len(s) : x = s[i]
      BY <1>3, ElementsOf
    <2>2. i \in 1..Len(s \o t) /\ x = (s \o t)[i]
      BY <1>1, <2>1
    <2> QED
      BY <1>1, <2>2, ElementsOf
  <1>4. ASSUME NEW x, x \in Elements(t) PROVE x \in Elements(s \o t)
    <2>1. PICK i \in 1..Len(t) : x = t[i]
      BY <1>4, ElementsOf
    <2>2. /\ Len(s) + i \in 1..(Len(s) + Len(t)) /\ ~(Len(s) + i <= Len(s))
          /\ (Len(s) + i) - Len(s) = i
      BY <1>1
    <2>3. Len(s) + i \in 1..Len(s \o t) /\ x = (s \o t)[Len(s) + i]
      BY <1>1, <2>1, <2>2
    <2>4. \E j \in 1..Len(s \o t) : x = (s \o t)[j]
      BY <2>3
    <2> QED
      BY <1>1, <2>4, ElementsOf
  <1>5. t # <<>> => LastOf(s \o t) = LastOf(t)
    <2>1. t # <<>> => /\ Len(s) + Len(t) \in 1..(Len(s) + Len(t))
                      /\ ~(Len(s) + Len(t) <= Len(s)) /\ (Len(s) + Len(t)) - Len(s) = Len(t)
      BY <1>1
    <2> QED
      BY <1>1, <2>1 DEF LastOf
  <1>6. s # <<>> => (s \o t)[1] = s[1]
    <2>1. s # <<>> => 1 \in 1..(Len(s) + Len(t)) /\ 1 <= Len(s)
      BY <1>1
    <2> QED
      BY <1>1, <2>1
  <1> QED
    BY <1>1, <1>2, <1>3, <1>4, <1>5, <1>6

LEMMA ThreeParts ==
  ASSUME NEW T, NEW s \in Seq(T), NEW t \in Seq(T), NEW u \in Seq(T)
  PROVE  /\ s \o t \in Seq(T) /\ t \o u \in Seq(T) /\ s \o t \o u \in Seq(T)
         /\ Elements(s \o t \o u) = Elements(s \o t) \cup Elements(u)
         /\ s \o t \o u = s \o (t \o u)
  <1>1. s \o t \in Seq(T) /\ t \o u \in Seq(T)
    BY ElementsOfConcat
  <1>2. s \o t \o u \in Seq(T) /\ Elements(s \o t \o u) = Elements(s \o t) \cup Elements(u)
    BY <1>1, ElementsOfConcat, ZenonT(30)
  <1>3. s \o t \o u = s \o (t \o u)
    BY ConcatAssociative
  <1> QED
    BY <1>1, <1>2, <1>3

\* Two runs of rows are in order together when each is and all of the first
\* come before all of the second.
LEMMA OrderOfConcat ==
  ASSUME NEW s \in Seq(Int), NEW t \in Seq(Int)
  PROVE  /\ Increasing(s \o t) <=> /\ Increasing(s) /\ Increasing(t)
                                   /\ \A x \in Elements(s), y \in Elements(t) : x < y
         /\ Decreasing(s \o t) <=> /\ Decreasing(s) /\ Decreasing(t)
                                   /\ \A x \in Elements(s), y \in Elements(t) : x > y
  <1> DEFINE m == Len(s)
             n == Len(t)
             u == s \o t
  <1>1. /\ DOMAIN s = 1..m /\ DOMAIN t = 1..n /\ DOMAIN u = 1..(m + n)
        /\ m \in Nat /\ n \in Nat
        /\ \A i \in 1..(m + n) : u[i] = (IF i <= m THEN s[i] ELSE t[i - m])
    BY ConcatProperties, LenProperties
  <1>2. \A i \in 1..m : u[i] = s[i] /\ i \in 1..(m + n)
    BY <1>1
  <1>3. \A i \in 1..n : u[m + i] = t[i] /\ m + i \in 1..(m + n)
    BY <1>1
  <1>4. \A i \in 1..(m + n) : i \in 1..m \/ \E j \in 1..n : i = m + j
    <2> SUFFICES ASSUME NEW i \in 1..(m + n), i \notin 1..m
                 PROVE  i - m \in 1..n /\ i = m + (i - m)
      OBVIOUS
    <2> QED
      BY <1>1
  <1>5. /\ \A x : x \in Elements(s) <=> \E i \in 1..m : x = s[i]
        /\ \A x : x \in Elements(t) <=> \E i \in 1..n : x = t[i]
    BY ElementsOf
  <1>6. \A i \in 1..m, j \in 1..n : i < m + j /\ ~(m + j < i)
    BY <1>1
  <1>7. \A i, j \in 1..n : m + i < m + j <=> i < j
    BY <1>1
  <1> HIDE DEF m, n, u
  <1>8. \A i, j \in 1..(m + n) : i < j =>
          \/ i \in 1..m /\ j \in 1..m
          \/ i \in 1..m /\ \E l \in 1..n : j = m + l
          \/ \E k, l \in 1..n : i = m + k /\ j = m + l /\ k < l
    <2> SUFFICES ASSUME NEW i \in 1..(m + n), NEW j \in 1..(m + n), i < j,
                        ~(i \in 1..m /\ j \in 1..m),
                        ~(i \in 1..m /\ \E l \in 1..n : j = m + l)
                 PROVE  \E k, l \in 1..n : i = m + k /\ j = m + l /\ k < l
      OBVIOUS
    <2>1. i \notin 1..m
      BY <1>4
    <2>2. PICK k \in 1..n : i = m + k
      BY <1>4, <2>1
    <2>3. j \notin 1..m
      BY <1>6, <2>2
    <2>4. PICK l \in 1..n : j = m + l
      BY <1>4, <2>3
    <2> QED
      BY <1>7, <2>2, <2>4
  <1>9. Increasing(u) <=> /\ Increasing(s) /\ Increasing(t)
                          /\ \A x \in Elements(s), y \in Elements(t) : x < y
    <2>1. ASSUME Increasing(u)
          PROVE  /\ Increasing(s) /\ Increasing(t)
                 /\ \A x \in Elements(s), y \in Elements(t) : x < y
      <3>1. \A i, j \in 1..(m + n) : i < j => u[i] < u[j]
        BY <1>1, <2>1 DEF Increasing
      <3>2. \A i, j \in 1..m : i < j => s[i] < s[j]
        BY <1>2, <3>1
      <3>3. \A i, j \in 1..n : i < j => t[i] < t[j]
        BY <1>3, <1>7, <3>1
      <3>4. \A i \in 1..m, j \in 1..n : s[i] < t[j]
        BY <1>2, <1>3, <1>6, <3>1
      <3> QED
        BY <1>1, <1>5, <3>2, <3>3, <3>4 DEF Increasing
    <2>2. ASSUME Increasing(s), Increasing(t),
                 \A x \in Elements(s), y \in Elements(t) : x < y
          PROVE  Increasing(u)
      <3>1. \A i, j \in 1..m : i < j => s[i] < s[j]
        BY <1>1, <2>2 DEF Increasing
      <3>2. \A i, j \in 1..n : i < j => t[i] < t[j]
        BY <1>1, <2>2 DEF Increasing
      <3>3. \A i \in 1..m, j \in 1..n : s[i] < t[j]
        BY <1>5, <2>2
      <3>4. ASSUME NEW i \in 1..(m + n), NEW j \in 1..(m + n), i < j PROVE u[i] < u[j]
        <4>1. CASE i \in 1..m /\ j \in 1..m
          BY <1>2, <3>1, <3>4, <4>1
        <4>2. CASE i \in 1..m /\ \E l \in 1..n : j = m + l
          BY <1>2, <1>3, <3>3, <4>2
        <4>3. CASE \E k, l \in 1..n : i = m + k /\ j = m + l /\ k < l
          BY <1>3, <3>2, <4>3
        <4> QED
          BY <1>8, <3>4, <4>1, <4>2, <4>3
      <3> QED
        BY <1>1, <3>4 DEF Increasing
    <2> QED
      BY <2>1, <2>2
  <1>10. Decreasing(u) <=> /\ Decreasing(s) /\ Decreasing(t)
                           /\ \A x \in Elements(s), y \in Elements(t) : x > y
    <2>1. ASSUME Decreasing(u)
          PROVE  /\ Decreasing(s) /\ Decreasing(t)
                 /\ \A x \in Elements(s), y \in Elements(t) : x > y
      <3>1. \A i, j \in 1..(m + n) : i < j => u[i] > u[j]
        BY <1>1, <2>1 DEF Decreasing
      <3>2. \A i, j \in 1..m : i < j => s[i] > s[j]
        BY <1>2, <3>1
      <3>3. \A i, j \in 1..n : i < j => t[i] > t[j]
        BY <1>3, <1>7, <3>1
      <3>4. \A i \in 1..m, j \in 1..n : s[i] > t[j]
        BY <1>2, <1>3, <1>6, <3>1
      <3> QED
        BY <1>1, <1>5, <3>2, <3>3, <3>4 DEF Decreasing
    <2>2. ASSUME Decreasing(s), Decreasing(t),
                 \A x \in Elements(s), y \in Elements(t) : x > y
          PROVE  Decreasing(u)
      <3>1. \A i, j \in 1..m : i < j => s[i] > s[j]
        BY <1>1, <2>2 DEF Decreasing
      <3>2. \A i, j \in 1..n : i < j => t[i] > t[j]
        BY <1>1, <2>2 DEF Decreasing
      <3>3. \A i \in 1..m, j \in 1..n : s[i] > t[j]
        BY <1>5, <2>2
      <3>4. ASSUME NEW i \in 1..(m + n), NEW j \in 1..(m + n), i < j PROVE u[i] > u[j]
        <4>1. CASE i \in 1..m /\ j \in 1..m
          BY <1>2, <3>1, <3>4, <4>1
        <4>2. CASE i \in 1..m /\ \E l \in 1..n : j = m + l
          BY <1>2, <1>3, <3>3, <4>2
        <4>3. CASE \E k, l \in 1..n : i = m + k /\ j = m + l /\ k < l
          BY <1>3, <3>2, <4>3
        <4> QED
          BY <1>8, <3>4, <4>1, <4>2, <4>3
      <3> QED
        BY <1>1, <3>4 DEF Decreasing
    <2> QED
      BY <2>1, <2>2
  <1> QED
    BY <1>9, <1>10 DEF u

LEMMA EndsOfOrder ==
  ASSUME NEW s \in Seq(Int), s # <<>>
  PROVE  /\ Increasing(s) => \A x \in Elements(s) : s[1] <= x /\ x <= LastOf(s)
         /\ Decreasing(s) => \A x \in Elements(s) : LastOf(s) <= x /\ x <= s[1]
  <1> DEFINE n == Len(s)
  <1>1. /\ n \in Nat /\ n # 0 /\ DOMAIN s = 1..n
        /\ \A i \in 1..n : s[i] \in Int
        /\ \A x : x \in Elements(s) <=> \E i \in 1..n : x = s[i]
        /\ LastOf(s) = s[n]
    BY LenProperties, EmptySeq, ElementOfSeq, ElementsOf DEF LastOf
  <1> HIDE DEF n
  <1>2. /\ 1 \in 1..n /\ n \in 1..n
        /\ \A i \in 1..n : (i = 1 \/ 1 < i) /\ (i = n \/ i < n)
    BY <1>1
  <1>3. ASSUME Increasing(s), NEW i \in 1..n PROVE s[1] <= s[i] /\ s[i] <= s[n]
    <2>1. (i = 1 \/ s[1] < s[i]) /\ (i = n \/ s[i] < s[n])
      BY <1>1, <1>2, <1>3 DEF Increasing
    <2>2. s[1] \in Int /\ s[i] \in Int /\ s[n] \in Int
      BY <1>1, <1>2
    <2> QED
      BY <2>1, <2>2
  <1>4. ASSUME Decreasing(s), NEW i \in 1..n PROVE s[n] <= s[i] /\ s[i] <= s[1]
    <2>1. (i = 1 \/ s[1] > s[i]) /\ (i = n \/ s[i] > s[n])
      BY <1>1, <1>2, <1>4 DEF Decreasing
    <2>2. s[1] \in Int /\ s[i] \in Int /\ s[n] \in Int
      BY <1>1, <1>2
    <2> QED
      BY <2>1, <2>2
  <1> QED
    BY <1>1, <1>3, <1>4

\* The first event of the wire becomes the last one dispatched.
LEMMA HeadMoves ==
  ASSUME NEW T, NEW g \in Seq(T), NEW w \in Seq(T), w # <<>>
  PROVE  /\ Append(g, Head(w)) \o Tail(w) = g \o w
         /\ Append(g, Head(w)) \in Seq(T) /\ Append(g, Head(w)) # <<>>
         /\ LastOf(Append(g, Head(w))) = Head(w) /\ Head(w) \in T /\ Tail(w) \in Seq(T)
  <1>1. w = <<Head(w)>> \o Tail(w) /\ Head(w) \in T /\ Tail(w) \in Seq(T)
    OBVIOUS
  <1>2. Append(g, Head(w)) = g \o <<Head(w)>> /\ <<Head(w)>> \in Seq(T)
    BY <1>1
  <1>3. (g \o <<Head(w)>>) \o Tail(w) = g \o (<<Head(w)>> \o Tail(w))
    BY <1>1, <1>2, ConcatAssociative
  <1>4. Append(g, Head(w)) \in Seq(T) /\ Append(g, Head(w)) # <<>>
    BY <1>1
  <1>5. LastOf(Append(g, Head(w))) = Head(w)
    BY <1>1 DEF LastOf
  <1> QED
    BY <1>1, <1>2, <1>3, <1>4, <1>5

LEMMA PrefixOf ==
  ASSUME NEW T, NEW s \in Seq(T), NEW n \in Nat
  PROVE  /\ Prefix(s, n) \in Seq(T)
         /\ Len(Prefix(s, n)) = (IF Len(s) < n THEN Len(s) ELSE n)
         /\ Len(Prefix(s, n)) <= Len(s)
         /\ \A i \in 1..Len(Prefix(s, n)) : Prefix(s, n)[i] = s[i]
  <1> DEFINE k == IF Len(s) < n THEN Len(s) ELSE n
  <1>1. Len(s) \in Nat /\ k \in Nat /\ k <= Len(s)
    BY LenProperties
  <1>2. \A i \in 1..k : s[i] \in T
    BY <1>1, ElementOfSeq
  <1>3. Prefix(s, n) = SubSeq(s, 1, k)
    BY DEF Prefix
  <1> HIDE DEF k
  <1>4. /\ SubSeq(s, 1, k) \in Seq(T)
        /\ Len(SubSeq(s, 1, k)) = (IF 1 <= k THEN k - 1 + 1 ELSE 0)
        /\ \A i \in 1..(k - 1 + 1) : SubSeq(s, 1, k)[i] = s[1 + i - 1]
    BY <1>1, <1>2, SubSeqProperties
  <1>5. Len(SubSeq(s, 1, k)) = k
    BY <1>1, <1>4
  <1>6. \A i \in 1..k : SubSeq(s, 1, k)[i] = s[i]
    BY <1>1, <1>4
  <1> QED
    BY <1>1, <1>3, <1>4, <1>5, <1>6 DEF k

\* A poll takes the oldest of the rows it asks for.
LEMMA PollIsNext ==
  ASSUME NEW S \in SUBSET Int, IsFiniteSet(S), NEW n \in Nat
  PROVE  LET p == Prefix(Ascending(S), n) IN
         /\ p \in Seq(S) /\ Increasing(p)
         /\ \A r \in S, q \in Elements(p) : r <= q => r \in Elements(p)
  <1> DEFINE a == Ascending(S)
             p == Prefix(a, n)
  <1>1. a \in Seq(S) /\ Increasing(a) /\ \A r \in S : \E i \in DOMAIN a : a[i] = r
    BY AscendingSorts
  <1> HIDE DEF a
  <1>2. /\ p \in Seq(S) /\ Len(p) <= Len(a) /\ \A i \in 1..Len(p) : p[i] = a[i]
    BY <1>1, PrefixOf
  <1> HIDE DEF p
  <1>3. /\ DOMAIN a = 1..Len(a) /\ DOMAIN p = 1..Len(p) /\ Len(a) \in Nat /\ Len(p) \in Nat
        /\ \A i \in 1..Len(p) : i \in 1..Len(a)
        /\ \A i \in 1..Len(a) : a[i] \in Int
    <2>1. /\ DOMAIN a = 1..Len(a) /\ DOMAIN p = 1..Len(p)
          /\ Len(a) \in Nat /\ Len(p) \in Nat
      BY <1>1, <1>2, LenProperties
    <2>2. \A i \in 1..Len(p) : i \in 1..Len(a)
      BY <1>2, <2>1
    <2>3. \A i \in 1..Len(a) : a[i] \in Int
      BY <1>1, ElementOfSeq
    <2> QED
      BY <2>1, <2>2, <2>3
  <1>4. Increasing(p)
    BY <1>1, <1>2, <1>3 DEF Increasing
  <1>5. ASSUME NEW r \in S, NEW q \in Elements(p), r <= q PROVE r \in Elements(p)
    <2>1. PICK i \in 1..Len(p) : q = p[i]
      BY <1>2, ElementsOf
    <2>2. PICK j \in 1..Len(a) : r = a[j]
      BY <1>1, <1>3
    <2>3. ~(i < j)
      <3>1. i \in 1..Len(a) /\ j \in 1..Len(a) /\ q = a[i]
        BY <1>2, <1>3, <2>1
      <3>2. a[i] \in Int /\ a[j] \in Int /\ a[j] <= a[i]
        BY <1>3, <1>5, <2>2, <3>1
      <3>3. i < j => a[i] < a[j]
        BY <1>1, <1>3, <3>1 DEF Increasing
      <3> QED
        BY <3>2, <3>3
    <2>4. j \in 1..Len(p)
      BY <1>3, <2>3
    <2> QED
      BY <1>2, <2>2, <2>4, ElementsOf
  <1> QED
    BY <1>2, <1>4, <1>5 DEF p, a

\* A page takes the newest of the rows it asks for, and all of them when it
\* comes back short.
LEMMA PageIsNext ==
  ASSUME NEW S \in SUBSET Int, IsFiniteSet(S), NEW n \in Nat
  PROVE  LET p == Prefix(Descending(S), n) IN
         /\ p \in Seq(S) /\ Decreasing(p)
         /\ \A r \in S, q \in Elements(p) : r >= q => r \in Elements(p)
         /\ Len(p) # n => S \in SUBSET Elements(p)
  <1> DEFINE a == Descending(S)
             p == Prefix(a, n)
  <1>1. a \in Seq(S) /\ Decreasing(a) /\ \A r \in S : \E i \in DOMAIN a : a[i] = r
    BY DescendingSorts
  <1> HIDE DEF a
  <1>2. /\ p \in Seq(S) /\ Len(p) <= Len(a) /\ \A i \in 1..Len(p) : p[i] = a[i]
        /\ Len(p) # n => Len(p) = Len(a)
    BY <1>1, PrefixOf
  <1> HIDE DEF p
  <1>3. /\ DOMAIN a = 1..Len(a) /\ DOMAIN p = 1..Len(p) /\ Len(a) \in Nat /\ Len(p) \in Nat
        /\ \A i \in 1..Len(p) : i \in 1..Len(a)
        /\ \A i \in 1..Len(a) : a[i] \in Int
    <2>1. /\ DOMAIN a = 1..Len(a) /\ DOMAIN p = 1..Len(p)
          /\ Len(a) \in Nat /\ Len(p) \in Nat
      BY <1>1, <1>2, LenProperties
    <2>2. \A i \in 1..Len(p) : i \in 1..Len(a)
      <3>1. Len(p) <= Len(a)
        BY <1>2
      <3> QED
        BY <2>1, <3>1
    <2>3. \A i \in 1..Len(a) : a[i] \in Int
      BY <1>1, ElementOfSeq
    <2> QED
      BY <2>1, <2>2, <2>3
  <1>4. Decreasing(p)
    BY <1>1, <1>2, <1>3 DEF Decreasing
  <1>5. ASSUME NEW r \in S, NEW q \in Elements(p), r >= q PROVE r \in Elements(p)
    <2>1. PICK i \in 1..Len(p) : q = p[i]
      BY <1>2, ElementsOf
    <2>2. PICK j \in 1..Len(a) : r = a[j]
      BY <1>1, <1>3
    <2>3. ~(i < j)
      <3>1. i \in 1..Len(a) /\ j \in 1..Len(a) /\ q = a[i]
        BY <1>2, <1>3, <2>1
      <3>2. a[i] \in Int /\ a[j] \in Int /\ a[j] >= a[i]
        BY <1>3, <1>5, <2>2, <3>1
      <3>3. i < j => a[i] > a[j]
        BY <1>1, <1>3, <3>1 DEF Decreasing
      <3> QED
        BY <3>2, <3>3
    <2>4. j \in 1..Len(p)
      BY <1>3, <2>3
    <2> QED
      BY <1>2, <2>2, <2>4, ElementsOf
  <1>6. ASSUME Len(p) # n, NEW r \in S PROVE r \in Elements(p)
    <2>1. PICK j \in 1..Len(a) : r = a[j]
      BY <1>1, <1>3
    <2> QED
      BY <1>2, <1>6, <2>1, ElementsOf
  <1> QED
    BY <1>2, <1>4, <1>5, <1>6 DEF p, a

-----------------------------------------------------------------------------
(***************************************************************************)
(* The invariant.  What a source was sent has no gap, and the cursor of    *)
(* the connection lies between what was sent and what is about to be.      *)
(***************************************************************************)
Phases == {"none", "wallet", "cursor", "idle", "polled", "failed"}
Serving == conn.phase \in {"idle", "polled"}
Cursors == 0..written \cup {ErrorId}
Sent == got \o wire \o conn.batch

StreamTyped ==
  /\ written \in 0..MaxRows /\ rows \in SUBSET (1..written)
  /\ got \in Seq(1..written) /\ wire \in Seq(1..written)
  /\ source \in [state : {"closed", "connecting", "open"}, lastId : Cursors]
  /\ conn \in [phase : Phases, cursor : Cursors, batch : Seq(1..written)]
  /\ pages \in Seq(1..written) /\ before \in {LastPage} \cup 1..written

\* The id a source would resume from is its last event, and a connection that
\* serves nothing yet has nothing on the way.
ResumeInv ==
  /\ got # <<>> => source.lastId = LastOf(got)
  /\ source.state = "closed" => conn.phase = "none"
  /\ ~Serving /\ conn.phase # "failed" => wire = <<>>
  /\ conn.phase # "polled" => conn.batch = <<>>
  /\ conn.phase \in {"wallet", "cursor"} => conn.cursor = source.lastId

\* Every row of the feed between two of S is one of S.
Gapless(S, feed) == \A p, q \in S, r \in feed : p <= r /\ r <= q => r \in S

SentInv ==
  /\ Increasing(Sent) /\ Gapless(Elements(Sent), rows)
  /\ Serving =>
       /\ \A q \in Elements(got \o wire) : q <= conn.cursor
       /\ \A q \in Elements(conn.batch) : conn.cursor < q
       /\ \A p \in Elements(Sent), r \in rows :
            p <= r /\ r <= conn.cursor => r \in Elements(Sent)

\* The next page starts below the last row of the walk.
WalkInv ==
  /\ Decreasing(pages)
  /\ before # LastPage => pages # <<>> /\ before = LastOf(pages)
  /\ \A p \in Elements(pages), r \in rows :
       r <= p /\ (before = LastPage \/ before <= r) => r \in Elements(pages)

StreamInv == StreamTyped /\ ResumeInv /\ SentInv /\ WalkInv

-----------------------------------------------------------------------------
(***************************************************************************)
(* Types.                                                                  *)
(***************************************************************************)
LEMMA FeedFinite ==
  ASSUME StreamTyped, NEW S \in SUBSET rows
  PROVE  IsFiniteSet(S) /\ S \in SUBSET Int /\ S \in SUBSET (1..written)
  <1>1. written \in Int /\ S \in SUBSET (1..written)
    BY StreamAssumption DEF StreamTyped
  <1>2. IsFiniteSet(1..written)
    BY <1>1, FS_Interval
  <1>3. IsFiniteSet(S)
    BY <1>1, <1>2, FS_Subset
  <1>4. S \in SUBSET Int
    BY <1>1
  <1> QED
    BY <1>1, <1>3, <1>4

LEMMA NewestOfFeed ==
  ASSUME StreamTyped
  PROVE  Newest(rows) \in 0..written
  <1>1. written \in Nat /\ IsFiniteSet(rows) /\ rows \in SUBSET Int /\ rows \in SUBSET (1..written)
    BY StreamAssumption, FeedFinite DEF StreamTyped
  <1>2. CASE rows = {}
    BY <1>1, <1>2 DEF Newest, Seq0
  <1>3. CASE rows # {}
    <2> DEFINE a == Descending(rows)
    <2>1. a \in Seq(rows) /\ \A r \in rows : \E i \in DOMAIN a : a[i] = r
      BY <1>1, DescendingSorts
    <2> HIDE DEF a
    <2>2. DOMAIN a = 1..Len(a) /\ Len(a) \in Nat
      BY <2>1, LenProperties
    <2>3. 1 \in 1..Len(a)
      BY <1>3, <2>1, <2>2
    <2>4. a[1] \in rows
      BY <2>1, <2>3, ElementOfSeq
    <2>5. Newest(rows) = a[1]
      BY <1>3 DEF Newest, a
    <2>6. a[1] \in 1..written
      BY <1>1, <2>4
    <2> QED
      BY <1>1, <2>5, <2>6
  <1> QED
    BY <1>2, <1>3

\* What a poll and a page return.
LEMMA PolledRows ==
  ASSUME StreamTyped
  PROVE  LET p == RowsSince(conn.cursor) IN
         /\ p \in Seq(1..written) /\ Increasing(p)
         /\ \A q \in Elements(p) : q \in rows /\ conn.cursor < q
         /\ \A r \in rows, q \in Elements(p) : conn.cursor < r /\ r <= q => r \in Elements(p)
  <1> DEFINE S == {r \in rows : r > conn.cursor}
             p == Prefix(Ascending(S), PollLimit)
  <1>1. IsFiniteSet(S) /\ S \in SUBSET Int /\ S \in SUBSET (1..written)
    BY FeedFinite
  <1>2. conn.cursor \in Int /\ \A r \in rows : r \in Int
    <2>1. conn.cursor \in Cursors /\ \A r \in rows : r \in Int
      BY FeedFinite DEF StreamTyped
    <2> QED
      BY <2>1, StreamAssumption DEF Cursors, ErrorId, StreamTyped
  <1>3. \A r \in rows : r \in S <=> conn.cursor < r
    BY <1>2
  <1>4. S \in SUBSET rows
    OBVIOUS
  <1> HIDE DEF S
  <1>5. /\ p \in Seq(S) /\ Increasing(p)
        /\ \A r \in S, q \in Elements(p) : r <= q => r \in Elements(p)
    BY <1>1, StreamAssumption, PollIsNext
  <1>6. p = RowsSince(conn.cursor)
    BY DEF RowsSince, S
  <1> HIDE DEF p
  <1>7. p \in Seq(1..written) /\ Elements(p) \in SUBSET S
    BY <1>1, <1>5, SeqMonotonic, ElementsOf
  <1> QED
    BY <1>3, <1>4, <1>5, <1>6, <1>7

LEMMA PageRows ==
  ASSUME StreamTyped, NEW c \in Int
  PROVE  LET p == ListForWallet(c) IN
         /\ p \in Seq(1..written) /\ Decreasing(p)
         /\ \A q \in Elements(p) : q \in rows /\ q < c
         /\ \A r \in rows, q \in Elements(p) : r < c /\ q <= r => r \in Elements(p)
         /\ NextCursor(p) \in {LastPage} \cup 1..written
         /\ NextCursor(p) # LastPage => p # <<>> /\ NextCursor(p) = LastOf(p)
         /\ NextCursor(p) = LastPage => \A r \in rows : r < c => r \in Elements(p)
  <1> DEFINE S == {r \in rows : r < c}
             p == Prefix(Descending(S), PageLimit)
  <1>1. IsFiniteSet(S) /\ S \in SUBSET Int /\ S \in SUBSET (1..written)
    BY FeedFinite
  <1>2. \A r \in rows : r \in Int
    BY FeedFinite
  <1>3. \A r \in rows : r \in S <=> r < c
    OBVIOUS
  <1>4. S \in SUBSET rows
    OBVIOUS
  <1> HIDE DEF S
  <1>5. /\ p \in Seq(S) /\ Decreasing(p)
        /\ \A r \in S, q \in Elements(p) : r >= q => r \in Elements(p)
        /\ Len(p) # PageLimit => S \in SUBSET Elements(p)
    BY <1>1, StreamAssumption, PageIsNext
  <1>6. p = ListForWallet(c)
    BY DEF ListForWallet, BeforeCursor, S
  <1> HIDE DEF p
  <1>7. p \in Seq(1..written) /\ Elements(p) \in SUBSET S
    BY <1>1, <1>5, SeqMonotonic, ElementsOf
  <1>8. /\ \A r \in rows : r < c => r \in S
        /\ \A r \in rows, q \in Elements(p) : q <= r => r >= q
    BY <1>1, <1>2, <1>3, <1>7
  <1>9. \A r \in rows, q \in Elements(p) : r < c /\ q <= r => r \in Elements(p)
    BY <1>5, <1>8
  <1>10. CASE Len(p) = PageLimit
    <2>1. p # <<>>
      BY <1>10, StreamAssumption, EmptySeq
    <2>2. LastOf(p) \in 1..written
      <3>1. LastOf(p) \in Elements(p) /\ Elements(p) \in SUBSET (1..written)
        BY <1>7, <2>1, ElementsOf
      <3> QED
        BY <3>1
    <2>3. NextCursor(p) = LastOf(p) /\ LastOf(p) # LastPage
      BY <1>10, <2>2 DEF NextCursor, LastPage
    <2> QED
      BY <1>3, <1>4, <1>5, <1>6, <1>7, <1>9, <2>1, <2>2, <2>3
  <1>11. CASE Len(p) # PageLimit
    <2>1. NextCursor(p) = LastPage
      BY <1>11 DEF NextCursor
    <2>2. \A r \in rows : r < c => r \in Elements(p)
      BY <1>5, <1>8, <1>11
    <2> QED
      BY <1>3, <1>4, <1>5, <1>6, <1>7, <1>9, <2>1, <2>2
  <1> QED
    BY <1>10, <1>11

LEMMA StreamTypedStep ==
  ASSUME StreamInv, Next
  PROVE  StreamTyped'
  <1>0. StreamTyped /\ ResumeInv /\ WalkInv /\ written \in Nat
    BY StreamAssumption DEF StreamInv, StreamTyped
  <1>1. <<>> \in Seq(1..written) /\ NoConn \in [phase : Phases, cursor : Cursors, batch : Seq(1..written)]
    BY <1>0, EmptySeq DEF NoConn, Phases, Seq0, Cursors
  <1>2. CASE CreateWallet
    BY <1>0, <1>2 DEF CreateWallet, StreamTyped, streamVars, pageVars, Cursors
  <1>3. CASE ResetRows
    BY <1>0, <1>3 DEF ResetRows, StreamTyped, streamVars, pageVars, Cursors
  <1>4. ASSUME NEW n \in 1..MaxRows, WriteRows(n) PROVE StreamTyped'
    <2>1. written' \in 0..MaxRows /\ written <= written' /\ written' \in Nat
      BY <1>0, <1>4, StreamAssumption DEF WriteRows
    <2>2. 1..written \subseteq 1..written' /\ Cursors \subseteq Cursors'
      BY <1>0, <2>1 DEF Cursors
    <2>3. rows' \in SUBSET (1..written')
      <3>1. rows \in SUBSET (1..written') /\ (written + 1)..(written + n) \in SUBSET (1..written')
        BY <1>0, <1>4, <2>2 DEF StreamTyped, WriteRows
      <3> QED
        BY <1>4, <3>1 DEF WriteRows
    <2>4. \A s \in Seq(1..written) : s \in Seq(1..written')
      BY <2>2, SeqMonotonic
    <2> QED
      BY <1>0, <1>4, <2>1, <2>2, <2>3, <2>4 DEF WriteRows, StreamTyped, streamVars, pageVars
  <1>5. CASE Mount
    BY <1>0, <1>1, <1>5 DEF Mount, StreamTyped, feedVars, pageVars, Seq0, Cursors
  <1>6. CASE Unmount
    BY <1>0, <1>1, <1>6 DEF Unmount, StreamTyped, feedVars, pageVars, Cursors
  <1>7. CASE LoseConnection
    BY <1>0, <1>1, <1>7 DEF LoseConnection, Disconnect, StreamTyped, feedVars, pageVars, Cursors
  <1>8. CASE FindWallet
    BY <1>0, <1>1, <1>8 DEF FindWallet, Disconnect, StreamTyped, feedVars, pageVars, Cursors, Phases
  <1>9. CASE ResolveStartingCursor
    <2>1. StartingCursor(conn.cursor) \in Cursors
      BY <1>0, NewestOfFeed DEF StartingCursor, StreamTyped, Cursors
    <2> QED
      BY <1>0, <1>9, <2>1 DEF ResolveStartingCursor, StreamTyped, feedVars, pageVars, Cursors, Phases
  <1>10. CASE PollNewEvents
    <2>1. RowsSince(conn.cursor) \in Seq(1..written)
      BY <1>0, PolledRows
    <2> QED
      BY <1>0, <1>10, <2>1 DEF PollNewEvents, StreamTyped, feedVars, pageVars, Cursors, Phases
  <1>11. CASE EmitBatch
    <2>1. conn.batch \in Seq(1..written) /\ wire \in Seq(1..written) /\ conn.cursor \in Cursors
      BY <1>0 DEF StreamTyped
    <2>2. wire \o conn.batch \in Seq(1..written)
      BY <2>1, ElementsOfConcat
    <2>3. NextSeq(conn) \in Cursors
      <3>1. conn.batch # <<>> => LastOf(conn.batch) \in 1..written
        <4>1. /\ conn.batch # <<>> => LastOf(conn.batch) \in Elements(conn.batch)
              /\ Elements(conn.batch) \in SUBSET (1..written)
          BY <2>1, ElementsOf
        <4> QED
          BY <4>1
      <3> QED
        BY <1>0, <2>1, <3>1 DEF NextSeq, Cursors
    <2> QED
      BY <1>0, <1>1, <1>11, <2>2, <2>3 DEF EmitBatch, StreamTyped, feedVars, pageVars, Cursors, Phases
  <1>12. CASE Connect
    BY <1>0, <1>1, <1>12 DEF Connect, StreamTyped, feedVars, pageVars, Cursors, Phases
  <1>13. CASE Dispatch
    <2>1. /\ Append(got, Head(wire)) \in Seq(1..written) /\ Head(wire) \in 1..written
          /\ Tail(wire) \in Seq(1..written)
      BY <1>0, <1>13, HeadMoves DEF Dispatch, StreamTyped
    <2>2. Head(wire) \in Cursors
      BY <1>0, <2>1 DEF Cursors
    <2> QED
      BY <1>0, <1>13, <2>1, <2>2 DEF Dispatch, StreamTyped, feedVars, pageVars, Cursors
  <1>14. CASE FetchFirstPage
    <2>1. FirstPage \in Int
      BY StreamAssumption DEF FirstPage
    <2>2. /\ ListForWallet(FirstPage) \in Seq(1..written)
          /\ NextCursor(ListForWallet(FirstPage)) \in {LastPage} \cup 1..written
      BY <1>0, <2>1, PageRows
    <2> QED
      BY <1>0, <1>14, <2>2 DEF FetchFirstPage, StreamTyped, feedVars, streamVars, Cursors
  <1>15. CASE FetchNextPage
    <2>1. before \in Int
      BY <1>0 DEF StreamTyped, LastPage
    <2>2. /\ ListForWallet(before) \in Seq(1..written)
          /\ NextCursor(ListForWallet(before)) \in {LastPage} \cup 1..written
      BY <1>0, <2>1, PageRows
    <2>3. pages \o ListForWallet(before) \in Seq(1..written)
      BY <1>0, <2>2, ElementsOfConcat DEF StreamTyped
    <2> QED
      BY <1>0, <1>15, <2>2, <2>3 DEF FetchNextPage, StreamTyped, feedVars, streamVars, Cursors
  <1>16. CASE StreamThrows
    BY <1>0, <1>1, <1>16 DEF StreamThrows, StreamTyped, feedVars, pageVars, Phases, Cursors
  <1>17. CASE DispatchError
    <2>1. ErrorId \in Cursors
      BY DEF Cursors
    <2> QED
      BY <1>0, <1>1, <1>17, <2>1 DEF DispatchError, StreamTyped, feedVars, pageVars, Cursors
  <1> QED
    BY <1>2, <1>3, <1>4, <1>5, <1>6, <1>7, <1>8, <1>9, <1>10, <1>11, <1>12, <1>13, <1>14, <1>15,
       <1>16, <1>17
    DEF Next, ServerStep, BrowserStep

-----------------------------------------------------------------------------
(***************************************************************************)
(* The id a source resumes from.                                           *)
(***************************************************************************)
LEMMA ResumeStep ==
  ASSUME StreamInv, Next
  PROVE  ResumeInv'
  <1>0. StreamTyped /\ ResumeInv
    BY DEF StreamInv
  <1>1. NoConn.phase = "none" /\ NoConn.batch = <<>>
    BY DEF NoConn
  <1>2. CASE UNCHANGED streamVars
    BY <1>0, <1>2 DEF ResumeInv, Serving, streamVars, LastOf
  <1>3. CASE Mount
    BY <1>0, <1>1, <1>3 DEF Mount, ResumeInv, Serving, StreamTyped
  <1>4. CASE Unmount
    BY <1>0, <1>1, <1>4 DEF Unmount, ResumeInv, Serving, StreamTyped, LastOf
  <1>5. CASE LoseConnection
    BY <1>0, <1>1, <1>5 DEF LoseConnection, Disconnect, ResumeInv, Serving, StreamTyped, LastOf
  <1>6. CASE FindWallet
    BY <1>0, <1>1, <1>6 DEF FindWallet, Disconnect, ResumeInv, Serving, StreamTyped, LastOf
  <1>7. CASE ResolveStartingCursor
    BY <1>0, <1>7 DEF ResolveStartingCursor, ResumeInv, Serving, StreamTyped, LastOf
  <1>8. CASE PollNewEvents
    BY <1>0, <1>8 DEF PollNewEvents, ResumeInv, Serving, StreamTyped, LastOf
  <1>9. CASE EmitBatch
    BY <1>0, <1>9 DEF EmitBatch, ResumeInv, Serving, StreamTyped, LastOf
  <1>10. CASE Connect
    BY <1>0, <1>1, <1>10 DEF Connect, ResumeInv, Serving, StreamTyped, LastOf, NoConn
  <1>11. CASE Dispatch
    <2>1. got' # <<>> /\ LastOf(got') = Head(wire)
      BY <1>0, <1>11, HeadMoves, ZenonT(30) DEF Dispatch, StreamTyped
    <2>2. Serving \/ conn.phase = "failed"
      BY <1>0, <1>11 DEF Dispatch, ResumeInv
    <2> QED
      BY <1>0, <1>11, <2>1, <2>2 DEF Dispatch, ResumeInv, Serving, StreamTyped
  <1>12. CreateWallet \/ ResetRows \/ (\E n \in 1..MaxRows : WriteRows(n))
           \/ FetchFirstPage \/ FetchNextPage => UNCHANGED streamVars
    BY DEF CreateWallet, ResetRows, WriteRows, FetchFirstPage, FetchNextPage
  <1>13. CASE StreamThrows
    BY <1>0, <1>1, <1>13 DEF StreamThrows, ResumeInv, Serving, StreamTyped, LastOf
  <1>14. CASE DispatchError
    BY <1>0, <1>1, <1>14 DEF DispatchError, ResumeInv, Serving, StreamTyped
  <1> QED
    BY <1>2, <1>3, <1>4, <1>5, <1>6, <1>7, <1>8, <1>9, <1>10, <1>11, <1>12, <1>13, <1>14
    DEF Next, ServerStep, BrowserStep

-----------------------------------------------------------------------------
(***************************************************************************)
(* No gap in what was sent.                                                *)
(***************************************************************************)
LEMMA SentParts ==
  ASSUME StreamTyped
  PROVE  /\ got \o wire \in Seq(1..written) /\ Sent \in Seq(1..written) /\ Sent \in Seq(Int)
         /\ got \o wire \in Seq(Int) /\ conn.batch \in Seq(Int)
         /\ Elements(got \o wire) = Elements(got) \cup Elements(wire)
         /\ Elements(Sent) = Elements(got \o wire) \cup Elements(conn.batch)
         /\ Elements(Sent) \in SUBSET (1..written)
  <1>1. got \in Seq(1..written) /\ wire \in Seq(1..written) /\ conn.batch \in Seq(1..written)
    BY DEF StreamTyped
  <1>2. 1..written \subseteq Int
    OBVIOUS
  <1>3. /\ got \o wire \in Seq(1..written)
        /\ Elements(got \o wire) = Elements(got) \cup Elements(wire)
    BY <1>1, ElementsOfConcat
  <1>4. /\ Sent \in Seq(1..written)
        /\ Elements(Sent) = Elements(got \o wire) \cup Elements(conn.batch)
    BY <1>1, ThreeParts DEF Sent
  <1>5. Elements(Sent) \in SUBSET (1..written)
    BY <1>4, ElementsOf
  <1>6. got \o wire \in Seq(Int) /\ Sent \in Seq(Int) /\ conn.batch \in Seq(Int)
    BY <1>1, <1>2, <1>3, <1>4, SeqMonotonic
  <1> QED
    BY <1>3, <1>4, <1>5, <1>6

\* What the source got stays in order and without a gap when the rest is lost.
LEMMA GotIsGapless ==
  ASSUME StreamTyped, SentInv
  PROVE  /\ got \in Seq(Int) /\ Increasing(got) /\ Gapless(Elements(got), rows)
         /\ got \o <<>> \o <<>> = got
  <1> DEFINE rest == wire \o conn.batch
  <1>1. /\ got \in Seq(1..written) /\ wire \in Seq(1..written) /\ conn.batch \in Seq(1..written)
        /\ 1..written \subseteq Int
    BY DEF StreamTyped
  <1>2. got \in Seq(Int) /\ wire \in Seq(Int) /\ conn.batch \in Seq(Int)
    BY <1>1, SeqMonotonic
  <1>3. rest \in Seq(Int) /\ Sent = got \o rest
    <2>1. \A a, b, c \in Seq(Int) : b \o c \in Seq(Int) /\ a \o b \o c = a \o (b \o c)
      BY ThreeParts, SMTT(30)
    <2> QED
      BY <1>2, <2>1 DEF Sent
  <1>4. got \o <<>> \o <<>> = got
    BY <1>2, ConcatEmptySeq
  <1> HIDE DEF rest
  <1>5. Increasing(got) /\ \A x \in Elements(got), y \in Elements(rest) : x < y
    BY <1>2, <1>3, OrderOfConcat DEF SentInv
  <1>6. Elements(Sent) = Elements(got) \cup Elements(rest)
    BY <1>2, <1>3, ElementsOfConcat
  <1>7. ASSUME NEW p \in Elements(got), NEW q \in Elements(got), NEW r \in rows, p <= r, r <= q
        PROVE  r \in Elements(got)
    <2>1. r \in Elements(Sent)
      BY <1>6, <1>7 DEF SentInv, Gapless
    <2>2. q \in Int /\ r \in Int
      BY <1>2, <1>7, ElementsOf, FeedFinite
    <2>3. r \notin Elements(rest)
      BY <1>5, <1>7, <2>2
    <2> QED
      BY <1>6, <2>1, <2>3
  <1> QED
    BY <1>2, <1>4, <1>5, <1>7 DEF Gapless

\* Everything on the way is lost, and the feed may have shrunk.
LEMMA LostSent ==
  ASSUME StreamTyped, SentInv, got' = got, wire' = <<>>, conn'.batch = <<>>, rows' = rows,
         ~Serving'
  PROVE  SentInv'
  <1>1. Sent' = got
    BY GotIsGapless DEF Sent
  <1> QED
    BY <1>1, GotIsGapless DEF SentInv, Gapless

LEMMA SentStep ==
  ASSUME StreamInv, Next, StreamTyped'
  PROVE  SentInv'
  <1>0. StreamTyped /\ ResumeInv /\ SentInv /\ written \in Nat
    BY StreamAssumption DEF StreamInv, StreamTyped
  <1>1. NoConn.phase = "none" /\ NoConn.batch = <<>>
    BY DEF NoConn
  <1>a. <<>> \o <<>> \o <<>> = <<>> /\ Elements(<<>>) = {} /\ Increasing(<<>>)
    <2>1. <<>> \in Seq(Int) /\ Len(<<>>) = 0 /\ DOMAIN <<>> = {}
      BY EmptySeq
    <2>2. <<>> \o <<>> = <<>>
      BY <2>1, ConcatEmptySeq
    <2> QED
      BY <2>1, <2>2 DEF Elements, Increasing
  <1>2. CASE UNCHANGED <<rows, streamVars>>
    BY <1>0, <1>2 DEF SentInv, Sent, Serving, streamVars
  <1>3. CASE ResetRows
    BY <1>0, <1>3 DEF ResetRows, SentInv, Sent, Serving, streamVars, Gapless
  <1>4. ASSUME NEW n \in 1..MaxRows, WriteRows(n) PROVE SentInv'
    <2>1. \A r \in rows' : r \in rows \/ (r \in Int /\ r > written)
      BY <1>0, <1>4 DEF WriteRows
    <2>2. UNCHANGED streamVars /\ Sent' = Sent /\ (Serving' <=> Serving)
      BY <1>4 DEF WriteRows, streamVars, Sent, Serving
    <2>3. \A q \in Elements(Sent) : q \in Int /\ q <= written
      <3>1. Elements(Sent) \in SUBSET (1..written)
        BY <1>0, SentParts
      <3> QED
        BY <1>0, <3>1
    <2>4. Gapless(Elements(Sent), rows')
      <3> SUFFICES ASSUME NEW p \in Elements(Sent), NEW q \in Elements(Sent), NEW r \in rows',
                          p <= r, r <= q
                   PROVE  r \in Elements(Sent)
        BY DEF Gapless
      <3>1. r \in rows
        BY <1>0, <2>1, <2>3
      <3> QED
        BY <1>0, <3>1 DEF SentInv, Gapless
    <2>5. ASSUME Serving, NEW p \in Elements(Sent), NEW r \in rows', p <= r, r <= conn.cursor
          PROVE  r \in Elements(Sent)
      <3>1. conn.cursor \in Int /\ conn.cursor <= written
        <4>1. conn.cursor \in Cursors /\ 1 <= written
          BY <1>0, <2>3, <2>5, SentParts DEF StreamTyped
        <4> QED
          BY <1>0, <4>1 DEF Cursors, ErrorId
      <3>2. r \in rows
        BY <1>0, <2>1, <2>5, <3>1
      <3> QED
        BY <1>0, <2>5, <3>2 DEF SentInv
    <2> QED
      BY <1>0, <2>2, <2>4, <2>5 DEF SentInv, streamVars
  <1>5. CASE Mount
    <2>1. conn.phase = "none" /\ conn.batch = <<>> /\ wire = <<>>
      BY <1>0, <1>5 DEF Mount, ResumeInv, Serving
    <2>2. Sent' = <<>> /\ ~Serving'
      BY <1>5, <1>a, <2>1 DEF Mount, Sent, Serving
    <2> QED
      BY <1>a, <2>2 DEF SentInv, Gapless
  <1>6. CASE Unmount
    BY <1>0, <1>1, <1>6, LostSent DEF Unmount, feedVars, Serving
  <1>7. CASE LoseConnection
    BY <1>0, <1>1, <1>7, LostSent DEF LoseConnection, Disconnect, feedVars, Serving
  <1>8. CASE FindWallet
    <2>1. /\ got' = got /\ rows' = rows /\ wire' = <<>> /\ conn'.batch = <<>> /\ ~Serving'
      BY <1>0, <1>1, <1>8 DEF FindWallet, Disconnect, feedVars, Serving, ResumeInv, StreamTyped
    <2> QED
      BY <1>0, <2>1, LostSent
  <1>9. CASE Connect
    <2>1. /\ got' = got /\ rows' = rows /\ wire' = <<>> /\ conn'.batch = <<>> /\ ~Serving'
      BY <1>0, <1>1, <1>9 DEF Connect, NoConn, feedVars, Serving, ResumeInv, StreamTyped
    <2> QED
      BY <1>0, <2>1, LostSent
  <1>10. CASE ResolveStartingCursor
    <2>1. /\ wire = <<>> /\ conn.batch = <<>> /\ conn.cursor = source.lastId
          /\ got' = got /\ wire' = <<>> /\ conn'.batch = <<>> /\ rows' = rows
          /\ conn'.cursor = StartingCursor(conn.cursor)
      BY <1>0, <1>10 DEF ResolveStartingCursor, ResumeInv, Serving, StreamTyped, feedVars
    <2>2. Sent' = got /\ Increasing(got) /\ Gapless(Elements(got), rows) /\ got \in Seq(Int)
      BY <1>0, <2>1, GotIsGapless DEF Sent
    <2>3. Elements(conn'.batch) = {} /\ Elements(got' \o wire') = Elements(got)
      <3>1. got \o <<>> = got
        BY <2>2, ConcatEmptySeq
      <3> QED
        BY <1>a, <2>1, <3>1
    <2>4. CASE got = <<>>
      <3>1. Elements(got) = {}
        BY <1>a, <2>4
      <3> QED
        BY <2>1, <2>2, <2>3, <3>1 DEF SentInv
    <2>5. CASE got # <<>>
      <3>1. LastOf(got) \in 1..written /\ LastOf(got) \in Elements(got)
        <4>1. got \in Seq(1..written)
          BY <1>0 DEF StreamTyped
        <4>2. LastOf(got) \in Elements(got) /\ Elements(got) \in SUBSET (1..written)
          BY <2>5, <4>1, ElementsOf
        <4> QED
          BY <4>2
      <3>2. source.lastId = LastOf(got) /\ LastOf(got) # Seq0
        BY <1>0, <2>5, <3>1 DEF ResumeInv, Seq0
      <3>3. conn'.cursor = LastOf(got)
        BY <2>1, <3>2 DEF StartingCursor
      <3>4. \A q \in Elements(got) : q <= LastOf(got)
        BY <2>2, <2>5, EndsOfOrder
      <3>5. \A p \in Elements(got), r \in rows :
              p <= r /\ r <= LastOf(got) => r \in Elements(got)
        BY <2>2, <3>1 DEF Gapless
      <3> QED
        BY <2>1, <2>2, <2>3, <3>3, <3>4, <3>5 DEF SentInv
    <2> QED
      BY <2>4, <2>5
  <1>11. CASE PollNewEvents
    <2> DEFINE p == RowsSince(conn.cursor)
               sent == got \o wire
    <2>1. /\ Serving /\ Serving' /\ conn.batch = <<>> /\ got' = got /\ wire' = wire /\ rows' = rows
          /\ conn'.batch = p /\ conn'.cursor = conn.cursor
      BY <1>0, <1>11 DEF PollNewEvents, ResumeInv, Serving, StreamTyped, feedVars
    <2>2. /\ p \in Seq(1..written) /\ Increasing(p)
          /\ \A q \in Elements(p) : q \in rows /\ conn.cursor < q
          /\ \A r \in rows, q \in Elements(p) : conn.cursor < r /\ r <= q => r \in Elements(p)
      BY <1>0, PolledRows
    <2> HIDE DEF p
    <2>3. p \in Seq(Int)
      <3>1. 1..written \subseteq Int
        OBVIOUS
      <3> QED
        BY <2>2, <3>1, SeqMonotonic
    <2>4. sent \in Seq(Int) /\ Sent = sent /\ Sent' = sent \o p
      BY <1>0, <2>1, SentParts, ConcatEmptySeq DEF Sent
    <2>5. /\ Increasing(sent) /\ Gapless(Elements(sent), rows)
          /\ \A q \in Elements(sent) : q <= conn.cursor
          /\ \A q \in Elements(sent), r \in rows :
               q <= r /\ r <= conn.cursor => r \in Elements(sent)
      BY <1>0, <2>1, <2>4 DEF SentInv
    <2>6. got' \o wire' = sent
      BY <2>1
    <2> HIDE DEF sent
    <2>7. /\ conn.cursor \in Int /\ \A q \in Elements(sent) : q \in Int
          /\ \A q \in rows : q \in Int
      <3>1. Elements(sent) \in SUBSET Int
        BY <2>4, ElementsOf
      <3>2. rows \in SUBSET Int
        BY <1>0, FeedFinite
      <3>3. conn.cursor \in Cursors /\ written \in 0..MaxRows
        BY <1>0 DEF StreamTyped
      <3>4. conn.cursor \in Int
        BY <3>3, StreamAssumption DEF Cursors, ErrorId
      <3> QED
        BY <3>1, <3>2, <3>4
    <2>8. Elements(sent \o p) = Elements(sent) \cup Elements(p)
      BY <2>3, <2>4, ElementsOfConcat
    <2>9. \A x \in Elements(sent), y \in Elements(p) : x < y
      BY <2>2, <2>5, <2>7
    <2>10. Increasing(sent \o p)
      BY <2>2, <2>3, <2>4, <2>5, <2>9, OrderOfConcat
    <2>11. ASSUME NEW q \in Elements(sent \o p), NEW r \in rows, q <= r, r <= conn.cursor
           PROVE  r \in Elements(sent)
      <3>1. q \in Elements(sent)
        BY <2>2, <2>7, <2>8, <2>11
      <3> QED
        BY <2>5, <2>11, <3>1
    <2>12. ASSUME NEW a \in Elements(sent \o p), NEW b \in Elements(sent \o p), NEW r \in rows,
                  a <= r, r <= b
           PROVE  r \in Elements(sent \o p)
      <3>1. CASE r <= conn.cursor
        BY <2>8, <2>11, <2>12, <3>1
      <3>2. CASE conn.cursor < r
        <4>1. b \in Elements(p)
          BY <2>5, <2>7, <2>8, <2>12, <3>2
        <4> QED
          BY <2>2, <2>8, <2>12, <3>2, <4>1
      <3> QED
        BY <2>7, <3>1, <3>2
    <2> QED
      BY <2>1, <2>2, <2>4, <2>5, <2>6, <2>8, <2>10, <2>11, <2>12 DEF SentInv, Gapless
  <1>12. CASE EmitBatch
    <2>1. /\ Serving /\ Serving' /\ got' = got /\ wire' = wire \o conn.batch /\ rows' = rows
          /\ conn'.batch = <<>> /\ conn'.cursor = NextSeq(conn)
      BY <1>0, <1>12 DEF EmitBatch, Serving, feedVars
    <2>2. /\ got \in Seq(1..written) /\ wire \in Seq(1..written) /\ conn.batch \in Seq(1..written)
      BY <1>0 DEF StreamTyped
    <2>3. got' \o wire' = Sent /\ Sent \in Seq(Int)
      <3>1. got \o wire \o conn.batch = got \o (wire \o conn.batch)
        <4>1. \A a, b, c \in Seq(1..written) : a \o b \o c = a \o (b \o c)
          BY ThreeParts
        <4> QED
          BY <2>2, <4>1
      <3>2. Sent \in Seq(Int)
        BY <1>0, SentParts
      <3> QED
        BY <2>1, <3>1, <3>2 DEF Sent
    <2>4. Sent' = Sent
      BY <2>1, <2>3, ConcatEmptySeq DEF Sent
    <2>5. CASE conn.batch = <<>>
      <3>1. NextSeq(conn) = conn.cursor /\ Elements(conn.batch) = {}
        BY <1>a, <2>5 DEF NextSeq
      <3>2. Elements(Sent) = Elements(got \o wire)
        BY <1>0, <3>1, SentParts
      <3> QED
        BY <1>0, <1>a, <2>1, <2>3, <2>4, <3>1, <3>2 DEF SentInv
    <2>6. CASE conn.batch # <<>>
      <3>1. NextSeq(conn) = LastOf(conn.batch) /\ LastOf(conn.batch) = LastOf(Sent)
        <4>1. got \o wire \in Seq(1..written)
          BY <2>2, ElementsOfConcat
        <4>2. Sent = (got \o wire) \o conn.batch
          BY DEF Sent
        <4>3. LastOf(Sent) = LastOf(conn.batch)
          BY <2>2, <2>6, <4>1, <4>2, ElementsOfConcat
        <4> QED
          BY <2>6, <4>3 DEF NextSeq
      <3>2. Sent # <<>>
        <4>1. Elements(conn.batch) # {}
          BY <2>2, <2>6, ElementsOf
        <4>2. Elements(Sent) # {}
          BY <1>0, <4>1, SentParts
        <4> QED
          BY <1>a, <4>2
      <3>3. LastOf(Sent) \in Elements(Sent) /\ \A q \in Elements(Sent) : q <= LastOf(Sent)
        BY <1>0, <2>3, <3>2, ElementsOf, EndsOfOrder DEF SentInv
      <3>4. \A p \in Elements(Sent), r \in rows :
              p <= r /\ r <= LastOf(Sent) => r \in Elements(Sent)
        BY <1>0, <3>3 DEF SentInv, Gapless
      <3> QED
        BY <1>0, <1>a, <2>1, <2>3, <2>4, <3>1, <3>3, <3>4 DEF SentInv
    <2> QED
      BY <2>5, <2>6
  <1>13. CASE Dispatch
    <2>1. /\ got' \o wire' = got \o wire
          /\ UNCHANGED <<rows, conn>>
      <3>1. got \in Seq(1..written) /\ wire \in Seq(1..written) /\ wire # <<>>
        BY <1>0, <1>13 DEF Dispatch, StreamTyped
      <3>2. Append(got, Head(wire)) \o Tail(wire) = got \o wire
        BY <3>1, HeadMoves
      <3> QED
        BY <1>13, <3>2 DEF Dispatch, feedVars
    <2> QED
      BY <1>0, <2>1 DEF SentInv, Sent, Serving
  <1>14. CreateWallet \/ FetchFirstPage \/ FetchNextPage => UNCHANGED <<rows, streamVars>>
    BY DEF CreateWallet, FetchFirstPage, FetchNextPage, feedVars
  <1>15. CASE StreamThrows
    <2>1. /\ UNCHANGED <<got, wire, rows>> /\ conn.batch = <<>> /\ conn'.batch = <<>> /\ ~Serving'
      BY <1>0, <1>1, <1>15 DEF StreamThrows, ResumeInv, StreamTyped, Serving, feedVars
    <2>2. Sent' = Sent
      BY <2>1 DEF Sent
    <2> QED
      BY <1>0, <2>1, <2>2 DEF SentInv
  <1>16. CASE DispatchError
    <2>1. Sent' = <<>> /\ ~Serving'
      BY <1>1, <1>16, <1>a DEF DispatchError, Sent, Serving
    <2> QED
      BY <1>a, <2>1 DEF SentInv, Gapless
  <1> QED
    BY <1>2, <1>3, <1>4, <1>5, <1>6, <1>7, <1>8, <1>9, <1>10, <1>11, <1>12, <1>13, <1>14, <1>15,
       <1>16
    DEF Next, ServerStep, BrowserStep

-----------------------------------------------------------------------------
(***************************************************************************)
(* The walk over the pages.                                                *)
(***************************************************************************)
LEMMA WalkStep ==
  ASSUME StreamInv, Next
  PROVE  WalkInv'
  <1>0. StreamTyped /\ WalkInv /\ written \in Nat
    BY StreamAssumption DEF StreamInv, StreamTyped
  <1>1. /\ pages \in Seq(1..written) /\ pages \in Seq(Int)
        /\ \A p \in Elements(pages) : p \in Int /\ p <= written
    <2>1. pages \in Seq(1..written) /\ 1..written \subseteq Int
      BY <1>0 DEF StreamTyped
    <2>2. Elements(pages) \in SUBSET (1..written)
      BY <2>1, ElementsOf
    <2> QED
      BY <1>0, <2>1, <2>2, SeqMonotonic
  <1>2. CASE UNCHANGED <<rows, pageVars>>
    BY <1>0, <1>2 DEF WalkInv, pageVars, Decreasing, Elements, LastOf
  <1>3. CASE ResetRows
    BY <1>0, <1>3 DEF ResetRows, WalkInv, pageVars
  <1>4. ASSUME NEW n \in 1..MaxRows, WriteRows(n) PROVE WalkInv'
    <2>1. \A r \in rows' : r \in rows \/ (r \in Int /\ r > written)
      BY <1>0, <1>4 DEF WriteRows
    <2>2. pages' = pages /\ before' = before
      BY <1>4 DEF WriteRows, pageVars
    <2>3. \A p \in Elements(pages), r \in rows' : r <= p => r \in rows
      BY <1>0, <1>1, <2>1
    <2> QED
      BY <1>0, <2>2, <2>3 DEF WalkInv
  <1>5. CASE FetchFirstPage
    <2> DEFINE p == ListForWallet(FirstPage)
    <2>1. FirstPage \in Int /\ \A r \in rows : r \in Int /\ r < FirstPage
      <3>1. \A r \in rows : r \in 1..written
        BY <1>0, FeedFinite
      <3>2. written <= MaxRows /\ MaxRows \in Nat
        BY <1>0, StreamAssumption DEF StreamTyped
      <3> QED
        BY <1>0, <3>1, <3>2 DEF FirstPage
    <2>2. /\ p \in Seq(1..written) /\ Decreasing(p)
          /\ \A r \in rows, q \in Elements(p) : r < FirstPage /\ q <= r => r \in Elements(p)
          /\ NextCursor(p) # LastPage => p # <<>> /\ NextCursor(p) = LastOf(p)
          /\ NextCursor(p) = LastPage => \A r \in rows : r < FirstPage => r \in Elements(p)
      BY <1>0, <2>1, PageRows
    <2>3. pages' = p /\ before' = NextCursor(p) /\ rows' = rows
      BY <1>5 DEF FetchFirstPage, feedVars
    <2> HIDE DEF p
    <2>4. NextCursor(p) # LastPage => NextCursor(p) \in Elements(p)
      BY <2>2, ElementsOf
    <2>5. \A r \in rows : NextCursor(p) = LastPage \/ NextCursor(p) <= r => r \in Elements(p)
      BY <2>1, <2>2, <2>4
    <2> QED
      BY <2>2, <2>3, <2>5 DEF WalkInv
  <1>6. CASE FetchNextPage
    <2> DEFINE p == ListForWallet(before)
    <2>1. /\ before # LastPage /\ pages # <<>> /\ before = LastOf(pages) /\ before \in Int
      BY <1>0, <1>6 DEF FetchNextPage, WalkInv, StreamTyped, LastPage
    <2>2. /\ p \in Seq(1..written) /\ Decreasing(p)
          /\ \A q \in Elements(p) : q \in rows /\ q < before
          /\ \A r \in rows, q \in Elements(p) : r < before /\ q <= r => r \in Elements(p)
          /\ NextCursor(p) # LastPage => p # <<>> /\ NextCursor(p) = LastOf(p)
          /\ NextCursor(p) = LastPage => \A r \in rows : r < before => r \in Elements(p)
      BY <1>0, <2>1, PageRows
    <2>3. pages' = pages \o p /\ before' = NextCursor(p) /\ rows' = rows
      BY <1>6 DEF FetchNextPage, feedVars
    <2> HIDE DEF p
    <2>4. p \in Seq(Int)
      <3>1. 1..written \subseteq Int
        OBVIOUS
      <3> QED
        BY <2>2, <3>1, SeqMonotonic
    <2>5. /\ Elements(pages \o p) = Elements(pages) \cup Elements(p)
          /\ p # <<>> => LastOf(pages \o p) = LastOf(p)
      BY <1>1, <2>4, ElementsOfConcat
    <2>6. \A x \in Elements(pages) : before <= x
      BY <1>0, <1>1, <2>1, EndsOfOrder DEF WalkInv
    <2>7. (\A r \in rows : r \in Int) /\ \A x \in Elements(p) : x \in Int
      BY <1>0, <2>2, FeedFinite
    <2>8. Decreasing(pages \o p)
      <3>1. \A x \in Elements(pages), y \in Elements(p) : x > y
        BY <1>1, <2>1, <2>2, <2>6, <2>7
      <3> QED
        BY <1>0, <1>1, <2>2, <2>4, <3>1, OrderOfConcat DEF WalkInv
    <2>9. NextCursor(p) # LastPage => pages \o p # <<>> /\ NextCursor(p) = LastOf(pages \o p)
      <3>1. p # <<>> => pages \o p # <<>>
        BY <1>1, <2>4, ConcatEqualIffEmpty
      <3> QED
        BY <2>2, <2>5, <3>1
    <2>10. NextCursor(p) # LastPage => NextCursor(p) \in Elements(p)
      BY <2>2, ElementsOf
    <2>11. ASSUME NEW a \in Elements(pages \o p), NEW r \in rows, r <= a,
                  NextCursor(p) = LastPage \/ NextCursor(p) <= r
           PROVE  r \in Elements(pages \o p)
      <3>1. CASE r < before
        BY <2>2, <2>5, <2>10, <2>11, <3>1
      <3>2. CASE before <= r
        <4>1. a \in Elements(pages)
          BY <2>1, <2>2, <2>5, <2>7, <2>11, <3>2
        <4> QED
          BY <1>0, <2>5, <2>11, <3>2, <4>1 DEF WalkInv
      <3> QED
        BY <2>1, <2>7, <3>1, <3>2
    <2> QED
      BY <2>3, <2>8, <2>9, <2>11 DEF WalkInv
  <1>7. Next => \/ UNCHANGED <<rows, pageVars>> \/ ResetRows
                \/ (\E n \in 1..MaxRows : WriteRows(n)) \/ FetchFirstPage \/ FetchNextPage
    BY DEF Next, ServerStep, BrowserStep, CreateWallet, Mount, Unmount, LoseConnection, FindWallet,
           ResolveStartingCursor, PollNewEvents, EmitBatch, Connect, Dispatch, StreamThrows, DispatchError,
           feedVars
  <1> QED
    BY <1>2, <1>3, <1>4, <1>5, <1>6, <1>7

-----------------------------------------------------------------------------
LEMMA InitStream == Init => StreamInv
  <1> SUFFICES ASSUME Init PROVE StreamInv
    OBVIOUS
  <1>1. <<>> \in Seq(1..written) /\ <<>> \in Seq(Int) /\ DOMAIN <<>> = {}
    BY EmptySeq
  <1>2. Sent = <<>> /\ Elements(<<>>) = {} /\ Increasing(<<>>) /\ Decreasing(<<>>)
    <2>1. <<>> \o <<>> = <<>>
      BY <1>1, ConcatEmptySeq
    <2> QED
      BY <1>1, <2>1 DEF Init, Sent, NoConn, Elements, Increasing, Decreasing
  <1>3. StreamTyped
    BY <1>1, StreamAssumption DEF Init, StreamTyped, NoConn, Seq0, Phases, Cursors
  <1>4. ResumeInv
    BY DEF Init, ResumeInv, NoConn, Serving
  <1>5. SentInv
    BY <1>2 DEF Init, SentInv, NoConn, Serving, Gapless
  <1>6. WalkInv
    BY <1>2 DEF Init, WalkInv
  <1> QED
    BY <1>3, <1>4, <1>5, <1>6 DEF StreamInv

LEMMA StreamStep == StreamInv /\ [Next]_vars => StreamInv'
  <1>1. ASSUME StreamInv, Next PROVE StreamInv'
    BY <1>1, StreamTypedStep, ResumeStep, SentStep, WalkStep DEF StreamInv
  <1>2. ASSUME StreamInv, UNCHANGED vars PROVE StreamInv'
    <2>1. UNCHANGED <<hasWallet, rows, written, source, got, conn, wire, pages, before>>
      BY <1>2 DEF vars, feedVars, streamVars, pageVars
    <2>2. StreamTyped'
      BY <1>2, <2>1 DEF StreamInv, StreamTyped, Cursors
    <2>3. ResumeInv'
      BY <1>2, <2>1 DEF StreamInv, ResumeInv, Serving
    <2>4. SentInv'
      BY <1>2, <2>1 DEF StreamInv, SentInv, Sent, Serving
    <2>5. WalkInv'
      BY <1>2, <2>1 DEF StreamInv, WalkInv
    <2> QED
      BY <2>2, <2>3, <2>4, <2>5 DEF StreamInv
  <1> QED
    BY <1>1, <1>2

LEMMA StreamInvariant == Spec => []StreamInv
  BY InitStream, StreamStep, PTL DEF Spec

\* The toasts come once each and in the order of the rows: a source that
\* connects again, with whatever was on the wire lost, is never sent a row at
\* or before its last event.  An error message makes an old row its last event
\* (streamForWallet catches nothing): the toasts from then on are in order too.
THEOREM ToastsInOrderAlways == Spec => []ToastsInOrder
  <1>1. StreamInv => ToastsInOrder
    <2> SUFFICES ASSUME StreamInv PROVE ToastsInOrder
      OBVIOUS
    <2>1. got \o wire \in Seq(Int) /\ conn.batch \in Seq(Int) /\ Increasing(Sent)
      BY SentParts DEF StreamInv, SentInv
    <2>2. Increasing(got \o wire)
      BY <2>1, OrderOfConcat DEF Sent
    <2> QED
      BY <2>1, <2>2, LenProperties DEF ToastsInOrder, Increasing
  <1> QED
    BY <1>1, StreamInvariant, PTL

\* A source that has had its first event misses none of the rows after it, up
\* to the last one sent and up to the server's cursor.
THEOREM NothingIsSkippedAlways == Spec => []NothingIsSkipped
  <1>1. StreamInv => NothingIsSkipped
    <2> SUFFICES ASSUME StreamInv, got # <<>>, NEW r \in rows
                 PROVE  /\ got[1] <= r /\ r <= LastOf(Sent) => r \in Elements(Sent)
                        /\ Serving /\ got[1] <= r /\ r <= conn.cursor => r \in Elements(Sent)
      BY DEF NothingIsSkipped, Sent, Serving
    <2>1. /\ got \in Seq(1..written) /\ Sent \in Seq(1..written)
          /\ Elements(got) \in SUBSET Elements(Sent)
      BY SentParts DEF StreamInv, StreamTyped
    <2>2. got[1] \in Elements(Sent)
      BY <2>1, ElementsOf
    <2>3. LastOf(Sent) \in Elements(Sent)
      BY <2>1, <2>2, ElementsOf
    <2> QED
      BY <2>2, <2>3 DEF StreamInv, SentInv, Gapless
  <1> QED
    BY <1>1, StreamInvariant, PTL

\* A walk over the pages has each row once, newest first, and leaves out none
\* of those between its first row and the cursor of its next page.
THEOREM PagesMissNothingAlways == Spec => []PagesMissNothing
  <1>1. StreamInv => PagesMissNothing
    <2> SUFFICES ASSUME StreamInv PROVE PagesMissNothing
      OBVIOUS
    <2>1. pages \in Seq(1..written)
      BY DEF StreamInv, StreamTyped
    <2>2. DOMAIN pages = 1..Len(pages) /\ (pages # <<>> => pages[1] \in Elements(pages))
      BY <2>1, LenProperties, ElementsOf
    <2>3. before \in Int /\ \A r \in rows : r \in Int
      BY FeedFinite DEF StreamInv, StreamTyped, LastPage
    <2>4. \A r \in rows : r >= before => before <= r
      BY <2>3
    <2> QED
      BY <2>2, <2>4 DEF PagesMissNothing, StreamInv, WalkInv, Decreasing
  <1> QED
    BY <1>1, StreamInvariant, PTL

-----------------------------------------------------------------------------
(***************************************************************************)
(* The pages on which the owner signs.                                     *)
(***************************************************************************)

-----------------------------------------------------------------------------
(***************************************************************************)
(* Types.                                                                  *)
(***************************************************************************)
Draft == [click : Nat \ {0}, agent : Agents \cup {Nobody}, terms : Terms]
Calls == Draft \cup {"id"} \cup BOOLEAN
AskedSteps == {"asking", "sent", "success", "reverted", "declined", "lost"}
Asked == [step : AskedSteps, call : Calls, by : {"click", "effect"}]

Wallets == [wallet : BOOLEAN, hired : SUBSET (Agents \cup {Nobody}),
            frozen : BOOLEAN, proposal : {"NONE", "PENDING", "APPROVED", "DENIED"}]

Txs == [kind : {"create", "hire"}, call : Draft]
         \cup [kind : {"approve", "deny"}, call : {"id"}]
         \cup [kind : {"freeze"}, call : BOOLEAN]

Hires == [draft : Draft, heard : BOOLEAN]
Decisions == [kind : {"approve", "deny"}, heard : BOOLEAN]

TabTyped ==
  /\ page \in Pages /\ chain \in Wallets /\ db \in Wallets /\ pool \subseteq Txs
  /\ writes \in [Hooks -> {Idle} \cup Asked]
  /\ \A h \in {"create", "hire"} : writes[h] # Idle => writes[h].call \in Draft
  /\ writes["deny"] # Idle => writes["deny"].call = "id"
  /\ writes["freeze"] # Idle => writes["freeze"].call \in BOOLEAN

HireTyped ==
  /\ form \in [step : Nat, agent : Agents \cup {Nobody}, terms : Terms]
  /\ pending \in {NoDraft} \cup Draft
  /\ message \in [text : {"none", "created", "rejected"}, click : Nat]
  /\ confirmed \in Seq(Draft) /\ hires \in Seq(Hires)

SheetTyped ==
  /\ ledger \in Flying \cup {"idle", "success", "error"}
  /\ denied \in BOOLEAN /\ decisions \in Seq(Decisions)

FileTyped ==
  /\ file \in [state : {"loading", "policy", "unhired", "failed"}, frozen : BOOLEAN]
  /\ notToggled \in BOOLEAN

PagesTyped == TabTyped /\ HireTyped /\ SheetTyped /\ FileTyped

-----------------------------------------------------------------------------
(***************************************************************************)
(* The inductive invariant.                                                *)
(***************************************************************************)
Asking(h) == writes[h].step = "asking"
CallOf(h) == writes[h].call

Confirmed(drafts, d) == d.click \in DOMAIN drafts /\ drafts[d.click] = d
NotHired(sent, click) == \A i \in DOMAIN sent : sent[i].draft.click # click
NotHeard(sent, click) == \A i \in DOMAIN sent : sent[i].heard => sent[i].draft.click # click

\* A draft is in one place: kept for the time after the creation, with the
\* prompt for the creation, with the prompt for the hire, or hired.
DraftsInv ==
  /\ \A i \in DOMAIN confirmed : confirmed[i].click = i
  /\ \A i \in DOMAIN hires : Confirmed(confirmed, hires[i].draft)
  /\ \A i, j \in DOMAIN hires : hires[i].draft.click = hires[j].draft.click => i = j
  /\ pending # NoDraft => Confirmed(confirmed, pending) /\ NotHired(hires, pending.click)
  /\ Asking("hire") =>
       /\ Confirmed(confirmed, CallOf("hire")) /\ NotHired(hires, CallOf("hire").click)
       /\ pending # NoDraft => pending.click # CallOf("hire").click
  /\ Asking("create") =>
       /\ Confirmed(confirmed, CallOf("create")) /\ NotHired(hires, CallOf("create").click)
       /\ Asking("hire") => CallOf("hire").click # CallOf("create").click

\* What the message is about is not hired, as far as the page has heard, nor
\* about to be; the effect asks for a hire once the wallet is on the chain,
\* and a wallet stays there.
MessageInv ==
  /\ message.text = "created" => chain.wallet
  /\ NotHeard(hires, message.click)
  /\ pending # NoDraft => pending.click # message.click
  /\ Asking("hire") => CallOf("hire").click # message.click
  /\ IsSuccess("create") => chain.wallet
  /\ writes["hire"] # Idle /\ writes["hire"].by = "effect" => chain.wallet

\* A decision is under way on one of the two hooks; after an approval the
\* page has heard of the buttons are gone, after such a denial the page is.
Heard(kind) == \E i \in DOMAIN decisions : decisions[i].heard /\ decisions[i].kind = kind

DecisionInv ==
  /\ \A i \in DOMAIN decisions : decisions[i].heard => i = Len(decisions)
  /\ Heard("approve") => ledger = "success"
  /\ Asking("deny") =>
       ~ApproveInFlight /\ ledger # "success" /\ ~denied /\ ~Heard("deny")
  /\ Heard("deny") =>
       ~OnSheet /\ ~ApproveInFlight /\ ledger # "success" /\ ~denied

FreezeInv == notToggled => writes["freeze"].step = "declined"

PagesInv == PagesTyped /\ DraftsInv /\ MessageInv /\ DecisionInv /\ FreezeInv

-----------------------------------------------------------------------------
(***************************************************************************)
(* The types hold.                                                         *)
(***************************************************************************)
LEMMA AskTyped ==
  ASSUME TabTyped, NEW h \in Hooks, NEW call \in Calls, NEW by \in {"click", "effect"},
         h \in {"create", "hire"} => call \in Draft,
         h = "deny" => call = "id",
         h = "freeze" => call \in BOOLEAN,
         Ask(h, call, by)
  PROVE  /\ writes' \in [Hooks -> {Idle} \cup Asked]
         /\ \A g \in {"create", "hire"} : writes'[g] # Idle => writes'[g].call \in Draft
         /\ writes'["deny"] # Idle => writes'["deny"].call = "id"
         /\ writes'["freeze"] # Idle => writes'["freeze"].call \in BOOLEAN
  <1>1. [step |-> "asking", call |-> call, by |-> by] \in Asked
    BY DEF Asked, AskedSteps
  <1>2. writes' = [writes EXCEPT ![h] = [step |-> "asking", call |-> call, by |-> by]]
    BY DEF Ask
  <1> QED
    BY <1>1, <1>2 DEF TabTyped, Hooks

\* A hook whose step moves on keeps its call and its asker.
LEMMA MovedTyped ==
  ASSUME TabTyped, writes' \in [Hooks -> {Idle} \cup Asked],
         \A h \in Hooks :
           \/ writes'[h] = writes[h]
           \/ writes[h] # Idle /\ writes'[h] # Idle /\ writes'[h].call = writes[h].call
  PROVE  /\ \A g \in {"create", "hire"} : writes'[g] # Idle => writes'[g].call \in Draft
         /\ writes'["deny"] # Idle => writes'["deny"].call = "id"
         /\ writes'["freeze"] # Idle => writes'["freeze"].call \in BOOLEAN
BY DEF TabTyped, Hooks

LEMMA MoveTyped ==
  ASSUME TabTyped, NEW s \in AskedSteps, NEW h \in Hooks, writes[h].step # "idle",
         writes' = [writes EXCEPT ![h].step = s]
  PROVE  /\ writes' \in [Hooks -> {Idle} \cup Asked]
         /\ writes[h] # Idle /\ writes'[h].step = s
         /\ writes'[h].call = writes[h].call /\ writes'[h].by = writes[h].by
         /\ \A g \in Hooks \ {h} : writes'[g] = writes[g]
         /\ \A g \in Hooks :
              \/ writes'[g] = writes[g]
              \/ /\ g = h /\ writes[g] # Idle /\ writes'[g] # Idle /\ writes'[g].step = s
                 /\ writes'[g].call = writes[g].call /\ writes'[g].by = writes[g].by
  <1>1. writes[h] \in Asked
    BY DEF TabTyped, Idle
  <1>2. [writes[h] EXCEPT !.step = s] \in Asked
    BY <1>1 DEF Asked
  <1>3. writes' = [writes EXCEPT ![h] = [writes[h] EXCEPT !.step = s]]
    BY DEF TabTyped
  <1>4. /\ [writes[h] EXCEPT !.step = s].call = writes[h].call
        /\ [writes[h] EXCEPT !.step = s].by = writes[h].by
        /\ [writes[h] EXCEPT !.step = s].step = s
    BY <1>1 DEF Asked
  <1>5. \A w \in Asked : w # Idle
    BY DEF Asked, AskedSteps, Idle
  <1> QED
    BY <1>1, <1>2, <1>3, <1>4, <1>5 DEF TabTyped

\* A step of one dialog: nothing else of its hook, nothing of the other's.
LEMMA CreateMoves ==
  ASSUME TabTyped, NEW s \in AskedSteps, writes["create"].step # "idle",
         writes' = [writes EXCEPT !["create"].step = s]
  PROVE  writes'["create"].step = s /\ writes'["hire"] = writes["hire"]
  <1>1. "create" \in Hooks /\ "hire" \in Hooks \ {"create"}
    BY DEF Hooks
  <1> QED
    BY <1>1, MoveTyped, ZenonT(30)

LEMMA HireMoves ==
  ASSUME TabTyped, NEW s \in AskedSteps, writes["hire"].step # "idle",
         writes' = [writes EXCEPT !["hire"].step = s]
  PROVE  /\ writes'["hire"].step = s /\ writes'["hire"].by = writes["hire"].by
         /\ writes["hire"] # Idle /\ writes'["create"] = writes["create"]
  <1>1. "hire" \in Hooks /\ "create" \in Hooks \ {"hire"}
    BY DEF Hooks
  <1> QED
    BY <1>1, MoveTyped, ZenonT(30)

LEMMA ReceiptTyped ==
  ASSUME TabTyped, NEW tx, NEW s \in AskedSteps, Receipt(tx, s)
  PROVE  /\ writes' \in [Hooks -> {Idle} \cup Asked]
         /\ \A g \in Hooks :
              \/ writes'[g] = writes[g]
              \/ /\ g = tx.kind /\ writes[g] # Idle /\ writes'[g] # Idle
                 /\ writes[g].step = "sent" /\ writes'[g].step = s
                 /\ writes'[g].call = writes[g].call /\ writes'[g].by = writes[g].by
  <1>1. SUFFICES ASSUME NEW g \in Hooks, Follows(g, tx)
                 PROVE  /\ writes[g] \in Asked /\ [writes[g] EXCEPT !.step = s] \in Asked
                        /\ [writes[g] EXCEPT !.step = s].call = writes[g].call
                        /\ [writes[g] EXCEPT !.step = s].by = writes[g].by
                        /\ [writes[g] EXCEPT !.step = s].step = s
    <2>1. \A w \in Asked : w # Idle
      BY DEF Asked, AskedSteps, Idle
    <2>2. writes' = [h \in Hooks |-> IF Follows(h, tx) THEN [writes[h] EXCEPT !.step = s]
                                     ELSE writes[h]]
      BY DEF Receipt
    <2>3. \A g \in Hooks : Follows(g, tx) => g = tx.kind /\ writes[g].step = "sent"
      BY DEF Follows
    <2> QED
      BY <1>1, <2>1, <2>2, <2>3 DEF TabTyped
  <1>2. writes[g] \in Asked
    BY <1>1 DEF TabTyped, Idle, Follows
  <1> QED
    BY <1>2 DEF Asked

\* What any step outside the pages does: nothing is asked, nothing goes
\* back to idle, a wallet stays, and a creation that succeeds leaves one.
TabKeeps ==
  /\ page' = page
  /\ chain.wallet => chain'.wallet
  /\ \A h \in Hooks :
       \/ writes'[h] = writes[h]
       \/ /\ writes[h] # Idle /\ writes'[h] # Idle
          /\ writes[h].step = "sent" /\ writes'[h].step \in {"success", "reverted", "lost"}
          /\ writes'[h].call = writes[h].call /\ writes'[h].by = writes[h].by
  /\ IsSuccess("create")' => IsSuccess("create") \/ chain'.wallet

LEMMA AfterTyped ==
  ASSUME chain \in Wallets, NEW tx \in Txs
  PROVE  /\ After(tx) \in Wallets
         /\ chain.wallet => After(tx).wallet
         /\ tx.kind = "create" => After(tx).wallet
  <1>1. CASE tx.kind = "create"
    BY <1>1 DEF After, Wallets
  <1>2. CASE tx.kind = "hire"
    <2>1. tx.call.agent \in Agents \cup {Nobody}
      BY <1>2 DEF Txs, Draft
    <2> QED
      BY <1>2, <2>1 DEF After, Wallets
  <1>3. CASE tx.kind = "approve"
    BY <1>3 DEF After, Wallets
  <1>4. CASE tx.kind = "deny"
    BY <1>4 DEF After, Wallets
  <1>5. CASE tx.kind = "freeze"
    <2>1. tx.call \in BOOLEAN
      BY <1>5 DEF Txs
    <2> QED
      BY <1>5, <2>1 DEF After, Wallets
  <1> QED
    BY <1>1, <1>2, <1>3, <1>4, <1>5 DEF Txs

LEMMA TabStep ==
  ASSUME TabTyped, TabNext
  PROVE  TabTyped' /\ TabKeeps
  <1>1. CASE Elsewhere
    <2>1. \A kind \in {"create", "deny", "freeze"} :
            /\ After([kind |-> kind, call |-> ~chain.frozen]) \in Wallets
            /\ chain.wallet => After([kind |-> kind, call |-> ~chain.frozen]).wallet
      BY DEF After, Wallets, TabTyped
    <2> QED
      BY <1>1, <2>1 DEF Elsewhere, TabTyped, TabKeeps, Hooks, IsSuccess
  <1>2. CASE Index \/ ResolveWallet \/ RefocusWallet \/ WalletReadFails
    BY <1>2 DEF Index, ResolveWallet, RefocusWallet, WalletReadFails, ReadWallet,
                TabTyped, TabKeeps, Hooks, IsSuccess
  <1>3. CASE \E h \in Hooks : LoseReceipt(h)
    <2>1. PICK h \in Hooks : LoseReceipt(h)
      BY <1>3
    <2>2. /\ writes' \in [Hooks -> {Idle} \cup Asked]
          /\ \A g \in Hooks :
               \/ writes'[g] = writes[g]
               \/ /\ g = h /\ writes[g] # Idle /\ writes'[g] # Idle /\ writes'[g].step = "lost"
                  /\ writes'[g].call = writes[g].call /\ writes'[g].by = writes[g].by
      <3>1. "lost" \in AskedSteps /\ writes[h].step # "idle"
            /\ writes' = [writes EXCEPT ![h].step = "lost"]
        BY <2>1 DEF LoseReceipt, AskedSteps
      <3> QED
        BY <3>1, MoveTyped
    <2>3. /\ \A g \in {"create", "hire"} : writes'[g] # Idle => writes'[g].call \in Draft
          /\ writes'["deny"] # Idle => writes'["deny"].call = "id"
          /\ writes'["freeze"] # Idle => writes'["freeze"].call \in BOOLEAN
      BY <2>2, MovedTyped
    <2>4. TabKeeps
      BY <2>1, <2>2 DEF LoseReceipt, TabKeeps, Hooks, IsSuccess
    <2> QED
      BY <2>1, <2>2, <2>3, <2>4 DEF LoseReceipt, TabTyped
  <1>4. CASE \E tx \in pool : Mine(tx)
    <2>1. PICK tx \in pool : Mine(tx)
      BY <1>4
    <2>2. tx \in Txs /\ chain \in Wallets
      BY DEF TabTyped
    <2>3. page' = page /\ db' = db /\ pool' = pool \ {tx}
      BY <2>1 DEF Mine
    <2>4. CASE UNCHANGED <<chain, writes>>
      BY <2>3, <2>4 DEF TabTyped, TabKeeps, Hooks, IsSuccess
    <2>5. ASSUME NEW s \in {"success", "reverted"}, Receipt(tx, s),
                 chain' \in Wallets, chain.wallet => chain'.wallet,
                 s = "success" /\ tx.kind = "create" => chain'.wallet
          PROVE  TabTyped' /\ TabKeeps
      <3>1. /\ writes' \in [Hooks -> {Idle} \cup Asked]
            /\ \A g \in Hooks :
                 \/ writes'[g] = writes[g]
                 \/ /\ g = tx.kind /\ writes[g] # Idle /\ writes'[g] # Idle
                    /\ writes[g].step = "sent" /\ writes'[g].step = s
                    /\ writes'[g].call = writes[g].call /\ writes'[g].by = writes[g].by
        BY <2>5, ReceiptTyped DEF AskedSteps
      <3>2. /\ \A g \in {"create", "hire"} : writes'[g] # Idle => writes'[g].call \in Draft
            /\ writes'["deny"] # Idle => writes'["deny"].call = "id"
            /\ writes'["freeze"] # Idle => writes'["freeze"].call \in BOOLEAN
        BY <3>1, MovedTyped
      <3>3. IsSuccess("create")' => IsSuccess("create") \/ chain'.wallet
        <4>1. "create" \in Hooks
          BY DEF Hooks
        <4> QED
          BY <3>1, <4>1, <2>5 DEF IsSuccess
      <3>4. TabKeeps
        BY <2>3, <2>5, <3>1, <3>3 DEF TabKeeps
      <3>5. page' \in Pages /\ chain' \in Wallets /\ db' \in Wallets /\ pool' \subseteq Txs
        BY <2>3, <2>5 DEF TabTyped
      <3>6. TabTyped'
        BY <3>1, <3>2, <3>5 DEF TabTyped
      <3> QED
        BY <3>4, <3>6
    <2>6. CASE Passes(tx.kind) /\ chain' = After(tx) /\ Receipt(tx, "success")
      BY <2>2, <2>5, <2>6, AfterTyped
    <2>7. CASE ~Passes(tx.kind) /\ Receipt(tx, "reverted") /\ UNCHANGED chain
      BY <2>2, <2>5, <2>7
    <2> QED
      BY <2>1, <2>4, <2>6, <2>7 DEF Mine
  <1> QED
    BY <1>1, <1>2, <1>3, <1>4 DEF TabNext

LEMMA HireTypedStep ==
  ASSUME TabTyped, HireTyped, HireNext
  PROVE  TabTyped' /\ HireTyped'
  <1>1. Hooks = {"create", "hire", "deny", "freeze"} /\ Draft \subseteq Calls
    BY DEF Hooks, Calls
  <1>2. CASE LoadCatalog \/ LoadAgents \/ ListFails \/ PollAgents \/ NextStep \/ BackStep
             \/ (\E a \in Agents : PickAgent(a)) \/ (\E t \in Terms : ChangeTerms(t))
    <2>1. UNCHANGED <<page, chain, db, pool, writes, pending, message, confirmed, hires>>
      BY <1>2 DEF LoadCatalog, LoadAgents, ListFails, PollAgents, NextStep, BackStep,
                  PickAgent, ChangeTerms, tab, sheetless
    <2>2. form' \in [step : Nat, agent : Agents \cup {Nobody}, terms : Terms]
      BY <1>2 DEF LoadCatalog, LoadAgents, ListFails, PollAgents, NextStep, BackStep,
                  PickAgent, ChangeTerms, tab, HireTyped
    <2> QED
      BY <2>1, <2>2 DEF TabTyped, HireTyped
  <1>3. CASE HandleConfirm
    <2>1. DraftOfForm(Len(confirmed) + 1) \in Draft
      BY DEF DraftOfForm, Draft, HireTyped
    <2> DEFINE draft == DraftOfForm(Len(confirmed) + 1)
    <2> HIDE DEF draft
    <2>2. draft \in Draft
      BY <2>1 DEF draft
    <2>3. /\ UNCHANGED <<page, chain, db, pool, form, hires>>
          /\ message' = NoMessage /\ confirmed' = Append(confirmed, draft)
          /\ \/ Ask("hire", draft, "click") /\ UNCHANGED pending
             \/ Ask("create", draft, "click") /\ pending' = draft
      BY <1>3 DEF HandleConfirm, sheetless, draft
    <2>4. TabTyped'
      <3>1. /\ writes' \in [Hooks -> {Idle} \cup Asked]
            /\ \A g \in {"create", "hire"} : writes'[g] # Idle => writes'[g].call \in Draft
            /\ writes'["deny"] # Idle => writes'["deny"].call = "id"
            /\ writes'["freeze"] # Idle => writes'["freeze"].call \in BOOLEAN
        BY <1>1, <2>2, <2>3, AskTyped
      <3> QED
        BY <2>3, <3>1 DEF TabTyped
    <2>5. HireTyped'
      <3>1. confirmed' \in Seq(Draft) /\ pending' \in {NoDraft} \cup Draft
        BY <2>2, <2>3, AppendProperties DEF HireTyped
      <3>2. message' \in [text : {"none", "created", "rejected"}, click : Nat]
        BY <2>3 DEF NoMessage
      <3> QED
        BY <2>3, <3>1, <3>2 DEF HireTyped
    <2> QED
      BY <2>4, <2>5
  <1>4. CASE ChainIntoHire
    <2>1. pending \in Draft /\ Ask("hire", pending, "effect") /\ pending' = NoDraft
          /\ UNCHANGED <<page, chain, db, pool, form, message, confirmed, hires>>
      BY <1>4 DEF ChainIntoHire, sheetless, HireTyped
    <2>2. /\ writes' \in [Hooks -> {Idle} \cup Asked]
          /\ \A g \in {"create", "hire"} : writes'[g] # Idle => writes'[g].call \in Draft
          /\ writes'["deny"] # Idle => writes'["deny"].call = "id"
          /\ writes'["freeze"] # Idle => writes'["freeze"].call \in BOOLEAN
      BY <1>1, <2>1, AskTyped
    <2> QED
      BY <2>1, <2>2 DEF TabTyped, HireTyped
  <1>5. ASSUME NEW h \in {"create", "hire"}, NEW s \in {"sent", "declined"},
               writes[h].step = "asking", writes' = [writes EXCEPT ![h].step = s]
        PROVE  /\ writes' \in [Hooks -> {Idle} \cup Asked]
               /\ \A g \in {"create", "hire"} : writes'[g] # Idle => writes'[g].call \in Draft
               /\ writes'["deny"] # Idle => writes'["deny"].call = "id"
               /\ writes'["freeze"] # Idle => writes'["freeze"].call \in BOOLEAN
               /\ writes[h].call \in Draft
    <2>1. h \in Hooks /\ s \in AskedSteps /\ writes[h].step # "idle"
      BY <1>5 DEF Hooks, AskedSteps
    <2>2. /\ writes' \in [Hooks -> {Idle} \cup Asked]
          /\ \A g \in Hooks :
               \/ writes'[g] = writes[g]
               \/ /\ g = h /\ writes[g] # Idle /\ writes'[g] # Idle /\ writes'[g].step = s
                  /\ writes'[g].call = writes[g].call /\ writes'[g].by = writes[g].by
      BY <1>5, <2>1, MoveTyped
    <2>3. writes[h].call \in Draft
      BY <2>1 DEF TabTyped, Idle
    <2>4. /\ \A g \in {"create", "hire"} : writes'[g] # Idle => writes'[g].call \in Draft
          /\ writes'["deny"] # Idle => writes'["deny"].call = "id"
          /\ writes'["freeze"] # Idle => writes'["freeze"].call \in BOOLEAN
      BY <2>2, MovedTyped
    <2> QED
      BY <2>2, <2>3, <2>4
  <1>6. \A c \in Draft : [kind |-> "create", call |-> c] \in Txs /\ [kind |-> "hire", call |-> c] \in Txs
    BY DEF Txs
  <1>7. CASE SignCreate
    <2>1. /\ writes["create"].step = "asking"
          /\ writes' = [writes EXCEPT !["create"].step = "sent"]
          /\ pool' = pool \cup {[kind |-> "create", call |-> writes["create"].call]}
          /\ UNCHANGED <<page, chain, db, form, pending, message, confirmed, hires>>
      BY <1>7 DEF SignCreate, Signs, Sends, sheetless, hireVars
    <2> QED
      BY <1>5, <1>6, <2>1 DEF TabTyped, HireTyped
  <1>8. ASSUME NEW heard \in BOOLEAN, writes["hire"].call \in Draft, SentHire(heard)
        PROVE  hires' \in Seq(Hires)
    <2> DEFINE new == [draft |-> writes["hire"].call, heard |-> heard]
    <2>1. new \in Hires
      BY <1>8 DEF Hires
    <2>2. hires' = Append(hires, new)
      BY <1>8 DEF SentHire
    <2> HIDE DEF new
    <2> QED
      BY <2>1, <2>2, AppendProperties DEF HireTyped
  <1>9. CASE SignHire
    <2>1. /\ writes["hire"].step = "asking"
          /\ writes' = [writes EXCEPT !["hire"].step = "sent"]
          /\ pool' = pool \cup {[kind |-> "hire", call |-> writes["hire"].call]}
          /\ SentHire(TRUE)
          /\ UNCHANGED <<page, chain, db, form, pending, message, confirmed>>
      BY <1>9 DEF SignHire, Signs, Sends, sheetless
    <2>2. writes["hire"].call \in Draft
      BY <1>5, <2>1
    <2>3. hires' \in Seq(Hires)
      BY <1>8, <2>1, <2>2
    <2> QED
      BY <1>5, <1>6, <2>1, <2>2, <2>3 DEF TabTyped, HireTyped
  <1>11. CASE DeclineCreate \/ DeclineHire
    <2>1. PICK h \in {"create", "hire"} :
            /\ writes[h].step = "asking" /\ writes' = [writes EXCEPT ![h].step = "declined"]
            /\ pool' \in {pool, pool \cup {[kind |-> h, call |-> writes[h].call]}}
            /\ UNCHANGED hires \/ (h = "hire" /\ SentHire(FALSE))
            /\ message' \in {[text |-> "created", click |-> writes[h].call.click],
                             [text |-> "rejected", click |-> writes[h].call.click]}
            /\ pending' \in {pending, NoDraft}
            /\ UNCHANGED <<page, chain, db, form, confirmed>>
      <3>1. CASE DeclineCreate
        BY <3>1 DEF DeclineCreate, Declines, AnswerLost, Throws, Sends, Rejected, sheetless
      <3>2. CASE DeclineHire
        <4>1. /\ writes["hire"].step = "asking"
              /\ writes' = [writes EXCEPT !["hire"].step = "declined"]
              /\ pool' \in {pool, pool \cup {[kind |-> "hire", call |-> writes["hire"].call]}}
              /\ UNCHANGED hires \/ SentHire(FALSE)
          BY <3>2 DEF DeclineHire, Declines, AnswerLost, Throws, Sends
        <4>2. /\ message' \in {[text |-> "created", click |-> writes["hire"].call.click],
                               [text |-> "rejected", click |-> writes["hire"].call.click]}
              /\ pending' \in {pending, NoDraft}
              /\ UNCHANGED <<page, chain, db, form, confirmed>>
          BY <3>2 DEF DeclineHire, HireRejected, Rejected, sheetless
        <4> QED
          BY <4>1, <4>2
      <3> QED
        BY <1>11, <3>1, <3>2
    <2>2. writes[h].call \in Draft
      BY <1>5, <2>1
    <2>3. message' \in [text : {"none", "created", "rejected"}, click : Nat]
      BY <2>1, <2>2 DEF Draft
    <2>4. hires' \in Seq(Hires)
      BY <1>8, <2>1, <2>2 DEF HireTyped
    <2>5. pool' \subseteq Txs
      BY <1>6, <2>1, <2>2 DEF TabTyped
    <2>6. HireTyped'
      BY <2>1, <2>3, <2>4 DEF HireTyped
    <2> QED
      BY <1>5, <2>1, <2>5, <2>6 DEF TabTyped
  <1>10. CASE LeaveHire
    BY <1>10 DEF LeaveHire, Leave, hireVars, TabTyped, HireTyped, Pages
  <1> QED
    BY <1>2, <1>3, <1>4, <1>7, <1>9, <1>10, <1>11 DEF HireNext

LEMMA SheetTypedStep ==
  ASSUME TabTyped, SheetTyped, SheetNext
  PROVE  TabTyped' /\ SheetTyped'
  <1>1. Hooks = {"create", "hire", "deny", "freeze"} /\ "id" \in Calls
    BY DEF Hooks, Calls
  <1>2. ASSUME NEW s \in {"sent", "declined"},
               writes["deny"].step = "asking", writes' = [writes EXCEPT !["deny"].step = s]
        PROVE  /\ writes' \in [Hooks -> {Idle} \cup Asked]
               /\ \A g \in {"create", "hire"} : writes'[g] # Idle => writes'[g].call \in Draft
               /\ writes'["deny"] # Idle => writes'["deny"].call = "id"
               /\ writes'["freeze"] # Idle => writes'["freeze"].call \in BOOLEAN
               /\ writes["deny"].call = "id"
    <2>1. "deny" \in Hooks /\ s \in AskedSteps /\ writes["deny"].step # "idle"
      BY <1>2 DEF Hooks, AskedSteps
    <2>2. /\ writes' \in [Hooks -> {Idle} \cup Asked]
          /\ \A g \in Hooks :
               \/ writes'[g] = writes[g]
               \/ /\ g = "deny" /\ writes[g] # Idle /\ writes'[g] # Idle /\ writes'[g].step = s
                  /\ writes'[g].call = writes[g].call /\ writes'[g].by = writes[g].by
      BY <1>2, <2>1, MoveTyped
    <2>3. writes["deny"].call = "id"
      BY <2>1 DEF TabTyped, Idle
    <2>4. /\ \A g \in {"create", "hire"} : writes'[g] # Idle => writes'[g].call \in Draft
          /\ writes'["deny"] # Idle => writes'["deny"].call = "id"
          /\ writes'["freeze"] # Idle => writes'["freeze"].call \in BOOLEAN
      BY <2>2, MovedTyped
    <2> QED
      BY <2>2, <2>3, <2>4
  <1>3. [kind |-> "approve", call |-> "id"] \in Txs /\ [kind |-> "deny", call |-> "id"] \in Txs
    BY DEF Txs
  <1>4. CASE LoadApproval \/ ApprovalFails
    BY <1>4 DEF LoadApproval, ApprovalFails, tab, TabTyped, SheetTyped
  <1>5. CASE HandleDeny
    <2>1. /\ writes' \in [Hooks -> {Idle} \cup Asked]
          /\ \A g \in {"create", "hire"} : writes'[g] # Idle => writes'[g].call \in Draft
          /\ writes'["deny"] # Idle => writes'["deny"].call = "id"
          /\ writes'["freeze"] # Idle => writes'["freeze"].call \in BOOLEAN
      BY <1>1, <1>5, AskTyped DEF HandleDeny
    <2> QED
      BY <1>5, <2>1 DEF HandleDeny, TabTyped, SheetTyped
  <1>11. ASSUME NEW kind \in {"approve", "deny"}, NEW heard \in BOOLEAN, Decided(kind, heard)
         PROVE  decisions' \in Seq(Decisions)
    <2> DEFINE new == [kind |-> kind, heard |-> heard]
    <2>1. new \in Decisions
      BY DEF Decisions
    <2>2. decisions' = Append(decisions, new)
      BY <1>11 DEF Decided
    <2> HIDE DEF new
    <2> QED
      BY <2>1, <2>2, AppendProperties DEF SheetTyped
  <1>6. CASE SignDeny
    <2>1. /\ writes["deny"].step = "asking"
          /\ writes' = [writes EXCEPT !["deny"].step = "sent"]
          /\ pool' = pool \cup {[kind |-> "deny", call |-> writes["deny"].call]}
          /\ page' = "left" /\ Decided("deny", TRUE)
          /\ UNCHANGED <<chain, db, ledger, denied>>
      BY <1>6 DEF SignDeny, Signs, Sends, Leave
    <2>2. decisions' \in Seq(Decisions)
      BY <1>11, <2>1
    <2> QED
      BY <1>2, <1>3, <2>1, <2>2 DEF TabTyped, SheetTyped, Pages
  <1>7. CASE DeclineDeny
    <2>1. /\ writes["deny"].step = "asking"
          /\ writes' = [writes EXCEPT !["deny"].step = "declined"]
          /\ pool' \in {pool, pool \cup {[kind |-> "deny", call |-> writes["deny"].call]}}
          /\ UNCHANGED decisions \/ Decided("deny", FALSE)
          /\ denied' = TRUE /\ UNCHANGED <<page, chain, db, ledger>>
      BY <1>7 DEF DeclineDeny, Declines, AnswerLost, Throws, Sends
    <2>2. decisions' \in Seq(Decisions)
      BY <1>11, <2>1 DEF SheetTyped
    <2>3. pool' \subseteq Txs
      BY <1>2, <1>3, <2>1 DEF TabTyped
    <2> QED
      BY <1>2, <2>1, <2>2, <2>3 DEF TabTyped, SheetTyped
  <1>8. CASE HandleApprove \/ ConnectLedger \/ MatchAndPrepare \/ SignOnDevice \/ LedgerFails
    BY <1>8 DEF HandleApprove, ConnectLedger, MatchAndPrepare, SignOnDevice, LedgerFails,
                LedgerStep, Flying, tab, TabTyped, SheetTyped
  <1>9. CASE Broadcast \/ BroadcastLost
    <2>1. /\ pool' = pool \cup {[kind |-> "approve", call |-> "id"]}
          /\ \E heard \in BOOLEAN : Decided("approve", heard)
          /\ ledger' \in {"success", "error"}
          /\ UNCHANGED <<page, chain, db, writes, denied>>
      BY <1>9 DEF Broadcast, BroadcastLost, SendApproval
    <2>2. decisions' \in Seq(Decisions)
      BY <1>11, <2>1
    <2> QED
      BY <1>3, <2>1, <2>2 DEF TabTyped, SheetTyped
  <1>10. CASE LeaveSheet
    BY <1>10 DEF LeaveSheet, Leave, sheetVars, TabTyped, SheetTyped, Pages
  <1> QED
    BY <1>4, <1>5, <1>6, <1>7, <1>8, <1>9, <1>10 DEF SheetNext

LEMMA FileTypedStep ==
  ASSUME TabTyped, FileTyped, FileNext
  PROVE  TabTyped' /\ FileTyped'
  <1>1. Hooks = {"create", "hire", "deny", "freeze"} /\ BOOLEAN \subseteq Calls
    BY DEF Hooks, Calls
  <1>2. ASSUME NEW s \in {"sent", "declined"},
               writes["freeze"].step = "asking", writes' = [writes EXCEPT !["freeze"].step = s]
        PROVE  /\ writes' \in [Hooks -> {Idle} \cup Asked]
               /\ \A g \in {"create", "hire"} : writes'[g] # Idle => writes'[g].call \in Draft
               /\ writes'["deny"] # Idle => writes'["deny"].call = "id"
               /\ writes'["freeze"] # Idle => writes'["freeze"].call \in BOOLEAN
               /\ writes["freeze"].call \in BOOLEAN
    <2>1. "freeze" \in Hooks /\ s \in AskedSteps /\ writes["freeze"].step # "idle"
      BY <1>2 DEF Hooks, AskedSteps
    <2>2. /\ writes' \in [Hooks -> {Idle} \cup Asked]
          /\ \A g \in Hooks :
               \/ writes'[g] = writes[g]
               \/ /\ g = "freeze" /\ writes[g] # Idle /\ writes'[g] # Idle /\ writes'[g].step = s
                  /\ writes'[g].call = writes[g].call /\ writes'[g].by = writes[g].by
      BY <1>2, <2>1, MoveTyped
    <2>3. writes["freeze"].call \in BOOLEAN
      BY <2>1 DEF TabTyped, Idle
    <2>4. /\ \A g \in {"create", "hire"} : writes'[g] # Idle => writes'[g].call \in Draft
          /\ writes'["deny"] # Idle => writes'["deny"].call = "id"
          /\ writes'["freeze"] # Idle => writes'["freeze"].call \in BOOLEAN
      BY <2>2, MovedTyped
    <2> QED
      BY <2>2, <2>3, <2>4
  <1>3. AgentFileOf \in [state : {"loading", "policy", "unhired", "failed"}, frozen : BOOLEAN]
    BY DEF AgentFileOf, TabTyped, Wallets
  <1>4. CASE LoadFile \/ FileFails \/ PollFile \/ LeaveFile
    BY <1>3, <1>4 DEF LoadFile, FileFails, PollFile, LeaveFile, Leave, tab, fileVars,
                      TabTyped, FileTyped, Pages
  <1>5. CASE HandleToggleFreeze
    <2>1. (~file.frozen) \in BOOLEAN
      BY DEF FileTyped
    <2>2. /\ writes' \in [Hooks -> {Idle} \cup Asked]
          /\ \A g \in {"create", "hire"} : writes'[g] # Idle => writes'[g].call \in Draft
          /\ writes'["deny"] # Idle => writes'["deny"].call = "id"
          /\ writes'["freeze"] # Idle => writes'["freeze"].call \in BOOLEAN
      BY <1>1, <1>5, <2>1, AskTyped DEF HandleToggleFreeze
    <2> QED
      BY <1>5, <2>2 DEF HandleToggleFreeze, TabTyped, FileTyped
  <1>6. CASE SignFreeze
    <2>1. /\ writes["freeze"].step = "asking"
          /\ writes' = [writes EXCEPT !["freeze"].step = "sent"]
          /\ pool' = pool \cup {[kind |-> "freeze", call |-> writes["freeze"].call]}
          /\ UNCHANGED <<page, chain, db, file, notToggled>>
      BY <1>6 DEF SignFreeze, Signs, Sends, fileVars
    <2>2. \A b \in BOOLEAN : [kind |-> "freeze", call |-> b] \in Txs
      BY DEF Txs
    <2> QED
      BY <1>2, <2>1, <2>2 DEF TabTyped, FileTyped
  <1>7. CASE DeclineFreeze
    <2>1. /\ writes["freeze"].step = "asking"
          /\ writes' = [writes EXCEPT !["freeze"].step = "declined"]
          /\ pool' \in {pool, pool \cup {[kind |-> "freeze", call |-> writes["freeze"].call]}}
          /\ notToggled' = TRUE /\ UNCHANGED <<page, chain, db, file>>
      BY <1>7 DEF DeclineFreeze, Declines, AnswerLost, Throws, Sends
    <2>2. \A b \in BOOLEAN : [kind |-> "freeze", call |-> b] \in Txs
      BY DEF Txs
    <2>3. pool' \subseteq Txs
      BY <1>2, <2>1, <2>2 DEF TabTyped
    <2> QED
      BY <1>2, <2>1, <2>3 DEF TabTyped, FileTyped
  <1> QED
    BY <1>4, <1>5, <1>6, <1>7 DEF FileNext

LEMMA TypedStep ==
  ASSUME PagesTyped, [PagesNext]_pagesVars
  PROVE  PagesTyped'
  <1> USE DEF PagesTyped
  <1>1. CASE TabNext /\ UNCHANGED <<hireVars, sheetVars, fileVars>>
    BY <1>1, TabStep DEF hireVars, sheetVars, fileVars, HireTyped, SheetTyped, FileTyped
  <1>2. CASE HireNext /\ UNCHANGED <<sheetVars, fileVars>>
    BY <1>2, HireTypedStep DEF sheetVars, fileVars, SheetTyped, FileTyped
  <1>3. CASE SheetNext /\ UNCHANGED <<hireVars, fileVars>>
    BY <1>3, SheetTypedStep DEF hireVars, fileVars, HireTyped, FileTyped
  <1>4. CASE FileNext /\ UNCHANGED <<hireVars, sheetVars>>
    BY <1>4, FileTypedStep DEF hireVars, sheetVars, HireTyped, SheetTyped
  <1>5. CASE UNCHANGED pagesVars
    BY <1>5 DEF pagesVars, tab, hireVars, sheetVars, fileVars,
                TabTyped, HireTyped, SheetTyped, FileTyped
  <1> QED
    BY <1>1, <1>2, <1>3, <1>4, <1>5 DEF PagesNext

-----------------------------------------------------------------------------
(***************************************************************************)
(* The steps that do not concern the hire page.                            *)
(***************************************************************************)
\* What a step leaves as the promises of the hire page need it.
HireQuiet ==
  /\ UNCHANGED <<pending, message, confirmed, hires>>
  /\ chain.wallet => chain'.wallet
  /\ \A h \in {"create", "hire"} : writes'[h].step = "asking" => writes'[h] = writes[h]
  /\ IsSuccess("create")' => IsSuccess("create") \/ chain'.wallet
  /\ writes'["hire"] # Idle => writes["hire"] # Idle /\ writes'["hire"].by = writes["hire"].by

LEMMA QuietDrafts ==
  ASSUME DraftsInv, HireQuiet
  PROVE  DraftsInv'
<1>1. \A h \in {"create", "hire"} : Asking(h)' => Asking(h) /\ CallOf(h)' = CallOf(h)
  BY DEF HireQuiet, Asking, CallOf
<1>2. /\ \A d : Confirmed(confirmed', d) <=> Confirmed(confirmed, d)
      /\ \A c : NotHired(hires', c) <=> NotHired(hires, c)
  BY DEF HireQuiet, Confirmed, NotHired
<1>3. UNCHANGED <<pending, confirmed, hires>>
  BY DEF HireQuiet
<1>4. \A i \in DOMAIN hires' : Confirmed(confirmed', hires'[i].draft)
  BY <1>3 DEF DraftsInv, Confirmed
<1>5. pending' # NoDraft => Confirmed(confirmed', pending') /\ NotHired(hires', pending'.click)
  BY <1>3 DEF DraftsInv, Confirmed, NotHired
<1>6. Asking("hire")' => Confirmed(confirmed', CallOf("hire")') /\ NotHired(hires', CallOf("hire")'.click)
  BY <1>1, <1>3 DEF DraftsInv, Confirmed, NotHired
<1>7. Asking("create")' => Confirmed(confirmed', CallOf("create")') /\ NotHired(hires', CallOf("create")'.click)
  BY <1>1, <1>3 DEF DraftsInv, Confirmed, NotHired
<1> QED
  BY <1>1, <1>3, <1>4, <1>5, <1>6, <1>7 DEF DraftsInv

LEMMA QuietMessage ==
  ASSUME MessageInv, HireQuiet
  PROVE  MessageInv'
<1>1. Asking("hire")' => Asking("hire") /\ CallOf("hire")' = CallOf("hire")
  BY DEF HireQuiet, Asking, CallOf
<1> QED
  BY <1>1 DEF MessageInv, HireQuiet, NotHeard

LEMMA TabIsQuiet ==
  ASSUME TabTyped, TabKeeps, UNCHANGED hireVars
  PROVE  HireQuiet
BY DEF TabKeeps, HireQuiet, hireVars, Hooks

LEMMA SheetIsQuiet ==
  ASSUME TabTyped, SheetNext, UNCHANGED hireVars
  PROVE  HireQuiet
<1>1. UNCHANGED chain /\ \A h \in {"create", "hire"} : writes'[h] = writes[h]
  BY DEF SheetNext, LoadApproval, ApprovalFails, HandleDeny, SignDeny, DeclineDeny,
         HandleApprove, ConnectLedger, MatchAndPrepare, SignOnDevice, Broadcast,
         LedgerFails, BroadcastLost, LeaveSheet, LedgerStep, Ask, Signs, Sends, Declines,
         AnswerLost, Throws, SendApproval, tab, TabTyped, Hooks
<1> QED
  BY <1>1 DEF HireQuiet, hireVars, IsSuccess

LEMMA FileIsQuiet ==
  ASSUME TabTyped, FileNext, UNCHANGED hireVars
  PROVE  HireQuiet
<1>1. UNCHANGED chain /\ \A h \in {"create", "hire"} : writes'[h] = writes[h]
  BY DEF FileNext, LoadFile, FileFails, HandleToggleFreeze, SignFreeze, DeclineFreeze,
         PollFile, LeaveFile, Ask, Signs, Sends, Declines, AnswerLost, Throws,
         tab, TabTyped, Hooks
<1> QED
  BY <1>1 DEF HireQuiet, hireVars, IsSuccess

-----------------------------------------------------------------------------
(***************************************************************************)
(* The hire page's own steps.                                              *)
(***************************************************************************)
LEMMA HireDrafts ==
  ASSUME TabTyped, HireTyped, DraftsInv, MessageInv, HireNext
  PROVE  DraftsInv' /\ MessageInv'
  <1> USE DEF Asking, CallOf
  <1>1. {"create", "hire"} \subseteq Hooks /\ DOMAIN writes = Hooks
    BY DEF TabTyped, Hooks
  <1>0. "hire" \in Hooks /\ "create" \in Hooks /\ "create" # "hire"
    BY DEF Hooks
  <1>2. CASE LoadCatalog \/ LoadAgents \/ ListFails \/ PollAgents \/ NextStep \/ BackStep
             \/ LeaveHire \/ SignCreate
             \/ (\E a \in Agents : PickAgent(a)) \/ (\E t \in Terms : ChangeTerms(t))
    <2>1. CASE SignCreate
      <3>1. /\ UNCHANGED <<pending, message, confirmed, hires, chain>>
            /\ writes["create"].step = "asking"
            /\ writes' = [writes EXCEPT !["create"].step = "sent"]
        BY <2>1 DEF SignCreate, Signs, Sends, sheetless, hireVars
      <3>2. "sent" \in AskedSteps /\ writes["create"].step # "idle"
        BY <3>1 DEF AskedSteps
      <3>3. /\ writes'["create"].step = "sent"
            /\ writes'["hire"] = writes["hire"]
        BY <3>1, <3>2, CreateMoves
      <3>4. HireQuiet
        BY <3>1, <3>3 DEF HireQuiet, IsSuccess
      <3> QED
        BY <3>4, QuietDrafts, QuietMessage
    <2>2. CASE ~SignCreate
      <3>1. HireQuiet
        BY <1>2, <2>2 DEF LoadCatalog, LoadAgents, ListFails, PollAgents, NextStep, BackStep,
                    PickAgent, ChangeTerms, LeaveHire, tab, sheetless, hireVars, HireQuiet,
                    IsSuccess
      <3> QED
        BY <3>1, QuietDrafts, QuietMessage
    <2> QED
      BY <2>1, <2>2
  <1>3. CASE HandleConfirm
    <2> DEFINE draft == DraftOfForm(Len(confirmed) + 1)
    <2>1. /\ draft \in Draft /\ draft.click = Len(confirmed) + 1
      BY DEF DraftOfForm, Draft, HireTyped
    <2> HIDE DEF draft
    <2>2. /\ UNCHANGED <<chain, hires>> /\ ~IsPending("create") /\ ~IsPending("hire")
          /\ message' = NoMessage /\ confirmed' = Append(confirmed, draft)
          /\ \/ Ask("hire", draft, "click") /\ UNCHANGED pending
             \/ Ask("create", draft, "click") /\ pending' = draft
      BY <1>3 DEF HandleConfirm, ConfirmEnabled, Busy, sheetless, draft
    <2>3. \A d : Confirmed(confirmed, d) => Confirmed(confirmed', d) /\ d.click # draft.click
      <3>1. \A i \in DOMAIN confirmed : i \in DOMAIN confirmed' /\ confirmed'[i] = confirmed[i]
                                        /\ i # Len(confirmed) + 1
        BY <2>1, <2>2, AppendProperties DEF HireTyped
      <3> QED
        BY <2>1, <3>1 DEF Confirmed
    <2>4. /\ Confirmed(confirmed', draft)
          /\ \A i \in DOMAIN confirmed' : confirmed'[i].click = i
      <3>1. /\ DOMAIN confirmed = 1..Len(confirmed)
            /\ DOMAIN confirmed' = 1..(Len(confirmed) + 1)
            /\ \A i \in 1..Len(confirmed) : confirmed'[i] = confirmed[i]
            /\ confirmed'[Len(confirmed) + 1] = draft /\ Len(confirmed) \in Nat
        BY <2>1, <2>2, AppendProperties DEF HireTyped
      <3> QED
        BY <2>1, <3>1 DEF Confirmed, DraftsInv
    <2>5. NotHired(hires, draft.click) /\ NotHired(hires, 0)
      <3>1. \A i \in DOMAIN hires : hires[i].draft \in Draft /\ Confirmed(confirmed, hires[i].draft)
        <4>1. \A i \in DOMAIN hires : hires[i] \in Hires
          BY ElementOfSeq DEF HireTyped
        <4> QED
          BY <4>1 DEF DraftsInv, Hires
      <3>2. \A d \in Draft : d.click # 0
        BY DEF Draft
      <3> QED
        BY <2>3, <3>1, <3>2 DEF NotHired
    <2>6. \A c : NotHired(hires', c) <=> NotHired(hires, c)
      BY <2>2 DEF NotHired
    <2>7. CASE Ask("hire", draft, "click") /\ UNCHANGED pending
      <3>1. /\ writes'["hire"] = [step |-> "asking", call |-> draft, by |-> "click"]
            /\ writes'["create"] = writes["create"]
        BY <1>1, <2>7 DEF Ask
      <3>2. /\ writes'["hire"].step = "asking" /\ writes'["hire"].call = draft
            /\ writes'["hire"].by = "click" /\ writes'["create"].step # "asking"
        BY <2>2, <3>1 DEF IsPending
      <3>3. pending' # NoDraft => Confirmed(confirmed', pending') /\ NotHired(hires', pending'.click)
                                  /\ pending'.click # draft.click
        BY <2>3, <2>6, <2>7 DEF DraftsInv, Confirmed, NotHired
      <3>4. Confirmed(confirmed', CallOf("hire")') /\ NotHired(hires', CallOf("hire")'.click)
        BY <2>2, <2>4, <2>5, <3>2 DEF Confirmed, NotHired
      <3>5. \A i \in DOMAIN hires' : Confirmed(confirmed', hires'[i].draft)
        BY <2>2, <2>3 DEF DraftsInv, Confirmed
      <3>6. DraftsInv'
        BY <2>2, <2>4, <3>2, <3>3, <3>4, <3>5 DEF DraftsInv
      <3>7. MessageInv'
        <4>1. draft.click # 0 /\ pending' # NoDraft => pending'.click # 0
          BY <2>1, <2>7 DEF HireTyped, Draft
        <4>2. draft.click # 0
          BY <2>1 DEF Draft
        <4> QED
          BY <2>2, <2>5, <3>1, <3>2, <4>1, <4>2
             DEF MessageInv, NoMessage, NotHired, NotHeard, IsSuccess
      <3> QED
        BY <3>6, <3>7
    <2>8. CASE Ask("create", draft, "click") /\ pending' = draft
      <3>1. /\ writes'["create"] = [step |-> "asking", call |-> draft, by |-> "click"]
            /\ writes'["hire"] = writes["hire"]
        BY <1>1, <2>8 DEF Ask
      <3>2. /\ writes'["create"].step = "asking" /\ writes'["create"].call = draft
            /\ writes'["hire"].step # "asking"
        BY <2>2, <3>1 DEF IsPending
      <3>3. Confirmed(confirmed', CallOf("create")') /\ NotHired(hires', CallOf("create")'.click)
        BY <2>2, <2>4, <2>5, <3>2 DEF Confirmed, NotHired
      <3>4. Confirmed(confirmed', pending') /\ NotHired(hires', pending'.click)
        BY <2>2, <2>4, <2>5, <2>8 DEF Confirmed, NotHired
      <3>5. \A i \in DOMAIN hires' : Confirmed(confirmed', hires'[i].draft)
        BY <2>2, <2>3 DEF DraftsInv, Confirmed
      <3>6. DraftsInv'
        BY <2>2, <2>4, <3>2, <3>3, <3>4, <3>5 DEF DraftsInv
      <3>7. MessageInv'
        <4>1. draft.click # 0
          BY <2>1 DEF Draft
        <4> QED
          BY <2>2, <2>5, <2>8, <3>1, <3>2, <4>1
             DEF MessageInv, NoMessage, NotHired, NotHeard, IsSuccess
      <3> QED
        BY <3>6, <3>7
    <2> QED
      BY <2>2, <2>7, <2>8
  <1>4. CASE ChainIntoHire
    <2>1. /\ pending # NoDraft /\ IsSuccess("create") /\ pending' = NoDraft
          /\ UNCHANGED <<chain, message, confirmed, hires>>
          /\ writes'["hire"] = [step |-> "asking", call |-> pending, by |-> "effect"]
          /\ writes'["create"] = writes["create"]
      BY <1>1, <1>4 DEF ChainIntoHire, sheetless, Ask
    <2>2. /\ writes'["hire"].step = "asking" /\ writes'["hire"].call = pending
          /\ writes'["create"].step # "asking"
      BY <2>1 DEF IsSuccess
    <2>3. Confirmed(confirmed', CallOf("hire")') /\ NotHired(hires', CallOf("hire")'.click)
      BY <2>1, <2>2 DEF DraftsInv, Confirmed, NotHired
    <2>4. \A i \in DOMAIN hires' : Confirmed(confirmed', hires'[i].draft)
      BY <2>1 DEF DraftsInv, Confirmed
    <2>5. DraftsInv'
      BY <2>1, <2>2, <2>3, <2>4 DEF DraftsInv
    <2>6. MessageInv'
      BY <2>1, <2>2 DEF MessageInv, NotHeard, IsSuccess
    <2> QED
      BY <2>5, <2>6
  \* A hire that goes out, whether the page hears of it or not.
  <1>5. ASSUME NEW heard \in BOOLEAN, NEW step \in {"sent", "declined"},
               writes["hire"].step = "asking",
               writes' = [writes EXCEPT !["hire"].step = step],
               SentHire(heard), UNCHANGED <<chain, confirmed>>,
               pending' \in {pending, NoDraft},
               heard => UNCHANGED message,
               ~heard => message'.click = writes["hire"].call.click,
               message'.text = "created" => message.text = "created" \/ writes["hire"].by = "effect"
        PROVE  DraftsInv' /\ MessageInv'
    <2> DEFINE call == writes["hire"].call
               new == [draft |-> call, heard |-> heard]
    <2>1. step \in AskedSteps /\ writes["hire"].step # "idle" /\ step # "asking" /\ step # "success"
      BY <1>5 DEF AskedSteps
    <2>2. /\ writes'["hire"].step = step /\ writes'["hire"].by = writes["hire"].by
          /\ writes["hire"] # Idle /\ writes'["create"] = writes["create"]
      BY <1>5, <2>1, HireMoves
    <2>3. call \in Draft
      BY <2>2 DEF TabTyped
    <2>4. hires' = Append(hires, new)
      BY <1>5 DEF SentHire
    <2>5. new \in Hires /\ new.draft = call /\ new.heard = heard
      BY <1>5, <2>3 DEF Hires
    <2>6. /\ Confirmed(confirmed, call) /\ NotHired(hires, call.click)
          /\ pending # NoDraft => pending.click # call.click
          /\ call.click # message.click
      BY <1>5 DEF DraftsInv, MessageInv
    <2>7. Asking("create") => /\ Confirmed(confirmed, CallOf("create"))
                              /\ NotHired(hires, CallOf("create").click)
                              /\ call.click # CallOf("create").click
      BY <1>5 DEF DraftsInv
    <2>8. ~heard => message'.click = call.click
      BY <1>5
    <2> HIDE DEF call, new
    <2>9. /\ DOMAIN hires = 1..Len(hires) /\ DOMAIN hires' = 1..(Len(hires) + 1)
          /\ \A i \in DOMAIN hires : hires'[i] = hires[i]
          /\ hires'[Len(hires) + 1] = new /\ Len(hires) \in Nat
      BY <2>4, <2>5, AppendProperties DEF HireTyped
    <2>10. \A i \in DOMAIN hires' : (i \in DOMAIN hires /\ hires'[i] = hires[i]) \/ hires'[i] = new
      BY <2>9
    <2>11. \A c : NotHired(hires, c) /\ c # call.click => NotHired(hires', c)
      BY <2>5, <2>10 DEF NotHired
    <2>12. \A i \in DOMAIN hires' : Confirmed(confirmed', hires'[i].draft)
      BY <1>5, <2>5, <2>6, <2>10 DEF DraftsInv, Confirmed
    <2>13. \A i, j \in DOMAIN hires' : hires'[i].draft.click = hires'[j].draft.click => i = j
      <3>1. \A i \in DOMAIN hires : hires'[i].draft.click # new.draft.click
        BY <2>5, <2>6, <2>9 DEF NotHired
      <3>2. \A i \in DOMAIN hires' : i \in DOMAIN hires \/ i = Len(hires) + 1
        BY <2>9
      <3>3. \A i, j \in DOMAIN hires : hires'[i].draft.click = hires'[j].draft.click => i = j
        BY <2>9 DEF DraftsInv
      <3> QED
        BY <2>9, <3>1, <3>2, <3>3
    <2>14. pending' # NoDraft => Confirmed(confirmed', pending') /\ NotHired(hires', pending'.click)
      <3>1. pending' # NoDraft => pending' = pending
        BY <1>5
      <3>2. pending # NoDraft => Confirmed(confirmed, pending) /\ NotHired(hires, pending.click)
        BY DEF DraftsInv
      <3> QED
        BY <1>5, <2>6, <2>11, <3>1, <3>2 DEF Confirmed
    <2>15. Asking("create")' => Confirmed(confirmed', CallOf("create")') /\ NotHired(hires', CallOf("create")'.click)
      <3>1. Asking("create")' => Asking("create") /\ CallOf("create")' = CallOf("create")
        BY <2>2
      <3> QED
        BY <1>5, <2>7, <2>11, <3>1 DEF Confirmed
    <2>16. ~Asking("hire")'
      BY <2>1, <2>2
    <2>17. DraftsInv'
      BY <1>5, <2>12, <2>13, <2>14, <2>15, <2>16 DEF DraftsInv
    <2>18. NotHeard(hires', message'.click)
      <3>1. CASE heard
        <4>1. NotHeard(hires, message.click) /\ message' = message
          BY <1>5, <3>1 DEF MessageInv
        <4> QED
          BY <2>5, <2>6, <2>10, <4>1 DEF NotHeard
      <3>2. CASE ~heard
        BY <2>5, <2>6, <2>8, <2>10, <3>2 DEF NotHired, NotHeard
      <3> QED
        BY <3>1, <3>2
    <2>19. pending' # NoDraft => pending'.click # message'.click
      <3>1. pending' # NoDraft => pending' = pending
        BY <1>5
      <3>2. pending # NoDraft => pending.click # message.click
        BY DEF MessageInv
      <3> QED
        BY <1>5, <2>6, <2>8, <3>1, <3>2
    <2>20. message'.text = "created" => chain'.wallet
      BY <1>5, <2>2 DEF MessageInv
    <2>21. IsSuccess("create")' => chain'.wallet
      BY <1>5, <2>2 DEF MessageInv, IsSuccess
    <2>22. writes'["hire"] # Idle /\ writes'["hire"].by = "effect" => chain'.wallet
      BY <1>5, <2>2 DEF MessageInv
    <2>23. MessageInv'
      BY <2>16, <2>18, <2>19, <2>20, <2>21, <2>22 DEF MessageInv
    <2> QED
      BY <2>17, <2>23
  <1>8. CASE SignHire
    <2>1. /\ writes["hire"].step = "asking"
          /\ writes' = [writes EXCEPT !["hire"].step = "sent"]
          /\ SentHire(TRUE)
          /\ UNCHANGED <<chain, pending, message, confirmed>>
      BY <1>8 DEF SignHire, Signs, Sends, sheetless
    <2> QED
      BY <1>5, <2>1
  <1>6. CASE DeclineCreate
    <2>1. /\ writes["create"].step = "asking"
          /\ writes' = [writes EXCEPT !["create"].step = "declined"]
          /\ message' = [text |-> "rejected", click |-> writes["create"].call.click]
          /\ pending' = NoDraft /\ UNCHANGED <<chain, confirmed, hires>>
      BY <1>6 DEF DeclineCreate, Declines, AnswerLost, Throws, Rejected, sheetless
    <2>2. "declined" \in AskedSteps /\ writes["create"].step # "idle"
      BY <2>1 DEF AskedSteps
    <2>3. writes'["create"].step = "declined" /\ writes'["hire"] = writes["hire"]
      BY <2>1, <2>2, CreateMoves
    <2>4. Asking("hire")' => Confirmed(confirmed', CallOf("hire")') /\ NotHired(hires', CallOf("hire")'.click)
      BY <2>1, <2>3 DEF DraftsInv, Confirmed, NotHired
    <2>5. \A i \in DOMAIN hires' : Confirmed(confirmed', hires'[i].draft)
      BY <2>1 DEF DraftsInv, Confirmed
    <2>6. DraftsInv'
      BY <2>1, <2>3, <2>4, <2>5 DEF DraftsInv
    <2>7. MessageInv'
      BY <2>1, <2>3 DEF MessageInv, DraftsInv, NotHired, NotHeard, IsSuccess
    <2> QED
      BY <2>6, <2>7
  <1>7. CASE DeclineHire
    <2>1. /\ writes["hire"].step = "asking"
          /\ writes' = [writes EXCEPT !["hire"].step = "declined"]
          /\ message'.click = writes["hire"].call.click
          /\ message'.text = "created" => writes["hire"].by = "effect"
          /\ pending' \in {pending, NoDraft} /\ UNCHANGED <<chain, confirmed>>
          /\ UNCHANGED hires \/ SentHire(FALSE)
      <3>1. /\ writes["hire"].step = "asking"
            /\ writes' = [writes EXCEPT !["hire"].step = "declined"]
            /\ UNCHANGED hires \/ SentHire(FALSE)
        BY <1>7 DEF DeclineHire, Declines, AnswerLost, Throws
      <3>2. HireRejected /\ UNCHANGED <<chain, confirmed>>
        BY <1>7 DEF DeclineHire, sheetless
      <3>3. /\ message'.click = writes["hire"].call.click
            /\ message'.text = "created" => writes["hire"].by = "effect"
            /\ pending' \in {pending, NoDraft}
        BY <3>2 DEF HireRejected, Rejected
      <3> QED
        BY <3>1, <3>2, <3>3
    <2>11. CASE SentHire(FALSE)
      BY <1>5, <2>1, <2>11
    <2>12. CASE UNCHANGED hires
      <3>2. "declined" \in AskedSteps /\ writes["hire"].step # "idle"
        BY <2>1 DEF AskedSteps
      <3>3. /\ writes'["hire"].step = "declined" /\ writes'["hire"].by = writes["hire"].by
            /\ writes["hire"] # Idle /\ writes'["create"] = writes["create"]
        <4>1. writes' = [writes EXCEPT !["hire"].step = "declined"]
          BY <2>1
        <4> QED
          BY <3>2, <4>1, HireMoves
      <3>4. pending' # NoDraft => pending' = pending
        BY <2>1
      <3>5. pending' # NoDraft => Confirmed(confirmed', pending') /\ NotHired(hires', pending'.click)
        BY <2>1, <2>12, <3>4 DEF DraftsInv, Confirmed, NotHired
      <3>6. Asking("create")' => Confirmed(confirmed', CallOf("create")') /\ NotHired(hires', CallOf("create")'.click)
        BY <2>1, <2>12, <3>3 DEF DraftsInv, Confirmed, NotHired
      <3>7. \A i \in DOMAIN hires' : Confirmed(confirmed', hires'[i].draft)
        BY <2>1, <2>12 DEF DraftsInv, Confirmed
      <3>8. DraftsInv'
        BY <2>1, <2>12, <3>3, <3>5, <3>6, <3>7 DEF DraftsInv
      <3>9. NotHeard(hires', message'.click)
        BY <2>1, <2>12 DEF DraftsInv, NotHired, NotHeard
      <3>10. MessageInv'
        BY <2>1, <3>3, <3>4, <3>9 DEF MessageInv, DraftsInv, IsSuccess
      <3> QED
        BY <3>8, <3>10
    <2> QED
      BY <2>1, <2>11, <2>12
  <1> QED
    BY <1>2, <1>3, <1>4, <1>6, <1>7, <1>8 DEF HireNext

-----------------------------------------------------------------------------
(***************************************************************************)
(* Decisions and the freeze.                                               *)
(***************************************************************************)
\* The hire page's and the agent file's steps, and those outside the pages,
\* ask for no decision; they may leave the page.
SheetQuiet ==
  /\ UNCHANGED <<ledger, denied, decisions>> /\ page' \in {page, "left"}
  /\ writes'["deny"].step = "asking" => writes["deny"].step = "asking"

LEMMA QuietDecision ==
  ASSUME DecisionInv, SheetQuiet
  PROVE  DecisionInv'
BY DEF DecisionInv, SheetQuiet, Asking, ApproveInFlight, OnSheet, Heard

LEMMA TabKeepsDecision ==
  ASSUME TabKeeps, UNCHANGED sheetVars
  PROVE  SheetQuiet
BY DEF TabKeeps, SheetQuiet, sheetVars, Hooks

LEMMA HireKeepsHooks ==
  ASSUME TabTyped, HireNext
  PROVE  /\ page' \in {page, "left"}
         /\ writes'["deny"] = writes["deny"] /\ writes'["freeze"] = writes["freeze"]
BY DEF HireNext, LoadCatalog, LoadAgents, ListFails, PickAgent, NextStep, BackStep,
       ChangeTerms, HandleConfirm, ChainIntoHire, SignCreate, SignHire, DeclineCreate,
       DeclineHire, PollAgents, LeaveHire, Leave, Ask, Signs, Sends, Declines,
       AnswerLost, Throws, tab, sheetless, TabTyped, Hooks

LEMMA FileKeepsHooks ==
  ASSUME TabTyped, FileNext
  PROVE  page' \in {page, "left"} /\ writes'["deny"] = writes["deny"]
BY DEF FileNext, LoadFile, FileFails, HandleToggleFreeze, SignFreeze, DeclineFreeze,
       PollFile, LeaveFile, Leave, Ask, Signs, Sends, Declines, AnswerLost, Throws,
       tab, TabTyped, Hooks

LEMMA SheetKeepsHooks ==
  ASSUME TabTyped, SheetNext
  PROVE  writes'["freeze"] = writes["freeze"]
BY DEF SheetNext, LoadApproval, ApprovalFails, HandleDeny, SignDeny, DeclineDeny,
       HandleApprove, ConnectLedger, MatchAndPrepare, SignOnDevice, Broadcast,
       LedgerFails, BroadcastLost, LeaveSheet, LedgerStep, Ask, Signs, Sends, Declines,
       AnswerLost, Throws, SendApproval, tab, TabTyped, Hooks

\* What one more decision makes of the history of them.
LEMMA DecidedOnce ==
  ASSUME decisions \in Seq(Decisions), NEW kind \in {"approve", "deny"}, NEW heard \in BOOLEAN,
         Decided(kind, heard), ~Heard("approve"), ~Heard("deny")
  PROVE  /\ \A i \in DOMAIN decisions' : decisions'[i].heard => i = Len(decisions')
         /\ \A k : Heard(k)' => heard /\ k = kind
  <1> DEFINE new == [kind |-> kind, heard |-> heard]
  <1>1. new \in Decisions /\ new.kind = kind /\ new.heard = heard
    BY DEF Decisions
  <1>2. decisions' = Append(decisions, new)
    BY DEF Decided
  <1> HIDE DEF new
  <1>3. /\ DOMAIN decisions = 1..Len(decisions) /\ DOMAIN decisions' = 1..(Len(decisions) + 1)
        /\ Len(decisions') = Len(decisions) + 1
        /\ \A i \in DOMAIN decisions : decisions'[i] = decisions[i]
        /\ decisions'[Len(decisions) + 1] = new /\ Len(decisions) \in Nat
    BY <1>1, <1>2, AppendProperties
  <1>4. \A i \in DOMAIN decisions : ~decisions[i].heard
    <2>1. \A i \in DOMAIN decisions : decisions[i].kind \in {"approve", "deny"}
      <3>1. \A i \in DOMAIN decisions : decisions[i] \in Decisions
        BY ElementOfSeq
      <3> QED
        BY <3>1 DEF Decisions
    <2> QED
      BY <2>1 DEF Heard
  <1>5. \A i \in DOMAIN decisions' : i \in DOMAIN decisions \/ i = Len(decisions) + 1
    BY <1>3
  <1>6. \A i \in DOMAIN decisions' : decisions'[i].heard => i = Len(decisions')
    BY <1>3, <1>4, <1>5
  <1>7. \A k : Heard(k)' => heard /\ k = kind
    BY <1>1, <1>3, <1>4, <1>5 DEF Heard
  <1> QED
    BY <1>6, <1>7

LEMMA SheetDecision ==
  ASSUME TabTyped, SheetTyped, DecisionInv, SheetNext
  PROVE  DecisionInv'
  <1> USE DEF Asking, ApproveInFlight, OnSheet, Flying
  <1>1. CASE LoadApproval \/ ApprovalFails \/ LeaveSheet
    BY <1>1 DEF LoadApproval, ApprovalFails, LeaveSheet, Leave, tab, sheetVars, DecisionInv, Heard
  <1>2. CASE HandleDeny
    <2>1. /\ OnSheet /\ ~ApproveInFlight /\ ledger # "success"
          /\ denied' = FALSE /\ UNCHANGED <<page, ledger, decisions>>
      BY <1>2 DEF HandleDeny, ButtonsEnabled
    <2>2. ~Heard("deny")
      BY <2>1 DEF DecisionInv
    <2> QED
      BY <2>1, <2>2 DEF DecisionInv, Heard
  <1>3. CASE SignDeny
    <2>1. /\ writes["deny"].step = "asking"
          /\ writes' = [writes EXCEPT !["deny"].step = "sent"]
          /\ page' = "left" /\ Decided("deny", TRUE)
          /\ UNCHANGED <<ledger, denied>>
      BY <1>3 DEF SignDeny, Signs, Sends, Leave
    <2>2. "deny" \in Hooks /\ "sent" \in AskedSteps /\ writes["deny"].step # "idle"
      BY <2>1 DEF Hooks, AskedSteps
    <2>3. writes' = [writes EXCEPT !["deny"].step = "sent"]
      BY <2>1
    <2>4. writes'["deny"].step = "sent"
      BY <2>2, <2>3, MoveTyped
    <2>5. ~ApproveInFlight /\ ledger # "success" /\ ~denied /\ ~Heard("deny") /\ ~Heard("approve")
      BY <2>1 DEF DecisionInv
    <2>6. /\ \A i \in DOMAIN decisions' : decisions'[i].heard => i = Len(decisions')
          /\ \A k : Heard(k)' => k = "deny"
      BY <2>1, <2>5, DecidedOnce DEF SheetTyped
    <2>7. ~Heard("approve")'
      BY <2>6
    <2> QED
      BY <2>1, <2>4, <2>5, <2>6, <2>7 DEF DecisionInv
  <1>4. CASE DeclineDeny
    <2>1. /\ writes["deny"].step = "asking"
          /\ writes' = [writes EXCEPT !["deny"].step = "declined"]
          /\ UNCHANGED decisions \/ Decided("deny", FALSE)
          /\ denied' = TRUE /\ UNCHANGED <<page, ledger>>
      BY <1>4 DEF DeclineDeny, Declines, AnswerLost, Throws
    <2>2. "deny" \in Hooks /\ "declined" \in AskedSteps /\ writes["deny"].step # "idle"
      BY <2>1 DEF Hooks, AskedSteps
    <2>3. writes' = [writes EXCEPT !["deny"].step = "declined"]
      BY <2>1
    <2>4. writes'["deny"].step = "declined"
      BY <2>2, <2>3, MoveTyped
    <2>5. ~Heard("deny") /\ ~Heard("approve")
      BY <2>1 DEF DecisionInv
    <2>6. /\ \A i \in DOMAIN decisions' : decisions'[i].heard => i = Len(decisions')
          /\ ~Heard("approve")' /\ ~Heard("deny")'
      <3>1. CASE UNCHANGED decisions
        BY <2>5, <3>1 DEF DecisionInv, Heard
      <3>2. CASE Decided("deny", FALSE)
        BY <2>5, <3>2, DecidedOnce DEF SheetTyped
      <3> QED
        BY <2>1, <3>1, <3>2
    <2> QED
      BY <2>4, <2>6 DEF DecisionInv
  <1>5. CASE HandleApprove
    <2>1. /\ OnSheet /\ ledger # "success" /\ ~IsPending("deny")
          /\ UNCHANGED <<page, writes, decisions>>
      BY <1>5 DEF HandleApprove, ButtonsEnabled
    <2>2. ~Heard("deny") /\ ~Heard("approve") /\ writes["deny"].step # "asking"
      BY <2>1 DEF DecisionInv, IsPending
    <2> QED
      BY <2>1, <2>2 DEF DecisionInv, Heard
  <1>6. CASE ConnectLedger \/ MatchAndPrepare \/ SignOnDevice \/ LedgerFails
    BY <1>6 DEF ConnectLedger, MatchAndPrepare, SignOnDevice, LedgerFails, LedgerStep,
                tab, DecisionInv, Heard
  <1>7. CASE Broadcast \/ BroadcastLost
    <2>1. PICK heard \in BOOLEAN :
            /\ ledger = "broadcasting" /\ Decided("approve", heard)
            /\ ledger' = IF heard THEN "success" ELSE "error"
            /\ UNCHANGED <<page, writes, denied>>
      BY <1>7 DEF Broadcast, BroadcastLost, SendApproval
    <2>2. ~Heard("deny") /\ ~Heard("approve") /\ writes["deny"].step # "asking"
      BY <2>1 DEF DecisionInv
    <2>3. /\ \A i \in DOMAIN decisions' : decisions'[i].heard => i = Len(decisions')
          /\ \A k : Heard(k)' => heard /\ k = "approve"
      BY <2>1, <2>2, DecidedOnce DEF SheetTyped
    <2>4. ~Heard("deny")' /\ (Heard("approve")' => ledger' = "success")
      BY <2>1, <2>3
    <2> QED
      BY <2>1, <2>2, <2>3, <2>4 DEF DecisionInv
  <1> QED
    BY <1>1, <1>2, <1>3, <1>4, <1>5, <1>6, <1>7 DEF SheetNext

LEMMA FileFreeze ==
  ASSUME TabTyped, FreezeInv, FileNext
  PROVE  FreezeInv'
  <1>1. CASE LoadFile \/ FileFails \/ PollFile \/ LeaveFile \/ HandleToggleFreeze
    BY <1>1 DEF LoadFile, FileFails, PollFile, LeaveFile, HandleToggleFreeze, tab, fileVars,
                FreezeInv
  <1>2. CASE SignFreeze
    BY <1>2 DEF SignFreeze, Signs, Sends, fileVars, FreezeInv
  <1>3. CASE DeclineFreeze
    <2>1. writes["freeze"].step = "asking"
          /\ writes' = [writes EXCEPT !["freeze"].step = "declined"]
      BY <1>3 DEF DeclineFreeze, Declines, AnswerLost, Throws
    <2>2. "freeze" \in Hooks /\ "declined" \in AskedSteps /\ writes["freeze"].step # "idle"
      BY <2>1 DEF Hooks, AskedSteps
    <2>3. writes' = [writes EXCEPT !["freeze"].step = "declined"]
      BY <2>1
    <2>4. writes'["freeze"].step = "declined"
      BY <2>2, <2>3, MoveTyped
    <2> QED
      BY <2>4 DEF FreezeInv
  <1> QED
    BY <1>1, <1>2, <1>3 DEF FileNext

-----------------------------------------------------------------------------
(***************************************************************************)
(* The invariant holds.                                                    *)
(***************************************************************************)
LEMMA PagesInitInv == PagesInit => PagesInv
  <1> SUFFICES ASSUME PagesInit PROVE PagesInv
    OBVIOUS
  <1> USE DEF PagesInit, TabInit, HireInit, SheetInit, FileInit
  <1>1. \A h \in Hooks : writes[h] = Idle
    OBVIOUS
  <1>2. {"create", "hire", "deny", "freeze"} = Hooks /\ Idle.step = "idle"
    BY DEF Hooks, Idle
  <1>3. NoWallet \in Wallets /\ [NoWallet EXCEPT !.wallet = TRUE] \in Wallets
        /\ \A f \in BOOLEAN : Employer(f) \in Wallets
    BY DEF NoWallet, Wallets, Employer
  <1>4. TabTyped
    BY <1>1, <1>2, <1>3 DEF TabTyped, Pages
  <1>5. confirmed = <<>> /\ hires = <<>> /\ <<>> \in Seq(Draft) /\ <<>> \in Seq(Hires)
        /\ DOMAIN hires = {} /\ DOMAIN confirmed = {}
    OBVIOUS
  <1>6. HireTyped
    BY <1>5 DEF HireTyped, NoMessage
  <1>7. SheetTyped /\ FileTyped
    <2>1. decisions \in Seq(Decisions)
      OBVIOUS
    <2> QED
      BY <2>1 DEF SheetTyped, FileTyped
  <1>8. DraftsInv /\ MessageInv
    BY <1>1, <1>2, <1>5 DEF DraftsInv, MessageInv, Asking, NotHired, NotHeard, NoMessage, IsSuccess
  <1>9. DecisionInv /\ FreezeInv
    <2>1. DOMAIN decisions = {} /\ writes["deny"].step # "asking"
      BY <1>1, <1>2
    <2> QED
      BY <2>1 DEF DecisionInv, FreezeInv, Asking, Heard
  <1> QED
    BY <1>4, <1>6, <1>7, <1>8, <1>9 DEF PagesInv, PagesTyped

LEMMA PagesStep == PagesInv /\ [PagesNext]_pagesVars => PagesInv'
  <1> SUFFICES ASSUME PagesInv, [PagesNext]_pagesVars PROVE PagesInv'
    OBVIOUS
  <1>1. PagesTyped /\ TabTyped /\ HireTyped /\ SheetTyped /\ FileTyped
        /\ DraftsInv /\ MessageInv /\ DecisionInv /\ FreezeInv
    BY DEF PagesInv, PagesTyped
  <1>2. PagesTyped'
    BY <1>1, TypedStep
  <1>3. CASE TabNext /\ UNCHANGED <<hireVars, sheetVars, fileVars>>
    <2>1. TabKeeps
      BY <1>1, <1>3, TabStep
    <2>2. HireQuiet /\ SheetQuiet
      BY <1>1, <1>3, <2>1, TabIsQuiet, TabKeepsDecision
    <2>3. FreezeInv'
      <3>1. writes["freeze"].step = "declined" => writes'["freeze"].step = "declined"
        BY <2>1 DEF TabKeeps, Hooks
      <3> QED
        BY <1>1, <1>3, <3>1 DEF FreezeInv, fileVars
    <2> QED
      BY <1>1, <1>2, <2>2, <2>3, QuietDrafts, QuietMessage, QuietDecision DEF PagesInv
  <1>4. CASE HireNext /\ UNCHANGED <<sheetVars, fileVars>>
    <2>1. DraftsInv' /\ MessageInv'
      BY <1>1, <1>4, HireDrafts
    <2>2. SheetQuiet /\ FreezeInv'
      BY <1>1, <1>4, HireKeepsHooks DEF SheetQuiet, sheetVars, fileVars, FreezeInv
    <2> QED
      BY <1>1, <1>2, <2>1, <2>2, QuietDecision DEF PagesInv
  <1>5. CASE SheetNext /\ UNCHANGED <<hireVars, fileVars>>
    <2>1. DraftsInv' /\ MessageInv'
      BY <1>1, <1>5, SheetIsQuiet, QuietDrafts, QuietMessage
    <2>2. DecisionInv' /\ FreezeInv'
      BY <1>1, <1>5, SheetDecision, SheetKeepsHooks DEF fileVars, FreezeInv
    <2> QED
      BY <1>2, <2>1, <2>2 DEF PagesInv
  <1>6. CASE FileNext /\ UNCHANGED <<hireVars, sheetVars>>
    <2>1. DraftsInv' /\ MessageInv'
      BY <1>1, <1>6, FileIsQuiet, QuietDrafts, QuietMessage
    <2>2. SheetQuiet /\ FreezeInv'
      BY <1>1, <1>6, FileKeepsHooks, FileFreeze DEF SheetQuiet, sheetVars
    <2> QED
      BY <1>1, <1>2, <2>1, <2>2, QuietDecision DEF PagesInv
  <1>7. CASE UNCHANGED pagesVars
    <2>1. HireQuiet /\ SheetQuiet /\ FreezeInv'
      BY <1>1, <1>7 DEF pagesVars, tab, hireVars, sheetVars, fileVars, HireQuiet, SheetQuiet,
                        FreezeInv, IsSuccess
    <2> QED
      BY <1>1, <1>2, <2>1, QuietDrafts, QuietMessage, QuietDecision DEF PagesInv
  <1> QED
    BY <1>3, <1>4, <1>5, <1>6, <1>7 DEF PagesNext

LEMMA PagesInvariant == PagesSpec => []PagesInv
  BY PagesInitInv, PagesStep, PTL DEF PagesSpec

\* One transaction for one click, with the terms of that click: for any
\* agents and terms and however many clicks, refusals, reverts, lost answers,
\* lost receipts and events elsewhere come between (handleConfirm and the
\* effect).
THEOREM HiresAreConfirmedAlways == PagesSpec => []HiresAreConfirmed
  <1>1. PagesInv => HiresAreConfirmed
    BY DEF PagesInv, DraftsInv, Confirmed, HiresAreConfirmed
  <1> QED
    BY <1>1, PagesInvariant, PTL

\* What the three pages say did not go through is not sent as far as they have
\* heard, then or later (their catches).
THEOREM MessagesAreTrueAlways == PagesSpec => []MessagesAreTrue
  <1>1. PagesInv => MessagesAreTrue
    BY DEF PagesInv, MessageInv, NotHeard, DecisionInv, Heard, FreezeInv, MessagesAreTrue
  <1> QED
    BY <1>1, PagesInvariant, PTL

\* Of the decisions that the sheet's two hooks send, one they have heard of is
\* the last (the buttons, after a success and while a hook is at work).
THEOREM DecisionsDontCrossAlways == PagesSpec => []DecisionsDontCross
  <1>1. PagesInv => DecisionsDontCross
    BY DEF PagesInv, DecisionInv, DecisionsDontCross
  <1> QED
    BY <1>1, PagesInvariant, PTL
=============================================================================
