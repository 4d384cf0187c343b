--------------------------- MODULE SequenceLemmas ---------------------------
(***************************************************************************)
(* Facts about finite queues that the proofs of several components need:   *)
(* what an element appended, taken from the front or taken out leaves at   *)
(* each index.                                                             *)
(***************************************************************************)
EXTENDS Integers, Sequences, SequencesExt, Subsequences, SequenceTheorems, FiniteSetTheorems,
        WellFoundedInduction, TLAPS

\* What is at each index of a queue that grew by one element
LEMMA Appended ==
  ASSUME NEW S, NEW s \in Seq(S), NEW e \in S, NEW t, t = Append(s, e)
  PROVE  /\ t \in Seq(S) /\ Len(s) \in Nat /\ Len(t) = Len(s) + 1
         /\ \A i \in 1 .. Len(s) : i \in 1 .. Len(t) /\ t[i] = s[i]
         /\ Len(s) + 1 \in 1 .. Len(t) /\ t[Len(s) + 1] = e
         /\ \A i \in 1 .. Len(t) : \/ i \in 1 .. Len(s) /\ t[i] = s[i]
                                   \/ i = Len(s) + 1 /\ t[i] = e
<1>1. /\ t \in Seq(S) /\ Len(s) \in Nat /\ Len(t) = Len(s) + 1
      /\ t[Len(s) + 1] = e
      /\ \A i \in 1 .. Len(s) : t[i] = s[i]
  OBVIOUS
<1>2. PICK n \in Nat : n = Len(s)
  BY <1>1
<1>3. \A i \in 1 .. n + 1 : i \in 1 .. n \/ i = n + 1
  OBVIOUS
<1>4. \A i \in 1 .. n : i \in 1 .. n + 1
  OBVIOUS
<1>5. n + 1 \in 1 .. n + 1
  OBVIOUS
<1> QED BY <1>1, <1>2, <1>3, <1>4, <1>5

\* What is at each index of a queue whose first element was taken
LEMMA Tailed ==
  ASSUME NEW S, NEW s \in Seq(S), s # <<>>, NEW t, t = Tail(s)
  PROVE  /\ Head(s) = s[1] /\ s[1] \in S /\ 1 \in 1 .. Len(s)
         /\ t \in Seq(S) /\ Len(s) \in Nat /\ Len(t) = Len(s) - 1
         /\ \A i \in 1 .. Len(t) : i + 1 \in 1 .. Len(s) /\ t[i] = s[i + 1]
         /\ \A i \in 1 .. Len(s) : i = 1 \/ (i - 1 \in 1 .. Len(t) /\ t[i - 1] = s[i])
<1>1. /\ t \in Seq(S) /\ Len(s) \in Nat /\ Len(s) # 0 /\ Len(t) = Len(s) - 1
      /\ Head(s) = s[1]
      /\ \A i \in 1 .. Len(s) - 1 : t[i] = s[i + 1]
  OBVIOUS
<1>2. PICK n \in Nat : n = Len(s) /\ n # 0
  BY <1>1
<1>3. 1 \in 1 .. n
  BY <1>2
<1>4. s[1] \in S
  BY <1>2, <1>3
<1>5. \A i \in 1 .. n - 1 : i + 1 \in 1 .. n
  BY <1>2
<1>6. \A i \in 1 .. n : i = 1 \/ (i - 1 \in 1 .. n - 1 /\ (i - 1) + 1 = i)
  BY <1>2
<1>7. \A i \in 1 .. n : i = 1 \/ (i - 1 \in 1 .. n - 1 /\ t[i - 1] = s[i])
  BY <1>1, <1>2, <1>6
<1> QED BY <1>1, <1>2, <1>3, <1>4, <1>5, <1>7

\* What is at each index of one queue behind another
LEMMA Concatenated ==
  ASSUME NEW S, NEW a \in Seq(S), NEW b \in Seq(S), NEW t, t = a \o b
  PROVE  /\ t \in Seq(S) /\ Len(a) \in Nat /\ Len(b) \in Nat /\ Len(t) = Len(a) + Len(b)
         /\ \A i \in 1 .. Len(t) : t[i] = (IF i =< Len(a) THEN a[i] ELSE b[i - Len(a)])
BY ConcatProperties, LenProperties

\* What is at each index of a queue whose k-th element was taken out
LEMMA RemovedIndexes ==
  ASSUME NEW S, NEW s \in Seq(S), NEW k \in 1 .. Len(s), NEW t, t = RemoveAt(s, k)
  PROVE  /\ t \in Seq(S) /\ Len(t) = Len(s) - 1
         /\ \A i \in 1 .. Len(s) - 1 :
              /\ i < k => t[i] = s[i]
              /\ i >= k => t[i] = s[i + 1]
<1>1. Len(s) \in Nat
  OBVIOUS
<1>2. k \in Nat /\ 1 =< k /\ k =< Len(s)
  BY <1>1
<1> DEFINE a == SubSeq(s, 1, k - 1)
           b == SubSeq(s, k + 1, Len(s))
<1>3. /\ a \in Seq(S) /\ Len(a) = k - 1
      /\ \A i \in 1 .. k - 1 : a[i] = s[i]
  <2>1. \A i \in 1 .. k - 1 : i \in 1 .. Len(s)
    BY <1>1, <1>2
  <2>2. /\ SubSeq(s, 1, k - 1) \in Seq(S)
        /\ Len(SubSeq(s, 1, k - 1)) = IF 1 =< k - 1 THEN (k - 1) - 1 + 1 ELSE 0
        /\ \A i \in 1 .. (k - 1) - 1 + 1 : SubSeq(s, 1, k - 1)[i] = s[1 + i - 1]
    BY <1>2, <2>1, SubSeqProperties
  <2>3. \A i \in 1 .. k - 1 : i \in 1 .. (k - 1) - 1 + 1 /\ 1 + i - 1 = i
    BY <1>2
  <2> QED BY <1>2, <2>2, <2>3
<1>4. /\ b \in Seq(S) /\ Len(b) = Len(s) - k
      /\ \A i \in 1 .. Len(s) - k : b[i] = s[k + i]
  <2>1. \A i \in k + 1 .. Len(s) : i \in 1 .. Len(s)
    BY <1>1, <1>2
  <2>2. /\ SubSeq(s, k + 1, Len(s)) \in Seq(S)
        /\ Len(SubSeq(s, k + 1, Len(s))) = IF k + 1 =< Len(s) THEN Len(s) - (k + 1) + 1 ELSE 0
        /\ \A i \in 1 .. Len(s) - (k + 1) + 1 : SubSeq(s, k + 1, Len(s))[i] = s[(k + 1) + i - 1]
    BY <1>1, <1>2, <2>1, SubSeqProperties
  <2>3. \A i \in 1 .. Len(s) - k : i \in 1 .. Len(s) - (k + 1) + 1 /\ (k + 1) + i - 1 = k + i
    BY <1>1, <1>2
  <2> QED BY <1>1, <1>2, <2>2, <2>3
<1>5. t = a \o b
  BY DEF RemoveAt
<1> HIDE DEF a, b
<1>6. /\ t \in Seq(S) /\ Len(t) = Len(a) + Len(b)
      /\ \A i \in 1 .. Len(t) : t[i] = (IF i =< Len(a) THEN a[i] ELSE b[i - Len(a)])
  <2>1. a \in Seq(S) /\ b \in Seq(S)
    BY <1>3, <1>4
  <2>2. \A u : u = a \o b =>
          /\ u \in Seq(S) /\ Len(u) = Len(a) + Len(b)
          /\ \A i \in 1 .. Len(u) : u[i] = (IF i =< Len(a) THEN a[i] ELSE b[i - Len(a)])
    BY <2>1, Concatenated
  <2> QED BY <1>5, <2>2, Zenon
<1>7. Len(t) = Len(s) - 1
  BY <1>1, <1>2, <1>3, <1>4, <1>6
<1>8. ASSUME NEW i \in 1 .. Len(s) - 1, i < k
      PROVE  t[i] = s[i]
  <2>1. i \in 1 .. k - 1 /\ i =< k - 1
    BY <1>1, <1>2, <1>8
  <2> QED BY <1>3, <1>6, <1>7, <2>1
<1>9. ASSUME NEW i \in 1 .. Len(s) - 1, i >= k
      PROVE  t[i] = s[i + 1]
  <2>1. i - (k - 1) \in 1 .. Len(s) - k /\ k + (i - (k - 1)) = i + 1 /\ ~(i =< k - 1)
    BY <1>1, <1>2, <1>9
  <2>2. t[i] = b[i - (k - 1)]
    BY <1>3, <1>6, <1>7, <2>1
  <2> QED BY <1>4, <2>1, <2>2
<1> QED BY <1>6, <1>7, <1>8, <1>9

(***************************************************************************)
(* The elements of s at the indexes in kept are those of t, in their order *)
(***************************************************************************)
Comes(s, kept, t) == \A i \in 1 .. Len(t) : \E a \in kept : t[i] = s[a]
Stays(s, kept, t) == \A a \in kept : \E i \in 1 .. Len(t) : t[i] = s[a]
Ordered(s, kept, t) ==
  \A i, j \in 1 .. Len(t) : i < j => \E a, b \in kept : a < b /\ t[i] = s[a] /\ t[j] = s[b]

\* Taking out the k-th element keeps the others, in their order.
LEMMA RemovedAt ==
  ASSUME NEW S, NEW s \in Seq(S), NEW k \in 1 .. Len(s), NEW t, t = RemoveAt(s, k)
  PROVE  /\ t \in Seq(S) /\ Len(s) \in Nat /\ Len(t) = Len(s) - 1
         /\ Comes(s, 1 .. Len(s) \ {k}, t)
         /\ Stays(s, 1 .. Len(s) \ {k}, t)
         /\ Ordered(s, 1 .. Len(s) \ {k}, t)
<1>1. Len(s) \in Nat /\ k \in Int /\ 1 =< k /\ k =< Len(s)
  OBVIOUS
<1>2. /\ t \in Seq(S) /\ Len(t) = Len(s) - 1
      /\ \A i \in 1 .. Len(s) - 1 : /\ i < k => t[i] = s[i]
                                    /\ i >= k => t[i] = s[i + 1]
  BY RemovedIndexes, SMTT(30)
<1> DEFINE old(i) == IF i < k THEN i ELSE i + 1
<1>3. ASSUME NEW i \in 1 .. Len(t)
      PROVE  old(i) \in 1 .. Len(s) /\ old(i) # k /\ t[i] = s[old(i)]
  <2>1. i \in 1 .. Len(s) - 1 /\ i \in Int
    BY <1>1, <1>2
  <2>2. CASE i < k
    BY <1>1, <1>2, <2>1, <2>2
  <2>3. CASE ~(i < k)
    <3>1. i >= k /\ i + 1 \in 1 .. Len(s) /\ i + 1 # k
      BY <1>1, <2>1, <2>3
    <3> QED BY <1>2, <2>1, <2>3, <3>1
  <2> QED BY <2>2, <2>3
<1>4. \A i, j \in 1 .. Len(t) : i < j => old(i) < old(j)
  BY <1>1, <1>2
<1> HIDE DEF old
<1>5. ASSUME NEW a \in 1 .. Len(s) \ {k}
      PROVE  \E i \in 1 .. Len(t) : t[i] = s[a]
  <2>1. CASE a < k
    <3>1. a \in 1 .. Len(s) - 1
      BY <1>1, <2>1
    <3> QED BY <1>2, <2>1, <3>1
  <2>2. CASE ~(a < k)
    <3>1. a - 1 \in 1 .. Len(s) - 1 /\ a - 1 >= k /\ (a - 1) + 1 = a
      BY <1>1, <1>5, <2>2
    <3> QED BY <1>2, <3>1
  <2> QED BY <2>1, <2>2
<1>6. Comes(s, 1 .. Len(s) \ {k}, t)
  BY <1>3 DEF Comes
<1>7. Ordered(s, 1 .. Len(s) \ {k}, t)
  BY <1>3, <1>4 DEF Ordered
<1>8. Stays(s, 1 .. Len(s) \ {k}, t)
  BY <1>5 DEF Stays
<1> QED BY <1>1, <1>2, <1>6, <1>7, <1>8

\* A queue without repetitions is as long as the set of its elements is large.
LEMMA Counted ==
  ASSUME NEW S, NEW s \in Seq(S), NEW A,
         \A i, j \in 1 .. Len(s) : s[i] = s[j] => i = j,
         \A x : x \in A <=> \E i \in 1 .. Len(s) : s[i] = x
  PROVE  Cardinality(A) = Len(s)
<1>1. Len(s) \in Nat /\ DOMAIN s = 1 .. Len(s)
  OBVIOUS
<1>2. s \in [1 .. Len(s) -> A]
  BY <1>1
<1>3. s \in Bijection(1 .. Len(s), A)
  BY <1>2 DEF Bijection, Injection, Surjection, IsInjective
<1>4. ExistsBijection(1 .. Len(s), A)
  BY <1>3 DEF ExistsBijection
<1> QED BY <1>1, <1>4, FS_CountingElements

\* The rank orders the indexes that are kept and leaves none out.
LEMMA Ranks ==
  ASSUME NEW K, K \subseteq Nat, IsFiniteSet(K)
  PROVE  /\ Cardinality(K) \in Nat
         /\ \A j \in K : Rank(K, j) \in 0 .. Cardinality(K) - 1
         /\ \A j, l \in K : j < l => Rank(K, j) < Rank(K, l)
         /\ \A i \in 1 .. Cardinality(K) : \E j \in K : Rank(K, j) = i - 1
<1> DEFINE below(j) == {m \in K : m < j}
           n == Cardinality(K)
<1>1. n \in Nat
  BY FS_CardinalityType
<1>2. \A j : IsFiniteSet(below(j)) /\ Cardinality(below(j)) \in Nat
  BY FS_Subset, FS_CardinalityType
<1>3. ASSUME NEW j \in K PROVE Cardinality(below(j)) \in 0 .. n - 1
  <2>1. below(j) \subseteq K /\ below(j) # K
    BY <1>3
  <2>2. Cardinality(below(j)) =< n /\ Cardinality(below(j)) # n
    BY <2>1, FS_Subset
  <2> QED BY <1>1, <1>2, <2>2
<1>4. ASSUME NEW j \in K, NEW l \in K, j < l
      PROVE  Cardinality(below(j)) < Cardinality(below(l))
  <2>1. below(j) \subseteq below(l) /\ below(j) # below(l)
    <3>1. \A m \in K : m \in Int
      OBVIOUS
    <3>2. j \in below(l) /\ j \notin below(j)
      BY <1>4, <3>1
    <3>3. \A m \in K : m < j => m < l
      BY <1>4, <3>1
    <3> QED BY <3>2, <3>3
  <2>2. /\ Cardinality(below(j)) =< Cardinality(below(l))
        /\ Cardinality(below(j)) # Cardinality(below(l))
    BY <1>2, <2>1, FS_Subset
  <2> QED BY <1>2, <2>2
<1>5. \A j : Rank(K, j) = Cardinality(below(j))
  BY DEF Rank
<1> HIDE DEF below, n
<1>6. \A j \in K : Rank(K, j) \in 0 .. n - 1
  BY <1>3, <1>5
<1>7. \A j, l \in K : j < l => Rank(K, j) < Rank(K, l)
  BY <1>4, <1>5
<1>8. ASSUME NEW i \in 1 .. n PROVE \E j \in K : Rank(K, j) = i - 1
  <2> DEFINE f == [j \in K |-> Rank(K, j)]
  <2>1. \A j, l \in K : f[j] = f[l] => j = l
    <3>1. \A j \in K : f[j] \in Int /\ j \in Int
      BY <1>1, <1>6
    <3>2. \A j, l \in K : j < l => f[j] < f[l]
      BY <1>7
    <3> HIDE DEF f
    <3> QED BY <3>1, <3>2
  <2>2. f \in [K -> 0 .. n - 1]
    BY <1>6
  <2> HIDE DEF f
  <2>3. f \in Injection(K, 0 .. n - 1)
    BY <2>1, <2>2 DEF Injection, IsInjective
  <2>4. IsFiniteSet(0 .. n - 1) /\ Cardinality(0 .. n - 1) = n
    BY <1>1, FS_Interval
  <2>5. f \in Surjection(K, 0 .. n - 1)
    BY <2>3, <2>4, FS_Injection DEF n
  <2>6. i - 1 \in 0 .. n - 1
    BY <1>1
  <2>7. \E j \in K : f[j] = i - 1
    BY <2>5, <2>6 DEF Surjection
  <2> QED BY <2>7 DEF f
<1> QED BY <1>1, <1>6, <1>7, <1>8 DEF n

\* What is kept of a queue is what was at the indexes kept, in their order.
LEMMA KeptOnes ==
  ASSUME NEW S, NEW s \in Seq(S), NEW K, K \subseteq 1 .. Len(s), NEW t, t = Kept(s, K)
  PROVE  /\ t \in Seq(S) /\ Len(t) = Cardinality(K) /\ Len(t) \in Nat
         /\ Comes(s, K, t) /\ Stays(s, K, t) /\ Ordered(s, K, t)
<1>1. Len(s) \in Nat
  OBVIOUS
<1>2. K \subseteq Nat /\ IsFiniteSet(K)
  <2>1. IsFiniteSet(1 .. Len(s))
    BY <1>1, FS_Interval
  <2>2. IsFiniteSet(K)
    BY <2>1, FS_Subset
  <2> QED BY <1>1, <2>2
<1> DEFINE n == Cardinality(K)
           at(i) == CHOOSE j \in K : Rank(K, j) = i - 1
<1>3. /\ n \in Nat
      /\ \A j \in K : Rank(K, j) \in 0 .. n - 1
      /\ \A j, l \in K : j < l => Rank(K, j) < Rank(K, l)
      /\ \A i \in 1 .. n : \E j \in K : Rank(K, j) = i - 1
  BY <1>2, Ranks
<1>4. \A i \in 1 .. n : at(i) \in K /\ Rank(K, at(i)) = i - 1
  BY <1>3
<1>5. t = [i \in 1 .. n |-> s[at(i)]]
  BY DEF Kept
<1> HIDE DEF n, at
<1>6. \A i \in 1 .. n : s[at(i)] \in S
  <2>1. \A a \in 1 .. Len(s) : s[a] \in S
    OBVIOUS
  <2> QED BY <1>4, <2>1
<1>7. t \in [1 .. n -> S] /\ \A i \in 1 .. n : t[i] = s[at(i)]
  BY <1>5, <1>6
<1>8. t \in Seq(S) /\ Len(t) = n
  BY <1>3, <1>7
<1>9. Comes(s, K, t)
  BY <1>4, <1>7, <1>8 DEF Comes
<1>r. \A j \in K : Rank(K, j) \in Int /\ j \in Int
  BY <1>2, <1>3
<1>10. \A j, l \in K : Rank(K, j) = Rank(K, l) => j = l
  BY <1>3, <1>r
<1>11. Stays(s, K, t)
  <2> SUFFICES ASSUME NEW a \in K PROVE \E i \in 1 .. Len(t) : t[i] = s[a]
    BY DEF Stays
  <2> DEFINE i == Rank(K, a) + 1
  <2>1. i \in 1 .. n /\ i - 1 = Rank(K, a)
    BY <1>3
  <2> HIDE DEF i
  <2>2. at(i) = a
    BY <1>4, <1>10, <2>1
  <2> QED BY <1>7, <1>8, <2>1, <2>2
<1>12. Ordered(s, K, t)
  <2> SUFFICES ASSUME NEW i \in 1 .. n, NEW j \in 1 .. n, i < j
               PROVE  at(i) < at(j)
    BY <1>4, <1>7, <1>8 DEF Ordered
  <2>1. at(i) \in K /\ at(j) \in K /\ Rank(K, at(i)) < Rank(K, at(j))
    BY <1>3, <1>4
  <2>2. at(i) \in Int /\ at(j) \in Int /\ Rank(K, at(i)) \in Int /\ Rank(K, at(j)) \in Int
    BY <1>r, <2>1
  <2>3. ~(at(j) < at(i)) /\ at(i) # at(j)
    BY <1>3, <2>1, <2>2
  <2> QED BY <2>2, <2>3
<1> QED BY <1>3, <1>8, <1>9, <1>11, <1>12 DEF n

\* A function on the first n numbers is a sequence.
LEMMA Listed ==
  ASSUME NEW S, NEW n \in Nat, NEW t \in [1 .. n -> S]
  PROVE  t \in Seq(S) /\ Len(t) = n /\ DOMAIN t = 1 .. n
<1>1. t \in Seq(S)
  BY SeqDef
<1> QED BY <1>1

\* What is at each index of a queue whose first n elements were taken
LEMMA Dropped ==
  ASSUME NEW S, NEW s \in Seq(S), NEW n \in 0 .. Len(s), NEW t, t = SubSeq(s, n + 1, Len(s))
  PROVE  /\ t \in Seq(S) /\ Len(s) \in Nat /\ Len(t) = Len(s) - n
         /\ \A i \in 1 .. Len(t) : i + n \in 1 .. Len(s) /\ t[i] = s[i + n]
         /\ \A i \in n + 1 .. Len(s) : i - n \in 1 .. Len(t) /\ t[i - n] = s[i]
<1>1. Len(s) \in Nat
  OBVIOUS
<1>2. n \in Nat /\ n =< Len(s)
  BY <1>1
<1>3. \A i \in n + 1 .. Len(s) : i \in 1 .. Len(s)
  BY <1>1, <1>2
<1>4. /\ SubSeq(s, n + 1, Len(s)) \in Seq(S)
      /\ Len(SubSeq(s, n + 1, Len(s))) = IF n + 1 =< Len(s) THEN Len(s) - (n + 1) + 1 ELSE 0
      /\ \A i \in 1 .. Len(s) - (n + 1) + 1 : SubSeq(s, n + 1, Len(s))[i] = s[(n + 1) + i - 1]
  BY <1>1, <1>2, <1>3, SubSeqProperties
<1>5. Len(s) - (n + 1) + 1 = Len(s) - n /\ \A i \in 1 .. Len(s) - n : (n + 1) + i - 1 = i + n
  BY <1>1, <1>2
<1>6. t \in Seq(S) /\ Len(t) = Len(s) - n
  <2>1. t \in Seq(S) /\ Len(t) = IF n + 1 =< Len(s) THEN Len(s) - (n + 1) + 1 ELSE 0
    BY <1>4, Zenon
  <2>2. (IF n + 1 =< Len(s) THEN Len(s) - (n + 1) + 1 ELSE 0) = Len(s) - n
    BY <1>1, <1>2
  <2> QED BY <2>1, <2>2, Zenon
<1>7. \A i \in 1 .. Len(s) - n : t[i] = s[i + n]
  BY <1>4, <1>5
<1>8. /\ \A i \in 1 .. Len(s) - n : i + n \in 1 .. Len(s)
      /\ \A i \in n + 1 .. Len(s) : i - n \in 1 .. Len(s) - n /\ (i - n) + n = i
  BY <1>1, <1>2
<1> QED BY <1>1, <1>6, <1>7, <1>8

(***************************************************************************)
(* What the last element and the front of a nonempty sequence are.         *)
(***************************************************************************)
LEMMA FrontFacts ==
  ASSUME NEW S, NEW s \in Seq(S), s # <<>>
  PROVE  /\ Len(s) \in Nat \ {0}
         /\ Front(s) \in Seq(S)
         /\ Len(Front(s)) = Len(s) - 1
         /\ \A i \in 1 .. Len(s) - 1 : Front(s)[i] = s[i]
         /\ Last(s) = s[Len(s)]
         /\ Last(s) \in S
<1>1. Len(s) \in Nat \ {0}
  BY EmptySeq
<1>2. Front(s) = SubSeq(s, 1, Len(s) - 1) /\ Last(s) = s[Len(s)]
  BY DEF Front, Last
<1>3. \A i \in 1 .. Len(s) : s[i] \in S
  BY ElementOfSeq
<1>4. /\ SubSeq(s, 1, Len(s) - 1) \in Seq(S)
      /\ Len(SubSeq(s, 1, Len(s) - 1)) = Len(s) - 1
      /\ \A i \in 1 .. Len(s) - 1 : SubSeq(s, 1, Len(s) - 1)[i] = s[i]
  <2>1. PICK n \in Nat : n = Len(s) - 1
    BY <1>1
  <2>2. \A i \in 1 .. n : s[i] \in S
    BY <1>1, <1>3, <2>1
  <2>3. /\ SubSeq(s, 1, n) \in Seq(S)
        /\ Len(SubSeq(s, 1, n)) = n
        /\ \A i \in 1 .. n : SubSeq(s, 1, n)[i] = s[i]
    BY <2>2, SubSeqProperties
  <2> QED
    BY <2>1, <2>3
<1> QED
  BY <1>1, <1>2, <1>3, <1>4

\* The last elements of a queue are some of its elements, as many as there is room for.
LEMMA LastOnes ==
  ASSUME NEW S, NEW s \in Seq(S), NEW n \in Nat, NEW t, t = LastOf(s, n)
  PROVE  /\ t \in Seq(S) /\ Len(t) =< n /\ Len(t) \in Nat
         /\ \A i \in 1 .. Len(t) : \E a \in 1 .. Len(s) : t[i] = s[a]
<1>1. Len(s) \in Nat
  OBVIOUS
<1>2. CASE Len(s) =< n
  BY <1>1, <1>2 DEF LastOf
<1>3. CASE ~(Len(s) =< n)
  <2>0. Len(s) - n \in 0 .. Len(s)
    BY <1>1, <1>3
  <2>1. PICK m \in 0 .. Len(s) : m = Len(s) - n
    BY <2>0
  <2>2. t = SubSeq(s, m + 1, Len(s))
    BY <1>3, <2>1 DEF LastOf
  <2>3. /\ t \in Seq(S) /\ Len(t) = Len(s) - m
        /\ \A i \in 1 .. Len(t) : i + m \in 1 .. Len(s) /\ t[i] = s[i + m]
    BY <2>2, Dropped
  <2>4. Len(t) = n
    BY <1>1, <2>1, <2>3
  <2> QED BY <2>3, <2>4
<1> QED BY <1>2, <1>3

-----------------------------------------------------------------------------
(***************************************************************************)
(* Induction, and functions defined by it: the modules fold a step over a  *)
(* sequence with a recursive function, which exists by these lemmas.       *)
(***************************************************************************)
\* Every nonempty set of natural numbers has a least element.
LEMMA Least ==
  ASSUME NEW T, T \subseteq Nat, T # {}
  PROVE  \E x \in T : \A y \in T : x =< y
<1> DEFINE Below(n) == 0 .. (n - 1)
           U == {Below(n) : n \in T}
<1>1. U \subseteq FiniteSubsetsOf(Nat)
  <2>1. ASSUME NEW n \in T PROVE Below(n) \subseteq Nat /\ IsFiniteSet(Below(n))
    <3>1. n \in Nat /\ 0 \in Int /\ n - 1 \in Int
      OBVIOUS
    <3>2. Below(n) \subseteq Nat
      BY <3>1
    <3> QED BY <3>1, <3>2, FS_Interval
  <2> QED BY <2>1 DEF FiniteSubsetsOf
<1>2. U # {}
  OBVIOUS
<1>3. PICK u \in U : \A v \in U : ~(<<v, u>> \in StrictSubsetOrdering(Nat))
  BY <1>1, <1>2, FS_StrictSubsetOrderingWellFounded, WFMin
<1>4. PICK x \in T : u = Below(x)
  BY <1>3
<1>5. ASSUME NEW y \in T PROVE x =< y
  <2>1. SUFFICES ASSUME y < x PROVE FALSE
    BY <1>4
  <2>2. Below(y) \in U /\ Below(y) \subseteq Below(x) /\ Below(y) # Below(x)
    <3>1. y \in Below(x) /\ y \notin Below(y)
      BY <1>4, <2>1
    <3> QED BY <1>4, <2>1, <3>1
  <2>3. <<Below(y), Below(x)>> \in StrictSubsetOrdering(Nat)
    <3>1. Below(y) \in FiniteSubsetsOf(Nat) /\ Below(x) \in FiniteSubsetsOf(Nat)
      BY <1>1, <1>3, <1>4, <2>2
    <3> HIDE DEF Below
    <3>2. Below(y) \in SUBSET Nat /\ IsFiniteSet(Below(y)) /\ Below(x) \in SUBSET Nat
          /\ IsFiniteSet(Below(x))
      BY <3>1, Zenon DEF FiniteSubsetsOf
    <3> QED BY <2>2, <3>1, <3>2, Zenon DEF StrictSubsetOrdering
  <2> QED BY <1>3, <1>4, <2>2, <2>3
<1> QED BY <1>4, <1>5

\* What holds of 0 and of every successor up to k holds up to k.
LEMMA UpTo ==
  ASSUME NEW k \in Nat, NEW T, 0 \in T, \A m \in 1 .. k : m - 1 \in T => m \in T
  PROVE  0 .. k \subseteq T
<1> DEFINE U == {m \in 0 .. k : m \notin T}
<1>1. SUFFICES ASSUME U # {} PROVE FALSE
  OBVIOUS
<1>2. PICK x \in U : \A y \in U : x =< y
  <2>1. U \subseteq Nat
    OBVIOUS
  <2> HIDE DEF U
  <2> QED BY <1>1, <2>1, Least
<1>3. x \in 1 .. k /\ x - 1 \in 0 .. k /\ ~(x =< x - 1)
  BY <1>2
<1>4. x - 1 \in T
  BY <1>2, <1>3
<1> QED BY <1>2, <1>3, <1>4

\* g is what the first k of the steps F make of base, one after the other.
Follows(g, S, base, F, k) ==
  /\ g \in [0 .. k -> S] /\ g[0] = base
  /\ \A n \in 1 .. k : g[n] = F[n][g[n - 1]]

\* Steps that keep within S can be taken one after the other.
LEMMA Iterated ==
  ASSUME NEW S, NEW base \in S, NEW k \in Nat, NEW F \in [1 .. k -> [S -> S]]
  PROVE  \E g : Follows(g, S, base, F, k)
<1> DEFINE Upto(m, g) == Follows(g, S, base, F, m)
           T == {m \in 0 .. k : \E g : Upto(m, g)}
<1>1. 0 \in T
  <2> DEFINE g == [i \in 0 .. 0 |-> base]
  <2>1. Upto(0, g)
    BY DEF Follows
  <2> HIDE DEF Upto, g
  <2> QED BY <2>1
<1>2. ASSUME NEW m \in 1 .. k, m - 1 \in T PROVE m \in T
  <2>1. PICK g : Upto(m - 1, g)
    BY <1>2
  <2> USE DEF Follows
  <2> DEFINE h == [i \in 0 .. m |-> IF i < m THEN g[i] ELSE F[m][g[m - 1]]]
  <2>2. m - 1 \in 0 .. m - 1 /\ g[m - 1] \in S /\ F[m] \in [S -> S]
    BY <2>1
  <2>3. h \in [0 .. m -> S]
    BY <2>1, <2>2
  <2>4. h[0] = base
    BY <2>1
  <2>5. ASSUME NEW n \in 1 .. m PROVE h[n] = F[n][h[n - 1]]
    <3>1. h[n - 1] = g[n - 1]
      OBVIOUS
    <3>2. CASE n = m
      BY <3>1, <3>2
    <3>3. CASE n < m
      BY <2>1, <3>1, <3>3
    <3> QED BY <3>2, <3>3
  <2>6. Upto(m, h)
    BY <2>3, <2>4, <2>5
  <2> HIDE DEF Upto, h
  <2> QED BY <2>6
<1>3. k \in T
  <2> HIDE DEF T
  <2>1. 0 .. k \subseteq T
    BY <1>1, <1>2, UpTo
  <2> QED BY <2>1
<1> QED BY <1>3
=============================================================================
