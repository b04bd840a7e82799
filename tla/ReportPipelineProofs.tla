------------------------ MODULE ReportPipelineProofs ------------------------
(***************************************************************************)
(* Theorems about ReportPipeline and the operators of FindingMerge it is   *)
(* built from.  Induction over the data (the fold of the union-find, the   *)
(* concatenation of lists) is by the least counterexample.                 *)
(***************************************************************************)
EXTENDS ReportPipeline, FiniteSetTheorems, FunctionTheorems, SequenceTheorems, TLAPS

-----------------------------------------------------------------------------
(* Finite orders.                                                          *)

\* In a finite strict total order the number of elements before each one runs
\* from 0 to one less than the size of the set, without a repetition.
LEMMA Ranks ==
    ASSUME NEW D, IsFiniteSet(D), NEW before \in [D -> SUBSET D],
           \A i \in D : i \notin before[i],
           \A i, k \in D : i # k => k \in before[i] \/ i \in before[k],
           \A i, k \in D : k \in before[i] => before[k] \subseteq before[i]
    PROVE  /\ Cardinality(D) \in Nat
           /\ \A i \in D : IsFiniteSet(before[i]) /\ Cardinality(before[i]) \in Nat
           /\ \A i \in D : Cardinality(before[i]) < Cardinality(D)
           /\ \A i, k \in D : k \in before[i] => Cardinality(before[k]) < Cardinality(before[i])
           /\ \A i, k \in D : Cardinality(before[i]) = Cardinality(before[k]) => i = k
           /\ \A m \in 1 .. Cardinality(D) : \E i \in D : Cardinality(before[i]) = m - 1
  <1>n. PICK n : n = Cardinality(D)
    OBVIOUS
  <1>0. n \in Nat
    BY <1>n, FS_CardinalityType
  <1>1. ASSUME NEW i \in D
        PROVE  IsFiniteSet(before[i]) /\ Cardinality(before[i]) \in Nat /\ Cardinality(before[i]) < n
    <2>1. before[i] \in SUBSET D /\ before[i] # D
      OBVIOUS
    <2>. QED  BY <1>0, <1>n, <2>1, FS_Subset, FS_CardinalityType
  <1>2. ASSUME NEW i \in D, NEW k \in D, k \in before[i]
        PROVE  Cardinality(before[k]) < Cardinality(before[i])
    <2>1. before[k] \in SUBSET before[i] /\ before[k] # before[i]
      BY <1>2
    <2>. QED  BY <1>1, <2>1, FS_Subset
  <1>3. \A i, k \in D : Cardinality(before[i]) = Cardinality(before[k]) => i = k
    BY <1>1, <1>2
  <1>. DEFINE rank == [i \in D |-> Cardinality(before[i]) + 1]
  <1>4. rank \in Injection(D, 1 .. n)
    <2>1. rank \in [D -> 1 .. n]
      BY <1>0, <1>1
    <2>2. \A i, k \in D : rank[i] = rank[k] => i = k
      BY <1>1, <1>3
    <2>. QED  BY <2>1, <2>2 DEF Injection, IsInjective
  <1>5. rank \in Surjection(D, 1 .. n)
    <2>1. IsFiniteSet(1 .. n) /\ Cardinality(1 .. n) = n
      BY <1>0, FS_Interval
    <2>. HIDE DEF rank
    <2>. QED  BY <1>4, <1>n, <2>1, FS_Injection
  <1>6. ASSUME NEW m \in 1 .. n PROVE \E i \in D : Cardinality(before[i]) = m - 1
    <2>1. PICK i \in D : rank[i] = m
      BY <1>5 DEF Surjection
    <2>2. Cardinality(before[i]) = m - 1
      BY <1>1, <2>1
    <2>. QED  BY <2>2
  <1>. QED  BY <1>0, <1>1, <1>2, <1>3, <1>6, <1>n

\* A list that names each element of a set once, each after what is before it.
Enumerates(t, S, before) ==
    /\ Cardinality(S) \in Nat
    /\ t \in [1 .. Cardinality(S) -> S]
    /\ \A x \in S : \E k \in 1 .. Cardinality(S) : t[k] = x
    /\ \A i, k \in 1 .. Cardinality(S) : i < k <=> t[i] \in before[t[k]]

LEMMA OrderedList ==
    ASSUME NEW S, IsFiniteSet(S), NEW before \in [S -> SUBSET S],
           \A i \in S : i \notin before[i],
           \A i, k \in S : i # k => k \in before[i] \/ i \in before[k],
           \A i, k \in S : k \in before[i] => before[k] \subseteq before[i]
    PROVE  Enumerates(Ordered(S, before), S, before)
  <1>n. PICK n : n = Cardinality(S)
    OBVIOUS
  <1>r. PICK rank : rank = [x \in S |-> Cardinality(before[x])]
    OBVIOUS
  <1>1. /\ n \in Nat
        /\ \A x \in S : rank[x] \in Nat /\ rank[x] < n
        /\ \A x, y \in S : y \in before[x] => rank[y] < rank[x]
        /\ \A x, y \in S : rank[x] = rank[y] => x = y
        /\ \A k \in 1 .. n : \E x \in S : rank[x] = k - 1
    BY <1>n, <1>r, Ranks
  <1>. DEFINE Place(k) == CHOOSE x \in S : rank[x] = k - 1
  <1>t. PICK t : t = [k \in 1 .. n |-> Place(k)]
    OBVIOUS
  <1>2. Ordered(S, before) = t
    <2>1. \A k : Place(k) = CHOOSE x \in S : Cardinality(before[x]) = k - 1
      BY <1>r
    <2>2. Ordered(S, before) = [k \in 1 .. n |-> CHOOSE x \in S : Cardinality(before[x]) = k - 1]
      BY <1>n DEF Ordered
    <2>. HIDE DEF Place
    <2>. QED  BY <1>t, <2>1, <2>2
  <1>3. ASSUME NEW k \in 1 .. n PROVE t[k] \in S /\ rank[t[k]] = k - 1
    <2>1. Place(k) \in S /\ rank[Place(k)] = k - 1
      BY <1>1
    <2>. HIDE DEF Place
    <2>. QED  BY <1>t, <2>1
  <1>4. t \in [1 .. n -> S]
    BY <1>t, <1>3
  <1>5. ASSUME NEW x \in S PROVE \E k \in 1 .. n : t[k] = x
    <2>k. PICK k \in 1 .. n : k - 1 = rank[x]
      BY <1>1
    <2>. QED  BY <1>1, <1>3, <2>k
  <1>6. ASSUME NEW i \in 1 .. n, NEW k \in 1 .. n PROVE i < k <=> t[i] \in before[t[k]]
    <2>1. /\ t[i] \in S /\ t[k] \in S /\ rank[t[i]] = i - 1 /\ rank[t[k]] = k - 1
      BY <1>3
    <2>2. t[i] \in before[t[k]] => i < k
      BY <1>1, <2>1
    <2>3. i < k => t[i] \in before[t[k]]
      <3>1. i < k => t[i] # t[k] /\ t[k] \notin before[t[i]]
        BY <1>1, <2>1
      <3>. QED  BY <2>1, <3>1
    <2>. QED  BY <2>2, <2>3
  <1>. QED  BY <1>1, <1>2, <1>4, <1>5, <1>6, <1>n DEF Enumerates

\* The list of some numbers from the least.
LEMMA AscendingList ==
    ASSUME NEW S, IsFiniteSet(S), \A i \in S : i \in Int
    PROVE  /\ Cardinality(S) \in Nat
           /\ Ascending(S) \in [1 .. Cardinality(S) -> S]
           /\ \A x \in S : \E k \in 1 .. Cardinality(S) : Ascending(S)[k] = x
           /\ \A i, k \in 1 .. Cardinality(S) : i < k <=> Ascending(S)[i] < Ascending(S)[k]
  <1>b. PICK before : before = [i \in S |-> {j \in S : j < i}]
    OBVIOUS
  <1>1. before \in [S -> SUBSET S] /\ \A i, k \in S : k \in before[i] <=> k < i
    BY <1>b
  <1>2. /\ \A i \in S : i \notin before[i]
        /\ \A i, k \in S : i # k => k \in before[i] \/ i \in before[k]
    BY <1>1
  <1>3. ASSUME NEW i \in S, NEW k \in S, k \in before[i] PROVE before[k] \subseteq before[i]
    <2>1. \A j \in S : j < k => j < i
      BY <1>1, <1>3
    <2>. QED  BY <1>1, <2>1
  <1>4. Enumerates(Ordered(S, before), S, before)
    BY <1>1, <1>2, <1>3, OrderedList
  <1>5. Ascending(S) = Ordered(S, before)
    BY <1>b DEF Ascending
  <1>t. PICK t : t = Ascending(S)
    OBVIOUS
  <1>6. /\ Cardinality(S) \in Nat /\ t \in [1 .. Cardinality(S) -> S]
        /\ \A x \in S : \E k \in 1 .. Cardinality(S) : t[k] = x
        /\ \A i, k \in 1 .. Cardinality(S) : i < k <=> t[i] \in before[t[k]]
    BY <1>4, <1>5, <1>t DEF Enumerates
  <1>7. \A i, k \in 1 .. Cardinality(S) : i < k <=> t[i] < t[k]
    BY <1>1, <1>6
  <1>. QED  BY <1>6, <1>7, <1>t

\* A finite set of numbers that is not empty has a first and a last.
LEMMA Ends ==
    ASSUME NEW D, \A i \in D : i \in Int, IsFiniteSet(D), D # {}
    PROVE  (\E m \in D : \A i \in D : i <= m) /\ (\E m \in D : \A i \in D : m <= i)
  <1>n. PICK n : n = Cardinality(D)
    OBVIOUS
  <1>t. PICK t : t = Ascending(D)
    OBVIOUS
  <1>1. /\ n \in Nat /\ t \in [1 .. n -> D]
        /\ \A x \in D : \E k \in 1 .. n : t[k] = x
        /\ \A i, k \in 1 .. n : i < k <=> t[i] < t[k]
    BY <1>n, <1>t, AscendingList
  <1>2. 1 \in 1 .. n /\ n \in 1 .. n
    BY <1>1
  <1>3. ASSUME NEW x \in D PROVE t[1] <= x /\ x <= t[n]
    <2>1. PICK k \in 1 .. n : t[k] = x
      BY <1>1
    <2>2. k = 1 \/ t[1] < t[k]
      BY <1>1, <1>2
    <2>3. k = n \/ t[k] < t[n]
      BY <1>1, <1>2
    <2>. QED  BY <1>1, <1>2, <2>1, <2>2, <2>3
  <1>. QED  BY <1>1, <1>2, <1>3

-----------------------------------------------------------------------------
(* Lists.                                                                  *)

\* Those keeps the items at the places it is given, and their order.
LEMMA ThoseList ==
    ASSUME NEW X, NEW s \in Seq(X), NEW P \in SUBSET DOMAIN s
    PROVE  /\ Cardinality(P) \in Nat
           /\ Those(s, P) \in Seq(X) /\ Len(Those(s, P)) = Cardinality(P)
           /\ DOMAIN Those(s, P) = 1 .. Cardinality(P)
           /\ \E at \in [1 .. Cardinality(P) -> P] :
                /\ at = Ascending(P)
                /\ \A k \in 1 .. Cardinality(P) : Those(s, P)[k] = s[at[k]]
                /\ \A i \in P : \E k \in 1 .. Cardinality(P) : at[k] = i
                /\ \A i, k \in 1 .. Cardinality(P) : i < k <=> at[i] < at[k]
  <1>n. PICK n : n = Cardinality(P)
    OBVIOUS
  <1>a. PICK at : at = Ascending(P)
    OBVIOUS
  <1>1. IsFiniteSet(P) /\ \A i \in P : i \in Int
    <2>1. IsFiniteSet(1 .. Len(s)) /\ P \in SUBSET (1 .. Len(s))
      BY FS_Interval
    <2>. QED  BY <2>1, FS_Subset
  <1>2. /\ n \in Nat /\ at \in [1 .. n -> P]
        /\ \A i \in P : \E k \in 1 .. n : at[k] = i
        /\ \A i, k \in 1 .. n : i < k <=> at[i] < at[k]
    BY <1>1, <1>n, <1>a, AscendingList
  <1>3. Those(s, P) = [k \in 1 .. n |-> s[at[k]]]
    BY <1>2, <1>a DEF Those
  <1>4. \A k \in 1 .. n : s[at[k]] \in X
    BY <1>2
  <1>5. Those(s, P) \in Seq(X) /\ Len(Those(s, P)) = n /\ DOMAIN Those(s, P) = 1 .. n
    BY <1>2, <1>3, <1>4
  <1>. QED  BY <1>2, <1>3, <1>5, <1>n, <1>a

LEMMA ThoseItems ==
    ASSUME NEW X, NEW s \in Seq(X), NEW P \in SUBSET DOMAIN s
    PROVE  /\ ToSet(Those(s, P)) = {s[i] : i \in P}
           /\ Those(s, P) # <<>> <=> P # {}
  <1>n. PICK n : n = Cardinality(P)
    OBVIOUS
  <1>t. PICK t : t = Those(s, P)
    OBVIOUS
  <1>1. PICK at \in [1 .. n -> P] :
          /\ \A k \in 1 .. n : t[k] = s[at[k]]
          /\ \A i \in P : \E k \in 1 .. n : at[k] = i
    BY <1>n, <1>t, ThoseList
  <1>2. n \in Nat /\ t \in Seq(X) /\ Len(t) = n /\ DOMAIN t = 1 .. n
    BY <1>n, <1>t, ThoseList
  <1>3. ToSet(t) = {s[i] : i \in P}
    <2>1. ToSet(t) = {t[k] : k \in 1 .. n}
      BY <1>2 DEF ToSet
    <2>2. \A k \in 1 .. n : at[k] \in P /\ t[k] = s[at[k]]
      BY <1>1
    <2>3. \A i \in P : \E k \in 1 .. n : t[k] = s[i]
      BY <1>1
    <2>. QED  BY <2>1, <2>2, <2>3
  <1>4. t # <<>> <=> P # {}
    <2>1. n = 0 => t = <<>>
      BY <1>2
    <2>2. n # 0 => t # <<>> /\ at[1] \in P
      BY <1>1, <1>2
    <2>3. P # {} => n # 0
      BY <1>1, <1>2
    <2>. QED  BY <2>1, <2>2, <2>3, <1>1, <1>2
  <1>. QED  BY <1>3, <1>4, <1>t

\* SortedBy rearranges a list: by decreasing key, and as it was among equals.
LEMMA SortedList ==
    ASSUME NEW X, NEW s \in Seq(X), NEW key \in [DOMAIN s -> Int]
    PROVE  /\ SortedBy(s, key) \in Seq(X) /\ Len(SortedBy(s, key)) = Len(s)
           /\ DOMAIN SortedBy(s, key) = DOMAIN s
           /\ \E at \in [DOMAIN s -> DOMAIN s] :
                /\ \A k \in DOMAIN s : SortedBy(s, key)[k] = s[at[k]]
                /\ \A i \in DOMAIN s : \E k \in DOMAIN s : at[k] = i
                /\ \A i, k \in DOMAIN s : at[i] = at[k] => i = k
                /\ \A i, k \in DOMAIN s : i < k => key[at[k]] <= key[at[i]]
  <1>n. PICK n : n = Len(s)
    OBVIOUS
  <1>d. PICK D : D = 1 .. n
    OBVIOUS
  <1>0. n \in Nat /\ D = DOMAIN s /\ key \in [D -> Int] /\ \A i \in D : i \in Int
    BY <1>n, <1>d
  <1>b. PICK before : before = [i \in D |-> {j \in D : key[j] > key[i] \/ (key[j] = key[i] /\ j < i)}]
    OBVIOUS
  <1>1. /\ before \in [D -> SUBSET D]
        /\ \A i, k \in D : k \in before[i] <=> (key[k] > key[i] \/ (key[k] = key[i] /\ k < i))
    BY <1>b
  <1>2. /\ \A i \in D : i \notin before[i]
        /\ \A i, k \in D : i # k => k \in before[i] \/ i \in before[k]
    BY <1>0, <1>1
  <1>3. \A i, k \in D : k \in before[i] => before[k] \subseteq before[i]
    <2>1. \A i, k, j \in D : k \in before[i] /\ j \in before[k] => j \in before[i]
      BY <1>0, <1>1
    <2>. QED  BY <1>1, <2>1
  <1>4. IsFiniteSet(D) /\ Cardinality(D) = n
    BY <1>0, <1>d, FS_Interval
  <1>a. PICK at : at = Ordered(D, before)
    OBVIOUS
  <1>5. Enumerates(at, D, before)
    BY <1>1, <1>2, <1>3, <1>4, <1>a, OrderedList
  <1>6. /\ at \in [D -> D]
        /\ \A x \in D : \E k \in D : at[k] = x
        /\ \A i, k \in D : i < k <=> at[i] \in before[at[k]]
    BY <1>4, <1>5, <1>d DEF Enumerates
  <1>7. \A i, k \in D : i < k => key[at[k]] <= key[at[i]]
    <2>1. \A i, k \in D : i < k => at[i] \in D /\ at[k] \in D /\ at[i] \in before[at[k]]
      BY <1>6
    <2>2. \A x, y \in D : x \in before[y] => key[y] <= key[x]
      BY <1>0, <1>1
    <2>. QED  BY <2>1, <2>2
  <1>8. \A i, k \in D : at[i] = at[k] => i = k
    <2>1. \A i, k \in D : i < k => at[i] # at[k] /\ at[k] # at[i]
      BY <1>2, <1>6
    <2>. QED  BY <1>0, <2>1
  <1>9. SortedBy(s, key) = [k \in D |-> s[at[k]]]
    BY <1>0, <1>a, <1>b DEF SortedBy
  <1>10. \A k \in D : s[at[k]] \in X
    BY <1>0, <1>6
  <1>11. SortedBy(s, key) \in Seq(X) /\ Len(SortedBy(s, key)) = n /\ DOMAIN SortedBy(s, key) = D
    <2>1. SortedBy(s, key) \in [1 .. n -> X]
      BY <1>d, <1>9, <1>10
    <2>. QED  BY <1>0, <1>d, <2>1
  <1>. QED  BY <1>0, <1>6, <1>7, <1>8, <1>9, <1>11, <1>n

LEMMA SortedItems ==
    ASSUME NEW X, NEW s \in Seq(X), NEW key \in [DOMAIN s -> Int]
    PROVE  ToSet(SortedBy(s, key)) = ToSet(s)
  <1>1. PICK at \in [DOMAIN s -> DOMAIN s] :
          /\ \A k \in DOMAIN s : SortedBy(s, key)[k] = s[at[k]]
          /\ \A i \in DOMAIN s : \E k \in DOMAIN s : at[k] = i
          /\ \A i, k \in DOMAIN s : at[i] = at[k] => i = k
          /\ \A i, k \in DOMAIN s : i < k => key[at[k]] <= key[at[i]]
    BY SortedList
  <1>2. DOMAIN SortedBy(s, key) = DOMAIN s
    BY SortedList
  <1>3. \A k \in DOMAIN s : at[k] \in DOMAIN s
    BY <1>1
  <1>. QED  BY <1>1, <1>2, <1>3 DEF ToSet

\* MaxBy is an item of the list that no other exceeds.
LEMMA MaxByItem ==
    ASSUME NEW X, NEW s \in Seq(X), s # <<>>, NEW key \in [DOMAIN s -> Int]
    PROVE  \E i \in DOMAIN s : MaxBy(s, key) = s[i] /\ \A j \in DOMAIN s : key[j] <= key[i]
  <1>. DEFINE First(i) == /\ \A j \in DOMAIN s : key[j] <= key[i]
                          /\ \A j \in 1 .. (i - 1) : key[j] < key[i]
  <1>1. MaxBy(s, key) = s[CHOOSE i \in DOMAIN s : First(i)]
    BY DEF MaxBy
  <1>2. \E i \in DOMAIN s : First(i)
    <2>0. /\ Len(s) \in Nat /\ DOMAIN s = 1 .. Len(s) /\ 1 \in DOMAIN s
          /\ \A i \in DOMAIN s : key[i] \in Int
      BY EmptySeq
    <2>1. PICK at \in [DOMAIN s -> DOMAIN s] :
            /\ \A i \in DOMAIN s : \E k \in DOMAIN s : at[k] = i
            /\ \A i, k \in DOMAIN s : i < k => key[at[k]] <= key[at[i]]
      BY SortedList
    <2>2. \A j \in DOMAIN s : key[j] <= key[at[1]]
      <3>1. ASSUME NEW j \in DOMAIN s PROVE key[j] <= key[at[1]]
        <4>1. PICK k \in DOMAIN s : at[k] = j
          BY <2>1
        <4>2. k = 1 \/ 1 < k
          BY <2>0
        <4>3. key[j] \in Int /\ 1 \in DOMAIN s
          BY <2>0
        <4>4. 1 < k => key[at[k]] <= key[at[1]]
          BY <2>1, <4>3
        <4>5. k = 1 => key[j] <= key[at[1]]
          BY <4>1, <4>3
        <4>. QED  BY <4>1, <4>2, <4>4, <4>5
      <3>. QED  BY <3>1
    <2>b. PICK best : best = {i \in DOMAIN s : key[i] = key[at[1]]}
      OBVIOUS
    <2>3. /\ IsFiniteSet(best) /\ best # {} /\ \A i \in best : i \in Int
      <3>1. IsFiniteSet(DOMAIN s) /\ best \in SUBSET DOMAIN s
        BY <2>0, <2>b, FS_Interval
      <3>2. at[1] \in best
        BY <2>0, <2>b
      <3>. QED  BY <2>0, <3>1, <3>2, FS_Subset
    <2>4. PICK i \in best : \A j \in best : i <= j
      BY <2>3, Ends
    <2>5. First(i)
      <3>1. i \in DOMAIN s /\ key[i] = key[at[1]]
        BY <2>b
      <3>2. \A j \in 1 .. (i - 1) : j \in DOMAIN s /\ j \notin best
        BY <2>0, <2>4, <3>1
      <3>3. \A j \in 1 .. (i - 1) : key[j] < key[i]
        BY <2>0, <2>2, <2>b, <3>1, <3>2
      <3>. QED  BY <2>2, <3>1, <3>3
    <2>. QED  BY <2>5, <2>b
  <1>3. PICK i : i = CHOOSE k \in DOMAIN s : First(k)
    OBVIOUS
  <1>4. i \in DOMAIN s /\ First(i)
    <2>. HIDE DEF First
    <2>. QED  BY <1>2, <1>3
  <1>. QED  BY <1>1, <1>3, <1>4

\* Induction up to a number, for membership of a set.
LEMMA UpTheNumbers ==
    ASSUME NEW n \in Nat, NEW Good, 0 \in Good, \A i \in 0 .. (n - 1) : i \in Good => i + 1 \in Good
    PROVE  \A i \in 0 .. n : i \in Good
  <1>b. PICK bad : bad = {i \in 0 .. n : i \notin Good}
    OBVIOUS
  <1>1. ASSUME bad # {} PROVE FALSE
    <2>1. IsFiniteSet(0 .. n) /\ bad \in SUBSET (0 .. n)
      BY <1>b, FS_Interval
    <2>2. IsFiniteSet(bad) /\ \A i \in bad : i \in Int
      <3>1. IsFiniteSet(bad)
        BY <2>1, FS_Subset
      <3>2. \A i \in 0 .. n : i \in Int
        OBVIOUS
      <3>. QED  BY <2>1, <3>1, <3>2
    <2>3. PICK m \in bad : \A i \in bad : m <= i
      BY <1>1, <2>2, Ends
    <2>4. m \in 1 .. n /\ m - 1 \in 0 .. (n - 1) /\ m - 1 \notin bad
      BY <1>b, <2>3
    <2>5. m - 1 \in Good
      BY <1>b, <2>4
    <2>6. (m - 1) + 1 \in Good
      BY <2>4, <2>5
    <2>. QED  BY <1>b, <2>4, <2>6
  <1>. QED  BY <1>1, <1>b

\* What FlattenSeq computes, list after list.
LEMMA FlattenSteps ==
    ASSUME NEW X, NEW ss \in Seq(Seq(X)), ss # <<>>
    PROVE  \E f \in [1 .. Len(ss) -> Seq(X)] :
             /\ FlattenSeq(ss) = f[Len(ss)]
             /\ f[1] = ss[1]
             /\ \A i \in 2 .. Len(ss) : f[i] = f[i - 1] \o ss[i]
  <1>n. PICK n : n = Len(ss)
    OBVIOUS
  <1>0. n \in Nat \ {0} /\ DOMAIN ss = 1 .. n /\ \A i \in 1 .. n : ss[i] \in Seq(X)
    BY <1>n, EmptySeq
  <1>. DEFINE Flatten(f, m) == f = [i \in 1 .. m |-> IF i = 1 THEN ss[i] ELSE f[i - 1] \o ss[i]]
  <1>g. PICK good : good = {m \in 0 .. n : \E f : Flatten(f, m)}
    OBVIOUS
  <1>1. 0 \in good
    <2>1. PICK f : f = [i \in 1 .. 0 |-> ss[i]]
      OBVIOUS
    <2>2. f = [i \in 1 .. 0 |-> IF i = 1 THEN ss[i] ELSE f[i - 1] \o ss[i]]
      BY <2>1
    <2>3. Flatten(f, 0)
      BY <2>2
    <2>. HIDE DEF Flatten
    <2>. QED  BY <1>0, <1>g, <2>3
  <1>2. ASSUME NEW m \in 0 .. (n - 1), m \in good PROVE m + 1 \in good
    <2>1. PICK f : Flatten(f, m)
      BY <1>2, <1>g
    <2>2. DOMAIN f = 1 .. m /\ \A i \in 1 .. m : f[i] = IF i = 1 THEN ss[i] ELSE f[i - 1] \o ss[i]
      BY <2>1
    <2>3. PICK g : g = [i \in 1 .. (m + 1) |-> IF i <= m THEN f[i] ELSE IF i = 1 THEN ss[i] ELSE f[m] \o ss[i]]
      OBVIOUS
    <2>4. ASSUME NEW i \in 1 .. (m + 1) PROVE g[i] = IF i = 1 THEN ss[i] ELSE g[i - 1] \o ss[i]
      <3>1. CASE i <= m
        <4>1. i \in 1 .. m /\ g[i] = f[i]
          BY <2>3, <3>1, <1>0
        <4>2. i # 1 => i - 1 \in 1 .. (m + 1) /\ i - 1 <= m
          BY <1>0, <3>1
        <4>3. i # 1 => g[i - 1] = f[i - 1]
          BY <2>3, <4>2
        <4>. QED  BY <2>2, <4>1, <4>3
      <3>2. CASE i = m + 1
        <4>1. i # 1 => m \in 1 .. (m + 1) /\ i - 1 = m /\ g[m] = f[m]
          BY <1>0, <2>3, <3>2
        <4>2. g[i] = IF i = 1 THEN ss[i] ELSE f[m] \o ss[i]
          BY <1>0, <2>3, <3>2
        <4>. QED  BY <4>1, <4>2
      <3>. QED  BY <1>0, <3>1, <3>2
    <2>5. g = [i \in 1 .. (m + 1) |-> g[i]]
      BY <2>3
    <2>6. Flatten(g, m + 1)
      BY <2>4, <2>5
    <2>. HIDE DEF Flatten
    <2>. QED  BY <1>0, <1>g, <2>6
  <1>3. \E f : Flatten(f, n)
    <2>1. \A i \in 0 .. n : i \in good
      <3>. HIDE DEF Flatten
      <3>. QED  BY <1>0, <1>1, <1>2, UpTheNumbers
    <2>. HIDE DEF Flatten
    <2>. QED  BY <1>0, <1>g, <2>1
  <1>4. PICK f : f = (CHOOSE flatten : Flatten(flatten, n))
    OBVIOUS
  <1>5. Flatten(f, n)
    <2>. HIDE DEF Flatten
    <2>. QED  BY <1>3, <1>4
  <1>6. FlattenSeq(ss) = f[n]
    BY <1>0, <1>4, <1>n DEF FlattenSeq
  <1>f. f = [i \in 1 .. n |-> f[i]]
    BY <1>5
  <1>7. \A i \in 1 .. n : f[i] = IF i = 1 THEN ss[i] ELSE f[i - 1] \o ss[i]
    BY <1>5
  <1>8. f[1] = ss[1] /\ \A i \in 2 .. n : f[i] = f[i - 1] \o ss[i]
    <2>1. 1 \in 1 .. n /\ \A i \in 2 .. n : i \in 1 .. n /\ i # 1
      BY <1>0
    <2>. QED  BY <1>7, <2>1
  <1>9. \A i \in 1 .. n : f[i] \in Seq(X)
    <2>g. PICK typed : typed = {0} \cup {i \in 1 .. n : f[i] \in Seq(X)}
      OBVIOUS
    <2>1. ASSUME NEW i \in 0 .. (n - 1), i \in typed PROVE i + 1 \in typed
      <3>1. CASE i = 0
        BY <1>0, <1>8, <2>g, <3>1
      <3>2. CASE i # 0
        <4>1. i \in 1 .. n /\ i + 1 \in 2 .. n /\ f[i] \in Seq(X) /\ ss[i + 1] \in Seq(X)
          BY <1>0, <2>1, <2>g, <3>2
        <4>2. (i + 1) - 1 = i
          BY <1>0
        <4>3. f[i + 1] = f[i] \o ss[i + 1]
          BY <1>8, <4>1, <4>2
        <4>4. f[i + 1] \in Seq(X) /\ i + 1 \in 1 .. n
          BY <1>0, <4>1, <4>3, ConcatProperties
        <4>. QED  BY <2>g, <4>4
      <3>. QED  BY <3>1, <3>2
    <2>2. \A i \in 0 .. n : i \in typed
      <3>1. 0 \in typed
        BY <2>g
      <3>. QED  BY <1>0, <2>1, <3>1, UpTheNumbers
    <2>. QED  BY <1>0, <2>2, <2>g
  <1>. QED  BY <1>6, <1>f, <1>8, <1>9, <1>n

\* The items of a concatenation.
LEMMA JoinedItems ==
    ASSUME NEW X, NEW s \in Seq(X), NEW t \in Seq(X)
    PROVE  s \o t \in Seq(X) /\ ToSet(s \o t) = ToSet(s) \cup ToSet(t)
  <1>1. /\ s \o t \in Seq(X) /\ Len(s \o t) = Len(s) + Len(t)
        /\ \A i \in 1 .. Len(s) + Len(t) : (s \o t)[i] = IF i <= Len(s) THEN s[i] ELSE t[i - Len(s)]
    BY ConcatProperties
  <1>2. ToSet(s) \subseteq ToSet(s \o t)
    BY <1>1 DEF ToSet
  <1>3. ToSet(t) \subseteq ToSet(s \o t)
    <2>1. ASSUME NEW i \in 1 .. Len(t) PROVE t[i] = (s \o t)[i + Len(s)] /\ i + Len(s) \in DOMAIN (s \o t)
      BY <1>1
    <2>2. DOMAIN t = 1 .. Len(t)
      OBVIOUS
    <2>. QED  BY <2>1, <2>2 DEF ToSet
  <1>4. ToSet(s \o t) \subseteq ToSet(s) \cup ToSet(t)
    <2>1. ASSUME NEW i \in 1 .. Len(s) + Len(t)
          PROVE  (i \in 1 .. Len(s) /\ (s \o t)[i] = s[i])
                 \/ (i - Len(s) \in 1 .. Len(t) /\ (s \o t)[i] = t[i - Len(s)])
      BY <1>1
    <2>. QED  BY <1>1, <2>1 DEF ToSet
  <1>. QED  BY <1>1, <1>2, <1>3, <1>4

LEMMA FlattenItems ==
    ASSUME NEW X, NEW ss \in Seq(Seq(X))
    PROVE  /\ FlattenSeq(ss) \in Seq(X)
           /\ ToSet(FlattenSeq(ss)) = UNION {ToSet(ss[k]) : k \in DOMAIN ss}
  <1>1. CASE ss = <<>>
    <2>1. FlattenSeq(ss) = <<>>
      BY <1>1 DEF FlattenSeq
    <2>2. DOMAIN ss = {}
      BY <1>1
    <2>3. <<>> \in Seq(X) /\ ToSet(<<>>) = {}
      BY DEF ToSet
    <2>4. UNION {ToSet(ss[k]) : k \in DOMAIN ss} = {}
      BY <2>2
    <2>. QED  BY <2>1, <2>3, <2>4
  <1>2. CASE ss # <<>>
    <2>n. PICK n : n = Len(ss)
      OBVIOUS
    <2>0. n \in Nat \ {0} /\ DOMAIN ss = 1 .. n /\ \A i \in 1 .. n : ss[i] \in Seq(X)
      BY <1>2, <2>n, EmptySeq
    <2>1. PICK f \in [1 .. n -> Seq(X)] :
             /\ FlattenSeq(ss) = f[n]
             /\ f[1] = ss[1]
             /\ \A i \in 2 .. n : f[i] = f[i - 1] \o ss[i]
      BY <1>2, <2>n, FlattenSteps
    <2>. DEFINE Sum(i) == ToSet(f[i]) = UNION {ToSet(ss[k]) : k \in 1 .. i}
    <2>g. PICK good : good = {0} \cup {i \in 1 .. n : Sum(i)}
      OBVIOUS
    <2>2. ASSUME NEW i \in 0 .. (n - 1), i \in good PROVE i + 1 \in good
      <3>1. CASE i = 0
        <4>1. UNION {ToSet(ss[k]) : k \in 1 .. 1} = ToSet(ss[1])
          OBVIOUS
        <4>2. Sum(1)
          BY <2>1, <4>1
        <4>. HIDE DEF Sum
        <4>. QED  BY <2>0, <2>g, <3>1, <4>2
      <3>2. CASE i # 0
        <4>1. i \in 1 .. n /\ i + 1 \in 2 .. n /\ i + 1 \in 1 .. n /\ f[i] \in Seq(X) /\ ss[i + 1] \in Seq(X)
          BY <2>0, <2>1, <3>2
        <4>2. Sum(i)
          BY <2>2, <2>g, <3>2
        <4>i. (i + 1) - 1 = i
          BY <2>0
        <4>3. f[i + 1] = f[i] \o ss[i + 1]
          BY <2>1, <4>1, <4>i
        <4>4. ToSet(f[i + 1]) = ToSet(f[i]) \cup ToSet(ss[i + 1])
          BY <4>1, <4>3, JoinedItems
        <4>5. 1 .. (i + 1) = (1 .. i) \cup {i + 1}
          BY <4>1
        <4>6. Sum(i + 1)
          BY <4>2, <4>4, <4>5
        <4>. HIDE DEF Sum
        <4>. QED  BY <2>g, <4>1, <4>6
      <3>. QED  BY <3>1, <3>2
    <2>3. \A i \in 0 .. n : i \in good
      <3>. HIDE DEF Sum
      <3>1. 0 \in good
        BY <2>g
      <3>. QED  BY <2>0, <2>2, <3>1, UpTheNumbers
    <2>4. Sum(n)
      <3>. HIDE DEF Sum
      <3>. QED  BY <2>0, <2>3, <2>g
    <2>. QED  BY <2>0, <2>1, <2>4
  <1>. QED  BY <1>1, <1>2

-----------------------------------------------------------------------------
(* The union-find.                                                         *)

Join(pair, blocks) ==
    LET joined == {b \in blocks : b \cap {pair[1], pair[2]} # {}}
    IN  (blocks \ joined) \cup {UNION joined}

Pick(s) == CHOOSE x \in s : TRUE

\* The blocks after some of the pairs, for every set of pairs among S.
JoinsAmong(f, S, base) ==
    f = [s \in S |-> IF s = {} THEN base ELSE Join(Pick(s), f[s \ {Pick(s)}])]

\* Taking an element away from a finite set makes it smaller by one.
LEMMA OneLess ==
    ASSUME NEW s, IsFiniteSet(s), s # {}
    PROVE  /\ Pick(s) \in s /\ s \ {Pick(s)} \in SUBSET s
           /\ IsFiniteSet(s \ {Pick(s)})
           /\ Cardinality(s) \in Nat \ {0} /\ Cardinality(s \ {Pick(s)}) = Cardinality(s) - 1
  <1>x. PICK x : x = Pick(s)
    OBVIOUS
  <1>1. x \in s
    BY <1>x DEF Pick
  <1>2. Cardinality(s) \in Nat \ {0}
    BY FS_CardinalityType, FS_EmptySet
  <1>3. IsFiniteSet(s \ {x}) /\ Cardinality(s \ {x}) = Cardinality(s) - 1
    BY <1>1, FS_RemoveElement
  <1>. QED  BY <1>x, <1>1, <1>2, <1>3

\* What Blocks folds: the pairs are joined one after the other, in some order.
BlocksBy(f, items, pairs) ==
    /\ Blocks(items, pairs) = f[pairs]
    /\ f[{}] = {{i} : i \in DOMAIN items}
    /\ \A s \in SUBSET pairs : s # {} => f[s] = Join(Pick(s), f[s \ {Pick(s)}])

LEMMA BlocksSteps ==
    ASSUME NEW items, NEW pairs, IsFiniteSet(pairs)
    PROVE  \E f : BlocksBy(f, items, pairs)
  <1>b. PICK base : base = {{i} : i \in DOMAIN items}
    OBVIOUS
  <1>n. PICK n : n = Cardinality(pairs)
    OBVIOUS
  <1>0. /\ n \in Nat
        /\ \A s \in SUBSET pairs : IsFiniteSet(s) /\ Cardinality(s) \in 0 .. n
    <2>1. n \in Nat
      BY <1>n, FS_CardinalityType
    <2>2. ASSUME NEW s \in SUBSET pairs PROVE IsFiniteSet(s) /\ Cardinality(s) \in 0 .. n
      BY <1>n, <2>1, FS_Subset, FS_CardinalityType
    <2>. QED  BY <2>1, <2>2
  <1>. DEFINE Small(m) == {s \in SUBSET pairs : Cardinality(s) <= m}
  <1>g. PICK good : good = {m \in 0 .. n : \E f : JoinsAmong(f, Small(m), base)}
    OBVIOUS
  <1>1. 0 \in good
    <2>1. PICK f : f = [s \in Small(0) |-> base]
      OBVIOUS
    <2>2. ASSUME NEW s \in Small(0) PROVE s = {}
      <3>1. s \in SUBSET pairs /\ Cardinality(s) <= 0
        OBVIOUS
      <3>2. IsFiniteSet(s) /\ Cardinality(s) = 0
        BY <1>0, <3>1
      <3>. QED  BY <3>2, FS_EmptySet
    <2>3. f = [s \in Small(0) |-> IF s = {} THEN base ELSE Join(Pick(s), f[s \ {Pick(s)}])]
      <3>. HIDE DEF Small
      <3>. QED  BY <2>1, <2>2
    <2>4. JoinsAmong(f, Small(0), base)
      BY <2>3 DEF JoinsAmong
    <2>. HIDE DEF Small
    <2>. QED  BY <1>0, <1>g, <2>4
  <1>2. ASSUME NEW m \in 0 .. (n - 1), m \in good PROVE m + 1 \in good
    <2>1. PICK f : JoinsAmong(f, Small(m), base)
      BY <1>2, <1>g
    <2>2. /\ \A s \in Small(m) : f[s] = IF s = {} THEN base ELSE Join(Pick(s), f[s \ {Pick(s)}])
      <3>. HIDE DEF Small
      <3>. QED  BY <2>1 DEF JoinsAmong
    <2>3. PICK g : g = [s \in Small(m + 1) |-> IF s \in Small(m) THEN f[s]
                                               ELSE Join(Pick(s), f[s \ {Pick(s)}])]
      OBVIOUS
    <2>4. Small(m) \subseteq Small(m + 1)
      BY <1>0
    <2>5. ASSUME NEW s \in Small(m + 1), s # {} PROVE s \ {Pick(s)} \in Small(m)
      <3>1. s \in SUBSET pairs /\ Cardinality(s) <= m + 1
        OBVIOUS
      <3>2. IsFiniteSet(s)
        BY <1>0, <3>1
      <3>3. /\ s \ {Pick(s)} \in SUBSET s /\ Cardinality(s) \in Nat
            /\ Cardinality(s \ {Pick(s)}) = Cardinality(s) - 1
        BY <2>5, <3>2, OneLess
      <3>. QED  BY <1>0, <3>1, <3>3
    <2>6. {} \in Small(m)
      BY <1>0, FS_EmptySet
    <2>7. ASSUME NEW s \in Small(m + 1)
          PROVE  g[s] = IF s = {} THEN base ELSE Join(Pick(s), g[s \ {Pick(s)}])
      <3>. HIDE DEF Small
      <3>1. CASE s = {}
        BY <2>2, <2>3, <2>6, <3>1
      <3>2. CASE s # {}
        <4>1. s \ {Pick(s)} \in Small(m)
          BY <2>5, <3>2
        <4>2. g[s \ {Pick(s)}] = f[s \ {Pick(s)}]
          BY <2>3, <2>4, <4>1
        <4>3. g[s] = Join(Pick(s), f[s \ {Pick(s)}])
          BY <2>2, <2>3, <3>2
        <4>. QED  BY <3>2, <4>2, <4>3
      <3>. QED  BY <3>1, <3>2
    <2>8. JoinsAmong(g, Small(m + 1), base)
      <3>. HIDE DEF Small
      <3>1. g = [s \in Small(m + 1) |-> g[s]]
        BY <2>3
      <3>. QED  BY <2>7, <3>1 DEF JoinsAmong
    <2>. HIDE DEF Small
    <2>. QED  BY <1>0, <1>g, <2>8
  <1>3. Small(n) = SUBSET pairs
    BY <1>0
  <1>4. \E f : JoinsAmong(f, SUBSET pairs, base)
    <2>. HIDE DEF Small
    <2>1. \A m \in 0 .. n : m \in good
      BY <1>0, <1>1, <1>2, UpTheNumbers
    <2>2. n \in good
      BY <1>0, <2>1
    <2>3. \E f : JoinsAmong(f, Small(n), base)
      BY <1>g, <2>2
    <2>. QED  BY <1>3, <2>3
  <1>f. PICK f : f = CHOOSE iter : JoinsAmong(iter, SUBSET pairs, base)
    OBVIOUS
  <1>5. JoinsAmong(f, SUBSET pairs, base)
    BY <1>4, <1>f
  <1>6. Blocks(items, pairs) = f[pairs]
    BY <1>b, <1>f DEF Blocks, FoldSet, MapThenFoldSet, JoinsAmong, Join, Pick
  <1>7. \A s \in SUBSET pairs : f[s] = IF s = {} THEN base ELSE Join(Pick(s), f[s \ {Pick(s)}])
    BY <1>5 DEF JoinsAmong
  <1>8. f[{}] = base
    BY <1>7
  <1>. QED  BY <1>6, <1>7, <1>8, <1>b DEF BlocksBy

\* The blocks part the items; a pair that has been joined is inside one of them,
\* and each of them is held together by pairs that have been joined.
Parted(blocks, D, s) ==
    /\ UNION blocks = D
    /\ {} \notin blocks
    /\ \A a, b \in blocks : a # b => a \cap b = {}
    /\ \A p \in s : \E b \in blocks : p[1] \in b /\ p[2] \in b
    /\ \A b \in blocks : \A part \in (SUBSET b) \ {{}, b} :
          \E p \in s : \/ p[1] \in part /\ p[2] \in b \ part
                       \/ p[2] \in part /\ p[1] \in b \ part

LEMMA JoinParts ==
    ASSUME NEW D, NEW s, NEW x, x[1] \in D, x[2] \in D, NEW B, Parted(B, D, s)
    PROVE  Parted(Join(x, B), D, s \cup {x})
  <1>j. PICK J : J = {b \in B : b \cap {x[1], x[2]} # {}}
    OBVIOUS
  <1>u. PICK u : u = UNION J
    OBVIOUS
  <1>c. PICK C : C = (B \ J) \cup {u}
    OBVIOUS
  <1>0. Join(x, B) = C
    BY <1>j, <1>u, <1>c DEF Join
  <1>1. /\ UNION B = D /\ {} \notin B
        /\ \A a, b \in B : a # b => a \cap b = {}
        /\ \A p \in s : \E b \in B : p[1] \in b /\ p[2] \in b
        /\ \A b \in B : \A part \in (SUBSET b) \ {{}, b} :
              \E p \in s : \/ p[1] \in part /\ p[2] \in b \ part
                           \/ p[2] \in part /\ p[1] \in b \ part
    BY DEF Parted
  <1>2. PICK b1 \in J : x[1] \in b1
    BY <1>1, <1>j
  <1>3. PICK b2 \in J : x[2] \in b2
    BY <1>1, <1>j
  <1>4. x[1] \in u /\ x[2] \in u /\ J \subseteq B
    BY <1>2, <1>3, <1>j, <1>u
  <1>5. UNION C = D
    <2>1. ASSUME NEW i \in UNION C PROVE i \in UNION B
      <3>1. PICK b \in C : i \in b
        OBVIOUS
      <3>2. \E a \in B : i \in a
        BY <1>4, <1>c, <1>u, <3>1
      <3>. QED  BY <3>2
    <2>2. ASSUME NEW i \in UNION B PROVE i \in UNION C
      <3>1. PICK b \in B : i \in b
        OBVIOUS
      <3>2. \E a \in C : i \in a
        BY <1>c, <1>u, <3>1
      <3>. QED  BY <3>2
    <2>3. UNION B = D
      BY <1>1
    <2>. QED  BY <2>1, <2>2, <2>3
  <1>6. {} \notin C
    BY <1>1, <1>c, <1>4
  <1>7. \A a \in B \ J : a \cap u = {}
    BY <1>1, <1>4, <1>u
  <1>8. \A a, b \in C : a # b => a \cap b = {}
    BY <1>1, <1>7, <1>c
  <1>9. ASSUME NEW p \in s \cup {x} PROVE \E b \in C : p[1] \in b /\ p[2] \in b
    <2>1. CASE p = x
      BY <1>4, <1>c, <2>1
    <2>2. CASE p \in s
      <3>1. PICK b \in B : p[1] \in b /\ p[2] \in b
        BY <1>1, <2>2
      <3>2. b \in J => p[1] \in u /\ p[2] \in u
        BY <1>u, <3>1
      <3>3. b \in C \/ (b \in J /\ u \in C)
        BY <1>c
      <3>. QED  BY <3>1, <3>2, <3>3
    <2>. QED  BY <2>1, <2>2
  <1>10. ASSUME NEW b \in C, NEW part \in (SUBSET b) \ {{}, b}
         PROVE  \E p \in s \cup {x} : \/ p[1] \in part /\ p[2] \in b \ part
                                      \/ p[2] \in part /\ p[1] \in b \ part
    <2>1. CASE b \in B
      BY <1>1, <2>1
    <2>2. CASE b = u
      <3>1. CASE \E a \in J : a \cap part # {} /\ a \cap part # a
        <4>1. PICK a \in J : a \cap part # {} /\ a \cap part # a
          BY <3>1
        <4>k. PICK kept : kept = a \cap part
          OBVIOUS
        <4>2. a \in B /\ kept \in (SUBSET a) \ {{}, a}
          BY <1>4, <4>1, <4>k
        <4>3. PICK p \in s : \/ p[1] \in kept /\ p[2] \in a \ kept
                             \/ p[2] \in kept /\ p[1] \in a \ kept
          BY <1>1, <4>2
        <4>4. a \subseteq b
          BY <1>u, <2>2
        <4>. QED  BY <4>3, <4>4, <4>k
      <3>2. CASE \A a \in J : a \cap part = {} \/ a \subseteq part
        <4>1. PICK a \in J : a \subseteq part
          <5>1. PICK i : i \in part
            OBVIOUS
          <5>2. PICK a \in J : i \in a
            BY <1>u, <2>2, <5>1
          <5>. QED  BY <3>2, <5>1, <5>2
        <4>2. PICK c \in J : c \cap part = {}
          <5>1. PICK i : i \in b \ part
            OBVIOUS
          <5>2. PICK e \in J : i \in e
            BY <1>u, <2>2, <5>1
          <5>. QED  BY <3>2, <5>1, <5>2
        <4>3. (x[1] \in a \/ x[2] \in a) /\ (x[1] \in c \/ x[2] \in c)
          BY <1>j
        <4>4. \/ x[1] \in part /\ x[2] \in b \ part
              \/ x[2] \in part /\ x[1] \in b \ part
          BY <1>4, <2>2, <4>1, <4>2, <4>3
        <4>. QED  BY <4>4
      <3>. QED  BY <3>1, <3>2
    <2>. QED  BY <1>c, <2>1, <2>2
  <1>. QED  BY <1>0, <1>5, <1>6, <1>8, <1>9, <1>10 DEF Parted

LEMMA BlocksPart ==
    ASSUME NEW items, IsFiniteSet(DOMAIN items),
           NEW pairs \in SUBSET ((DOMAIN items) \X (DOMAIN items))
    PROVE  Parted(Blocks(items, pairs), DOMAIN items, pairs)
  <1>d. PICK D : D = DOMAIN items
    OBVIOUS
  <1>0. IsFiniteSet(pairs)
    BY FS_Product, FS_Subset
  <1>p. PICK f : BlocksBy(f, items, pairs)
    BY <1>0, BlocksSteps
  <1>f. /\ Blocks(items, pairs) = f[pairs]
        /\ f[{}] = {{i} : i \in DOMAIN items}
        /\ \A s \in SUBSET pairs : s # {} => f[s] = Join(Pick(s), f[s \ {Pick(s)}])
    BY <1>p DEF BlocksBy
  <1>n. PICK n : n = Cardinality(pairs)
    OBVIOUS
  <1>1. n \in Nat /\ \A s \in SUBSET pairs : IsFiniteSet(s) /\ Cardinality(s) \in 0 .. n
    <2>1. n \in Nat
      BY <1>0, <1>n, FS_CardinalityType
    <2>2. ASSUME NEW s \in SUBSET pairs PROVE IsFiniteSet(s) /\ Cardinality(s) \in 0 .. n
      BY <1>0, <1>n, <2>1, FS_Subset, FS_CardinalityType
    <2>. QED  BY <2>1, <2>2
  <1>g. PICK good : good = {m \in 0 .. n : \A s \in SUBSET pairs : Cardinality(s) = m => Parted(f[s], D, s)}
    OBVIOUS
  <1>2. 0 \in good
    <2>1. Parted(f[{}], D, {})
      <3>1. \A i \in D : \A part \in (SUBSET {i}) \ {{}, {i}} : FALSE
        OBVIOUS
      <3>2. \A b \in f[{}] : \E i \in D : b = {i}
        BY <1>d, <1>f
      <3>3. UNION f[{}] = D /\ {} \notin f[{}] /\ \A a, b \in f[{}] : a # b => a \cap b = {}
        BY <1>d, <1>f
      <3>. QED  BY <3>1, <3>2, <3>3 DEF Parted
    <2>2. ASSUME NEW s \in SUBSET pairs, Cardinality(s) = 0 PROVE s = {}
      BY <1>1, <2>2, FS_EmptySet
    <2>3. ASSUME NEW s \in SUBSET pairs, Cardinality(s) = 0 PROVE Parted(f[s], D, s)
      <3>1. s = {}
        BY <2>2, <2>3
      <3>. QED  BY <2>1, <3>1
    <2>. QED  BY <1>1, <1>g, <2>3
  <1>3. ASSUME NEW m \in 0 .. (n - 1), m \in good PROVE m + 1 \in good
    <2>1. ASSUME NEW s \in SUBSET pairs, Cardinality(s) = m + 1 PROVE Parted(f[s], D, s)
      <3>x. PICK x : x = Pick(s)
        OBVIOUS
      <3>1. s # {} /\ IsFiniteSet(s)
        BY <1>1, <2>1, FS_EmptySet
      <3>2. /\ x \in s /\ s \ {x} \in SUBSET s /\ Cardinality(s \ {x}) = Cardinality(s) - 1
        BY <3>1, <3>x, OneLess
      <3>3. s \ {x} \in SUBSET pairs /\ Cardinality(s \ {x}) = m
        BY <1>1, <2>1, <3>2
      <3>4. Parted(f[s \ {x}], D, s \ {x})
        BY <1>3, <1>g, <3>3
      <3>5. x[1] \in D /\ x[2] \in D
        BY <1>d, <3>2
      <3>6. Parted(Join(x, f[s \ {x}]), D, (s \ {x}) \cup {x})
        BY <3>4, <3>5, JoinParts
      <3>7. f[s] = Join(x, f[s \ {x}]) /\ (s \ {x}) \cup {x} = s
        BY <1>f, <3>1, <3>2, <3>x
      <3>. QED  BY <3>6, <3>7
    <2>. QED  BY <1>1, <1>g, <2>1
  <1>4. \A m \in 0 .. n : m \in good
    BY <1>1, <1>2, <1>3, UpTheNumbers
  <1>5. n \in good
    BY <1>1, <1>4
  <1>6. Parted(f[pairs], D, pairs)
    BY <1>5, <1>g, <1>n
  <1>. QED  BY <1>6, <1>f, <1>d

-----------------------------------------------------------------------------
(* Lists of anything.                                                      *)

LEMMA ListedFacts ==
    ASSUME NEW s, Listed(s)
    PROVE  /\ Len(s) \in Nat /\ DOMAIN s = 1 .. Len(s) /\ IsFiniteSet(DOMAIN s)
           /\ \A X : ToSet(s) \subseteq X => s \in Seq(X)
           /\ \A k \in DOMAIN s : s[k] \in ToSet(s)
  <1>1. s \in Seq(ToSet(s))
    BY DEF Listed
  <1>2. Len(s) \in Nat /\ DOMAIN s = 1 .. Len(s) /\ \A k \in DOMAIN s : s[k] \in ToSet(s)
    BY <1>1
  <1>3. IsFiniteSet(DOMAIN s)
    BY <1>2, FS_Interval
  <1>4. ASSUME NEW X, ToSet(s) \subseteq X PROVE s \in Seq(X)
    BY <1>1, <1>4
  <1>. QED  BY <1>2, <1>3, <1>4

LEMMA ListedSeq ==
    ASSUME NEW X, NEW s \in Seq(X)
    PROVE  Listed(s) /\ ToSet(s) \subseteq X
  <1>1. Len(s) \in Nat /\ DOMAIN s = 1 .. Len(s) /\ \A k \in DOMAIN s : s[k] \in X
    OBVIOUS
  <1>2. ToSet(s) = {s[k] : k \in DOMAIN s}
    BY DEF ToSet
  <1>3. s \in Seq(ToSet(s))
    BY <1>1, <1>2
  <1>. QED  BY <1>1, <1>2, <1>3 DEF Listed

\* A function on the places of a list is a list.
LEMMA MappedList ==
    ASSUME NEW n \in Nat, NEW f, f = [k \in 1 .. n |-> f[k]]
    PROVE  Listed(f) /\ Len(f) = n /\ DOMAIN f = 1 .. n /\ ToSet(f) = {f[k] : k \in 1 .. n}
  <1>x. PICK X : X = {f[k] : k \in 1 .. n}
    OBVIOUS
  <1>1. f \in [1 .. n -> X]
    BY <1>x
  <1>2. f \in Seq(X) /\ Len(f) = n /\ DOMAIN f = 1 .. n
    BY <1>1
  <1>3. Listed(f)
    BY <1>2, ListedSeq
  <1>. QED  BY <1>2, <1>3 DEF ToSet

\* A function of some numbers, from the least of them on.
LEMMA PlacedItems ==
    ASSUME NEW S, IsFiniteSet(S), \A i \in S : i \in Int, NEW g, DOMAIN g = S, NEW list,
           list = [k \in DOMAIN Ascending(S) |-> g[Ascending(S)[k]]]
    PROVE  Listed(list) /\ Len(list) = Cardinality(S) /\ ToSet(list) = {g[i] : i \in S}
  <1>t. PICK t : t = Ascending(S)
    OBVIOUS
  <1>n. PICK n : n = Cardinality(S)
    OBVIOUS
  <1>1. n \in Nat /\ t \in [1 .. n -> S] /\ \A i \in S : \E k \in 1 .. n : t[k] = i
    BY <1>t, <1>n, AscendingList
  <1>2. list = [k \in 1 .. n |-> g[t[k]]]
    BY <1>1, <1>t
  <1>3. list = [k \in 1 .. n |-> list[k]]
    BY <1>2
  <1>4. Listed(list) /\ Len(list) = n /\ ToSet(list) = {list[k] : k \in 1 .. n}
    <2>1. n \in Nat
      BY <1>1
    <2>. QED  BY ONLY <2>1, <1>3, MappedList
  <1>5. {list[k] : k \in 1 .. n} = {g[i] : i \in S}
    <2>1. \A k \in 1 .. n : list[k] = g[t[k]] /\ t[k] \in S
      BY <1>1, <1>2
    <2>2. ASSUME NEW i \in S PROVE \E k \in 1 .. n : list[k] = g[i]
      <3>1. PICK k \in 1 .. n : t[k] = i
        BY <1>1
      <3>. QED  BY <2>1, <3>1
    <2>. QED  BY <2>1, <2>2
  <1>. QED  BY <1>4, <1>5, <1>n

LEMMA JoinedLists ==
    ASSUME NEW s, NEW t, Listed(s), Listed(t)
    PROVE  Listed(s \o t) /\ ToSet(s \o t) = ToSet(s) \cup ToSet(t) /\ Len(s \o t) = Len(s) + Len(t)
  <1>x. PICK X : X = ToSet(s) \cup ToSet(t)
    OBVIOUS
  <1>1. s \in Seq(X) /\ t \in Seq(X)
    BY <1>x, ListedFacts
  <1>2. s \o t \in Seq(X) /\ ToSet(s \o t) = ToSet(s) \cup ToSet(t)
    BY <1>1, JoinedItems
  <1>3. Len(s \o t) = Len(s) + Len(t)
    BY <1>1, ConcatProperties
  <1>. QED  BY <1>2, <1>3, ListedSeq

LEMMA FlattenLists ==
    ASSUME NEW ss, Listed(ss), \A k \in DOMAIN ss : Listed(ss[k])
    PROVE  /\ Listed(FlattenSeq(ss))
           /\ ToSet(FlattenSeq(ss)) = UNION {ToSet(ss[k]) : k \in DOMAIN ss}
  <1>x. PICK X : X = UNION {ToSet(ss[k]) : k \in DOMAIN ss}
    OBVIOUS
  <1>1. \A k \in DOMAIN ss : ss[k] \in Seq(X)
    <2>1. \A k \in DOMAIN ss : ToSet(ss[k]) \subseteq X
      BY <1>x
    <2>. QED  BY <2>1, ListedFacts
  <1>2. ss \in Seq(Seq(X))
    <2>1. ToSet(ss) \subseteq Seq(X)
      BY <1>1 DEF ToSet
    <2>. QED  BY <2>1, ListedFacts
  <1>3. FlattenSeq(ss) \in Seq(X) /\ ToSet(FlattenSeq(ss)) = X
    BY <1>2, <1>x, FlattenItems
  <1>. QED  BY <1>3, <1>x, ListedSeq

LEMMA ThoseLists ==
    ASSUME NEW s, Listed(s), NEW P \in SUBSET DOMAIN s
    PROVE  /\ Listed(Those(s, P)) /\ ToSet(Those(s, P)) = {s[i] : i \in P}
           /\ Those(s, P) # <<>> <=> P # {}
           /\ Len(Those(s, P)) = Cardinality(P)
  <1>1. s \in Seq(ToSet(s))
    BY DEF Listed
  <1>2. Those(s, P) \in Seq(ToSet(s)) /\ Len(Those(s, P)) = Cardinality(P)
    BY <1>1, ThoseList
  <1>3. ToSet(Those(s, P)) = {s[i] : i \in P} /\ (Those(s, P) # <<>> <=> P # {})
    BY <1>1, ThoseItems
  <1>. QED  BY <1>2, <1>3, ListedSeq

-----------------------------------------------------------------------------
(* The runs of the journeys, and what is gathered from them.               *)

RunsOf(p) == {Journey(p, outcome) : outcome \in Outcomes}

LEMMA JourneyFields ==
    ASSUME NEW p, NEW j \in RunsOf(p)
    PROVE  /\ j.persona = p /\ j.run = p
           /\ Texts(j.verdict.blockers) /\ Texts(j.verdict.uxFindings)
           /\ Texts(j.verdict.suggestedImprovements) /\ Listed(j.verdict.criteria)
           /\ \A k \in DOMAIN j.verdict.criteria : IsFiniteSet(j.verdict.criteria[k].explanation)
           /\ IsFiniteSet(j.verdict.account)
           /\ Listed(j.shots) /\ Listed(j.reasoning) /\ Listed(j.timeline)
           /\ \A s \in ToSet(j.reasoning) \cup ToSet(j.timeline) : IsFiniteSet(s.text) /\ s.at \in Int
  <1>1. PICK outcome \in Outcomes : j = Journey(p, outcome)
    BY DEF RunsOf
  <1>2. DOMAIN outcome = {"verdict", "shots", "doms", "seen", "reasoning", "timeline"}
    BY OutcomesAssumption
  <1>3. /\ j.persona = p /\ j.run = p /\ j.verdict = outcome.verdict /\ j.shots = outcome.shots
        /\ j.reasoning = outcome.reasoning /\ j.timeline = outcome.timeline
    BY <1>1, <1>2 DEF Journey
  <1>4. /\ Texts(outcome.verdict.blockers) /\ Texts(outcome.verdict.uxFindings)
        /\ Texts(outcome.verdict.suggestedImprovements) /\ Listed(outcome.verdict.criteria)
        /\ \A k \in DOMAIN outcome.verdict.criteria : IsFiniteSet(outcome.verdict.criteria[k].explanation)
        /\ IsFiniteSet(outcome.verdict.account)
        /\ Listed(outcome.shots) /\ Listed(outcome.reasoning) /\ Listed(outcome.timeline)
        /\ \A s \in ToSet(outcome.reasoning) \cup ToSet(outcome.timeline) : IsFiniteSet(s.text) /\ s.at \in Int
    BY OutcomesAssumption
  <1>. QED  BY <1>3, <1>4

Journeyed ==
    /\ Listed(journeys) /\ Len(journeys) <= Len(Cohort)
    /\ \A k \in DOMAIN journeys : journeys[k] \in RunsOf(Cohort[k])

\* What each place of a bucket reports.
AboutNote(j, source, notes, fallback, n) ==
    Observation(j, source, n, SeverityOf(notes[n], fallback),
                Titled(notes[n], {source, "finding"}), notes[n].summary, notes[n].category, notes[n].cited)

LEMMA BucketItems ==
    ASSUME NEW j, NEW source, NEW notes, Listed(notes), NEW fallback
    PROVE  /\ Listed(Bucket(j, source, notes, fallback))
           /\ ToSet(Bucket(j, source, notes, fallback))
                = {AboutNote(j, source, notes, fallback, n) : n \in Reported(source, notes)}
  <1>p. PICK P : P = Reported(source, notes)
    OBVIOUS
  <1>1. P \in SUBSET DOMAIN notes
    BY <1>p DEF Reported
  <1>2. IsFiniteSet(P) /\ \A n \in P : n \in Int
    <2>1. IsFiniteSet(DOMAIN notes) /\ \A n \in DOMAIN notes : n \in Int
      BY ListedFacts
    <2>. QED  BY <1>1, <2>1, FS_Subset
  <1>g. PICK g : g = [n \in P |-> AboutNote(j, source, notes, fallback, n)]
    OBVIOUS
  <1>t. PICK t : t = Ascending(P)
    OBVIOUS
  <1>3. \A k \in DOMAIN t : t[k] \in P
    BY <1>2, <1>t, AscendingList
  <1>l. PICK list : list = [k \in DOMAIN t |-> g[t[k]]]
    OBVIOUS
  <1>4. Bucket(j, source, notes, fallback) = [k \in DOMAIN t |-> AboutNote(j, source, notes, fallback, t[k])]
    BY <1>p, <1>t DEF Bucket, AboutNote
  <1>5. [k \in DOMAIN t |-> AboutNote(j, source, notes, fallback, t[k])] = list
    BY <1>3, <1>g, <1>l
  <1>6. DOMAIN g = P /\ {g[n] : n \in P} = {AboutNote(j, source, notes, fallback, n) : n \in P}
    BY <1>g
  <1>7. Listed(list) /\ ToSet(list) = {g[n] : n \in P}
    BY <1>2, <1>6, <1>l, <1>t, PlacedItems
  <1>. QED  BY <1>4, <1>5, <1>6, <1>7, <1>p

AboutCriterion(j, n) ==
    LET c == j.verdict.criteria[n]
        grave == c.result = "blocked" \/ c.id = "tasks-blocked"
    IN  Observation(j, "criteria", n, IF grave THEN "critical" ELSE "high", CriterionTitle(c), c.explanation,
                    IF grave THEN "blocker" ELSE "ux", None)

Missed(j) == {n \in DOMAIN j.verdict.criteria : IsPainPoint(j.verdict.criteria[n])}

LEMMA CriteriaItems ==
    ASSUME NEW j, Listed(j.verdict.criteria)
    PROVE  /\ Listed(FailedCriteria(j))
           /\ ToSet(FailedCriteria(j)) = {AboutCriterion(j, n) : n \in Missed(j)}
  <1>p. PICK P : P = Missed(j)
    OBVIOUS
  <1>2. IsFiniteSet(P) /\ \A n \in P : n \in Int
    <2>1. /\ IsFiniteSet(DOMAIN j.verdict.criteria) /\ \A n \in DOMAIN j.verdict.criteria : n \in Int
      BY ListedFacts
    <2>2. P \in SUBSET DOMAIN j.verdict.criteria
      BY <1>p DEF Missed
    <2>. QED  BY <2>1, <2>2, FS_Subset
  <1>g. PICK g : g = [n \in P |-> AboutCriterion(j, n)]
    OBVIOUS
  <1>t. PICK t : t = Ascending(P)
    OBVIOUS
  <1>3. \A k \in DOMAIN t : t[k] \in P
    BY <1>2, <1>t, AscendingList
  <1>l. PICK list : list = [k \in DOMAIN t |-> g[t[k]]]
    OBVIOUS
  <1>4. FailedCriteria(j) = [k \in DOMAIN t |-> AboutCriterion(j, t[k])]
    BY <1>p, <1>t DEF FailedCriteria, AboutCriterion, Missed
  <1>5. [k \in DOMAIN t |-> AboutCriterion(j, t[k])] = list
    BY <1>3, <1>g, <1>l
  <1>6. DOMAIN g = P /\ {g[n] : n \in P} = {AboutCriterion(j, n) : n \in P}
    BY <1>g
  <1>7. Listed(list) /\ ToSet(list) = {g[n] : n \in P}
    BY <1>2, <1>6, <1>l, <1>t, PlacedItems
  <1>. QED  BY <1>4, <1>5, <1>6, <1>7, <1>p

LEMMA PainPointItems ==
    ASSUME NEW p, NEW j \in RunsOf(p)
    PROVE  /\ Listed(PainPointsFromJourney(j))
           /\ ToSet(PainPointsFromJourney(j)) =
                {AboutNote(j, "blockers", j.verdict.blockers, "critical", n) :
                    n \in Reported("blockers", j.verdict.blockers)}
                \cup {AboutNote(j, "uxFindings", j.verdict.uxFindings, "medium", n) :
                         n \in Reported("uxFindings", j.verdict.uxFindings)}
                \cup {AboutNote(j, "suggestedImprovements", j.verdict.suggestedImprovements, "low", n) :
                         n \in Reported("suggestedImprovements", j.verdict.suggestedImprovements)}
                \cup {AboutCriterion(j, n) : n \in Missed(j)}
  <1>1. /\ Listed(j.verdict.blockers) /\ Listed(j.verdict.uxFindings)
        /\ Listed(j.verdict.suggestedImprovements) /\ Listed(j.verdict.criteria)
    BY JourneyFields DEF Texts
  <1>a. PICK a : a = Bucket(j, "blockers", j.verdict.blockers, "critical")
    OBVIOUS
  <1>b. PICK b : b = Bucket(j, "uxFindings", j.verdict.uxFindings, "medium")
    OBVIOUS
  <1>c. PICK c : c = Bucket(j, "suggestedImprovements", j.verdict.suggestedImprovements, "low")
    OBVIOUS
  <1>d. PICK d : d = FailedCriteria(j)
    OBVIOUS
  <1>2. Listed(a) /\ Listed(b) /\ Listed(c) /\ Listed(d)
    BY <1>1, <1>a, <1>b, <1>c, <1>d, BucketItems, CriteriaItems
  <1>3. PainPointsFromJourney(j) = a \o b \o c \o d
    BY <1>a, <1>b, <1>c, <1>d DEF PainPointsFromJourney
  <1>4. Listed(a \o b) /\ ToSet(a \o b) = ToSet(a) \cup ToSet(b)
    BY <1>2, JoinedLists
  <1>5. Listed(a \o b \o c) /\ ToSet(a \o b \o c) = ToSet(a \o b) \cup ToSet(c)
    BY <1>2, <1>4, JoinedLists
  <1>6. Listed(a \o b \o c \o d) /\ ToSet(a \o b \o c \o d) = ToSet(a \o b \o c) \cup ToSet(d)
    BY <1>2, <1>5, JoinedLists
  <1>7. /\ ToSet(a) = {AboutNote(j, "blockers", j.verdict.blockers, "critical", n) :
                          n \in Reported("blockers", j.verdict.blockers)}
        /\ ToSet(b) = {AboutNote(j, "uxFindings", j.verdict.uxFindings, "medium", n) :
                          n \in Reported("uxFindings", j.verdict.uxFindings)}
        /\ ToSet(c) = {AboutNote(j, "suggestedImprovements", j.verdict.suggestedImprovements, "low", n) :
                          n \in Reported("suggestedImprovements", j.verdict.suggestedImprovements)}
    BY <1>1, <1>a, <1>b, <1>c, BucketItems
  <1>8. ToSet(d) = {AboutCriterion(j, n) : n \in Missed(j)}
    BY <1>1, <1>d, CriteriaItems
  <1>. QED  BY <1>3, <1>4, <1>5, <1>6, <1>7, <1>8

\* What the verdicts report, over all of the runs.
FromVerdicts == Each(journeys, PainPointsFromJourney)

LEMMA VerdictItems ==
    ASSUME Journeyed
    PROVE  /\ Listed(FromVerdicts)
           /\ ToSet(FromVerdicts) = UNION {ToSet(PainPointsFromJourney(journeys[k])) : k \in DOMAIN journeys}
  <1>s. PICK ss : ss = [k \in DOMAIN journeys |-> PainPointsFromJourney(journeys[k])]
    OBVIOUS
  <1>1. Len(journeys) \in Nat /\ DOMAIN journeys = 1 .. Len(journeys)
    BY ListedFacts DEF Journeyed
  <1>2. \A k \in DOMAIN journeys : Listed(PainPointsFromJourney(journeys[k]))
    BY PainPointItems DEF Journeyed
  <1>3. Listed(ss) /\ DOMAIN ss = DOMAIN journeys
    <2>1. ss = [k \in 1 .. Len(journeys) |-> ss[k]]
      BY <1>1, <1>s
    <2>2. Len(journeys) \in Nat
      BY <1>1
    <2>3. Listed(ss) /\ DOMAIN ss = 1 .. Len(journeys)
      BY ONLY <2>1, <2>2, MappedList
    <2>. QED  BY <1>1, <2>3
  <1>4. \A k \in DOMAIN ss : ss[k] = PainPointsFromJourney(journeys[k])
    BY <1>s, <1>3
  <1>5. Listed(FlattenSeq(ss)) /\ ToSet(FlattenSeq(ss)) = UNION {ToSet(ss[k]) : k \in DOMAIN ss}
    BY <1>2, <1>3, <1>4, FlattenLists
  <1>6. FromVerdicts = FlattenSeq(ss)
    BY <1>s DEF FromVerdicts, Each
  <1>7. {ToSet(ss[k]) : k \in DOMAIN ss} = {ToSet(PainPointsFromJourney(journeys[k])) : k \in DOMAIN journeys}
    BY <1>3, <1>4
  <1>. QED  BY <1>5, <1>6, <1>7

LEMMA GatheredItems ==
    ASSUME Journeyed, Listed(synthesis)
    PROVE  /\ Listed(Gathered) /\ Listed(VisionFindings) /\ Listed(VisionPraise)
           /\ ToSet(VisionFindings) = {synthesis[k] : k \in {m \in DOMAIN synthesis : ~ReadsAsPraise(synthesis[m])}}
           /\ ToSet(VisionPraise) = {synthesis[k] : k \in {m \in DOMAIN synthesis : ReadsAsPraise(synthesis[m])}}
           /\ \/ ToSet(Gathered) = ToSet(FromVerdicts) \cup ToSet(VisionFindings)
              \/ ToSet(FromVerdicts) \cup ToSet(VisionFindings) = {} /\ ToSet(Gathered) = {Blank}
  <1>1. /\ Listed(VisionFindings) /\ Listed(VisionPraise)
        /\ ToSet(VisionFindings) = {synthesis[k] : k \in {m \in DOMAIN synthesis : ~ReadsAsPraise(synthesis[m])}}
        /\ ToSet(VisionPraise) = {synthesis[k] : k \in {m \in DOMAIN synthesis : ReadsAsPraise(synthesis[m])}}
    BY ThoseLists DEF VisionFindings, VisionPraise
  <1>a. PICK all : all = FromVerdicts \o VisionFindings
    OBVIOUS
  <1>2. Listed(all) /\ ToSet(all) = ToSet(FromVerdicts) \cup ToSet(VisionFindings)
    BY <1>1, <1>a, VerdictItems, JoinedLists
  <1>3. Gathered = IF all = <<>> THEN <<Blank>> ELSE all
    BY <1>a DEF Gathered, FromVerdicts
  <1>4. CASE all = <<>>
    <2>1. ToSet(all) = {}
      BY <1>4 DEF ToSet
    <2>2. <<Blank>> \in Seq({Blank}) /\ ToSet(<<Blank>>) = {Blank}
      BY DEF ToSet
    <2>3. Listed(<<Blank>>)
      BY <2>2, ListedSeq
    <2>. QED  BY <1>1, <1>2, <1>3, <1>4, <2>1, <2>2, <2>3
  <1>5. CASE all # <<>>
    BY <1>1, <1>2, <1>3, <1>5
  <1>. QED  BY <1>4, <1>5

-----------------------------------------------------------------------------
(* The clusters.                                                           *)

LEMMA SameIssueSymmetric ==
    ASSUME NEW l, NEW r, SameIssue(l, r)
    PROVE  SameIssue(r, l)
  <1>1. ASSUME NEW a, NEW b, NEW percent, Alike(a, b, percent) PROVE Alike(b, a, percent)
    <2>1. a \cap b = b \cap a /\ a \cup b = b \cup a
      OBVIOUS
    <2>. QED  BY <1>1, <2>1 DEF Alike
  <1>. QED  BY <1>1 DEF SameIssue

\* The clusters of the issues are closed under SameIssue, and each is a chain.
LEMMA IssueBlocks ==
    ASSUME NEW issues, Listed(issues)
    PROVE  LET blocks == Blocks(issues, IssuePairs(issues))
               like == {p \in (DOMAIN issues) \X (DOMAIN issues) : SameIssue(issues[p[1]], issues[p[2]])}
               linked(A, B) == \E p \in like : p[1] \in A /\ p[2] \in B
           IN  /\ UNION blocks = DOMAIN issues
               /\ \A a, b \in blocks : a # b => ~linked(a, b) /\ a \cap b = {}
               /\ \A b \in blocks : \A part \in (SUBSET b) \ {{}, b} : linked(part, b \ part)
  <1>b. PICK blocks : blocks = Blocks(issues, IssuePairs(issues))
    OBVIOUS
  <1>d. PICK D : D = DOMAIN issues
    OBVIOUS
  <1>l. PICK like : like = {p \in D \X D : SameIssue(issues[p[1]], issues[p[2]])}
    OBVIOUS
  <1>s. PICK s : s = IssuePairs(issues)
    OBVIOUS
  <1>0. IsFiniteSet(D) /\ \A i \in D : i \in Int
    BY <1>d, ListedFacts
  <1>1. s \in SUBSET (D \X D) /\ \A i, k \in D : <<i, k>> \in s <=> i < k /\ SameIssue(issues[i], issues[k])
    BY <1>s, <1>d DEF IssuePairs
  <1>2. \A i, k \in D : <<i, k>> \in like <=> SameIssue(issues[i], issues[k])
    BY <1>l
  <1>3. Parted(blocks, D, s)
    BY <1>0, <1>1, <1>b, <1>d, <1>s, BlocksPart
  <1>4. /\ UNION blocks = D
        /\ \A a, b \in blocks : a # b => a \cap b = {}
        /\ \A p \in s : \E b \in blocks : p[1] \in b /\ p[2] \in b
        /\ \A b \in blocks : \A part \in (SUBSET b) \ {{}, b} :
              \E p \in s : \/ p[1] \in part /\ p[2] \in b \ part
                           \/ p[2] \in part /\ p[1] \in b \ part
    BY <1>3 DEF Parted
  <1>5. ASSUME NEW a \in blocks, NEW b \in blocks, a # b, NEW i \in D, NEW k \in D, i \in a, k \in b,
               SameIssue(issues[i], issues[k])
        PROVE  FALSE
    <2>1. SameIssue(issues[k], issues[i])
      BY <1>5, SameIssueSymmetric
    <2>2. i # k
      BY <1>4, <1>5
    <2>3. <<i, k>> \in s \/ <<k, i>> \in s
      BY <1>0, <1>1, <1>5, <2>1, <2>2
    <2>4. \E c \in blocks : i \in c /\ k \in c
      BY <1>4, <2>3
    <2>. QED  BY <1>4, <1>5, <2>4
  <1>6. \A a, b \in blocks : a # b => ~\E p \in like : p[1] \in a /\ p[2] \in b
    BY <1>5, <1>l
  <1>7. ASSUME NEW b \in blocks, NEW part \in (SUBSET b) \ {{}, b}
        PROVE  \E p \in like : p[1] \in part /\ p[2] \in b \ part
    <2>1. PICK p \in s : \/ p[1] \in part /\ p[2] \in b \ part
                         \/ p[2] \in part /\ p[1] \in b \ part
      BY <1>4
    <2>2. PICK i, k \in D : p = <<i, k>>
      BY <1>1
    <2>3. SameIssue(issues[i], issues[k]) /\ SameIssue(issues[k], issues[i])
      BY <1>1, <2>2, SameIssueSymmetric
    <2>4. <<i, k>> \in like /\ <<k, i>> \in like
      BY <1>2, <2>3
    <2>. QED  BY <2>1, <2>2, <2>4
  <1>. QED  BY <1>4, <1>6, <1>7, <1>b, <1>d, <1>l

\* The clusters are the items of the blocks, each item in one of them.
LEMMA ClusterItems ==
    ASSUME NEW items, Listed(items), NEW pairs \in SUBSET ((DOMAIN items) \X (DOMAIN items))
    PROVE  /\ Listed(Clusters(items, pairs))
           /\ \A k \in DOMAIN Clusters(items, pairs) :
                 Listed(Clusters(items, pairs)[k]) /\ Clusters(items, pairs)[k] # <<>>
           /\ UNION {ToSet(Clusters(items, pairs)[k]) : k \in DOMAIN Clusters(items, pairs)} = ToSet(items)
           /\ Len(Clusters(items, pairs)) <= Len(items)
  <1>d. PICK D : D = DOMAIN items
    OBVIOUS
  <1>b. PICK blocks : blocks = Blocks(items, pairs)
    OBVIOUS
  <1>0. IsFiniteSet(D) /\ \A i \in D : i \in Int
    BY <1>d, ListedFacts
  <1>1. Parted(blocks, D, pairs)
    BY <1>0, <1>b, <1>d, BlocksPart
  <1>2. /\ UNION blocks = D /\ {} \notin blocks
        /\ \A a, b \in blocks : a # b => a \cap b = {}
    BY <1>1 DEF Parted
  <1>3. IsFiniteSet(blocks)
    <2>1. blocks \in SUBSET (SUBSET D)
      BY <1>2
    <2>2. IsFiniteSet(SUBSET D)
      BY <1>0, FS_SUBSET
    <2>. QED  BY <2>1, <2>2, FS_Subset
  <1>f. PICK first : first = [b \in blocks |-> CHOOSE i \in b : \A j \in b : i <= j]
    OBVIOUS
  <1>4. ASSUME NEW b \in blocks PROVE first[b] \in b /\ first[b] \in Int
    <2>1. b # {} /\ b \in SUBSET D
      BY <1>2
    <2>2. IsFiniteSet(b) /\ \A i \in b : i \in Int
      BY <1>0, <2>1, FS_Subset
    <2>3. \E i \in b : \A j \in b : i <= j
      BY <2>1, <2>2, Ends
    <2>4. first[b] \in b
      BY <1>f, <2>3
    <2>. QED  BY <2>2, <2>4
  <1>g. PICK before : before = [b \in blocks |-> {a \in blocks : first[a] < first[b]}]
    OBVIOUS
  <1>5. /\ before \in [blocks -> SUBSET blocks]
        /\ \A a, b \in blocks : a \in before[b] <=> first[a] < first[b]
    BY <1>g
  <1>6. \A a, b \in blocks : a # b => first[a] # first[b]
    BY <1>2, <1>4
  <1>7. /\ \A b \in blocks : b \notin before[b]
        /\ \A a, b \in blocks : a # b => b \in before[a] \/ a \in before[b]
    BY <1>4, <1>5, <1>6
  <1>8. ASSUME NEW a \in blocks, NEW b \in blocks, b \in before[a] PROVE before[b] \subseteq before[a]
    <2>1. ASSUME NEW c \in before[b] PROVE c \in before[a]
      <3>1. c \in blocks
        BY <1>5
      <3>. QED  BY <1>4, <1>5, <1>8, <3>1
    <2>. QED  BY <2>1
  <1>n. PICK n : n = Cardinality(blocks)
    OBVIOUS
  <1>o. PICK order : order = Ordered(blocks, before)
    OBVIOUS
  <1>9. Enumerates(order, blocks, before)
    BY <1>3, <1>5, <1>7, <1>8, <1>o, OrderedList
  <1>10. n \in Nat /\ order \in [1 .. n -> blocks] /\ \A b \in blocks : \E k \in 1 .. n : order[k] = b
    BY <1>9, <1>n DEF Enumerates
  <1>c. PICK C : C = [k \in 1 .. n |-> Those(items, order[k])]
    OBVIOUS
  <1>11. Clusters(items, pairs) = C
    <2>1. Clusters(items, pairs) = [k \in DOMAIN order |-> Those(items, order[k])]
      BY <1>b, <1>f, <1>g, <1>o DEF Clusters
    <2>2. DOMAIN order = 1 .. n
      BY <1>10
    <2>. QED  BY <2>1, <2>2, <1>c
  <1>12. Listed(C) /\ DOMAIN C = 1 .. n /\ Len(C) = n
    <2>1. C = [k \in 1 .. n |-> C[k]]
      BY <1>c
    <2>2. n \in Nat
      BY <1>10
    <2>. QED  BY ONLY <2>1, <2>2, MappedList
  <1>13. ASSUME NEW k \in 1 .. n
         PROVE  Listed(C[k]) /\ C[k] # <<>> /\ ToSet(C[k]) = {items[i] : i \in order[k]}
    <2>1. order[k] \in SUBSET DOMAIN items /\ order[k] # {}
      <3>1. order[k] \in blocks
        BY <1>10
      <3>. QED  BY <1>2, <1>d, <3>1
    <2>2. C[k] = Those(items, order[k])
      BY <1>c
    <2>. QED  BY <2>1, <2>2, ThoseLists
  <1>14. UNION {ToSet(C[k]) : k \in 1 .. n} = ToSet(items)
    <2>1. ASSUME NEW x \in ToSet(items) PROVE \E k \in 1 .. n : x \in ToSet(C[k])
      <3>1. PICK i \in D : x = items[i]
        BY <1>d DEF ToSet
      <3>2. PICK b \in blocks : i \in b
        BY <1>2
      <3>3. PICK k \in 1 .. n : order[k] = b
        BY <1>10
      <3>. QED  BY <1>13, <3>1, <3>2, <3>3
    <2>2. ASSUME NEW k \in 1 .. n, NEW x \in ToSet(C[k]) PROVE x \in ToSet(items)
      <3>1. order[k] \subseteq D
        BY <1>2, <1>10
      <3>. QED  BY <1>13, <1>d, <3>1 DEF ToSet
    <2>. QED  BY <2>1, <2>2
  <1>15. n <= Len(items)
    <2>1. \A b \in blocks : b \subseteq D
      BY <1>2
    <2>2. first \in [blocks -> D]
      BY <1>4, <1>f, <2>1
    <2>3. first \in Injection(blocks, D)
      BY <1>6, <2>2 DEF Injection, IsInjective
    <2>l. PICK l : l = Len(items)
      OBVIOUS
    <2>4. l \in Nat /\ D = 1 .. l
      BY <1>d, <2>l, ListedFacts
    <2>5. IsFiniteSet(1 .. l) /\ Cardinality(1 .. l) = l
      BY <2>4, FS_Interval
    <2>6. Cardinality(blocks) <= Cardinality(D)
      BY <1>0, <2>3, FS_Injection
    <2>. QED  BY <1>n, <2>l, <2>4, <2>5, <2>6
  <1>. QED  BY <1>11, <1>12, <1>13, <1>14, <1>15

-----------------------------------------------------------------------------
(* The findings.                                                           *)

Fields == {"title", "summary", "severity", "source", "run", "persona", "personas", "cited", "crop",
           "region", "flow", "quotes", "redesign", "from"}

\* A finding is whole: the personas it concerns are of the cohort, and those
\* personas, its crop and the run it cites are of the runs it was observed in.
Sound(f) ==
    /\ DOMAIN f = Fields
    /\ IsFiniteSet(f.title) /\ IsFiniteSet(f.summary)
    /\ f.severity \in ToSet(Severities)
    /\ f.personas \subseteq ToSet(Cohort)
    /\ Affected(f) \subseteq RunsBehind(f)
    /\ f.run # None => f.run \in RunsBehind(f)
    /\ f.cited # None => f.run # None
    /\ f.crop # None => f.crop[1] \in RunsBehind(f)

LEMMA Ranked ==
    /\ ToSet(Severities) = {"low", "medium", "high", "critical"}
    /\ \A v \in ToSet(Severities) : Rank(v) \in 1 .. 4
    /\ Rank("low") = 1 /\ Rank("medium") = 2 /\ Rank("high") = 3 /\ Rank("critical") = 4
  <1>1. /\ DOMAIN Severities = 1 .. 4
        /\ Severities[1] = "low" /\ Severities[2] = "medium"
        /\ Severities[3] = "high" /\ Severities[4] = "critical"
    BY DEF Severities
  <1>2. 1 .. 4 = {1, 2, 3, 4}
    OBVIOUS
  <1>3. ToSet(Severities) = {"low", "medium", "high", "critical"}
    BY <1>1, <1>2 DEF ToSet
  <1>4. ASSUME NEW r \in {1, 2, 3, 4} PROVE Rank(Severities[r]) = r
    <2>1. \A q \in DOMAIN Severities : Severities[q] = Severities[r] => q = r
      BY <1>1, <1>2
    <2>. QED  BY <1>1, <1>2, <2>1 DEF Rank
  <1>5. Rank("low") = 1 /\ Rank("medium") = 2 /\ Rank("high") = 3 /\ Rank("critical") = 4
    BY <1>1, <1>4
  <1>. QED  BY <1>3, <1>5

LEMMA SeverityKeys ==
    ASSUME NEW items, \A k \in DOMAIN items : items[k].severity \in ToSet(Severities)
    PROVE  Severity(items) \in [DOMAIN items -> Int]
  <1>1. \A k \in DOMAIN items : Rank(items[k].severity) \in Int
    BY Ranked
  <1>. QED  BY <1>1 DEF Severity

\* A list has no more different items than places.
LEMMA FewItems ==
    ASSUME NEW s, Listed(s)
    PROVE  IsFiniteSet(ToSet(s)) /\ Cardinality(ToSet(s)) <= Len(s)
  <1>l. PICK l : l = Len(s)
    OBVIOUS
  <1>1. l \in Nat /\ DOMAIN s = 1 .. l
    BY <1>l, ListedFacts
  <1>2. IsFiniteSet(1 .. l) /\ Cardinality(1 .. l) = l
    BY <1>1, FS_Interval
  <1>f. PICK f : f = [k \in 1 .. l |-> s[k]]
    OBVIOUS
  <1>3. f \in Surjection(1 .. l, ToSet(s))
    BY <1>1, <1>f DEF Surjection, ToSet
  <1>. QED  BY <1>2, <1>3, <1>l, FS_Surjection

LEMMA FiniteCohort == IsFiniteSet(ToSet(Cohort)) /\ Cardinality(ToSet(Cohort)) <= Len(Cohort) /\ Len(Cohort) \in Nat
  BY CohortAssumption, FewItems, ListedFacts

\* An observation of a persona's own run.
LEMMA ObservationSound ==
    ASSUME NEW p \in ToSet(Cohort), NEW j, j.persona = p, j.run = p, NEW source, NEW at,
           NEW severity \in ToSet(Severities), NEW title, NEW summary, IsFiniteSet(title), IsFiniteSet(summary),
           NEW category, NEW cited, NEW f, f = Observation(j, source, at, severity, title, summary, category, cited)
    PROVE  /\ Sound(f) /\ f.quotes = {} /\ f.title = title /\ f.summary = summary /\ f.severity = severity
           /\ f.from = {[run |-> p, bucket |-> source, at |-> at]}
  <1>1. /\ DOMAIN f = Fields /\ f.title = title /\ f.summary = summary /\ f.severity = severity
        /\ f.personas = {} /\ f.persona = p /\ f.run = p /\ f.crop = None /\ f.quotes = {}
        /\ f.from = {[run |-> p, bucket |-> source, at |-> at]}
    BY DEF Observation, Fields
  <1>2. RunsBehind(f) = {p}
    BY <1>1 DEF RunsBehind
  <1>3. Affected(f) = {p} /\ p # None
    BY <1>1, CohortAssumption DEF Affected
  <1>. QED  BY <1>1, <1>2, <1>3 DEF Sound

LEMMA SixWords ==
    ASSUME NEW a, NEW b, NEW c, NEW d, NEW e, NEW g
    PROVE  IsFiniteSet({a, b, c, d, e, g})
  <1>1. IsFiniteSet({a}) /\ IsFiniteSet({b}) /\ IsFiniteSet({c})
        /\ IsFiniteSet({d}) /\ IsFiniteSet({e}) /\ IsFiniteSet({g})
    BY FS_Singleton
  <1>2. IsFiniteSet({a} \cup {b}) /\ IsFiniteSet({c} \cup {d}) /\ IsFiniteSet({e} \cup {g})
    BY <1>1, FS_Union
  <1>3. IsFiniteSet(({a} \cup {b}) \cup ({c} \cup {d}))
    BY <1>2, FS_Union
  <1>4. IsFiniteSet((({a} \cup {b}) \cup ({c} \cup {d})) \cup ({e} \cup {g}))
    BY <1>2, <1>3, FS_Union
  <1>5. {a, b, c, d, e, g} = (({a} \cup {b}) \cup ({c} \cup {d})) \cup ({e} \cup {g})
    OBVIOUS
  <1>. QED  BY <1>4, <1>5

\* What the verdict of a run reports is sound.
LEMMA VerdictSound ==
    ASSUME NEW p \in ToSet(Cohort), NEW j \in RunsOf(p), NEW f \in ToSet(PainPointsFromJourney(j))
    PROVE  Sound(f) /\ f.quotes = {}
  <1>1. /\ j.persona = p /\ j.run = p
        /\ Texts(j.verdict.blockers) /\ Texts(j.verdict.uxFindings) /\ Texts(j.verdict.suggestedImprovements)
        /\ \A k \in DOMAIN j.verdict.criteria : IsFiniteSet(j.verdict.criteria[k].explanation)
    BY JourneyFields
  <1>2. ASSUME NEW source, NEW notes, Texts(notes), NEW fallback \in ToSet(Severities),
               NEW n \in Reported(source, notes), f = AboutNote(j, source, notes, fallback, n)
        PROVE  Sound(f) /\ f.quotes = {}
    <2>1. /\ n \in DOMAIN notes /\ IsFiniteSet(notes[n].summary)
          /\ IsFiniteSet(Titled(notes[n], {source, "finding"}))
      <3>1. n \in DOMAIN notes /\ IsFiniteSet(notes[n].title) /\ IsFiniteSet(notes[n].summary)
        BY <1>2 DEF Reported, Texts
      <3>2. IsFiniteSet({source, source, source, source, source, "finding"})
        BY SixWords, Zenon
      <3>3. {source, source, source, source, source, "finding"} = {source, "finding"}
        OBVIOUS
      <3>. QED  BY <3>1, <3>2, <3>3 DEF Titled
    <2>2. SeverityOf(notes[n], fallback) \in ToSet(Severities)
      BY Ranked DEF SeverityOf
    <2>3. \E severity \in ToSet(Severities) : \E title, summary, category, cited :
             /\ IsFiniteSet(title) /\ IsFiniteSet(summary)
             /\ f = Observation(j, source, n, severity, title, summary, category, cited)
      BY <1>2, <2>1, <2>2 DEF AboutNote
    <2>4. PICK severity \in ToSet(Severities) : \E title, summary, category, cited :
             /\ IsFiniteSet(title) /\ IsFiniteSet(summary)
             /\ f = Observation(j, source, n, severity, title, summary, category, cited)
      BY <2>3
    <2>5. PICK title, summary, category, cited :
             /\ IsFiniteSet(title) /\ IsFiniteSet(summary)
             /\ f = Observation(j, source, n, severity, title, summary, category, cited)
      BY <2>4
    <2>. QED  BY <1>1, <2>5, ObservationSound
  <1>3. ASSUME NEW n \in Missed(j), f = AboutCriterion(j, n)
        PROVE  Sound(f) /\ f.quotes = {}
    <2>c. PICK c : c = j.verdict.criteria[n]
      OBVIOUS
    <2>1. IsFiniteSet(CriterionTitle(c))
      <3>1. \/ CriterionTitle(c) = {"journey", "journey", "journey", "blocked", "before", "completion"}
            \/ CriterionTitle(c) = {"journey", "blocked", "before", "tasks", "could", "judged"}
            \/ CriterionTitle(c) = {"users", "could", "finish", "tasks", "they", "came"}
        BY DEF CriterionTitle
      <3>2. /\ IsFiniteSet({"journey", "journey", "journey", "blocked", "before", "completion"})
            /\ IsFiniteSet({"journey", "blocked", "before", "tasks", "could", "judged"})
            /\ IsFiniteSet({"users", "could", "finish", "tasks", "they", "came"})
        BY SixWords, Zenon
      <3>. QED  BY <3>1, <3>2
    <2>2. IsFiniteSet(c.explanation)
      BY <1>1, <2>c DEF Missed
    <2>3. \E severity \in ToSet(Severities) : \E category :
             f = Observation(j, "criteria", n, severity, CriterionTitle(c), c.explanation, category, None)
      BY <1>3, <2>c, Ranked DEF AboutCriterion
    <2>4. PICK severity \in ToSet(Severities) : \E category :
             f = Observation(j, "criteria", n, severity, CriterionTitle(c), c.explanation, category, None)
      BY <2>3
    <2>5. PICK category :
             f = Observation(j, "criteria", n, severity, CriterionTitle(c), c.explanation, category, None)
      BY <2>4
    <2>. QED  BY <1>1, <2>1, <2>2, <2>5, ObservationSound
  <1>4. "critical" \in ToSet(Severities) /\ "medium" \in ToSet(Severities) /\ "low" \in ToSet(Severities)
    BY Ranked
  <1>. QED  BY <1>1, <1>2, <1>3, <1>4, PainPointItems

\* One of some findings, or what they are merged into.
LEMMA MergeClusterSound ==
    ASSUME NEW c, Listed(c), c # <<>>, \A x \in ToSet(c) : Sound(x)
    PROVE  /\ Sound(MergeCluster(c))
           /\ MergeCluster(c).from = UNION {x.from : x \in ToSet(c)}
           /\ \E x \in ToSet(c) : /\ MergeCluster(c).title = x.title
                                  /\ MergeCluster(c).summary = x.summary
                                  /\ MergeCluster(c).severity = x.severity
                                  /\ MergeCluster(c).quotes = x.quotes
  <1>0. Len(c) \in Nat \ {0} /\ DOMAIN c = 1 .. Len(c) /\ c \in Seq(ToSet(c)) /\ 1 \in DOMAIN c
    <2>1. c \in Seq(ToSet(c))
      BY DEF Listed
    <2>. QED  BY <2>1, EmptySeq
  <1>1. CASE Len(c) = 1
    <2>1. ToSet(c) = {c[1]} /\ MergeCluster(c) = c[1]
      BY <1>0, <1>1 DEF ToSet, MergeCluster
    <2>. QED  BY <2>1
  <1>2. CASE Len(c) # 1
    <2>p. PICK primary : primary = MaxBy(c, Severity(c))
      OBVIOUS
    <2>1. primary \in ToSet(c)
      <3>1. \A k \in DOMAIN c : c[k] \in ToSet(c) /\ c[k].severity \in ToSet(Severities)
        BY DEF ToSet, Sound
      <3>2. \E k \in DOMAIN c : MaxBy(c, Severity(c)) = c[k] /\ \A m \in DOMAIN c : Severity(c)[m] <= Severity(c)[k]
        BY <1>0, <3>1, SeverityKeys, MaxByItem
      <3>. QED  BY <2>p, <3>1, <3>2
    <2>h. PICK having : having = Those(c, {k \in DOMAIN c : c[k].crop # None})
      OBVIOUS
    <2>2. having # <<>> => \E x \in ToSet(c) : x.crop # None /\ having[1].crop = x.crop
      <3>p. PICK P : P = {k \in DOMAIN c : c[k].crop # None}
        OBVIOUS
      <3>1. /\ Listed(having) /\ ToSet(having) = {c[k] : k \in P}
        BY <2>h, <3>p, ThoseLists
      <3>2. having # <<>> => having[1] \in ToSet(having)
        BY <3>1, ListedFacts, EmptySeq DEF Listed
      <3>3. \A x \in ToSet(having) : x \in ToSet(c) /\ x.crop # None
        BY <3>1, <3>p DEF ToSet
      <3>. QED  BY <3>2, <3>3
    <2>m. PICK merged : merged = MergeCluster(c)
      OBVIOUS
    <2>a. PICK people : people = UNION {x.personas : x \in ToSet(c)}
      OBVIOUS
    <2>o. PICK origins : origins = UNION {x.from : x \in ToSet(c)}
      OBVIOUS
    <2>3. merged = [primary EXCEPT !.personas = people,
                                   !.crop = IF @ = None /\ having # <<>> THEN having[1].crop ELSE @,
                                   !.region = \E x \in ToSet(c) : x.region,
                                   !.from = origins]
      BY <1>2, <2>p, <2>h, <2>m, <2>a, <2>o DEF MergeCluster
    <2>4. DOMAIN primary = Fields
      BY <2>1 DEF Sound
    <2>5. /\ DOMAIN merged = Fields
          /\ merged.title = primary.title /\ merged.summary = primary.summary
          /\ merged.severity = primary.severity /\ merged.quotes = primary.quotes
          /\ merged.run = primary.run /\ merged.persona = primary.persona /\ merged.cited = primary.cited
          /\ merged.personas = people /\ merged.from = origins
          /\ merged.crop = IF primary.crop = None /\ having # <<>> THEN having[1].crop ELSE primary.crop
      BY <2>3, <2>4 DEF Fields
    <2>6. \A x \in ToSet(c) : RunsBehind(x) \subseteq RunsBehind(merged)
      BY <2>5, <2>o DEF RunsBehind
    <2>7. Affected(merged) \subseteq RunsBehind(merged)
      <3>1. CASE people # {}
        <4>1. ASSUME NEW q \in people PROVE q \in RunsBehind(merged)
          <5>1. PICK x \in ToSet(c) : q \in x.personas
            BY <2>a
          <5>2. q \in Affected(x) /\ Sound(x)
            BY <5>1 DEF Affected
          <5>. QED  BY <2>6, <5>2 DEF Sound
        <4>. QED  BY <2>5, <3>1, <4>1 DEF Affected
      <3>2. CASE people = {}
        <4>1. primary.personas = {}
          BY <2>1, <2>a, <3>2
        <4>2. Affected(merged) = Affected(primary)
          BY <2>5, <3>2, <4>1 DEF Affected
        <4>. QED  BY <2>1, <2>6, <4>2 DEF Sound
      <3>. QED  BY <3>1, <3>2
    <2>8. merged.crop # None => merged.crop[1] \in RunsBehind(merged)
      <3>1. merged.crop # None => \E x \in ToSet(c) : x.crop # None /\ merged.crop = x.crop
        BY <2>1, <2>2, <2>5
      <3>. QED  BY <2>6, <3>1 DEF Sound
    <2>9. /\ merged.run # None => merged.run \in RunsBehind(merged)
          /\ merged.cited # None => merged.run # None
          /\ IsFiniteSet(merged.title) /\ IsFiniteSet(merged.summary)
          /\ merged.severity \in ToSet(Severities)
      BY <2>1, <2>5, <2>6 DEF Sound
    <2>10. merged.personas \subseteq ToSet(Cohort)
      BY <2>5, <2>a DEF Sound
    <2>11. Sound(merged)
      BY <2>5, <2>7, <2>8, <2>9, <2>10 DEF Sound
    <2>. QED  BY <2>1, <2>5, <2>11, <2>m, <2>o
  <1>. QED  BY <1>1, <1>2

\* Merging loses no origin and makes none, and each entry has the words of one
\* of the findings it stands for.
LEMMA MergedFindings ==
    ASSUME NEW items, Listed(items), \A x \in ToSet(items) : Sound(x), NEW m, m = MergeSimilarFindings(items)
    PROVE  /\ Listed(m) /\ Len(m) <= Len(items) /\ Origins(m) = Origins(items)
           /\ \A y \in ToSet(m) : /\ Sound(y)
                                  /\ \E x \in ToSet(items) : /\ y.title = x.title /\ y.summary = x.summary
                                                             /\ y.severity = x.severity /\ y.quotes = x.quotes
                                                             /\ x.from \subseteq y.from
  <1>c. PICK C : C = Clusters(items, IssuePairs(items))
    OBVIOUS
  <1>1. IssuePairs(items) \in SUBSET ((DOMAIN items) \X (DOMAIN items))
    BY DEF IssuePairs
  <1>2. /\ Listed(C) /\ Len(C) <= Len(items)
        /\ \A k \in DOMAIN C : Listed(C[k]) /\ C[k] # <<>>
        /\ UNION {ToSet(C[k]) : k \in DOMAIN C} = ToSet(items)
    BY <1>1, <1>c, ClusterItems
  <1>3. Len(C) \in Nat /\ DOMAIN C = 1 .. Len(C)
    BY <1>2, ListedFacts
  <1>4. m = [k \in 1 .. Len(C) |-> MergeCluster(C[k])]
    BY <1>c, <1>3 DEF MergeSimilarFindings
  <1>5. Listed(m) /\ Len(m) = Len(C) /\ ToSet(m) = {m[k] : k \in 1 .. Len(C)} /\ DOMAIN m = 1 .. Len(C)
    <2>1. m = [k \in 1 .. Len(C) |-> m[k]]
      BY <1>4
    <2>2. Len(C) \in Nat
      BY <1>3
    <2>. QED  BY ONLY <2>1, <2>2, MappedList
  <1>6. ASSUME NEW k \in 1 .. Len(C)
        PROVE  /\ Sound(m[k]) /\ m[k].from = UNION {x.from : x \in ToSet(C[k])}
               /\ ToSet(C[k]) \subseteq ToSet(items)
               /\ \E x \in ToSet(C[k]) : /\ m[k].title = x.title /\ m[k].summary = x.summary
                                         /\ m[k].severity = x.severity /\ m[k].quotes = x.quotes
    <2>1. m[k] = MergeCluster(C[k])
      BY <1>4
    <2>2. Listed(C[k]) /\ C[k] # <<>> /\ ToSet(C[k]) \subseteq ToSet(items)
      BY <1>2, <1>3
    <2>. QED  BY <2>1, <2>2, MergeClusterSound
  <1>7. ASSUME NEW y \in ToSet(m)
        PROVE  /\ Sound(y)
               /\ \E x \in ToSet(items) : /\ y.title = x.title /\ y.summary = x.summary
                                          /\ y.severity = x.severity /\ y.quotes = x.quotes
                                          /\ x.from \subseteq y.from
    <2>1. PICK k \in 1 .. Len(C) : y = m[k]
      BY <1>5
    <2>2. PICK x \in ToSet(C[k]) : /\ m[k].title = x.title /\ m[k].summary = x.summary
                                   /\ m[k].severity = x.severity /\ m[k].quotes = x.quotes
      BY <1>6
    <2>3. x \in ToSet(items) /\ x.from \subseteq m[k].from
      BY <1>6, <2>2
    <2>. QED  BY <1>6, <2>1, <2>2, <2>3
  <1>8. Origins(m) \subseteq Origins(items)
    <2>1. ASSUME NEW o \in Origins(m) PROVE o \in Origins(items)
      <3>1. PICK k \in 1 .. Len(C) : o \in m[k].from
        BY <1>5 DEF Origins
      <3>2. PICK x \in ToSet(C[k]) : o \in x.from
        BY <1>6, <3>1
      <3>3. x \in ToSet(items)
        BY <1>6, <3>2
      <3>. QED  BY <3>2, <3>3 DEF Origins
    <2>. QED  BY <2>1
  <1>9. Origins(items) \subseteq Origins(m)
    <2>1. ASSUME NEW o \in Origins(items) PROVE o \in Origins(m)
      <3>1. PICK x \in ToSet(items) : o \in x.from
        BY DEF Origins
      <3>2. PICK k \in 1 .. Len(C) : x \in ToSet(C[k])
        BY <1>2, <1>3, <3>1
      <3>3. o \in m[k].from /\ m[k] \in ToSet(m)
        BY <1>5, <1>6, <3>1, <3>2
      <3>. QED  BY <3>3 DEF Origins
    <2>. QED  BY <2>1
  <1>. QED  BY <1>2, <1>5, <1>7, <1>8, <1>9

-----------------------------------------------------------------------------
(* The pain points of the critiques.                                       *)

Pointed(q) ==
    /\ q.persona \in ToSet(Cohort) /\ q.id.run = q.persona /\ q.shot[1] = q.persona
    /\ DOMAIN q.id = {"run", "title", "element"} /\ q.id.title = q.title /\ q.id.element = q.element
    /\ q.title # {}
    /\ q.severity \in ToSet(Severities) /\ IsFiniteSet(q.title) /\ IsFiniteSet(q.summary)

LEMMA ByIdItem ==
    ASSUME NEW ps, Listed(ps), NEW i \in DOMAIN ps
    PROVE  \E k \in DOMAIN ps : ById(ps, ps[i].id) = ps[k] /\ ps[k].id = ps[i].id
  <1>p. PICK P : P = {k \in 1 .. Len(ps) : ps[k].id = ps[i].id}
    OBVIOUS
  <1>1. Len(ps) \in Nat /\ DOMAIN ps = 1 .. Len(ps) /\ IsFiniteSet(DOMAIN ps)
    BY ListedFacts
  <1>2. /\ i \in P /\ P \in SUBSET DOMAIN ps /\ IsFiniteSet(P) /\ \A k \in P : k \in Int
    <2>1. i \in P /\ P \in SUBSET DOMAIN ps
      BY <1>1, <1>p
    <2>. QED  BY <1>1, <2>1, FS_Subset
  <1>3. \E k \in P : \A m \in P : k >= m
    <2>1. \E k \in P : \A m \in P : m <= k
      BY <1>2, Ends
    <2>. QED  BY <1>2, <2>1
  <1>l. PICK last : last = CHOOSE k \in P : \A m \in P : k >= m
    OBVIOUS
  <1>4. last \in P
    BY <1>3, <1>l
  <1>5. SelectLastInSeq(ps, LAMBDA p : p.id = ps[i].id) = last
    BY <1>2, <1>p, <1>l DEF SelectLastInSeq, Max
  <1>6. ById(ps, ps[i].id) = ps[last]
    BY <1>5 DEF ById
  <1>. QED  BY <1>2, <1>4, <1>6, <1>p

CauseOf(ps, i) ==
    [ids |-> LET members == Those(ps, Alikes(ps, i)) IN [m \in DOMAIN members |-> members[m].id],
     users |-> {ps[j].persona : j \in Alikes(ps, i)}]

LEMMA SynthesizedItems ==
    ASSUME NEW ps, Listed(ps)
    PROVE  /\ Listed(Synthesized(ps))
           /\ \A x \in ToSet(Synthesized(ps)) : \E i \in DOMAIN ps : x = Synthesis(ps, CauseOf(ps, i))
           /\ \A a, b \in DOMAIN Synthesized(ps) : \E i, k \in DOMAIN ps :
                 /\ Synthesized(ps)[a] = Synthesis(ps, CauseOf(ps, i))
                 /\ Synthesized(ps)[b] = Synthesis(ps, CauseOf(ps, k))
                 /\ Signature(ps[i]) = Signature(ps[k]) => a = b
  <1>p. PICK P : P = {i \in DOMAIN ps : \A j \in Alikes(ps, i) : i <= j}
    OBVIOUS
  <1>t. PICK t : t = Ascending(P)
    OBVIOUS
  <1>n. PICK n : n = Cardinality(P)
    OBVIOUS
  <1>1. P \in SUBSET DOMAIN ps /\ IsFiniteSet(P) /\ \A i \in P : i \in Int
    <2>1. IsFiniteSet(DOMAIN ps) /\ \A i \in DOMAIN ps : i \in Int
      BY ListedFacts
    <2>. QED  BY <1>p, <2>1, FS_Subset
  <1>2. n \in Nat /\ t \in [1 .. n -> P] /\ \A i, k \in 1 .. n : i < k <=> t[i] < t[k]
    BY <1>1, <1>t, <1>n, AscendingList
  <1>c. PICK C : C = RootCauses(ps)
    OBVIOUS
  <1>3. C = [k \in 1 .. n |-> CauseOf(ps, t[k])]
    <2>1. C = [k \in DOMAIN t |-> CauseOf(ps, t[k])]
      BY <1>c, <1>p, <1>t DEF RootCauses, CauseOf
    <2>. QED  BY <1>2, <2>1
  <1>s. PICK s : s = Synthesized(ps)
    OBVIOUS
  <1>4. s = [k \in 1 .. n |-> Synthesis(ps, CauseOf(ps, t[k]))]
    <2>1. s = [k \in DOMAIN C |-> Synthesis(ps, C[k])]
      BY <1>s, <1>c DEF Synthesized
    <2>. QED  BY <1>3, <2>1
  <1>5. Listed(s) /\ DOMAIN s = 1 .. n /\ ToSet(s) = {s[k] : k \in 1 .. n}
    <2>1. s = [k \in 1 .. n |-> s[k]]
      BY <1>4
    <2>2. n \in Nat
      BY <1>2
    <2>. QED  BY ONLY <2>1, <2>2, MappedList
  <1>6. \A k \in 1 .. n : t[k] \in DOMAIN ps /\ s[k] = Synthesis(ps, CauseOf(ps, t[k]))
    BY <1>1, <1>2, <1>4
  <1>7. ASSUME NEW a \in 1 .. n, NEW b \in 1 .. n, Signature(ps[t[a]]) = Signature(ps[t[b]])
        PROVE  a = b
    <2>1. t[a] \in P /\ t[b] \in P
      BY <1>2
    <2>2. t[a] \in Alikes(ps, t[b]) /\ t[b] \in Alikes(ps, t[a])
      BY <1>1, <1>7, <2>1 DEF Alikes
    <2>3. t[a] <= t[b] /\ t[b] <= t[a]
      BY <1>p, <2>1, <2>2
    <2>4. ~(t[a] < t[b]) /\ ~(t[b] < t[a])
      BY <1>1, <2>1, <2>3
    <2>. QED  BY <1>2, <2>4
  <1>. QED  BY <1>5, <1>6, <1>7, <1>s

\* What a root cause is reported as: each origin is the identity of a pain point
\* of its group.
LEMMA SynthesisSound ==
    ASSUME NEW ps, Listed(ps), \A q \in ToSet(ps) : Pointed(q), NEW i \in DOMAIN ps,
           NEW x, x = Synthesis(ps, CauseOf(ps, i))
    PROVE  /\ Sound(x) /\ x.quotes = {} /\ x.personas # {} /\ IsFiniteSet(x.personas)
           /\ \E q \in ToSet(ps) : x.title = q.title
           /\ \A o \in x.from : \E k \in Alikes(ps, i) : o = ps[k].id
  <1>p. PICK P : P = Alikes(ps, i)
    OBVIOUS
  <1>n. PICK n : n = Cardinality(P)
    OBVIOUS
  <1>t. PICK t : t = Those(ps, P)
    OBVIOUS
  <1>0. i \in P /\ P \in SUBSET DOMAIN ps
    BY <1>p DEF Alikes
  <1>1. ps \in Seq(ToSet(ps)) /\ \A k \in DOMAIN ps : ps[k] \in ToSet(ps) /\ Pointed(ps[k])
    BY ListedFacts DEF Listed
  <1>2. n \in Nat /\ DOMAIN t = 1 .. n
    BY <1>0, <1>1, <1>n, <1>t, ThoseList
  <1>3. PICK at \in [1 .. n -> P] :
          /\ \A k \in 1 .. n : t[k] = ps[at[k]]
          /\ \A j \in P : \E k \in 1 .. n : at[k] = j
    BY <1>0, <1>1, <1>n, <1>t, ThoseList
  <1>c. PICK cause : cause = CauseOf(ps, i)
    OBVIOUS
  <1>4. cause.ids = [m \in 1 .. n |-> t[m].id] /\ cause.users = {ps[j].persona : j \in P}
    BY <1>2, <1>c, <1>p, <1>t DEF CauseOf
  <1>m. PICK members : members = [m \in 1 .. n |-> ById(ps, t[m].id)]
    OBVIOUS
  <1>5. members = [m \in DOMAIN cause.ids |-> ById(ps, cause.ids[m])]
    BY <1>4, <1>m
  <1>6. ASSUME NEW m \in 1 .. n
        PROVE  members[m] \in ToSet(ps) /\ Pointed(members[m]) /\ members[m].id = ps[at[m]].id
    <2>1. at[m] \in DOMAIN ps /\ t[m] = ps[at[m]]
      BY <1>0, <1>3
    <2>2. PICK k \in DOMAIN ps : ById(ps, ps[at[m]].id) = ps[k] /\ ps[k].id = ps[at[m]].id
      BY <2>1, ByIdItem
    <2>3. members[m] = ps[k]
      BY <1>m, <2>1, <2>2
    <2>. QED  BY <1>1, <2>2, <2>3
  <1>7. Listed(members) /\ DOMAIN members = 1 .. n /\ ToSet(members) = {members[m] : m \in 1 .. n} /\ Len(members) = n
    <2>1. members = [m \in 1 .. n |-> members[m]]
      BY <1>m
    <2>2. n \in Nat
      BY <1>2
    <2>. QED  BY ONLY <2>1, <2>2, MappedList
  <1>8. n # 0 /\ 1 \in 1 .. n
    <2>1. \E k \in 1 .. n : at[k] = i
      BY <1>0, <1>3
    <2>. QED  BY <1>2, <2>1
  <1>w. PICK worst : worst = MaxBy(members, Severity(members))
    OBVIOUS
  <1>9. worst.severity \in ToSet(Severities)
    <2>1. \A k \in DOMAIN members : members[k].severity \in ToSet(Severities)
      BY <1>6, <1>7 DEF Pointed
    <2>2. members \in Seq(ToSet(members)) /\ members # <<>>
      BY <1>7, <1>8 DEF Listed
    <2>3. \E k \in DOMAIN members : MaxBy(members, Severity(members)) = members[k]
                                    /\ \A m \in DOMAIN members : Severity(members)[m] <= Severity(members)[k]
      BY <2>1, <2>2, SeverityKeys, MaxByItem
    <2>. QED  BY <1>w, <2>1, <2>3
  <1>l. PICK lead : lead = members[1]
    OBVIOUS
  <1>h. PICK shared : shared = IF Cardinality(cause.users) > 1 THEN SeenAcross ELSE {}
    OBVIOUS
  <1>10. x = [title |-> lead.title, summary |-> lead.summary \cup shared,
              severity |-> worst.severity, source |-> "vision",
              run |-> None, persona |-> None, personas |-> cause.users,
              cited |-> None, crop |-> lead.shot, region |-> lead.element # None,
              flow |-> "route", quotes |-> {}, redesign |-> FALSE,
              from |-> {m.id : m \in ToSet(members)}]
    BY <1>5, <1>c, <1>w, <1>l, <1>h DEF Synthesis
  <1>11. /\ DOMAIN x = Fields
         /\ x.title = lead.title /\ x.summary = lead.summary \cup shared /\ x.severity = worst.severity
         /\ x.run = None /\ x.persona = None /\ x.personas = cause.users /\ x.cited = None
         /\ x.crop = lead.shot /\ x.quotes = {} /\ x.from = {m.id : m \in ToSet(members)}
    BY <1>10 DEF Fields
  <1>12. x.from = {ps[at[m]].id : m \in 1 .. n}
    BY <1>6, <1>7, <1>11
  <1>13. \A o \in x.from : \E k \in P : o = ps[k].id
    BY <1>3, <1>12
  <1>14. \A j \in P : ps[j].id \in x.from /\ ps[j].persona = ps[j].id.run
    <2>1. ASSUME NEW j \in P PROVE ps[j].id \in x.from
      <3>1. PICK k \in 1 .. n : at[k] = j
        BY <1>3
      <3>. QED  BY <1>12, <3>1
    <2>. QED  BY <1>0, <1>1, <2>1 DEF Pointed
  <1>15. cause.users \subseteq RunsBehind(x)
    BY <1>4, <1>14 DEF RunsBehind
  <1>16. cause.users # {} /\ cause.users \subseteq ToSet(Cohort)
    BY <1>0, <1>1, <1>4 DEF Pointed
  <1>17. x.crop[1] \in RunsBehind(x)
    <2>1. lead.id \in x.from /\ lead.shot[1] = lead.id.run
      BY <1>6, <1>7, <1>8, <1>11, <1>l DEF Pointed
    <2>. QED  BY <1>11, <2>1 DEF RunsBehind
  <1>18. IsFiniteSet(x.title) /\ IsFiniteSet(x.summary) /\ lead \in ToSet(ps)
    <2>1. Pointed(lead) /\ lead \in ToSet(ps)
      BY <1>6, <1>8, <1>l
    <2>2. IsFiniteSet(shared)
      BY <1>h, SeenAcrossAssumption, FS_EmptySet
    <2>3. IsFiniteSet(lead.title) /\ IsFiniteSet(lead.summary)
      BY <2>1 DEF Pointed
    <2>4. IsFiniteSet(lead.summary \cup shared)
      BY <2>2, <2>3, FS_Union
    <2>. QED  BY <1>11, <2>1, <2>3, <2>4
  <1>19. Sound(x)
    BY <1>9, <1>11, <1>15, <1>16, <1>17, <1>18 DEF Sound, Affected
  <1>20. IsFiniteSet(cause.users)
    <2>1. IsFiniteSet(ToSet(Cohort))
      BY FiniteCohort
    <2>. QED  BY <1>16, <2>1, FS_Subset
  <1>. QED  BY <1>11, <1>13, <1>16, <1>18, <1>19, <1>20, <1>p

-----------------------------------------------------------------------------
(* What the critiques are asked about, and what they answer.               *)

LEMMA EvenSteps ==
    ASSUME NEW l \in Nat, NEW limit \in Nat \ {0}, NEW k \in 1 .. limit, l > limit
    PROVE  (((k - 1) * l) \div limit) + 1 \in 1 .. l
  <1>a. PICK a : a = (k - 1) * l
    OBVIOUS
  <1>q. PICK q : q = a \div limit
    OBVIOUS
  <1>1. a \in Nat
    BY <1>a
  <1>2. q \in Nat /\ limit * q <= a
    BY <1>1, <1>q
  <1>3. a < limit * l
    <2>1. k - 1 <= limit - 1 /\ k - 1 \in Nat /\ limit - 1 \in Nat
      OBVIOUS
    <2>2. (k - 1) * l <= (limit - 1) * l
      BY <2>1
    <2>3. (limit - 1) * l = limit * l - l
      OBVIOUS
    <2>4. limit * l \in Nat
      OBVIOUS
    <2>. QED  BY <1>a, <1>1, <2>2, <2>3, <2>4
  <1>4. q < l
    <2>1. ASSUME l <= q PROVE FALSE
      <3>1. limit * l <= limit * q
        BY <1>2, <2>1
      <3>2. limit * l \in Nat /\ limit * q \in Nat
        BY <1>2
      <3>. QED  BY <1>1, <1>2, <1>3, <3>1, <3>2
    <2>. QED  BY <1>2, <2>1
  <1>. QED  BY <1>a, <1>q, <1>2, <1>4

LEMMA SpacedItems ==
    ASSUME NEW items, Listed(items), NEW limit \in Int
    PROVE  Listed(EvenlySpaced(items, limit)) /\ ToSet(EvenlySpaced(items, limit)) \subseteq ToSet(items)
  <1>l. PICK l : l = Len(items)
    OBVIOUS
  <1>1. l \in Nat /\ DOMAIN items = 1 .. l
    BY <1>l, ListedFacts
  <1>2. CASE l <= limit \/ limit <= 0
    BY <1>2, <1>l DEF EvenlySpaced
  <1>3. CASE ~(l <= limit \/ limit <= 0)
    <2>1. limit \in Nat \ {0} /\ l > limit
      BY <1>1, <1>3
    <2>t. PICK t : t = [k \in 1 .. limit |-> items[(((k - 1) * l) \div limit) + 1]]
      OBVIOUS
    <2>2. EvenlySpaced(items, limit) = t
      BY <1>3, <1>l, <2>t DEF EvenlySpaced
    <2>3. \A k \in 1 .. limit : t[k] \in ToSet(items)
      <3>1. ASSUME NEW k \in 1 .. limit PROVE t[k] \in ToSet(items)
        <4>1. (((k - 1) * l) \div limit) + 1 \in 1 .. l
          BY <1>1, <2>1, EvenSteps
        <4>. QED  BY <1>1, <2>t, <4>1 DEF ToSet
      <3>. QED  BY <3>1
    <2>4. Listed(t) /\ ToSet(t) = {t[k] : k \in 1 .. limit}
      <3>1. t = [k \in 1 .. limit |-> t[k]]
        BY <2>t
      <3>2. limit \in Nat
        BY <2>1
      <3>. QED  BY ONLY <3>1, <3>2, MappedList
    <2>. QED  BY <2>2, <2>3, <2>4
  <1>. QED  BY <1>2, <1>3

LEMMA SampledItems ==
    ASSUME NEW p, NEW j \in RunsOf(p)
    PROVE  /\ Listed(Sampled(j))
           /\ \A c \in ToSet(Sampled(j)) : c.persona = p /\ c.run = p /\ c.stem \in ToSet(j.shots)
  <1>p. PICK paired : paired = Those(j.shots, {k \in DOMAIN j.shots : DomFor(j.shots[k], j.doms) # None})
    OBVIOUS
  <1>l. PICK limit : limit = IF SampleLimit > 1 THEN SampleLimit ELSE 1
    OBVIOUS
  <1>f. PICK from : from = IF paired # <<>> THEN paired ELSE j.shots
    OBVIOUS
  <1>c. PICK chosen : chosen = EvenlySpaced(from, limit)
    OBVIOUS
  <1>1. Listed(j.shots) /\ j.persona = p /\ j.run = p /\ limit \in Int
    BY <1>l, JourneyFields, LimitAssumption
  <1>2. Listed(from) /\ ToSet(from) \subseteq ToSet(j.shots)
    <2>p. PICK P : P = {k \in DOMAIN j.shots : DomFor(j.shots[k], j.doms) # None}
      OBVIOUS
    <2>1. Listed(paired) /\ ToSet(paired) = {j.shots[k] : k \in P}
      BY <1>1, <1>p, <2>p, ThoseLists
    <2>2. {j.shots[k] : k \in P} \subseteq ToSet(j.shots)
      BY <2>p DEF ToSet
    <2>. QED  BY <1>1, <1>f, <2>1, <2>2
  <1>3. Listed(chosen) /\ ToSet(chosen) \subseteq ToSet(j.shots)
    BY <1>1, <1>2, <1>c, SpacedItems
  <1>4. Len(chosen) \in Nat /\ DOMAIN chosen = 1 .. Len(chosen) /\ \A k \in DOMAIN chosen : chosen[k] \in ToSet(chosen)
    BY <1>3, ListedFacts
  <1>s. PICK s : s = Sampled(j)
    OBVIOUS
  <1>5. s = [k \in DOMAIN chosen |-> [persona |-> j.persona, run |-> j.run, stem |-> chosen[k],
                                      dom |-> DomFor(chosen[k], j.doms)]]
    BY <1>s, <1>p, <1>l, <1>f, <1>c DEF Sampled
  <1>6. Listed(s) /\ ToSet(s) = {s[k] : k \in 1 .. Len(chosen)}
    <2>1. s = [k \in 1 .. Len(chosen) |-> s[k]]
      BY <1>4, <1>5
    <2>2. Len(chosen) \in Nat
      BY <1>4
    <2>. QED  BY ONLY <2>1, <2>2, MappedList
  <1>7. \A k \in 1 .. Len(chosen) : s[k].persona = p /\ s[k].run = p /\ s[k].stem \in ToSet(j.shots)
    BY <1>1, <1>3, <1>4, <1>5
  <1>. QED  BY <1>6, <1>7, <1>s

\* The captures are of the runs there were.
Taken(c) == \E j \in ToSet(journeys) : c.persona = j.persona /\ c.run = j.run /\ c.stem \in ToSet(j.shots)

LEMMA JourneyPersona ==
    ASSUME Journeyed
    PROVE  /\ Len(journeys) \in Nat /\ DOMAIN journeys = 1 .. Len(journeys)
           /\ \A k \in DOMAIN journeys : /\ Cohort[k] \in ToSet(Cohort) /\ journeys[k] \in RunsOf(Cohort[k])
                                         /\ journeys[k] \in ToSet(journeys)
           /\ \A j \in ToSet(journeys) : \E k \in DOMAIN journeys :
                 j = journeys[k] /\ j \in RunsOf(Cohort[k]) /\ j.persona = Cohort[k] /\ j.run = Cohort[k]
  <1>1. Len(journeys) \in Nat /\ DOMAIN journeys = 1 .. Len(journeys)
    BY ListedFacts DEF Journeyed
  <1>2. Len(Cohort) \in Nat /\ DOMAIN Cohort = 1 .. Len(Cohort)
    BY CohortAssumption, ListedFacts
  <1>3. \A k \in DOMAIN journeys : k \in DOMAIN Cohort /\ journeys[k] \in RunsOf(Cohort[k])
    BY <1>1, <1>2 DEF Journeyed
  <1>4. \A k \in DOMAIN journeys : journeys[k].persona = Cohort[k] /\ journeys[k].run = Cohort[k]
    BY <1>3, JourneyFields
  <1>. QED  BY <1>1, <1>3, <1>4 DEF ToSet

LEMMA CaptureItems ==
    ASSUME Journeyed, NEW s, s = Each(journeys, Sampled)
    PROVE  Listed(s) /\ \A c \in ToSet(s) : Taken(c)
  <1>s. PICK ss : ss = [k \in DOMAIN journeys |-> Sampled(journeys[k])]
    OBVIOUS
  <1>1. Len(journeys) \in Nat /\ DOMAIN journeys = 1 .. Len(journeys)
    BY JourneyPersona
  <1>2. Listed(ss) /\ DOMAIN ss = DOMAIN journeys
    <2>1. ss = [k \in 1 .. Len(journeys) |-> ss[k]]
      BY <1>1, <1>s
    <2>2. Len(journeys) \in Nat
      BY <1>1
    <2>3. Listed(ss) /\ DOMAIN ss = 1 .. Len(journeys)
      BY ONLY <2>1, <2>2, MappedList
    <2>. QED  BY <1>1, <2>3
  <1>3. ASSUME NEW k \in DOMAIN ss PROVE Listed(ss[k]) /\ \A c \in ToSet(ss[k]) : Taken(c)
    <2>1. /\ ss[k] = Sampled(journeys[k]) /\ journeys[k] \in RunsOf(Cohort[k]) /\ journeys[k] \in ToSet(journeys)
          /\ journeys[k].persona = Cohort[k] /\ journeys[k].run = Cohort[k]
      BY <1>2, <1>s, JourneyPersona, JourneyFields
    <2>2. /\ Listed(ss[k])
          /\ \A c \in ToSet(ss[k]) : c.persona = Cohort[k] /\ c.run = Cohort[k] /\ c.stem \in ToSet(journeys[k].shots)
      BY <2>1, SampledItems
    <2>. QED  BY <2>1, <2>2 DEF Taken
  <1>4. Listed(FlattenSeq(ss)) /\ ToSet(FlattenSeq(ss)) = UNION {ToSet(ss[k]) : k \in DOMAIN ss}
    BY <1>2, <1>3, FlattenLists
  <1>5. s = FlattenSeq(ss)
    BY <1>s DEF Each
  <1>6. \A c \in ToSet(s) : \E k \in DOMAIN ss : c \in ToSet(ss[k])
    BY <1>4, <1>5
  <1>. QED  BY <1>3, <1>4, <1>5, <1>6

LEMMA PointItems ==
    ASSUME NEW c, c.persona \in ToSet(Cohort), c.run = c.persona, NEW answer \in Critiques, NEW s,
           s = PointsOf(c, answer)
    PROVE  /\ Listed(s)
           /\ \A q \in ToSet(s) : Pointed(q) /\ q.persona = c.persona /\ q.shot[2] = c.stem
  <1>i. PICK issues : issues = answer.issues
    OBVIOUS
  <1>1. Listed(issues) /\ \A n \in DOMAIN issues : /\ IsFiniteSet(issues[n].title) /\ IsFiniteSet(issues[n].summary)
                                                   /\ issues[n].severity \in ToSet(Severities)
                                                   /\ issues[n].title # {}
    BY <1>i, CritiquesAssumption DEF Texts, ToSet
  <1>2. Len(issues) \in Nat /\ DOMAIN issues = 1 .. Len(issues)
    BY <1>1, ListedFacts
  <1>. DEFINE Element(n) == IF c.dom = None THEN None ELSE issues[n].element
  <1>3. s = [n \in DOMAIN issues |->
                [id |-> [run |-> c.run, title |-> issues[n].title, element |-> Element(n)],
                 persona |-> c.persona, title |-> issues[n].title, summary |-> issues[n].summary,
                 severity |-> issues[n].severity, element |-> Element(n), shot |-> <<c.run, c.stem>>]]
    BY <1>i DEF PointsOf
  <1>. HIDE DEF Element
  <1>4. Listed(s) /\ ToSet(s) = {s[n] : n \in 1 .. Len(issues)}
    <2>1. s = [n \in 1 .. Len(issues) |-> s[n]]
      BY <1>2, <1>3
    <2>2. Len(issues) \in Nat
      BY <1>2
    <2>. QED  BY ONLY <2>1, <2>2, MappedList
  <1>5. ASSUME NEW n \in 1 .. Len(issues)
        PROVE  Pointed(s[n]) /\ s[n].persona = c.persona /\ s[n].shot[2] = c.stem
    <2>1. s[n].id = [run |-> c.run, title |-> issues[n].title, element |-> Element(n)]
      BY <1>2, <1>3
    <2>2. /\ DOMAIN s[n].id = {"run", "title", "element"} /\ s[n].id.run = c.run
          /\ s[n].id.title = issues[n].title /\ s[n].id.element = Element(n)
      BY <2>1
    <2>. QED  BY <1>1, <1>2, <1>3, <2>2 DEF Pointed
  <1>6. DOMAIN answer.issues = 1 .. Len(issues)
    BY <1>2, <1>i
  <1>. QED  BY <1>4, <1>5, <1>6, <1>i

\* What is worth keeping: the personas that praise it are of the cohort.
Strength(x) ==
    /\ x.title # {} /\ IsFiniteSet(x.title) /\ IsFiniteSet(x.summary)
    /\ x.personas \subseteq ToSet(Cohort) /\ IsFiniteSet(x.personas)

\* What a critique praises has its own origin.
Heard(x) == \A o \in x.from : DOMAIN o = {"run", "stem", "strength"}

LEMMA StrengthItems ==
    ASSUME NEW c, c.persona \in ToSet(Cohort), NEW answer \in Critiques, NEW s, s = StrengthsOf(c, answer)
    PROVE  /\ Listed(s)
           /\ \A x \in ToSet(s) : Strength(x) /\ Heard(x)
  <1>i. PICK given : given = answer.strengths
    OBVIOUS
  <1>1. Listed(given) /\ \A n \in DOMAIN given : /\ IsFiniteSet(given[n].title) /\ IsFiniteSet(given[n].summary)
                                                 /\ given[n].title # {}
    BY <1>i, CritiquesAssumption DEF Texts, ToSet
  <1>2. Len(given) \in Nat /\ DOMAIN given = 1 .. Len(given)
    BY <1>1, ListedFacts
  <1>3. s = [n \in DOMAIN given |->
                [title |-> given[n].title, summary |-> given[n].summary, personas |-> {c.persona},
                 from |-> {[run |-> c.run, stem |-> c.stem, strength |-> n]}]]
    BY <1>i DEF StrengthsOf
  <1>4. Listed(s) /\ ToSet(s) = {s[n] : n \in 1 .. Len(given)}
    <2>1. s = [n \in 1 .. Len(given) |-> s[n]]
      BY <1>2, <1>3
    <2>2. Len(given) \in Nat
      BY <1>2
    <2>. QED  BY ONLY <2>1, <2>2, MappedList
  <1>5. ASSUME NEW n \in 1 .. Len(given)
        PROVE  Strength(s[n]) /\ Heard(s[n])
    <2>1. s[n] = [title |-> given[n].title, summary |-> given[n].summary, personas |-> {c.persona},
                  from |-> {[run |-> c.run, stem |-> c.stem, strength |-> n]}]
      BY <1>2, <1>3
    <2>2. IsFiniteSet({c.persona})
      BY FS_Singleton
    <2>3. DOMAIN [run |-> c.run, stem |-> c.stem, strength |-> n] = {"run", "stem", "strength"}
      OBVIOUS
    <2>4. Heard(s[n])
      BY <2>1, <2>3 DEF Heard
    <2>. QED  BY <1>1, <1>2, <2>1, <2>2, <2>4 DEF Strength
  <1>. QED  BY <1>4, <1>5

\* The praise in the verdict of a run.
Praised(j) == {n \in DOMAIN j.verdict.uxFindings : ReadsAsPraise(j.verdict.uxFindings[n])}

KeptTitle == {"Design", "decision", "that", "works"}

LEMMA VerdictPraise ==
    ASSUME NEW p \in ToSet(Cohort), NEW j \in RunsOf(p), NEW s, s = PraiseFromVerdict(j)
    PROVE  /\ Listed(s)
           /\ \A x \in ToSet(s) : /\ Strength(x)
                                  /\ \E n \in Praised(j) :
                                        x.from = {[run |-> p, bucket |-> "uxFindings", at |-> n]}
           /\ \A n \in Praised(j) : \E x \in ToSet(s) : x.from = {[run |-> p, bucket |-> "uxFindings", at |-> n]}
  <1>i. PICK notes : notes = j.verdict.uxFindings
    OBVIOUS
  <1>1. /\ Listed(notes) /\ \A n \in DOMAIN notes : IsFiniteSet(notes[n].title) /\ IsFiniteSet(notes[n].summary)
        /\ j.persona = p /\ j.run = p
    BY <1>i, JourneyFields DEF Texts
  <1>p. PICK P : P = Praised(j)
    OBVIOUS
  <1>2. P \in SUBSET DOMAIN notes /\ IsFiniteSet(P) /\ \A n \in P : n \in Int
    <2>1. IsFiniteSet(DOMAIN notes) /\ \A n \in DOMAIN notes : n \in Int
      BY <1>1, ListedFacts
    <2>2. P \in SUBSET DOMAIN notes
      BY <1>i, <1>p DEF Praised
    <2>. QED  BY <2>1, <2>2, FS_Subset
  <1>t. PICK t : t = Ascending(P)
    OBVIOUS
  <1>3. \A k \in DOMAIN t : t[k] \in P
    BY <1>2, <1>t, AscendingList
  <1>g. PICK g : g = [n \in P |-> [title |-> Titled(notes[n], KeptTitle), summary |-> notes[n].summary, personas |-> {p},
                                   from |-> {[run |-> p, bucket |-> "uxFindings", at |-> n]}]]
    OBVIOUS
  <1>4. s = [k \in DOMAIN t |->
                [title |-> Titled(notes[t[k]], KeptTitle), summary |-> notes[t[k]].summary, personas |-> {p},
                 from |-> {[run |-> p, bucket |-> "uxFindings", at |-> t[k]]}]]
    BY <1>1, <1>i, <1>p, <1>t DEF PraiseFromVerdict, Praised, KeptTitle
  <1>5. s = [k \in DOMAIN t |-> g[t[k]]]
    BY <1>3, <1>4, <1>g
  <1>6. DOMAIN g = P
    BY <1>g
  <1>7. Listed(s) /\ ToSet(s) = {g[n] : n \in P}
    BY <1>2, <1>5, <1>6, <1>t, PlacedItems
  <1>8. ASSUME NEW n \in P
        PROVE  /\ Strength(g[n]) /\ g[n].title = Titled(notes[n], KeptTitle)
               /\ g[n].from = {[run |-> p, bucket |-> "uxFindings", at |-> n]}
    <2>1. IsFiniteSet({p})
      BY FS_Singleton
    <2>2. g[n] = [title |-> Titled(notes[n], KeptTitle), summary |-> notes[n].summary, personas |-> {p},
                  from |-> {[run |-> p, bucket |-> "uxFindings", at |-> n]}]
      BY <1>g
    <2>3. IsFiniteSet(Titled(notes[n], KeptTitle)) /\ Titled(notes[n], KeptTitle) # {}
      <3>1. IsFiniteSet({"Design", "Design", "Design", "decision", "that", "works"})
        BY SixWords, Zenon
      <3>2. {"Design", "Design", "Design", "decision", "that", "works"} = KeptTitle
        BY DEF KeptTitle
      <3>3. KeptTitle # {}
        BY DEF KeptTitle
      <3>. QED  BY <1>1, <1>2, <3>1, <3>2, <3>3 DEF Titled
    <2>. QED  BY <1>1, <1>2, <2>1, <2>2, <2>3 DEF Strength
  <1>. QED  BY <1>7, <1>8, <1>i, <1>p

\* One strength for each persona a synthesized finding concerns.
LEMMA SynthesizedPraise ==
    ASSUME NEW f, Sound(f), f.title # {}, IsFiniteSet(f.personas), NEW s, s = PraiseAsStrengths(f)
    PROVE  /\ Listed(s)
           /\ \A x \in ToSet(s) : Strength(x) /\ x.title = f.title /\ x.from = f.from
           /\ f.personas # {} => s # <<>> /\ ToSet(s) # {}
  <1>n. PICK n : n = Cardinality(f.personas)
    OBVIOUS
  <1>c. PICK credited : credited = SetToSeq(f.personas)
    OBVIOUS
  <1>1. n \in Nat /\ ExistsBijection(1 .. n, f.personas)
    BY <1>n, FS_CardinalityType
  <1>2. PICK b \in Bijection(1 .. n, f.personas) : TRUE
    BY <1>1 DEF ExistsBijection
  <1>3. b \in [1 .. n -> f.personas] /\ \A i, k \in 1 .. n : b[i] = b[k] => i = k
    BY <1>2 DEF Bijection, Injection, IsInjective
  <1>4. credited \in [1 .. n -> f.personas]
    <2>1. b \in {g \in [1 .. n -> f.personas] : \A i, k \in DOMAIN g : g[i] = g[k] => i = k}
      BY <1>3
    <2>2. credited = CHOOSE g \in [1 .. n -> f.personas] : IsInjective(g)
      BY <1>c, <1>n DEF SetToSeq
    <2>3. b \in [1 .. n -> f.personas] /\ IsInjective(b)
      BY <1>3 DEF IsInjective
    <2>. QED  BY <2>2, <2>3
  <1>5. s = [k \in 1 .. n |-> [title |-> f.title, summary |-> f.summary,
                               personas |-> {credited[k]}, from |-> f.from]]
    BY <1>4, <1>c DEF PraiseAsStrengths
  <1>6. Listed(s) /\ ToSet(s) = {s[k] : k \in 1 .. n} /\ Len(s) = n
    <2>1. s = [k \in 1 .. n |-> s[k]]
      BY <1>5
    <2>2. n \in Nat
      BY <1>1
    <2>. QED  BY ONLY <2>1, <2>2, MappedList
  <1>7. ASSUME NEW k \in 1 .. n PROVE Strength(s[k]) /\ s[k].title = f.title /\ s[k].from = f.from
    <2>1. s[k] = [title |-> f.title, summary |-> f.summary, personas |-> {credited[k]}, from |-> f.from]
      BY <1>5
    <2>2. IsFiniteSet({credited[k]}) /\ credited[k] \in ToSet(Cohort)
      BY <1>4, FS_Singleton DEF Sound
    <2>. QED  BY <2>1, <2>2 DEF Strength, Sound
  <1>8. f.personas # {} => n # 0
    BY <1>n, FS_EmptySet
  <1>9. n # 0 => 1 \in 1 .. n /\ s[1] \in ToSet(s)
    BY <1>1, <1>6
  <1>10. ToSet(<<>>) = {}
    BY DEF ToSet
  <1>. QED  BY <1>6, <1>7, <1>8, <1>9, <1>10

LEMMA MergedPraise ==
    ASSUME NEW c, Listed(c), c # <<>>, \A x \in ToSet(c) : Strength(x)
    PROVE  /\ MergePraise(c).personas = UNION {x.personas : x \in ToSet(c)}
           /\ MergePraise(c).from = UNION {x.from : x \in ToSet(c)}
           /\ IsFiniteSet(MergePraise(c).personas)
  <1>1. /\ MergePraise(c).personas = UNION {x.personas : x \in ToSet(c)}
        /\ MergePraise(c).from = UNION {x.from : x \in ToSet(c)}
    BY DEF MergePraise
  <1>2. MergePraise(c).personas \in SUBSET ToSet(Cohort)
    BY <1>1 DEF Strength
  <1>. QED  BY <1>1, <1>2, FiniteCohort, FS_Subset

\* Merging the strengths loses none of them.
LEMMA MergedStrengths ==
    ASSUME NEW all, Listed(all), \A x \in ToSet(all) : Strength(x), NEW m, m = MergeStrengths(all)
    PROVE  Listed(m) /\ Origins(m) = Origins(all)
  <1>p. PICK P : P = {k \in DOMAIN all : all[k].title # {}}
    OBVIOUS
  <1>t. PICK titled : titled = Those(all, P)
    OBVIOUS
  <1>1. Listed(titled) /\ ToSet(titled) = {all[k] : k \in P}
    BY <1>p, <1>t, ThoseLists
  <1>2. ToSet(titled) = ToSet(all)
    <2>1. \A k \in DOMAIN all : k \in P
      BY <1>p DEF ToSet, Strength
    <2>. QED  BY <1>1, <1>p, <2>1 DEF ToSet
  <1>c. PICK C : C = Clusters(titled, PraisePairs(titled))
    OBVIOUS
  <1>3. PraisePairs(titled) \in SUBSET ((DOMAIN titled) \X (DOMAIN titled))
    BY DEF PraisePairs
  <1>4. /\ Listed(C)
        /\ \A k \in DOMAIN C : Listed(C[k]) /\ C[k] # <<>>
        /\ UNION {ToSet(C[k]) : k \in DOMAIN C} = ToSet(titled)
    BY <1>1, <1>3, <1>c, ClusterItems
  <1>5. Len(C) \in Nat /\ DOMAIN C = 1 .. Len(C)
    BY <1>4, ListedFacts
  <1>e. PICK entries : entries = [k \in 1 .. Len(C) |-> MergePraise(C[k])]
    OBVIOUS
  <1>6. /\ Listed(entries) /\ DOMAIN entries = 1 .. Len(C)
        /\ ToSet(entries) = {entries[k] : k \in 1 .. Len(C)}
    <2>1. entries = [k \in 1 .. Len(C) |-> entries[k]]
      BY <1>e
    <2>2. Len(C) \in Nat
      BY <1>5
    <2>. QED  BY ONLY <2>1, <2>2, MappedList
  <1>7. ASSUME NEW k \in 1 .. Len(C)
        PROVE  /\ ToSet(C[k]) \subseteq ToSet(titled)
               /\ entries[k].from = UNION {x.from : x \in ToSet(C[k])}
               /\ IsFiniteSet(entries[k].personas)
    <2>1. Listed(C[k]) /\ C[k] # <<>> /\ ToSet(C[k]) \subseteq ToSet(titled)
      BY <1>4, <1>5
    <2>2. \A x \in ToSet(C[k]) : Strength(x)
      BY <1>2, <2>1
    <2>. QED  BY <1>e, <2>1, <2>2, MergedPraise
  <1>k. PICK key : key = [k \in DOMAIN entries |-> Cardinality(entries[k].personas)]
    OBVIOUS
  <1>8. key \in [DOMAIN entries -> Int]
    <2>1. \A k \in DOMAIN entries : Cardinality(entries[k].personas) \in Int
      BY <1>6, <1>7, FS_CardinalityType
    <2>. QED  BY <1>k, <2>1
  <1>9. m = SortedBy(entries, key)
    <2>1. [k \in DOMAIN C |-> MergePraise(C[k])] = entries
      BY <1>5, <1>e
    <2>. QED  BY <1>c, <1>k, <1>p, <1>t, <2>1 DEF MergeStrengths
  <1>10. Listed(m) /\ ToSet(m) = ToSet(entries)
    <2>1. entries \in Seq(ToSet(entries))
      BY <1>6 DEF Listed
    <2>. QED  BY <1>8, <1>9, <2>1, SortedList, SortedItems, ListedSeq
  <1>11. Origins(m) \subseteq Origins(titled)
    <2>1. ASSUME NEW o \in Origins(m) PROVE o \in Origins(titled)
      <3>1. PICK k \in 1 .. Len(C) : o \in entries[k].from
        BY <1>6, <1>10 DEF Origins
      <3>2. PICK x \in ToSet(C[k]) : o \in x.from
        BY <1>7, <3>1
      <3>3. x \in ToSet(titled)
        BY <1>7, <3>2
      <3>. QED  BY <3>2, <3>3 DEF Origins
    <2>. QED  BY <2>1
  <1>12. Origins(titled) \subseteq Origins(m)
    <2>1. ASSUME NEW o \in Origins(titled) PROVE o \in Origins(m)
      <3>1. PICK x \in ToSet(titled) : o \in x.from
        BY DEF Origins
      <3>2. PICK k \in 1 .. Len(C) : x \in ToSet(C[k])
        BY <1>4, <1>5, <3>1
      <3>3. o \in entries[k].from /\ entries[k] \in ToSet(m)
        BY <1>6, <1>7, <1>10, <3>1, <3>2
      <3>. QED  BY <3>3 DEF Origins
    <2>. QED  BY <2>1
  <1>13. Origins(titled) = Origins(all)
    BY <1>2 DEF Origins
  <1>. QED  BY <1>10, <1>11, <1>12, <1>13

LEMMA PreservedItems ==
    Listed(PreservedFromVerdicts) /\ Origins(PreservedFromVerdicts) = {}
  <1>p. PICK s : s = PreservedFromVerdicts
    OBVIOUS
  <1>0. \E met : s = IF met = {} THEN <<>>
                     ELSE <<[title |-> {"Users", "can", "finish", "tasks"}, summary |-> {},
                             personas |-> {j.persona : j \in met}, from |-> {}]>>
    BY <1>p DEF PreservedFromVerdicts
  <1>1. CASE s = <<>>
    <2>1. ToSet(s) = {} /\ s \in Seq({})
      BY <1>1 DEF ToSet
    <2>2. Origins(s) = {}
      BY <2>1 DEF Origins
    <2>. QED  BY <1>p, <2>1, <2>2, ListedSeq
  <1>2. CASE \E x : s = <<x>> /\ x.from = {}
    <2>1. PICK x : s = <<x>> /\ x.from = {}
      BY <1>2
    <2>2. s \in Seq({x}) /\ ToSet(s) = {x}
      BY <2>1 DEF ToSet
    <2>3. Origins(s) = {}
      BY <2>1, <2>2 DEF Origins
    <2>. QED  BY <1>p, <2>2, <2>3, ListedSeq
  <1>. QED
    <2>1. PICK met : s = IF met = {} THEN <<>>
                         ELSE <<[title |-> {"Users", "can", "finish", "tasks"}, summary |-> {},
                                 personas |-> {j.persona : j \in met}, from |-> {}]>>
      BY <1>0
    <2>x. PICK x : x = [title |-> {"Users", "can", "finish", "tasks"}, summary |-> {},
                        personas |-> {j.persona : j \in met}, from |-> {}]
      OBVIOUS
    <2>2. x.from = {} /\ (s = <<>> \/ s = <<x>>)
      BY <2>1, <2>x
    <2>. QED  BY <1>1, <1>2, <2>2

\* What is praised in the verdicts, and what the synthesis praises.
FromPraise == Each(journeys, PraiseFromVerdict)

FromSynthesis == Each(VisionPraise, PraiseAsStrengths)

LEMMA PraiseItems ==
    ASSUME Journeyed
    PROVE  /\ Listed(FromPraise)
           /\ ToSet(FromPraise) = UNION {ToSet(PraiseFromVerdict(journeys[k])) : k \in DOMAIN journeys}
           /\ \A x \in ToSet(FromPraise) : Strength(x)
  <1>s. PICK ss : ss = [k \in DOMAIN journeys |-> PraiseFromVerdict(journeys[k])]
    OBVIOUS
  <1>1. Len(journeys) \in Nat /\ DOMAIN journeys = 1 .. Len(journeys)
    BY JourneyPersona
  <1>2. \A k \in DOMAIN journeys : /\ Listed(PraiseFromVerdict(journeys[k]))
                                   /\ \A x \in ToSet(PraiseFromVerdict(journeys[k])) : Strength(x)
    BY JourneyPersona, VerdictPraise
  <1>3. Listed(ss) /\ DOMAIN ss = DOMAIN journeys
    <2>1. ss = [k \in 1 .. Len(journeys) |-> ss[k]]
      BY <1>1, <1>s
    <2>2. Len(journeys) \in Nat
      BY <1>1
    <2>3. Listed(ss) /\ DOMAIN ss = 1 .. Len(journeys)
      BY ONLY <2>1, <2>2, MappedList
    <2>. QED  BY <1>1, <2>3
  <1>4. \A k \in DOMAIN ss : ss[k] = PraiseFromVerdict(journeys[k])
    BY <1>s, <1>3
  <1>5. Listed(FlattenSeq(ss)) /\ ToSet(FlattenSeq(ss)) = UNION {ToSet(ss[k]) : k \in DOMAIN ss}
    BY <1>2, <1>3, <1>4, FlattenLists
  <1>6. FromPraise = FlattenSeq(ss)
    BY <1>s DEF FromPraise, Each
  <1>7. {ToSet(ss[k]) : k \in DOMAIN ss} = {ToSet(PraiseFromVerdict(journeys[k])) : k \in DOMAIN journeys}
    BY <1>3, <1>4
  <1>8. \A x \in ToSet(FromPraise) : \E k \in DOMAIN journeys : x \in ToSet(PraiseFromVerdict(journeys[k]))
    BY <1>5, <1>6, <1>7
  <1>. QED  BY <1>2, <1>5, <1>6, <1>7, <1>8

LEMMA SynthesisPraise ==
    ASSUME Listed(VisionPraise),
           \A x \in ToSet(VisionPraise) : Sound(x) /\ x.title # {} /\ x.personas # {} /\ IsFiniteSet(x.personas)
    PROVE  /\ Listed(FromSynthesis) /\ Origins(FromSynthesis) = Origins(VisionPraise)
           /\ \A x \in ToSet(FromSynthesis) : Strength(x)
  <1>v. PICK v : v = VisionPraise
    OBVIOUS
  <1>s. PICK ss : ss = [k \in DOMAIN v |-> PraiseAsStrengths(v[k])]
    OBVIOUS
  <1>1. Len(v) \in Nat /\ DOMAIN v = 1 .. Len(v) /\ \A k \in DOMAIN v : v[k] \in ToSet(VisionPraise)
    BY <1>v, ListedFacts
  <1>2. Listed(ss) /\ DOMAIN ss = DOMAIN v
    <2>1. ss = [k \in 1 .. Len(v) |-> ss[k]]
      BY <1>1, <1>s
    <2>2. Len(v) \in Nat
      BY <1>1
    <2>3. Listed(ss) /\ DOMAIN ss = 1 .. Len(v)
      BY ONLY <2>1, <2>2, MappedList
    <2>. QED  BY <1>1, <2>3
  <1>3. ASSUME NEW k \in DOMAIN v
        PROVE  /\ Listed(ss[k]) /\ ToSet(ss[k]) # {}
               /\ \A x \in ToSet(ss[k]) : Strength(x) /\ x.title = v[k].title /\ x.from = v[k].from
    <2>1. ss[k] = PraiseAsStrengths(v[k])
      BY <1>s
    <2>2. Sound(v[k]) /\ v[k].title # {} /\ v[k].personas # {} /\ IsFiniteSet(v[k].personas)
      BY <1>1
    <2>. QED  BY <2>1, <2>2, SynthesizedPraise
  <1>4. Listed(FlattenSeq(ss)) /\ ToSet(FlattenSeq(ss)) = UNION {ToSet(ss[k]) : k \in DOMAIN ss}
    BY <1>2, <1>3, FlattenLists
  <1>5. FromSynthesis = FlattenSeq(ss)
    BY <1>s, <1>v DEF FromSynthesis, Each
  <1>6. \A x \in ToSet(FromSynthesis) : \E k \in DOMAIN v : x \in ToSet(ss[k])
    BY <1>2, <1>4, <1>5
  <1>7. \A k \in DOMAIN v : \A x \in ToSet(ss[k]) : x \in ToSet(FromSynthesis)
    BY <1>2, <1>4, <1>5
  <1>8. Origins(FromSynthesis) \subseteq Origins(v)
    <2>1. ASSUME NEW o \in Origins(FromSynthesis) PROVE o \in Origins(v)
      <3>1. PICK x \in ToSet(FromSynthesis) : o \in x.from
        BY DEF Origins
      <3>2. PICK k \in DOMAIN v : x \in ToSet(ss[k])
        BY <1>6
      <3>3. o \in v[k].from /\ v[k] \in ToSet(v)
        BY <1>1, <1>3, <1>v, <3>1, <3>2
      <3>. QED  BY <3>3 DEF Origins
    <2>. QED  BY <2>1
  <1>9. Origins(v) \subseteq Origins(FromSynthesis)
    <2>1. ASSUME NEW o \in Origins(v) PROVE o \in Origins(FromSynthesis)
      <3>1. PICK k \in DOMAIN v : o \in v[k].from
        BY DEF Origins, ToSet
      <3>2. PICK x \in ToSet(ss[k]) : x.from = v[k].from
        BY <1>3
      <3>. QED  BY <1>7, <3>1, <3>2 DEF Origins
    <2>. QED  BY <2>1
  <1>10. \A x \in ToSet(FromSynthesis) : Strength(x)
    BY <1>3, <1>6
  <1>. QED  BY <1>4, <1>5, <1>8, <1>9, <1>10, <1>v

-----------------------------------------------------------------------------
(* The thoughts of a persona.                                              *)

LEMMA UpToItems ==
    ASSUME NEW s, Listed(s), NEW limit \in Nat, NEW t, t = UpTo(limit, s)
    PROVE  /\ Listed(t) /\ ToSet(t) \subseteq ToSet(s)
           /\ Len(t) = IF Len(s) < limit THEN Len(s) ELSE limit
           /\ \A k \in DOMAIN t : k \in DOMAIN s /\ t[k] = s[k]
  <1>n. PICK n : n = IF Len(s) < limit THEN Len(s) ELSE limit
    OBVIOUS
  <1>1. Len(s) \in Nat /\ DOMAIN s = 1 .. Len(s) /\ s \in Seq(ToSet(s))
    BY ListedFacts DEF Listed
  <1>2. n \in 0 .. Len(s)
    BY <1>1, <1>n
  <1>3. t = SubSeq(s, 1, n)
    BY <1>n DEF UpTo
  <1>4. t \in Seq(ToSet(s)) /\ Len(t) = n /\ \A k \in 1 .. n : t[k] = s[k]
    BY <1>1, <1>2, <1>3
  <1>5. DOMAIN t = 1 .. n
    BY <1>4
  <1>6. Listed(t) /\ ToSet(t) \subseteq ToSet(s)
    BY <1>4, ListedSeq
  <1>7. \A k \in DOMAIN t : k \in DOMAIN s /\ t[k] = s[k]
    BY <1>1, <1>2, <1>4, <1>5
  <1>. QED  BY <1>4, <1>6, <1>7, <1>n

LEMMA ToldItems ==
    ASSUME NEW items, Listed(items)
    PROVE  /\ Listed(Told(items)) /\ ToSet(Told(items)) \subseteq ToSet(items)
           /\ \A x \in ToSet(items) : x.text # {} => x \in ToSet(Told(items))
  <1>p. PICK P : P = {k \in DOMAIN items : items[k].text # {}}
    OBVIOUS
  <1>1. Told(items) = Those(items, P)
    BY <1>p DEF Told
  <1>2. Listed(Told(items)) /\ ToSet(Told(items)) = {items[k] : k \in P}
    BY <1>1, <1>p, ThoseLists
  <1>. QED  BY <1>2, <1>p DEF ToSet

LEMMA ChronologicalItems ==
    ASSUME NEW items, Listed(items), \A x \in ToSet(items) : x.at \in Int
    PROVE  /\ Listed(Chronological(items)) /\ ToSet(Chronological(items)) = ToSet(items)
           /\ Len(Chronological(items)) = Len(items)
  <1>k. PICK key : key = [k \in DOMAIN items |-> -items[k].at]
    OBVIOUS
  <1>1. key \in [DOMAIN items -> Int]
    <2>1. \A k \in DOMAIN items : items[k].at \in Int
      BY ListedFacts
    <2>. QED  BY <1>k, <2>1
  <1>2. items \in Seq(ToSet(items)) /\ Chronological(items) = SortedBy(items, key)
    BY <1>k DEF Listed, Chronological
  <1>. QED  BY <1>1, <1>2, SortedList, SortedItems, ListedSeq

\* What the verdict of a run says in prose.
Prose(j) == {j.verdict.account} \cup {note.summary : note \in ToSet(j.verdict.blockers) \cup ToSet(j.verdict.uxFindings)}

LEMMA VerdictThoughtItems ==
    ASSUME NEW p, NEW j \in RunsOf(p), NEW s, s = VerdictThoughts(j)
    PROVE  Listed(s) /\ \A t \in ToSet(s) : t.text \in Prose(j) /\ t.at \in Int /\ t.kind = "reasoning"
  <1>b. PICK blockers : blockers = j.verdict.blockers
    OBVIOUS
  <1>u. PICK issues : issues = j.verdict.uxFindings
    OBVIOUS
  <1>1. Listed(blockers) /\ Listed(issues)
    BY <1>b, <1>u, JourneyFields DEF Texts
  <1>2. /\ Len(blockers) \in Nat /\ DOMAIN blockers = 1 .. Len(blockers)
        /\ Len(issues) \in Nat /\ DOMAIN issues = 1 .. Len(issues)
    BY <1>1, ListedFacts
  <1>. DEFINE written(text) == [text |-> text, at |-> 0]
  <1>x. PICK first : first = <<written(j.verdict.account)>>
    OBVIOUS
  <1>y. PICK second : second = [n \in 1 .. Len(blockers) |-> written(blockers[n].summary)]
    OBVIOUS
  <1>z. PICK third : third = [n \in 1 .. Len(issues) |-> written(issues[n].summary)]
    OBVIOUS
  <1>w. PICK said : said = {written(text) : text \in Prose(j)}
    OBVIOUS
  <1>3. Listed(first) /\ ToSet(first) \subseteq said
    <2>1. first \in Seq({written(j.verdict.account)})
      BY <1>x
    <2>2. j.verdict.account \in Prose(j)
      BY DEF Prose
    <2>3. {written(j.verdict.account)} \subseteq said
      BY <1>w, <2>2
    <2>. QED  BY <2>1, <2>3, ListedSeq
  <1>4. Listed(second) /\ ToSet(second) \subseteq said
    <2>1. \A n \in 1 .. Len(blockers) : blockers[n].summary \in Prose(j)
      BY <1>2, <1>b DEF Prose, ToSet
    <2>2. \A n \in 1 .. Len(blockers) : second[n] \in said
      BY <1>w, <1>y, <2>1
    <2>3. second = [n \in 1 .. Len(blockers) |-> second[n]] /\ Len(blockers) \in Nat
      BY <1>2, <1>y
    <2>4. Listed(second) /\ ToSet(second) = {second[n] : n \in 1 .. Len(blockers)}
      BY ONLY <2>3, MappedList
    <2>. QED  BY <2>2, <2>4
  <1>5. Listed(third) /\ ToSet(third) \subseteq said
    <2>1. \A n \in 1 .. Len(issues) : issues[n].summary \in Prose(j)
      BY <1>2, <1>u DEF Prose, ToSet
    <2>2. \A n \in 1 .. Len(issues) : third[n] \in said
      BY <1>w, <1>z, <2>1
    <2>3. third = [n \in 1 .. Len(issues) |-> third[n]] /\ Len(issues) \in Nat
      BY <1>2, <1>z
    <2>4. Listed(third) /\ ToSet(third) = {third[n] : n \in 1 .. Len(issues)}
      BY ONLY <2>3, MappedList
    <2>. QED  BY <2>2, <2>4
  <1>6. Listed(first \o second) /\ ToSet(first \o second) = ToSet(first) \cup ToSet(second)
    BY <1>3, <1>4, JoinedLists
  <1>7. Listed(first \o second \o third) /\ ToSet(first \o second \o third) = ToSet(first \o second) \cup ToSet(third)
    BY <1>5, <1>6, JoinedLists
  <1>p. PICK prose : prose = Told(first \o second \o third)
    OBVIOUS
  <1>8. Listed(prose) /\ ToSet(prose) \subseteq said
    BY <1>3, <1>4, <1>5, <1>6, <1>7, <1>p, ToldItems
  <1>9. s = [k \in DOMAIN prose |-> Thought("reasoning", "verdict", prose[k])]
    BY <1>2, <1>b, <1>u, <1>p, <1>x, <1>y, <1>z DEF VerdictThoughts
  <1>10. Len(prose) \in Nat /\ DOMAIN prose = 1 .. Len(prose) /\ \A k \in DOMAIN prose : prose[k] \in ToSet(prose)
    BY <1>8, ListedFacts
  <1>11. Listed(s) /\ ToSet(s) = {s[k] : k \in 1 .. Len(prose)}
    <2>1. s = [k \in 1 .. Len(prose) |-> s[k]]
      BY <1>9, <1>10
    <2>2. Len(prose) \in Nat
      BY <1>10
    <2>. QED  BY ONLY <2>1, <2>2, MappedList
  <1>12. ASSUME NEW k \in 1 .. Len(prose)
         PROVE  s[k].text \in Prose(j) /\ s[k].at \in Int /\ s[k].kind = "reasoning"
    <2>1. PICK text \in Prose(j) : prose[k] = written(text)
      BY <1>8, <1>10, <1>w
    <2>2. s[k] = Thought("reasoning", "verdict", prose[k])
      BY <1>9, <1>10
    <2>. QED  BY <2>1, <2>2 DEF Thought
  <1>. QED  BY <1>11, <1>12

\* The thoughts of a run, each of whose texts is in its log.
Printed(j) == {x.text : x \in {y \in ToSet(j.reasoning) \cup ToSet(j.timeline) : y.text # {}}} \cup Prose(j)

LEMMA ThoughtItems ==
    ASSUME NEW p, NEW j \in RunsOf(p), NEW s, s = AllThoughts(j)
    PROVE  Listed(s) /\ \A t \in ToSet(s) : t.text \in Printed(j) /\ t.at \in Int
  <1>l. PICK live : live = Told(j.reasoning)
    OBVIOUS
  <1>t. PICK loud : loud = Told(j.timeline)
    OBVIOUS
  <1>1. /\ Listed(j.reasoning) /\ Listed(j.timeline)
        /\ \A x \in ToSet(j.reasoning) \cup ToSet(j.timeline) : x.at \in Int
    BY JourneyFields
  <1>2. /\ Listed(live) /\ ToSet(live) \subseteq ToSet(j.reasoning)
        /\ Listed(loud) /\ ToSet(loud) \subseteq ToSet(j.timeline)
    BY <1>1, <1>l, <1>t, ToldItems
  <1>3. /\ \A x \in ToSet(live) : x.text # {}
        /\ \A x \in ToSet(loud) : x.text # {}
    <2>1. ASSUME NEW items, Listed(items), NEW x \in ToSet(Told(items)) PROVE x.text # {}
      <3>p. PICK P : P = {k \in DOMAIN items : items[k].text # {}}
        OBVIOUS
      <3>1. ToSet(Told(items)) = {items[k] : k \in P}
        BY <2>1, <3>p, ThoseLists DEF Told
      <3>. QED  BY <2>1, <3>1, <3>p
    <2>. QED  BY <1>1, <1>l, <1>t, <2>1
  <1>4. /\ Len(live) \in Nat /\ DOMAIN live = 1 .. Len(live) /\ \A k \in DOMAIN live : live[k] \in ToSet(live)
        /\ Len(loud) \in Nat /\ DOMAIN loud = 1 .. Len(loud) /\ \A k \in DOMAIN loud : loud[k] \in ToSet(loud)
    BY <1>2, ListedFacts
  <1>a. PICK a : a = [k \in 1 .. Len(live) |-> Thought("reasoning", "model.reasoning", live[k])]
    OBVIOUS
  <1>b. PICK b : b = [k \in 1 .. Len(loud) |-> Thought(loud[k].kind, "timeline", loud[k])]
    OBVIOUS
  <1>5. Listed(a) /\ ToSet(a) = {a[k] : k \in 1 .. Len(live)}
    <2>1. a = [k \in 1 .. Len(live) |-> a[k]] /\ Len(live) \in Nat
      BY <1>a, <1>4
    <2>. QED  BY ONLY <2>1, MappedList
  <1>6. Listed(b) /\ ToSet(b) = {b[k] : k \in 1 .. Len(loud)}
    <2>1. b = [k \in 1 .. Len(loud) |-> b[k]] /\ Len(loud) \in Nat
      BY <1>b, <1>4
    <2>. QED  BY ONLY <2>1, MappedList
  <1>7. \A t \in ToSet(a) : t.text \in Printed(j) /\ t.at \in Int
    <2>1. ASSUME NEW k \in 1 .. Len(live) PROVE a[k].text \in Printed(j) /\ a[k].at \in Int
      <3>1. live[k] \in ToSet(j.reasoning) /\ live[k].text # {} /\ live[k].at \in Int
        BY <1>1, <1>2, <1>3, <1>4
      <3>2. a[k].text = live[k].text /\ a[k].at = live[k].at
        BY <1>a DEF Thought
      <3>. QED  BY <3>1, <3>2 DEF Printed
    <2>. QED  BY <1>5, <2>1
  <1>8. \A t \in ToSet(b) : t.text \in Printed(j) /\ t.at \in Int
    <2>1. ASSUME NEW k \in 1 .. Len(loud) PROVE b[k].text \in Printed(j) /\ b[k].at \in Int
      <3>1. loud[k] \in ToSet(j.timeline) /\ loud[k].text # {} /\ loud[k].at \in Int
        BY <1>1, <1>2, <1>3, <1>4
      <3>2. b[k].text = loud[k].text /\ b[k].at = loud[k].at
        BY <1>b DEF Thought
      <3>. QED  BY <3>1, <3>2 DEF Printed
    <2>. QED  BY <1>6, <2>1
  <1>9. Listed(a \o b) /\ ToSet(a \o b) = ToSet(a) \cup ToSet(b)
    BY <1>5, <1>6, JoinedLists
  <1>v. PICK v : v = VerdictThoughts(j)
    OBVIOUS
  <1>10. Listed(v) /\ \A t \in ToSet(v) : t.text \in Printed(j) /\ t.at \in Int
    BY <1>v, VerdictThoughtItems DEF Printed
  <1>11. Listed(a \o b \o v) /\ ToSet(a \o b \o v) = ToSet(a \o b) \cup ToSet(v)
    BY <1>9, <1>10, JoinedLists
  <1>12. s = a \o b \/ s = a \o b \o v
    BY <1>4, <1>a, <1>b, <1>l, <1>t, <1>v DEF AllThoughts
  <1>. QED  BY <1>7, <1>8, <1>9, <1>10, <1>11, <1>12

\* The thoughts that are kept.
LEMMA KeptThoughts ==
    ASSUME NEW p, NEW j \in RunsOf(p), NEW kept, kept = PersonaThoughts(j)
    PROVE  /\ Listed(kept) /\ ToSet(kept) \subseteq ToSet(AllThoughts(j)) /\ Len(kept) <= ThoughtLimit
           /\ LET spoken == {t \in ToSet(AllThoughts(j)) : t.kind # "action"}
              IN  spoken \subseteq ToSet(kept) \/ ToSet(kept) \subseteq spoken
  <1>a. PICK all : all = AllThoughts(j)
    OBVIOUS
  <1>1. Listed(all) /\ \A t \in ToSet(all) : t.at \in Int
    BY <1>a, ThoughtItems
  <1>q. PICK Q : Q = {k \in DOMAIN all : all[k].kind # "action"}
    OBVIOUS
  <1>w. PICK W : W = {k \in DOMAIN all : all[k].kind = "action"}
    OBVIOUS
  <1>r. PICK reasoning : reasoning = Those(all, Q)
    OBVIOUS
  <1>c. PICK actions : actions = Those(all, W)
    OBVIOUS
  <1>s. PICK spoken : spoken = {t \in ToSet(all) : t.kind # "action"}
    OBVIOUS
  <1>2. Listed(reasoning) /\ ToSet(reasoning) = spoken
    <2>1. Listed(reasoning) /\ ToSet(reasoning) = {all[k] : k \in Q}
      BY <1>1, <1>q, <1>r, ThoseLists
    <2>. QED  BY <2>1, <1>q, <1>s DEF ToSet
  <1>3. Listed(actions) /\ ToSet(actions) \subseteq ToSet(all)
    <2>1. Listed(actions) /\ ToSet(actions) = {all[k] : k \in W}
      BY <1>1, <1>w, <1>c, ThoseLists
    <2>. QED  BY <2>1, <1>w DEF ToSet
  <1>4. ThoughtLimit \in Nat \ {0} /\ Len(all) \in Nat /\ Len(reasoning) \in Nat /\ Len(actions) \in Nat
    BY <1>1, <1>2, <1>3, ListedFacts, LimitAssumption
  <1>5. kept = IF Len(all) <= ThoughtLimit THEN all
               ELSE IF Len(reasoning) >= ThoughtLimit THEN UpTo(ThoughtLimit, reasoning)
               ELSE Chronological(reasoning \o UpTo(ThoughtLimit - Len(reasoning), actions))
    BY <1>a, <1>q, <1>w, <1>r, <1>c DEF PersonaThoughts
  <1>6. CASE Len(all) <= ThoughtLimit
    BY <1>1, <1>5, <1>6, <1>a
  <1>7. CASE Len(all) > ThoughtLimit /\ Len(reasoning) >= ThoughtLimit
    <2>1. kept = UpTo(ThoughtLimit, reasoning)
      BY <1>4, <1>5, <1>7
    <2>2. /\ Listed(kept) /\ ToSet(kept) \subseteq spoken
          /\ Len(kept) = IF Len(reasoning) < ThoughtLimit THEN Len(reasoning) ELSE ThoughtLimit
      BY <1>2, <1>4, <2>1, UpToItems
    <2>. QED  BY <1>4, <2>2, <1>a, <1>s
  <1>8. CASE Len(all) > ThoughtLimit /\ Len(reasoning) < ThoughtLimit
    <2>l. PICK room : room = ThoughtLimit - Len(reasoning)
      OBVIOUS
    <2>f. PICK few : few = UpTo(room, actions)
      OBVIOUS
    <2>1. room \in Nat
      BY <1>4, <1>8, <2>l
    <2>2. /\ Listed(few) /\ ToSet(few) \subseteq ToSet(all)
          /\ Len(few) = IF Len(actions) < room THEN Len(actions) ELSE room
      BY <1>3, <2>1, <2>f, UpToItems
    <2>m. PICK mixed : mixed = reasoning \o few
      OBVIOUS
    <2>3. Listed(mixed) /\ ToSet(mixed) = spoken \cup ToSet(few) /\ Len(mixed) = Len(reasoning) + Len(few)
      BY <1>2, <2>2, <2>m, JoinedLists
    <2>4. \A t \in ToSet(mixed) : t \in ToSet(all) /\ t.at \in Int
      BY <1>1, <1>s, <2>2, <2>3
    <2>5. kept = Chronological(mixed)
      BY <1>4, <1>5, <1>8, <2>l, <2>f, <2>m
    <2>6. Listed(kept) /\ ToSet(kept) = ToSet(mixed) /\ Len(kept) = Len(mixed)
      BY <2>3, <2>4, <2>5, ChronologicalItems
    <2>7. Len(mixed) <= ThoughtLimit
      BY <1>4, <2>1, <2>2, <2>3, <2>l
    <2>. QED  BY <2>3, <2>4, <2>6, <2>7, <1>a, <1>s
  <1>. QED  BY <1>4, <1>6, <1>7, <1>8

\* The log of a run prints each of its thoughts.
LEMMA LoggedThoughts ==
    ASSUME NEW p, NEW j \in RunsOf(p), NEW log, log = ThoughtLog(j)
    PROVE  Printed(j) \subseteq {e.text : e \in ToSet(log.events)} \cup {log.summary}
                                \cup ToSet(log.blockers) \cup ToSet(log.issues)
  <1>1. /\ Listed(j.reasoning) /\ Listed(j.timeline)
        /\ \A x \in ToSet(j.reasoning) \cup ToSet(j.timeline) : x.at \in Int
    BY JourneyFields
  <1>q. PICK P : P = {k \in DOMAIN j.timeline : j.timeline[k].kind = "action" \/ j.timeline[k].text # {}}
    OBVIOUS
  <1>s. PICK shown : shown = Those(j.timeline, P)
    OBVIOUS
  <1>2. /\ Listed(shown) /\ ToSet(shown) \subseteq ToSet(j.timeline)
        /\ \A x \in ToSet(j.timeline) : x.text # {} => x \in ToSet(shown)
    <2>1. Listed(shown) /\ ToSet(shown) = {j.timeline[k] : k \in P}
      BY <1>1, <1>q, <1>s, ThoseLists
    <2>. QED  BY <2>1, <1>q DEF ToSet
  <1>t. PICK told : told = Told(j.reasoning)
    OBVIOUS
  <1>3. /\ Listed(told) /\ ToSet(told) \subseteq ToSet(j.reasoning)
        /\ \A x \in ToSet(j.reasoning) : x.text # {} => x \in ToSet(told)
    BY <1>1, <1>t, ToldItems
  <1>4. Listed(shown \o told) /\ ToSet(shown \o told) = ToSet(shown) \cup ToSet(told)
    BY <1>2, <1>3, JoinedLists
  <1>5. ToSet(Chronological(shown \o told)) = ToSet(shown) \cup ToSet(told)
    BY <1>1, <1>2, <1>3, <1>4, ChronologicalItems
  <1>6. /\ log.events = Chronological(shown \o told) /\ log.summary = j.verdict.account
        /\ log.blockers = [n \in DOMAIN j.verdict.blockers |-> j.verdict.blockers[n].summary]
        /\ log.issues = [n \in DOMAIN j.verdict.uxFindings |-> j.verdict.uxFindings[n].summary]
    BY <1>q, <1>s, <1>t DEF ThoughtLog
  <1>7. /\ ToSet(log.blockers) = {note.summary : note \in ToSet(j.verdict.blockers)}
        /\ ToSet(log.issues) = {note.summary : note \in ToSet(j.verdict.uxFindings)}
    <2>1. ASSUME NEW notes, NEW list, list = [n \in DOMAIN notes |-> notes[n].summary]
          PROVE  ToSet(list) = {note.summary : note \in ToSet(notes)}
      <3>1. DOMAIN list = DOMAIN notes /\ \A n \in DOMAIN notes : list[n] = notes[n].summary
        BY <2>1
      <3>. QED  BY <3>1 DEF ToSet
    <2>. QED  BY <1>6, <2>1
  <1>8. Prose(j) \subseteq {log.summary} \cup ToSet(log.blockers) \cup ToSet(log.issues)
    BY <1>6, <1>7 DEF Prose
  <1>9. \A y \in ToSet(j.reasoning) \cup ToSet(j.timeline) : y.text # {} => y \in ToSet(log.events)
    BY <1>2, <1>3, <1>5, <1>6
  <1>. QED  BY <1>8, <1>9 DEF Printed

\* The narration is of the last run of each persona.
LEMMA NarrationItems ==
    ASSUME Journeyed
    PROVE  \A p \in DOMAIN Narration : \E j \in ToSet(journeys) :
              /\ j.persona = p /\ j.run = p /\ j \in RunsOf(p) /\ Narration[p] = PersonaThoughts(j)
  <1>1. ASSUME NEW p \in {j.persona : j \in ToSet(journeys)}
        PROVE  \E j \in ToSet(journeys) :
                  /\ j.persona = p /\ j.run = p /\ j \in RunsOf(p) /\ Narration[p] = PersonaThoughts(j)
    <2>p. PICK P : P = {k \in 1 .. Len(journeys) : journeys[k].persona = p}
      OBVIOUS
    <2>0. /\ Len(journeys) \in Nat /\ DOMAIN journeys = 1 .. Len(journeys) /\ IsFiniteSet(1 .. Len(journeys))
      BY JourneyPersona, ListedFacts DEF Journeyed
    <2>1. P # {}
      BY <2>0, <2>p DEF ToSet
    <2>2. P \in SUBSET DOMAIN journeys /\ IsFiniteSet(P) /\ \A k \in P : k \in Int
      <3>1. P \in SUBSET (1 .. Len(journeys))
        BY <2>p
      <3>2. IsFiniteSet(P)
        BY <2>0, <3>1, FS_Subset
      <3>3. \A k \in 1 .. Len(journeys) : k \in Int
        OBVIOUS
      <3>. QED  BY <2>0, <3>1, <3>2, <3>3
    <2>3. \E k \in P : \A m \in P : k >= m
      <3>1. \E k \in P : \A m \in P : m <= k
        BY <2>1, <2>2, Ends
      <3>. QED  BY <2>2, <3>1
    <2>l. PICK last : last = CHOOSE k \in P : \A m \in P : k >= m
      OBVIOUS
    <2>4. last \in P
      BY <2>3, <2>l
    <2>5. SelectLastInSeq(journeys, LAMBDA j : j.persona = p) = last
      BY <2>1, <2>p, <2>l DEF SelectLastInSeq, Max
    <2>6. Narration[p] = PersonaThoughts(journeys[last])
      BY <2>5 DEF Narration, ThoughtsByPersona
    <2>7. /\ journeys[last] \in RunsOf(Cohort[last]) /\ journeys[last] \in ToSet(journeys)
          /\ journeys[last].persona = p
      BY <2>2, <2>4, <2>p, JourneyPersona
    <2>8. journeys[last].persona = Cohort[last] /\ journeys[last].run = Cohort[last]
      BY <2>7, JourneyFields
    <2>. QED  BY <2>6, <2>7, <2>8
  <1>2. DOMAIN Narration = {j.persona : j \in ToSet(journeys)}
    BY DEF Narration, ThoughtsByPersona
  <1>. QED  BY <1>1, <1>2

-----------------------------------------------------------------------------
(* The evidence beside a finding.                                          *)

\* Each quote of a finding is a thought of a run it was observed in.
Grounded(f) ==
    \A q \in f.quotes : \E j \in ToSet(journeys) :
        /\ j.run \in RunsBehind(f) /\ j.persona = q.persona
        /\ \E t \in ToSet(AllThoughts(j)) : t.kind = "reasoning" /\ t.text = q.text

LEMMA BestThoughtItem ==
    ASSUME NEW subject, IsFiniteSet(subject), NEW thoughts, Listed(thoughts), thoughts # <<>>
    PROVE  BestThought(subject, thoughts) \in ToSet(thoughts)
  <1>k. PICK key : key = [k \in DOMAIN thoughts |-> Covered(subject, thoughts[k].text)]
    OBVIOUS
  <1>1. key \in [DOMAIN thoughts -> Int]
    <2>1. ASSUME NEW k \in DOMAIN thoughts PROVE Covered(subject, thoughts[k].text) \in Int
      <3>1. subject \cap TextTokens(thoughts[k].text) \in SUBSET subject
        OBVIOUS
      <3>2. IsFiniteSet(subject \cap TextTokens(thoughts[k].text))
        BY <3>1, FS_Subset
      <3>. QED  BY <3>2, FS_CardinalityType DEF Covered
    <2>. QED  BY <1>k, <2>1
  <1>2. thoughts \in Seq(ToSet(thoughts))
    BY DEF Listed
  <1>3. PICK i \in DOMAIN thoughts : MaxBy(thoughts, key) = thoughts[i] /\ \A m \in DOMAIN thoughts : key[m] <= key[i]
    BY <1>1, <1>2, MaxByItem
  <1>4. BestThought(subject, thoughts) = MaxBy(thoughts, key)
    BY <1>k DEF BestThought
  <1>. QED  BY <1>3, <1>4 DEF ToSet

LEMMA EvidenceGrounded ==
    ASSUME Journeyed, narration \in {<<>>, Narration}, NEW f, Sound(f), NEW q \in PersonaEvidence(f)
    PROVE  \E j \in ToSet(journeys) :
              /\ j.run \in RunsBehind(f) /\ j.persona = q.persona
              /\ \E t \in ToSet(AllThoughts(j)) : t.kind = "reasoning" /\ t.text = q.text
  <1>s. PICK subject : subject = TextTokens(f.title) \cup TextTokens(f.summary)
    OBVIOUS
  <1>. DEFINE Spoken(p) == {k \in DOMAIN narration[p] : narration[p][k].kind = "reasoning"}
  <1>1. PICK p \in Affected(f) \cap DOMAIN narration :
           /\ Those(narration[p], Spoken(p)) # <<>>
           /\ q = [persona |-> p, text |-> BestThought(subject, Those(narration[p], Spoken(p))).text]
    BY <1>s DEF PersonaEvidence
  <1>2. narration = Narration
    <2>1. DOMAIN <<>> = {}
      OBVIOUS
    <2>. QED  BY <1>1, <2>1
  <1>3. PICK j \in ToSet(journeys) : j.persona = p /\ j.run = p /\ j \in RunsOf(p) /\ narration[p] = PersonaThoughts(j)
    BY <1>1, <1>2, NarrationItems
  <1>k. PICK kept : kept = narration[p]
    OBVIOUS
  <1>4. Listed(kept) /\ ToSet(kept) \subseteq ToSet(AllThoughts(j))
    BY <1>3, <1>k, KeptThoughts
  <1>q. PICK P : P = {k \in DOMAIN kept : kept[k].kind = "reasoning"}
    OBVIOUS
  <1>r. PICK reasoning : reasoning = Those(kept, P)
    OBVIOUS
  <1>5. Listed(reasoning) /\ ToSet(reasoning) = {kept[k] : k \in P}
    BY <1>4, <1>q, <1>r, ThoseLists
  <1>6. reasoning # <<>> /\ q = [persona |-> p, text |-> BestThought(subject, reasoning).text]
    BY <1>1, <1>k, <1>q, <1>r
  <1>7. IsFiniteSet(subject)
    <2>1. subject \in SUBSET (f.title \cup f.summary)
      BY <1>s DEF TextTokens
    <2>2. IsFiniteSet(f.title \cup f.summary)
      BY FS_Union DEF Sound
    <2>. QED  BY <2>1, <2>2, FS_Subset
  <1>b. PICK best : best = BestThought(subject, reasoning)
    OBVIOUS
  <1>8. best \in ToSet(reasoning)
    BY <1>5, <1>6, <1>7, <1>b, BestThoughtItem
  <1>9. best \in ToSet(AllThoughts(j)) /\ best.kind = "reasoning"
    BY <1>4, <1>5, <1>8, <1>q DEF ToSet
  <1>10. q.persona = p /\ q.text = best.text
    BY <1>6, <1>b
  <1>11. p \in RunsBehind(f)
    BY <1>1 DEF Sound
  <1>. QED  BY <1>3, <1>9, <1>10, <1>11

LEMMA ScreenshotOwn ==
    ASSUME Journeyed, NEW f, Sound(f), VerdictScreenshot(f) # None
    PROVE  VerdictScreenshot(f)[1] \in RunsBehind(f)
  <1>i. PICK index : index = SelectLastInSeq(journeys, LAMBDA j : j.run = f.run)
    OBVIOUS
  <1>s. PICK shots : shots = IF index = 0 THEN <<>> ELSE journeys[index].shots
    OBVIOUS
  <1>g. PICK framing : framing = IF f.source \in {"blockers", "criteria"} THEN "final-view" ELSE "initial-view"
    OBVIOUS
  <1>f. PICK framed : framed = Those(shots, {k \in DOMAIN shots : shots[k].phase = framing})
    OBVIOUS
  <1>1. VerdictScreenshot(f) =
          CASE f.crop # None -> f.crop
            [] f.crop = None /\ f.cited # None -> <<f.run, f.cited>>
            [] f.crop = None /\ f.cited = None /\ framed # <<>> -> <<f.run, framed[1]>>
            [] f.crop = None /\ f.cited = None /\ framed = <<>> /\ shots # <<>> -> <<f.run, Last(shots)>>
            [] OTHER -> None
    BY <1>i, <1>s, <1>g, <1>f DEF VerdictScreenshot
  <1>2. CASE f.crop # None
    BY <1>1, <1>2 DEF Sound
  <1>3. CASE f.crop = None /\ f.cited # None
    <2>1. VerdictScreenshot(f) = <<f.run, f.cited>>
      BY <1>1, <1>3
    <2>. QED  BY <1>3, <2>1 DEF Sound
  <1>4. CASE f.crop = None /\ f.cited = None /\ index = 0
    <2>1. shots = <<>>
      BY <1>4, <1>s
    <2>p. PICK P : P = {k \in DOMAIN shots : shots[k].phase = framing}
      OBVIOUS
    <2>2. P = {} /\ Listed(shots)
      <3>1. shots \in Seq({}) /\ DOMAIN shots = {}
        BY <2>1
      <3>. QED  BY <3>1, <2>p, ListedSeq
    <2>3. framed = <<>>
      BY <2>2, <2>p, <1>f, ThoseLists
    <2>4. VerdictScreenshot(f) = None
      BY <1>1, <1>4, <2>1, <2>3
    <2>. QED  BY <2>4
  <1>5. CASE f.crop = None /\ f.cited = None /\ index # 0
    <2>1. \E k \in DOMAIN journeys : journeys[k].run = f.run
      <3>p. PICK P : P = {k \in 1 .. Len(journeys) : journeys[k].run = f.run}
        OBVIOUS
      <3>1. P # {}
        BY <1>5, <1>i, <3>p DEF SelectLastInSeq
      <3>2. DOMAIN journeys = 1 .. Len(journeys)
        BY JourneyPersona
      <3>. QED  BY <3>1, <3>2, <3>p
    <2>2. PICK k \in DOMAIN journeys : journeys[k].run = f.run
      BY <2>1
    <2>3. Cohort[k] \in ToSet(Cohort) /\ journeys[k].run = Cohort[k]
      BY JourneyPersona, JourneyFields
    <2>4. f.run # None
      BY <2>2, <2>3, CohortAssumption
    <2>5. \E y : VerdictScreenshot(f) = <<f.run, y>> \/ VerdictScreenshot(f) = None
      BY <1>1, <1>5
    <2>. QED  BY <2>4, <2>5 DEF Sound
  <1>. QED  BY <1>2, <1>3, <1>4, <1>5

\* What Attach and AttachRedesigns make of a finding.
LEMMA AttachedSound ==
    ASSUME Journeyed, narration \in {<<>>, Narration}, NEW f, Sound(f), NEW g,
           g = [f EXCEPT !.quotes = PersonaEvidence(f), !.region = @ /\ f.crop # None, !.crop = VerdictScreenshot(f)]
    PROVE  Sound(g) /\ Grounded(g) /\ g.from = f.from /\ g.title = f.title /\ g.severity = f.severity
  <1>1. DOMAIN f = Fields
    BY DEF Sound
  <1>2. /\ DOMAIN g = Fields /\ g.title = f.title /\ g.summary = f.summary /\ g.severity = f.severity
        /\ g.run = f.run /\ g.persona = f.persona /\ g.personas = f.personas /\ g.cited = f.cited
        /\ g.from = f.from /\ g.quotes = PersonaEvidence(f) /\ g.crop = VerdictScreenshot(f)
    BY <1>1 DEF Fields
  <1>3. RunsBehind(g) = RunsBehind(f) /\ Affected(g) = Affected(f)
    BY <1>2 DEF RunsBehind, Affected
  <1>4. g.crop # None => g.crop[1] \in RunsBehind(g)
    BY <1>2, <1>3, ScreenshotOwn
  <1>5. Sound(g)
    BY <1>2, <1>3, <1>4 DEF Sound
  <1>6. Grounded(g)
    BY <1>2, <1>3, EvidenceGrounded DEF Grounded
  <1>. QED  BY <1>2, <1>5, <1>6

LEMMA RedesignedSound ==
    ASSUME NEW f, Sound(f), Grounded(f), NEW drawn, NEW g, g = [f EXCEPT !.redesign = drawn]
    PROVE  Sound(g) /\ Grounded(g) /\ g.from = f.from /\ g.title = f.title /\ g.severity = f.severity
  <1>1. DOMAIN f = Fields
    BY DEF Sound
  <1>2. /\ DOMAIN g = Fields /\ g.title = f.title /\ g.summary = f.summary /\ g.severity = f.severity
        /\ g.run = f.run /\ g.persona = f.persona /\ g.personas = f.personas /\ g.cited = f.cited
        /\ g.from = f.from /\ g.quotes = f.quotes /\ g.crop = f.crop
    BY <1>1 DEF Fields
  <1>3. RunsBehind(g) = RunsBehind(f) /\ Affected(g) = Affected(f)
    BY <1>2 DEF RunsBehind, Affected
  <1>. QED  BY <1>2, <1>3 DEF Sound, Grounded

-----------------------------------------------------------------------------
(* The inductive invariant.                                                *)

Typed ==
    /\ pc \in Stages \cup {"done", "failed"}
    /\ observed \in BOOLEAN /\ refused \in BOOLEAN
    /\ limitation \in {None, "synthesized", "attempt failed", "not configured", "inferred"}

Critiqued ==
    /\ Listed(toCritique) /\ \A c \in ToSet(toCritique) : Taken(c)
    /\ Listed(points)
    /\ \A q \in ToSet(points) : /\ Pointed(q)
                                /\ \E j \in ToSet(journeys) : q.persona = j.persona /\ q.shot[2] \in ToSet(j.shots)
    /\ Listed(strengths) /\ \A x \in ToSet(strengths) : Strength(x) /\ Heard(x)
    /\ synthesis \in {<<>>, Synthesized(points)}

Found ==
    /\ Listed(findings) /\ \A f \in ToSet(findings) : Sound(f) /\ Grounded(f)
    /\ Listed(preserve)

Narrated == narration \in {<<>>, Narration}

BeforeFindings == {"load", "journeys", "critique", "compile", "infer"}

Staged ==
    /\ pc \in BeforeFindings \ {"compile"} => synthesis = <<>>
    /\ pc \in BeforeFindings => narration = <<>> /\ findings = <<>>

IInv == Typed /\ Journeyed /\ Critiqued /\ Found /\ Narrated /\ Staged

LEMMA EmptyList == Listed(<<>>) /\ ToSet(<<>>) = {}
  <1>1. <<>> \in Seq({}) /\ ToSet(<<>>) = {}
    BY DEF ToSet
  <1>. QED  BY <1>1, ListedSeq

LEMMA SameJourneys ==
    ASSUME Journeyed, UNCHANGED journeys
    PROVE  Journeyed'
  BY DEF Journeyed

LEMMA SameCritiques ==
    ASSUME Critiqued, UNCHANGED <<journeys, vision>>
    PROVE  Critiqued'
  BY DEF Critiqued, vision, Taken

LEMMA SameFindings ==
    ASSUME Found, UNCHANGED <<journeys, findings, preserve>>
    PROVE  Found'
  BY DEF Found, Grounded

LEMMA SameNarration ==
    ASSUME Narrated, UNCHANGED <<journeys, narration>>
    PROVE  Narrated'
  BY DEF Narrated, Narration

\* A step that moves on without touching what was gathered.
LEMMA OnlyMoves ==
    ASSUME IInv, UNCHANGED <<observed, journeys, vision, report>>, pc' \in Stages \cup {"done", "failed"},
           pc' \in BeforeFindings => pc \in BeforeFindings /\ pc' # "compile" /\ pc # "compile"
    PROVE  IInv'
  <1>1. /\ UNCHANGED <<observed, journeys>> /\ UNCHANGED vision
        /\ UNCHANGED <<findings, preserve, limitation, narration, synthesis, refused>>
    BY DEF report, vision
  <1>2. Typed'
    BY <1>1 DEF IInv, Typed
  <1>3. Journeyed' /\ Critiqued' /\ Found' /\ Narrated'
    BY <1>1, SameJourneys, SameCritiques, SameFindings, SameNarration DEF IInv
  <1>4. Staged'
    BY <1>1 DEF IInv, Staged, BeforeFindings
  <1>. QED  BY <1>2, <1>3, <1>4 DEF IInv

\* Initially nothing has been gathered.
LEMMA InitIInv == Init => IInv
  <1>. SUFFICES ASSUME Init PROVE IInv
    OBVIOUS
  <1>1. Typed
    BY DEF Init, Typed, Stages
  <1>2. Journeyed
    <2>1. Len(<<>>) = 0 /\ DOMAIN <<>> = {}
      OBVIOUS
    <2>. QED  BY <2>1, EmptyList, FiniteCohort DEF Init, Journeyed
  <1>3. Critiqued
    BY EmptyList DEF Init, Critiqued
  <1>4. Found
    BY EmptyList DEF Init, Found
  <1>5. Narrated /\ Staged
    BY DEF Init, Narrated, Staged
  <1>. QED  BY <1>1, <1>2, <1>3, <1>4, <1>5 DEF IInv

LEMMA RunJourneyStep ==
    ASSUME IInv, NEW outcome \in Outcomes, RunJourney(outcome)
    PROVE  IInv'
  <1>n. PICK next : next = Len(journeys) + 1
    OBVIOUS
  <1>j. PICK j : j = Journey(Cohort[next], outcome)
    OBVIOUS
  <1>1. /\ pc = "journeys" /\ next <= Len(Cohort) /\ journeys' = Append(journeys, j)
        /\ UNCHANGED <<pc, observed>> /\ UNCHANGED vision /\ UNCHANGED report
    BY <1>n, <1>j DEF RunJourney, Running
  <1>2. /\ UNCHANGED <<toCritique, points, strengths, refused, synthesis>>
        /\ UNCHANGED <<findings, preserve, limitation, narration>>
    BY <1>1 DEF vision, report
  <1>3. Listed(journeys) /\ Len(journeys) \in Nat /\ DOMAIN journeys = 1 .. Len(journeys)
    BY JourneyPersona DEF IInv, Journeyed
  <1>x. PICK X : X = ToSet(journeys) \cup {j}
    OBVIOUS
  <1>4. journeys \in Seq(X) /\ j \in X
    BY <1>3, <1>x, ListedFacts
  <1>5. /\ journeys' \in Seq(X) /\ Len(journeys') = next /\ DOMAIN journeys' = 1 .. next
        /\ \A k \in 1 .. Len(journeys) : journeys'[k] = journeys[k]
        /\ journeys'[next] = j
    BY <1>1, <1>4, <1>n, AppendProperties
  <1>6. Journeyed'
    <2>1. Listed(journeys')
      BY <1>5, ListedSeq
    <2>2. \A k \in 1 .. next : journeys'[k] \in RunsOf(Cohort[k])
      <3>1. \A k \in 1 .. Len(journeys) : journeys[k] \in RunsOf(Cohort[k])
        BY <1>3 DEF IInv, Journeyed
      <3>2. j \in RunsOf(Cohort[next])
        BY <1>j DEF RunsOf
      <3>. QED  BY <1>3, <1>5, <1>n, <3>1, <3>2
    <2>. QED  BY <1>1, <1>5, <2>1, <2>2 DEF Journeyed
  <1>7. ToSet(journeys) \subseteq ToSet(journeys')
    <2>1. \A k \in 1 .. Len(journeys) : k \in 1 .. next
      BY <1>3, <1>n
    <2>. QED  BY <1>3, <1>5, <2>1 DEF ToSet
  <1>8. Critiqued'
    BY <1>2, <1>7 DEF IInv, Critiqued, Taken
  <1>9. findings = <<>> /\ narration = <<>>
    BY <1>1 DEF IInv, Staged, BeforeFindings
  <1>10. Found' /\ Narrated'
    BY <1>2, <1>9, EmptyList DEF IInv, Found, Narrated
  <1>11. Typed' /\ Staged'
    BY <1>1, <1>2 DEF IInv, Typed, Staged
  <1>. QED  BY <1>6, <1>8, <1>10, <1>11 DEF IInv

LEMMA JourneysDoneStep ==
    ASSUME IInv, JourneysDone
    PROVE  IInv'
  <1>1. /\ pc = "journeys" /\ toCritique' = Each(journeys, Sampled) /\ pc' = "critique"
        /\ UNCHANGED <<observed, journeys, points, strengths, refused, synthesis>> /\ UNCHANGED report
    BY DEF JourneysDone, Running
  <1>2. UNCHANGED <<findings, preserve, limitation, narration>>
    BY <1>1 DEF report
  <1>3. Journeyed'
    BY <1>1, SameJourneys DEF IInv
  <1>4. Listed(toCritique') /\ \A c \in ToSet(toCritique') : Taken(c)
    BY <1>1, CaptureItems DEF IInv
  <1>5. Critiqued'
    BY <1>1, <1>4 DEF IInv, Critiqued, Taken
  <1>6. Found' /\ Narrated'
    BY <1>1, <1>2, SameFindings, SameNarration DEF IInv
  <1>7. Typed' /\ Staged'
    BY <1>1, <1>2 DEF IInv, Typed, Staged, Stages, BeforeFindings
  <1>. QED  BY <1>3, <1>5, <1>6, <1>7 DEF IInv

LEMMA CritiqueStep ==
    ASSUME IInv, NEW answer \in Critiques, Critique(answer)
    PROVE  IInv'
  <1>c. PICK c : c = Head(toCritique)
    OBVIOUS
  <1>1. /\ pc = "critique" /\ toCritique # <<>>
        /\ points' = points \o PointsOf(c, answer) /\ strengths' = strengths \o StrengthsOf(c, answer)
        /\ toCritique' = Tail(toCritique)
        /\ UNCHANGED <<pc, observed, journeys, refused, synthesis>> /\ UNCHANGED report
    BY <1>c DEF Critique, Running
  <1>2. UNCHANGED <<findings, preserve, limitation, narration>>
    BY <1>1 DEF report
  <1>3. Journeyed /\ Critiqued
    BY DEF IInv
  <1>4. toCritique \in Seq(ToSet(toCritique))
    BY <1>3 DEF Critiqued, Listed
  <1>5. c \in ToSet(toCritique) /\ Tail(toCritique) \in Seq(ToSet(toCritique))
    BY <1>1, <1>4, <1>c, HeadTailProperties
  <1>6. Listed(toCritique') /\ ToSet(toCritique') \subseteq ToSet(toCritique)
    BY <1>1, <1>5, ListedSeq
  <1>7. PICK j \in ToSet(journeys) : c.persona = j.persona /\ c.run = j.run /\ c.stem \in ToSet(j.shots)
    BY <1>3, <1>5 DEF Critiqued, Taken
  <1>8. c.persona \in ToSet(Cohort) /\ c.run = c.persona
    BY <1>3, <1>7, JourneyPersona
  <1>p. PICK more : more = PointsOf(c, answer)
    OBVIOUS
  <1>9. Listed(more) /\ \A q \in ToSet(more) : Pointed(q) /\ q.persona = j.persona /\ q.shot[2] \in ToSet(j.shots)
    BY <1>7, <1>8, <1>p, PointItems
  <1>10. Listed(points') /\ ToSet(points') = ToSet(points) \cup ToSet(more)
    BY <1>1, <1>3, <1>9, <1>p, JoinedLists DEF Critiqued
  <1>s. PICK praised : praised = StrengthsOf(c, answer)
    OBVIOUS
  <1>11. Listed(praised) /\ \A x \in ToSet(praised) : Strength(x) /\ Heard(x)
    BY <1>8, <1>s, StrengthItems
  <1>12. Listed(strengths') /\ ToSet(strengths') = ToSet(strengths) \cup ToSet(praised)
    BY <1>1, <1>3, <1>11, <1>s, JoinedLists DEF Critiqued
  <1>13. synthesis' = <<>>
    BY <1>1 DEF IInv, Staged, BeforeFindings
  <1>14. Critiqued'
    BY <1>1, <1>3, <1>6, <1>9, <1>10, <1>11, <1>12, <1>13 DEF Critiqued, Taken
  <1>15. Journeyed' /\ Found' /\ Narrated'
    BY <1>1, <1>2, SameJourneys, SameFindings, SameNarration DEF IInv
  <1>16. Typed' /\ Staged'
    BY <1>1, <1>2 DEF IInv, Typed, Staged
  <1>. QED  BY <1>14, <1>15, <1>16 DEF IInv

LEMMA CritiqueRefusedStep ==
    ASSUME IInv, CritiqueRefused
    PROVE  IInv'
  <1>1. /\ pc = "critique" /\ toCritique # <<>> /\ toCritique' = Tail(toCritique) /\ refused' = TRUE
        /\ UNCHANGED <<pc, observed, journeys, points, strengths, synthesis>> /\ UNCHANGED report
    BY DEF CritiqueRefused, Running
  <1>2. UNCHANGED <<findings, preserve, limitation, narration>>
    BY <1>1 DEF report
  <1>3. toCritique \in Seq(ToSet(toCritique))
    BY DEF IInv, Critiqued, Listed
  <1>4. Tail(toCritique) \in Seq(ToSet(toCritique))
    BY <1>1, <1>3, HeadTailProperties
  <1>5. Listed(toCritique') /\ ToSet(toCritique') \subseteq ToSet(toCritique)
    BY <1>1, <1>4, ListedSeq
  <1>6. Critiqued'
    BY <1>1, <1>5 DEF IInv, Critiqued, Taken
  <1>7. Journeyed' /\ Found' /\ Narrated'
    BY <1>1, <1>2, SameJourneys, SameFindings, SameNarration DEF IInv
  <1>8. Typed' /\ Staged'
    BY <1>1, <1>2 DEF IInv, Typed, Staged
  <1>. QED  BY <1>6, <1>7, <1>8 DEF IInv

LEMMA AggregateStep ==
    ASSUME IInv, Aggregate
    PROVE  IInv'
  <1>1. /\ pc = "critique" /\ pc' = "compile" /\ synthesis' \in {<<>>, Synthesized(points)}
        /\ UNCHANGED <<observed, journeys, toCritique, points, strengths, refused>> /\ UNCHANGED report
    BY DEF Aggregate, Running
  <1>2. UNCHANGED <<findings, preserve, limitation, narration>>
    BY <1>1 DEF report
  <1>3. Critiqued'
    BY <1>1 DEF IInv, Critiqued, Taken
  <1>4. Journeyed' /\ Found' /\ Narrated'
    BY <1>1, <1>2, SameJourneys, SameFindings, SameNarration DEF IInv
  <1>5. Typed' /\ Staged'
    BY <1>1, <1>2 DEF IInv, Typed, Staged, Stages, BeforeFindings
  <1>. QED  BY <1>3, <1>4, <1>5 DEF IInv

\* The findings of the second stage.
LEMMA SynthesisItems ==
    ASSUME Critiqued
    PROVE  /\ Listed(synthesis)
           /\ \A x \in ToSet(synthesis) : /\ Sound(x) /\ x.quotes = {} /\ x.personas # {} /\ IsFiniteSet(x.personas)
                                          /\ x.title # {}
  <1>1. CASE synthesis = <<>>
    BY <1>1, EmptyList
  <1>2. CASE synthesis = Synthesized(points)
    <2>1. /\ Listed(synthesis)
          /\ \A x \in ToSet(synthesis) : \E i \in DOMAIN points : x = Synthesis(points, CauseOf(points, i))
      BY <1>2, SynthesizedItems DEF Critiqued
    <2>2. Listed(points) /\ \A q \in ToSet(points) : Pointed(q)
      BY DEF Critiqued
    <2>3. \A q \in ToSet(points) : q.title # {}
      BY <2>2 DEF Pointed
    <2>. QED  BY <2>1, <2>2, <2>3, SynthesisSound
  <1>. QED  BY <1>1, <1>2 DEF Critiqued

LEMMA GatheredSound ==
    ASSUME Journeyed, Critiqued
    PROVE  /\ Listed(Gathered) /\ Listed(VisionFindings) /\ Listed(VisionPraise)
           /\ \A f \in ToSet(Gathered) : Sound(f) /\ f.quotes = {}
           /\ \A x \in ToSet(VisionPraise) : Sound(x) /\ x.title # {} /\ x.personas # {} /\ IsFiniteSet(x.personas)
  <1>1. /\ Listed(synthesis)
        /\ \A x \in ToSet(synthesis) : Sound(x) /\ x.quotes = {} /\ x.title # {} /\ x.personas # {} /\ IsFiniteSet(x.personas)
    BY SynthesisItems
  <1>2. /\ Listed(Gathered) /\ Listed(VisionFindings) /\ Listed(VisionPraise)
        /\ ToSet(VisionFindings) = {synthesis[k] : k \in {m \in DOMAIN synthesis : ~ReadsAsPraise(synthesis[m])}}
        /\ ToSet(VisionPraise) = {synthesis[k] : k \in {m \in DOMAIN synthesis : ReadsAsPraise(synthesis[m])}}
        /\ \/ ToSet(Gathered) = ToSet(FromVerdicts) \cup ToSet(VisionFindings)
           \/ ToSet(FromVerdicts) \cup ToSet(VisionFindings) = {} /\ ToSet(Gathered) = {Blank}
    BY <1>1, GatheredItems
  <1>3. ToSet(VisionFindings) \subseteq ToSet(synthesis) /\ ToSet(VisionPraise) \subseteq ToSet(synthesis)
    BY <1>2 DEF ToSet
  <1>4. \A f \in ToSet(FromVerdicts) : Sound(f) /\ f.quotes = {}
    <2>1. ASSUME NEW f \in ToSet(FromVerdicts) PROVE Sound(f) /\ f.quotes = {}
      <3>1. PICK k \in DOMAIN journeys : f \in ToSet(PainPointsFromJourney(journeys[k]))
        BY VerdictItems
      <3>2. Cohort[k] \in ToSet(Cohort) /\ journeys[k] \in RunsOf(Cohort[k])
        BY JourneyPersona
      <3>. QED  BY <3>1, <3>2, VerdictSound
    <2>. QED  BY <2>1
  <1>5. Sound(Blank) /\ Blank.quotes = {}
    <2>1. /\ DOMAIN Blank = Fields /\ Blank.title = {"no", "pain", "points"} /\ Blank.summary = {}
          /\ Blank.severity = "low" /\ Blank.run = None /\ Blank.persona = None /\ Blank.personas = {}
          /\ Blank.cited = None /\ Blank.crop = None /\ Blank.quotes = {}
      BY DEF Blank, Fields
    <2>2. IsFiniteSet({"no", "no", "no", "no", "pain", "points"})
      BY SixWords, Zenon
    <2>3. {"no", "no", "no", "no", "pain", "points"} = {"no", "pain", "points"}
      OBVIOUS
    <2>4. IsFiniteSet(Blank.title) /\ IsFiniteSet(Blank.summary) /\ Blank.severity \in ToSet(Severities)
      BY <2>1, <2>2, <2>3, FS_EmptySet, Ranked
    <2>5. Affected(Blank) = {}
      BY <2>1 DEF Affected
    <2>. QED  BY <2>1, <2>4, <2>5 DEF Sound
  <1>. QED  BY <1>1, <1>2, <1>3, <1>4, <1>5

LEMMA CompileStep ==
    ASSUME IInv, Compile
    PROVE  IInv'
  <1>s. PICK all : all = strengths \o FromPraise \o FromSynthesis
    OBVIOUS
  <1>1. /\ pc = "compile" /\ pc' = "merge" /\ findings' = Gathered
        /\ preserve' = MergeStrengths(all) \o PreservedFromVerdicts
        /\ limitation' \in {"synthesized", "attempt failed", "not configured"}
        /\ UNCHANGED <<observed, journeys, narration>> /\ UNCHANGED vision
    BY <1>s DEF Compile, Running, FromPraise, FromSynthesis
  <1>2. UNCHANGED <<refused, synthesis>>
    BY <1>1 DEF vision
  <1>3. /\ Listed(Gathered) /\ \A f \in ToSet(Gathered) : Sound(f) /\ f.quotes = {}
        /\ Listed(VisionPraise)
        /\ \A x \in ToSet(VisionPraise) : Sound(x) /\ x.title # {} /\ x.personas # {} /\ IsFiniteSet(x.personas)
    BY GatheredSound DEF IInv
  <1>4. Listed(strengths) /\ \A x \in ToSet(strengths) : Strength(x)
    BY DEF IInv, Critiqued
  <1>5. Listed(FromPraise) /\ \A x \in ToSet(FromPraise) : Strength(x)
    BY PraiseItems DEF IInv
  <1>6. Listed(FromSynthesis) /\ \A x \in ToSet(FromSynthesis) : Strength(x)
    BY <1>3, SynthesisPraise
  <1>7. Listed(strengths \o FromPraise) /\ ToSet(strengths \o FromPraise) = ToSet(strengths) \cup ToSet(FromPraise)
    BY <1>4, <1>5, JoinedLists
  <1>8. Listed(all) /\ ToSet(all) = ToSet(strengths \o FromPraise) \cup ToSet(FromSynthesis)
    BY <1>6, <1>7, <1>s, JoinedLists
  <1>9. \A x \in ToSet(all) : Strength(x)
    BY <1>4, <1>5, <1>6, <1>7, <1>8
  <1>10. Listed(MergeStrengths(all))
    BY <1>8, <1>9, MergedStrengths
  <1>11. Listed(preserve')
    BY <1>1, <1>10, PreservedItems, JoinedLists
  <1>12. Found'
    BY <1>1, <1>3, <1>11 DEF Found, Grounded
  <1>13. Journeyed' /\ Critiqued' /\ Narrated'
    BY <1>1, SameJourneys, SameCritiques, SameNarration DEF IInv
  <1>14. Typed' /\ Staged'
    BY <1>1, <1>2 DEF IInv, Typed, Staged, Stages, BeforeFindings
  <1>. QED  BY <1>12, <1>13, <1>14 DEF IInv

LEMMA InferStep ==
    ASSUME IInv, Infer
    PROVE  IInv'
  <1>g. PICK about : about = [n \in DOMAIN Tasks |->
            [Blank EXCEPT !.title = {"Validate", "task", "clarity"} \cup Tasks[n], !.severity = "medium",
                          !.source = "task_text"]]
    OBVIOUS
  <1>1. /\ pc = "infer" /\ pc' = "merge" /\ findings' = about /\ limitation' = "inferred"
        /\ UNCHANGED <<observed, journeys, preserve, narration>> /\ UNCHANGED vision
    BY <1>g DEF Infer, Running
  <1>2. UNCHANGED <<refused, synthesis>>
    BY <1>1 DEF vision
  <1>3. Len(Tasks) \in Nat /\ DOMAIN Tasks = 1 .. Len(Tasks) /\ \A k \in 1 .. Len(Tasks) : IsFiniteSet(Tasks[k])
    BY TasksAssumption, ListedFacts
  <1>4. Listed(about) /\ ToSet(about) = {about[k] : k \in 1 .. Len(Tasks)}
    <2>1. about = [k \in 1 .. Len(Tasks) |-> about[k]]
      BY <1>3, <1>g
    <2>2. Len(Tasks) \in Nat
      BY <1>3
    <2>. QED  BY ONLY <2>1, <2>2, MappedList
  <1>5. ASSUME NEW k \in 1 .. Len(Tasks) PROVE Sound(about[k]) /\ about[k].quotes = {}
    <2>b. PICK words : words = {"Validate", "task", "clarity"} \cup Tasks[k]
      OBVIOUS
    <2>1. about[k] = [Blank EXCEPT !.title = words, !.severity = "medium", !.source = "task_text"]
      BY <1>3, <1>g, <2>b
    <2>2. /\ DOMAIN about[k] = Fields /\ about[k].title = words /\ about[k].summary = {}
          /\ about[k].severity = "medium" /\ about[k].run = None /\ about[k].persona = None
          /\ about[k].personas = {} /\ about[k].cited = None /\ about[k].crop = None /\ about[k].quotes = {}
      BY <2>1 DEF Blank, Fields
    <2>3. IsFiniteSet({"Validate", "Validate", "Validate", "Validate", "task", "clarity"})
      BY SixWords, Zenon
    <2>4. {"Validate", "Validate", "Validate", "Validate", "task", "clarity"} = {"Validate", "task", "clarity"}
      OBVIOUS
    <2>5. IsFiniteSet(words)
      BY <1>3, <2>b, <2>3, <2>4, FS_Union
    <2>6. Affected(about[k]) = {}
      BY <2>2 DEF Affected
    <2>7. IsFiniteSet(about[k].summary) /\ about[k].severity \in ToSet(Severities)
      BY <2>2, FS_EmptySet, Ranked
    <2>. QED  BY <2>2, <2>5, <2>6, <2>7 DEF Sound
  <1>6. Found'
    BY <1>1, <1>4, <1>5 DEF IInv, Found, Grounded
  <1>7. Journeyed' /\ Critiqued' /\ Narrated'
    BY <1>1, SameJourneys, SameCritiques, SameNarration DEF IInv
  <1>8. Typed' /\ Staged'
    BY <1>1, <1>2 DEF IInv, Typed, Staged, Stages, BeforeFindings
  <1>. QED  BY <1>6, <1>7, <1>8 DEF IInv

\* What is evidence for an observation is evidence for what it is merged into.
LEMMA GroundedMerge ==
    ASSUME NEW x, Grounded(x), NEW y, y.quotes = x.quotes, x.from \subseteq y.from
    PROVE  Grounded(y)
  <1>1. RunsBehind(x) \subseteq RunsBehind(y)
    BY DEF RunsBehind
  <1>. QED  BY <1>1 DEF Grounded

\* Some of the findings.
LEMMA SomeFindings ==
    ASSUME NEW items, Listed(items), NEW P \in SUBSET DOMAIN items, NEW kept, kept = Those(items, P)
    PROVE  Listed(kept) /\ ToSet(kept) \subseteq ToSet(items) /\ ToSet(kept) = {items[k] : k \in P}
  <1>1. Listed(kept) /\ ToSet(kept) = {items[k] : k \in P}
    BY ThoseLists
  <1>. QED  BY <1>1 DEF ToSet

LEMMA MergeStep ==
    ASSUME IInv, Merge
    PROVE  IInv'
  <1>i. PICK items : items = Issues(findings)
    OBVIOUS
  <1>1. /\ pc = "merge" /\ pc' = "verify" /\ findings' = MergeSimilarFindings(items)
        /\ UNCHANGED <<observed, journeys, preserve, limitation, narration>> /\ UNCHANGED vision
    BY <1>i DEF Merge, Running
  <1>2. UNCHANGED <<refused, synthesis>>
    BY <1>1 DEF vision
  <1>3. Listed(findings) /\ (\A f \in ToSet(findings) : Sound(f) /\ Grounded(f)) /\ Listed(preserve)
    BY DEF IInv, Found
  <1>4. Listed(items) /\ ToSet(items) \subseteq ToSet(findings)
    BY <1>3, <1>i, SomeFindings DEF Issues
  <1>m. PICK merged : merged = MergeSimilarFindings(items)
    OBVIOUS
  <1>5. /\ Listed(merged)
        /\ \A y \in ToSet(merged) : /\ Sound(y)
                                    /\ \E x \in ToSet(items) : y.quotes = x.quotes /\ x.from \subseteq y.from
    BY <1>3, <1>4, <1>m, MergedFindings
  <1>6. \A y \in ToSet(merged) : Grounded(y)
    BY <1>3, <1>4, <1>5, GroundedMerge
  <1>7. Found'
    BY <1>1, <1>3, <1>5, <1>6, <1>m DEF Found, Grounded
  <1>8. Journeyed' /\ Critiqued' /\ Narrated'
    BY <1>1, SameJourneys, SameCritiques, SameNarration DEF IInv
  <1>9. Typed' /\ Staged'
    BY <1>1, <1>2 DEF IInv, Typed, Staged, Stages, BeforeFindings
  <1>. QED  BY <1>7, <1>8, <1>9 DEF IInv

LEMMA DropStep ==
    ASSUME IInv, DropUnverifiableQuotes
    PROVE  IInv'
  <1>p. PICK P : P = {k \in DOMAIN findings : Invented(findings[k]) = {}}
    OBVIOUS
  <1>1. /\ pc = "verify" /\ pc' = "attach" /\ findings' = Those(findings, P) /\ narration' = Narration
        /\ UNCHANGED <<observed, journeys, preserve, limitation>> /\ UNCHANGED vision
    BY <1>p DEF DropUnverifiableQuotes, Running
  <1>2. UNCHANGED <<refused, synthesis>>
    BY <1>1 DEF vision
  <1>3. Listed(findings) /\ (\A f \in ToSet(findings) : Sound(f) /\ Grounded(f)) /\ Listed(preserve)
    BY DEF IInv, Found
  <1>4. Listed(findings') /\ ToSet(findings') \subseteq ToSet(findings)
    BY <1>1, <1>3, <1>p, SomeFindings
  <1>5. Found'
    BY <1>1, <1>3, <1>4 DEF Found, Grounded
  <1>6. Journeyed' /\ Critiqued'
    BY <1>1, SameJourneys, SameCritiques DEF IInv
  <1>7. Narrated'
    BY <1>1 DEF Narrated, Narration
  <1>8. Typed' /\ Staged'
    BY <1>1, <1>2 DEF IInv, Typed, Staged, Stages, BeforeFindings
  <1>. QED  BY <1>5, <1>6, <1>7, <1>8 DEF IInv

\* A step that rewrites the findings in their places.
LEMMA RewritesFindings ==
    ASSUME IInv, pc \notin BeforeFindings, pc' \in {"redesign", "publish"}, NEW g, findings' = g, DOMAIN g = DOMAIN findings,
           g = [k \in DOMAIN findings |-> g[k]],
           \A k \in DOMAIN findings : Sound(g[k]) /\ Grounded(g[k]),
           UNCHANGED <<observed, journeys, preserve, limitation, narration>>, UNCHANGED vision
    PROVE  IInv'
  <1>1. UNCHANGED <<refused, synthesis>>
    BY DEF vision
  <1>2. Listed(findings) /\ Listed(preserve)
    BY DEF IInv, Found
  <1>3. Len(findings) \in Nat /\ DOMAIN findings = 1 .. Len(findings)
    BY <1>2, ListedFacts
  <1>4. Listed(g) /\ ToSet(g) = {g[k] : k \in 1 .. Len(findings)}
    <2>1. g = [k \in 1 .. Len(findings) |-> g[k]]
      BY <1>3
    <2>2. Len(findings) \in Nat
      BY <1>3
    <2>. QED  BY ONLY <2>1, <2>2, MappedList
  <1>5. \A f \in ToSet(g) : Sound(f) /\ Grounded(f)
    BY <1>3, <1>4
  <1>6. Found'
    BY <1>2, <1>4, <1>5 DEF Found, Grounded
  <1>7. Journeyed' /\ Critiqued' /\ Narrated'
    BY SameJourneys, SameCritiques, SameNarration DEF IInv
  <1>8. Typed' /\ Staged'
    BY <1>1 DEF IInv, Typed, Staged, Stages, BeforeFindings
  <1>. QED  BY <1>6, <1>7, <1>8 DEF IInv

LEMMA AttachStep ==
    ASSUME IInv, Attach
    PROVE  IInv'
  <1>g. PICK g : g = [k \in DOMAIN findings |->
            [findings[k] EXCEPT !.quotes = PersonaEvidence(findings[k]),
                                !.region = @ /\ findings[k].crop # None,
                                !.crop = VerdictScreenshot(findings[k])]]
    OBVIOUS
  <1>1. /\ pc = "attach" /\ pc' = "redesign" /\ findings' = g
        /\ UNCHANGED <<observed, journeys, preserve, limitation, narration>> /\ UNCHANGED vision
    BY <1>g DEF Attach, Running
  <1>2. Journeyed /\ narration \in {<<>>, Narration} /\ Listed(findings) /\ \A f \in ToSet(findings) : Sound(f)
    BY DEF IInv, Narrated, Found
  <1>3. ASSUME NEW k \in DOMAIN findings PROVE Sound(g[k]) /\ Grounded(g[k])
    <2>f. PICK f : f = findings[k]
      OBVIOUS
    <2>1. Sound(f)
      BY <1>2, <2>f, ListedFacts
    <2>2. g[k] = [f EXCEPT !.quotes = PersonaEvidence(f), !.region = @ /\ f.crop # None, !.crop = VerdictScreenshot(f)]
      BY <1>g, <2>f
    <2>. QED  BY <1>2, <2>1, <2>2, AttachedSound
  <1>4. DOMAIN g = DOMAIN findings /\ g = [k \in DOMAIN findings |-> g[k]]
    BY <1>g
  <1>5. pc \notin BeforeFindings
    BY <1>1 DEF BeforeFindings
  <1>. QED  BY <1>1, <1>3, <1>4, <1>5, RewritesFindings

LEMMA AttachRedesignsStep ==
    ASSUME IInv, AttachRedesigns
    PROVE  IInv'
  <1>d. PICK drawn : findings' = [k \in DOMAIN findings |-> [findings[k] EXCEPT !.redesign = k \in drawn]]
    BY DEF AttachRedesigns
  <1>g. PICK g : g = [k \in DOMAIN findings |-> [findings[k] EXCEPT !.redesign = k \in drawn]]
    OBVIOUS
  <1>1. /\ pc = "redesign" /\ pc' = "publish" /\ findings' = g
        /\ UNCHANGED <<observed, journeys, preserve, limitation, narration>> /\ UNCHANGED vision
    BY <1>d, <1>g DEF AttachRedesigns, Running
  <1>2. Listed(findings) /\ \A f \in ToSet(findings) : Sound(f) /\ Grounded(f)
    BY DEF IInv, Found
  <1>3. ASSUME NEW k \in DOMAIN findings PROVE Sound(g[k]) /\ Grounded(g[k])
    <2>f. PICK f : f = findings[k]
      OBVIOUS
    <2>1. Sound(f) /\ Grounded(f)
      BY <1>2, <2>f, ListedFacts
    <2>d. PICK mine : mine = (k \in drawn)
      OBVIOUS
    <2>2. g[k] = [f EXCEPT !.redesign = mine]
      BY <1>g, <2>f, <2>d
    <2>. QED  BY <2>1, <2>2, RedesignedSound
  <1>4. DOMAIN g = DOMAIN findings /\ g = [k \in DOMAIN findings |-> g[k]]
    BY <1>g
  <1>5. pc \notin BeforeFindings
    BY <1>1 DEF BeforeFindings
  <1>. QED  BY <1>1, <1>3, <1>4, <1>5, RewritesFindings

LEMMA PublishStep ==
    ASSUME IInv, Publish
    PROVE  IInv'
  <1>1. /\ pc' = "done" /\ UNCHANGED <<observed, journeys, findings, preserve, limitation, narration>>
        /\ UNCHANGED vision
    BY DEF Publish
  <1>2. UNCHANGED <<refused, synthesis>>
    BY <1>1 DEF vision
  <1>3. Journeyed' /\ Critiqued' /\ Found' /\ Narrated'
    BY <1>1, SameJourneys, SameCritiques, SameFindings, SameNarration DEF IInv
  <1>4. Typed' /\ Staged'
    BY <1>1, <1>2 DEF IInv, Typed, Staged, BeforeFindings
  <1>. QED  BY <1>3, <1>4 DEF IInv

\* Every step keeps the invariant.
LEMMA NextIInv == IInv /\ [Next]_vars => IInv'
  <1>. SUFFICES ASSUME IInv, [Next]_vars PROVE IInv'
    OBVIOUS
  <1>1. CASE Load
    <2>1. /\ UNCHANGED <<observed, journeys, vision, report>>
          /\ pc = "load" /\ pc' \in {"journeys", "infer"}
      BY <1>1 DEF Load, Running
    <2>. QED  BY <2>1, OnlyMoves DEF Stages, BeforeFindings
  <1>2. CASE LoadFails \/ JourneyFails \/ CritiqueBreaksOff
    <2>1. UNCHANGED <<observed, journeys, vision, report>> /\ pc' = "failed"
      BY <1>2 DEF LoadFails, JourneyFails, CritiqueBreaksOff, Fail
    <2>. QED  BY <2>1, OnlyMoves DEF BeforeFindings
  <1>3. CASE \E outcome \in Outcomes : RunJourney(outcome)
    BY <1>3, RunJourneyStep
  <1>4. CASE JourneysDone
    BY <1>4, JourneysDoneStep
  <1>5. CASE \E answer \in Critiques : Critique(answer)
    BY <1>5, CritiqueStep
  <1>6. CASE CritiqueRefused
    BY <1>6, CritiqueRefusedStep
  <1>7. CASE Aggregate
    BY <1>7, AggregateStep
  <1>8. CASE Compile
    BY <1>8, CompileStep
  <1>9. CASE Infer
    BY <1>9, InferStep
  <1>10. CASE Merge
    BY <1>10, MergeStep
  <1>11. CASE DropUnverifiableQuotes
    BY <1>11, DropStep
  <1>12. CASE Attach
    BY <1>12, AttachStep
  <1>13. CASE AttachRedesigns
    BY <1>13, AttachRedesignsStep
  <1>14. CASE Publish
    BY <1>14, PublishStep
  <1>15. CASE UNCHANGED vars
    <2>1. /\ UNCHANGED <<pc, observed, journeys, limitation, narration, findings, preserve, refused, synthesis>>
          /\ UNCHANGED vision
      BY <1>15 DEF vars, vision
    <2>2. Journeyed' /\ Critiqued' /\ Found' /\ Narrated'
      BY <2>1, SameJourneys, SameCritiques, SameFindings, SameNarration DEF IInv
    <2>3. Typed' /\ Staged'
      BY <2>1 DEF IInv, Typed, Staged
    <2>. QED  BY <2>2, <2>3 DEF IInv
  <1>. QED  BY <1>1, <1>2, <1>3, <1>4, <1>5, <1>6, <1>7, <1>8, <1>9, <1>10, <1>11, <1>12, <1>13, <1>14, <1>15
            DEF Next, JourneyStage, CritiqueStage, CompileStage

\* The strengthening of the safety properties holds in every state of every
\* combined_test job.
THEOREM Invariant == Spec => []IInv
  <1>. QED  BY InitIInv, NextIInv, PTL DEF Spec

-----------------------------------------------------------------------------
(* The properties.                                                         *)

\* The journeys are run in the order of the cohort, one per persona, and each
\* pain point and screenshot is of a run there was (_run_journeys).
THEOREM TypeInvariant == Spec => []TypeOK
  <1>1. IInv => TypeOK
    <2>. SUFFICES ASSUME IInv PROVE TypeOK
      OBVIOUS
    <2>1. Len(journeys) <= Len(Cohort) /\ \A k \in DOMAIN journeys : journeys[k].persona = Cohort[k]
      BY JourneyPersona, JourneyFields DEF IInv, Journeyed
    <2>2. \A q \in ToSet(points) : \E j \in ToSet(journeys) : q.persona = j.persona /\ q.shot[2] \in ToSet(j.shots)
      BY DEF IInv, Critiqued
    <2>3. \A k \in DOMAIN findings : findings[k].severity \in ToSet(Severities)
      <3>1. \A k \in DOMAIN findings : Sound(findings[k])
        BY ListedFacts DEF IInv, Found
      <3>. QED  BY <3>1 DEF Sound
    <2>. QED  BY <2>1, <2>2, <2>3 DEF IInv, Typed, TypeOK
  <1>. QED  BY <1>1, Invariant, PTL

\* The quote and the picture beside an issue come from the runs it was observed
\* in, whatever was merged into it (_attach_persona_evidence,
\* _attach_verdict_screenshots).
THEOREM EvidenceOwn == Spec => []EvidenceIsItsOwn
  <1>1. IInv => EvidenceIsItsOwn
    BY DEF IInv, Found, Sound, Grounded, EvidenceIsItsOwn
  <1>. QED  BY <1>1, Invariant, PTL

\* The narration fits its limit, gives up actions before reasoning, and quotes
\* only what the log of the run prints (_persona_thoughts,
\* format_persona_thought_log).
THEOREM ReasoningKept == Spec => []ReasoningIsKept
  <1>1. IInv => ReasoningIsKept
    <2>. SUFFICES ASSUME IInv, NEW p \in DOMAIN narration
                  PROVE  \E j \in ToSet(journeys) :
                            LET all == ToSet(AllThoughts(j))
                                spoken == {t \in all : t.kind # "action"}
                                kept == ToSet(narration[p])
                            IN  /\ j.persona = p /\ kept \subseteq all
                                /\ Len(narration[p]) <= ThoughtLimit
                                /\ spoken \subseteq kept \/ kept \subseteq spoken
                                /\ LET log == ThoughtLog(j)
                                       printed == {e.text : e \in ToSet(log.events)} \cup {log.summary}
                                                  \cup ToSet(log.blockers) \cup ToSet(log.issues)
                                   IN  {t.text : t \in kept} \subseteq printed
      BY DEF ReasoningIsKept
    <2>1. narration = Narration
      <3>1. narration # <<>>
        BY EmptyList
      <3>. QED  BY <3>1 DEF IInv, Narrated
    <2>2. PICK j \in ToSet(journeys) : j.persona = p /\ j \in RunsOf(p) /\ narration[p] = PersonaThoughts(j)
      BY <2>1, NarrationItems DEF IInv
    <2>k. PICK kept : kept = narration[p]
      OBVIOUS
    <2>3. /\ ToSet(kept) \subseteq ToSet(AllThoughts(j)) /\ Len(kept) <= ThoughtLimit
          /\ LET spoken == {t \in ToSet(AllThoughts(j)) : t.kind # "action"}
             IN  spoken \subseteq ToSet(kept) \/ ToSet(kept) \subseteq spoken
      BY <2>2, <2>k, KeptThoughts
    <2>l. PICK log : log = ThoughtLog(j)
      OBVIOUS
    <2>4. Printed(j) \subseteq {e.text : e \in ToSet(log.events)} \cup {log.summary}
                               \cup ToSet(log.blockers) \cup ToSet(log.issues)
      BY <2>2, <2>l, LoggedThoughts
    <2>5. {t.text : t \in ToSet(kept)} \subseteq Printed(j)
      BY <2>2, <2>3, ThoughtItems
    <2>6. {t.text : t \in ToSet(kept)} \subseteq {e.text : e \in ToSet(log.events)} \cup {log.summary}
                                                \cup ToSet(log.blockers) \cup ToSet(log.issues)
      BY <2>4, <2>5
    <2>. QED  BY <2>2, <2>3, <2>6, <2>k, <2>l
  <1>. QED  BY <1>1, Invariant, PTL

\* The clusters of the issues are the classes of the closure of SameIssue,
\* whatever the order the issues come in (_cluster_by_title).
THEOREM ClustersClosed == Spec => []ClustersAreClosed
  <1>1. IInv => ClustersAreClosed
    <2>. SUFFICES ASSUME IInv PROVE ClustersAreClosed
      OBVIOUS
    <2>1. Listed(Gathered)
      BY GatheredSound DEF IInv
    <2>2. Listed(Issues(Gathered))
      BY <2>1, SomeFindings DEF Issues
    <2>. QED  BY <2>2, IssueBlocks DEF ClustersAreClosed
  <1>. QED  BY <1>1, Invariant, PTL

-----------------------------------------------------------------------------
(* Everything said is accounted for.                                       *)

WithFindings == {"merge", "verify", "attach", "redesign", "publish", "done"}

\* What was said of the product is found, verified or not, or a diagnostic of
\* the harness; what was praised is kept.
AllFound == Origins(findings) \cup Origins(unverified) \cup Origins(diagnostics) = Origins(Gathered)

AllKept == Origins(preserve) = Origins(strengths) \cup Origins(FromPraise) \cup Origins(VisionPraise)

Accounts ==
    /\ pc = "infer" => ~observed
    /\ pc \in BeforeFindings \cup {"merge"} => diagnostics = <<>>
    /\ pc \in BeforeFindings \cup {"merge", "verify"} => unverified = <<>>
    /\ observed /\ pc \in WithFindings => AllFound /\ AllKept

LEMMA SameGathered ==
    ASSUME UNCHANGED <<journeys, synthesis>>
    PROVE  /\ UNCHANGED Gathered /\ UNCHANGED FromPraise /\ UNCHANGED VisionPraise
  BY DEF Gathered, FromPraise, VisionPraise, VisionFindings, Each

LEMMA SameAllFound ==
    ASSUME AllFound, UNCHANGED <<journeys, synthesis, findings, unverified, diagnostics>>
    PROVE  AllFound'
  BY SameGathered DEF AllFound

LEMMA SameAllKept ==
    ASSUME AllKept, UNCHANGED <<journeys, synthesis, strengths, preserve>>
    PROVE  AllKept'
  BY SameGathered DEF AllKept

\* A list and its two parts have the same origins.
LEMMA SplitOrigins ==
    ASSUME NEW items, Listed(items), NEW P \in SUBSET DOMAIN items, NEW Q, Q = DOMAIN items \ P
    PROVE  Origins(Those(items, P)) \cup Origins(Those(items, Q)) = Origins(items)
  <1>a. PICK a : a = Those(items, P)
    OBVIOUS
  <1>b. PICK b : b = Those(items, Q)
    OBVIOUS
  <1>1. ToSet(a) = {items[k] : k \in P} /\ ToSet(b) = {items[k] : k \in Q}
    BY <1>a, <1>b, ThoseLists
  <1>2. ToSet(a) \cup ToSet(b) = ToSet(items)
    BY <1>1 DEF ToSet
  <1>3. Origins(a) \cup Origins(b) = Origins(items)
    BY <1>2 DEF Origins
  <1>. QED  BY <1>3, <1>a, <1>b

\* What rewrites each finding in its place, and not its origins.
LEMMA SameOrigins ==
    ASSUME NEW items, NEW g, DOMAIN g = DOMAIN items, \A k \in DOMAIN items : g[k].from = items[k].from
    PROVE  Origins(g) = Origins(items)
  <1>1. {x.from : x \in ToSet(g)} = {x.from : x \in ToSet(items)}
    BY DEF ToSet
  <1>. QED  BY <1>1 DEF Origins

LEMMA OriginsOfNone == Origins(<<>>) = {}
  BY EmptyList DEF Origins

LEMMA InitAccounts == Init => Accounts
  BY DEF Init, Accounts, WithFindings

\* The origins of what is compiled.
LEMMA CompiledOrigins ==
    ASSUME Journeyed, Critiqued
    PROVE  /\ Origins(MergeStrengths(strengths \o FromPraise \o FromSynthesis) \o PreservedFromVerdicts)
                = Origins(strengths) \cup Origins(FromPraise) \cup Origins(VisionPraise)
           /\ Origins(Gathered) = Origins(FromVerdicts) \cup Origins(VisionFindings)
           /\ Origins(synthesis) = Origins(VisionFindings) \cup Origins(VisionPraise)
  <1>0. ASSUME NEW s, NEW t, NEW u, ToSet(s) = ToSet(t) \cup ToSet(u) PROVE Origins(s) = Origins(t) \cup Origins(u)
    BY <1>0 DEF Origins
  <1>1. /\ Listed(Gathered) /\ Listed(VisionPraise) /\ Listed(VisionFindings)
        /\ \A x \in ToSet(VisionPraise) : Sound(x) /\ x.title # {} /\ x.personas # {} /\ IsFiniteSet(x.personas)
    BY GatheredSound
  <1>2. Listed(strengths) /\ \A x \in ToSet(strengths) : Strength(x)
    BY DEF Critiqued
  <1>3. Listed(FromPraise) /\ \A x \in ToSet(FromPraise) : Strength(x)
    BY PraiseItems
  <1>4. /\ Listed(FromSynthesis) /\ Origins(FromSynthesis) = Origins(VisionPraise)
        /\ \A x \in ToSet(FromSynthesis) : Strength(x)
    BY <1>1, SynthesisPraise
  <1>a. PICK a : a = strengths \o FromPraise
    OBVIOUS
  <1>b. PICK b : b = a \o FromSynthesis
    OBVIOUS
  <1>5. Listed(a) /\ ToSet(a) = ToSet(strengths) \cup ToSet(FromPraise)
    BY <1>2, <1>3, <1>a, JoinedLists
  <1>6. Listed(b) /\ ToSet(b) = ToSet(a) \cup ToSet(FromSynthesis)
    BY <1>4, <1>5, <1>b, JoinedLists
  <1>7. \A x \in ToSet(b) : Strength(x)
    BY <1>2, <1>3, <1>4, <1>5, <1>6
  <1>m. PICK m : m = MergeStrengths(b)
    OBVIOUS
  <1>8. Listed(m) /\ Origins(m) = Origins(b)
    BY <1>6, <1>7, <1>m, MergedStrengths
  <1>9. ToSet(m \o PreservedFromVerdicts) = ToSet(m) \cup ToSet(PreservedFromVerdicts)
    BY <1>8, PreservedItems, JoinedLists
  <1>10. Origins(m \o PreservedFromVerdicts) = Origins(m)
    BY <1>0, <1>9, PreservedItems
  <1>11. Origins(b) = Origins(strengths) \cup Origins(FromPraise) \cup Origins(VisionPraise)
    <2>1. Origins(a) = Origins(strengths) \cup Origins(FromPraise)
      BY <1>0, <1>5
    <2>2. Origins(b) = Origins(a) \cup Origins(FromSynthesis)
      BY <1>0, <1>6
    <2>. QED  BY <1>4, <2>1, <2>2
  <1>12. Listed(synthesis)
    BY SynthesisItems
  <1>13. Origins(Gathered) = Origins(FromVerdicts) \cup Origins(VisionFindings)
    <2>1. \/ ToSet(Gathered) = ToSet(FromVerdicts) \cup ToSet(VisionFindings)
          \/ ToSet(FromVerdicts) \cup ToSet(VisionFindings) = {} /\ ToSet(Gathered) = {Blank}
      BY <1>12, GatheredItems
    <2>2. CASE ToSet(Gathered) = ToSet(FromVerdicts) \cup ToSet(VisionFindings)
      BY <1>0, <2>2
    <2>3. CASE ToSet(FromVerdicts) \cup ToSet(VisionFindings) = {} /\ ToSet(Gathered) = {Blank}
      <3>1. Blank.from = {}
        BY DEF Blank
      <3>2. Origins(Gathered) = {} /\ Origins(FromVerdicts) = {} /\ Origins(VisionFindings) = {}
        BY <2>3, <3>1 DEF Origins
      <3>. QED  BY <3>2
    <2>. QED  BY <2>1, <2>2, <2>3
  <1>14. Origins(synthesis) = Origins(VisionFindings) \cup Origins(VisionPraise)
    <2>1. /\ ToSet(VisionFindings) = {synthesis[k] : k \in {m_1 \in DOMAIN synthesis : ~ReadsAsPraise(synthesis[m_1])}}
          /\ ToSet(VisionPraise) = {synthesis[k] : k \in {m_1 \in DOMAIN synthesis : ReadsAsPraise(synthesis[m_1])}}
      BY <1>12, GatheredItems
    <2>2. ToSet(synthesis) = ToSet(VisionFindings) \cup ToSet(VisionPraise)
      BY <2>1 DEF ToSet
    <2>. QED  BY <1>0, <2>2
  <1>. QED  BY <1>10, <1>8, <1>11, <1>13, <1>14, <1>m, <1>a, <1>b

LEMMA NextAccounts ==
    ASSUME IInv, Accounts, [Next]_vars
    PROVE  Accounts'
  <1>1. CASE \/ LoadFails \/ JourneyFails \/ CritiqueBreaksOff
    BY <1>1 DEF LoadFails, JourneyFails, CritiqueBreaksOff, Fail, Accounts, BeforeFindings, WithFindings
  <1>2. CASE \/ Load \/ JourneysDone \/ Aggregate \/ CritiqueRefused
             \/ (\E outcome \in Outcomes : RunJourney(outcome)) \/ (\E answer \in Critiques : Critique(answer))
    <2>1. /\ pc \in BeforeFindings /\ UNCHANGED <<observed, diagnostics, unverified>>
          /\ pc' \in {"journeys", "critique", "compile"} \/ (pc' = "infer" /\ ~observed)
      <3>1. CASE Load
        BY <3>1 DEF Load, Running, report, BeforeFindings
      <3>2. CASE JourneysDone
        BY <3>2 DEF JourneysDone, Running, report, BeforeFindings
      <3>3. CASE Aggregate
        BY <3>3 DEF Aggregate, Running, report, BeforeFindings
      <3>4. CASE CritiqueRefused
        BY <3>4 DEF CritiqueRefused, Running, report, BeforeFindings
      <3>5. CASE \E outcome \in Outcomes : RunJourney(outcome)
        <4>1. /\ pc = "journeys" /\ pc' = pc /\ UNCHANGED <<observed, diagnostics, unverified>>
          BY <3>5 DEF RunJourney, Running, report
        <4>. QED  BY <4>1 DEF BeforeFindings
      <3>6. CASE \E answer \in Critiques : Critique(answer)
        <4>1. /\ pc = "critique" /\ pc' = pc /\ UNCHANGED <<observed, diagnostics, unverified>>
          BY <3>6 DEF Critique, Running, report
        <4>. QED  BY <4>1 DEF BeforeFindings
      <3>. QED  BY <1>2, <3>1, <3>2, <3>3, <3>4, <3>5, <3>6
    <2>. QED  BY <2>1 DEF Accounts, BeforeFindings, WithFindings
  <1>3. CASE Compile
    <2>1. /\ pc = "compile" /\ pc' = "merge" /\ findings' = Gathered
          /\ preserve' = MergeStrengths(strengths \o FromPraise \o FromSynthesis) \o PreservedFromVerdicts
          /\ UNCHANGED <<journeys, diagnostics, unverified, strengths, synthesis>>
      BY <1>3 DEF Compile, Running, vision, FromPraise, FromSynthesis
    <2>2. UNCHANGED Gathered /\ UNCHANGED FromPraise /\ UNCHANGED VisionPraise
      BY <2>1, SameGathered
    <2>3. diagnostics = <<>> /\ unverified = <<>>
      BY <2>1 DEF Accounts, BeforeFindings
    <2>4. AllFound'
      BY <2>1, <2>2, <2>3, OriginsOfNone DEF AllFound
    <2>5. AllKept'
      <3>1. Journeyed /\ Critiqued
        BY DEF IInv
      <3>2. Origins(preserve') = Origins(strengths) \cup Origins(FromPraise) \cup Origins(VisionPraise)
        BY <2>1, <3>1, CompiledOrigins
      <3>. QED  BY <2>1, <2>2, <3>2 DEF AllKept
    <2>. QED  BY <2>1, <2>3, <2>4, <2>5 DEF Accounts
  <1>4. CASE Infer
    <2>1. pc = "infer" /\ pc' = "merge" /\ UNCHANGED <<observed, diagnostics, unverified>>
      BY <1>4 DEF Infer, Running
    <2>. QED  BY <2>1 DEF Accounts, BeforeFindings
  <1>5. CASE Merge
    <2>p. PICK P : P = {k \in DOMAIN findings : ~IsRunDiagnostic(findings[k])}
      OBVIOUS
    <2>q. PICK Q : Q = {k \in DOMAIN findings : IsRunDiagnostic(findings[k])}
      OBVIOUS
    <2>i. PICK items : items = Those(findings, P)
      OBVIOUS
    <2>1. /\ pc = "merge" /\ pc' = "verify" /\ findings' = MergeSimilarFindings(items)
          /\ diagnostics' = Those(findings, Q)
          /\ UNCHANGED <<observed, journeys, unverified, strengths, synthesis, preserve>>
      BY <1>5, <2>p, <2>q, <2>i DEF Merge, Running, vision, Issues
    <2>2. Listed(findings) /\ \A f \in ToSet(findings) : Sound(f)
      BY DEF IInv, Found
    <2>3. Listed(items) /\ ToSet(items) \subseteq ToSet(findings)
      BY <2>2, <2>p, <2>i, SomeFindings
    <2>4. Origins(findings') = Origins(items)
      BY <2>1, <2>2, <2>3, MergedFindings
    <2>5. Q = DOMAIN findings \ P
      BY <2>p, <2>q
    <2>6. Origins(findings') \cup Origins(diagnostics') = Origins(findings)
      <3>1. P \in SUBSET DOMAIN findings
        BY <2>p
      <3>2. Origins(Those(findings, P)) \cup Origins(Those(findings, Q)) = Origins(findings)
        BY <2>2, <2>5, <3>1, SplitOrigins
      <3>. QED  BY <2>1, <2>4, <2>i, <3>2
    <2>7. diagnostics = <<>> /\ unverified = <<>>
      BY <2>1 DEF Accounts
    <2>8. AllFound => AllFound'
      BY <2>1, <2>6, <2>7, OriginsOfNone, SameGathered DEF AllFound
    <2>9. AllKept => AllKept'
      BY <2>1, SameAllKept
    <2>. QED  BY <2>1, <2>7, <2>8, <2>9 DEF Accounts, WithFindings, BeforeFindings
  <1>6. CASE DropUnverifiableQuotes
    <2>p. PICK P : P = {k \in DOMAIN findings : Invented(findings[k]) = {}}
      OBVIOUS
    <2>q. PICK Q : Q = {k \in DOMAIN findings : Invented(findings[k]) # {}}
      OBVIOUS
    <2>1. /\ pc = "verify" /\ pc' = "attach" /\ findings' = Those(findings, P) /\ unverified' = Those(findings, Q)
          /\ UNCHANGED <<observed, journeys, diagnostics, strengths, synthesis, preserve>>
      BY <1>6, <2>p, <2>q DEF DropUnverifiableQuotes, Running, vision
    <2>2. Listed(findings) /\ P \in SUBSET DOMAIN findings /\ Q = DOMAIN findings \ P
      BY <2>p, <2>q DEF IInv, Found
    <2>3. Origins(findings') \cup Origins(unverified') = Origins(findings)
      BY <2>1, <2>2, SplitOrigins
    <2>4. unverified = <<>>
      BY <2>1 DEF Accounts
    <2>5. AllFound => AllFound'
      BY <2>1, <2>3, <2>4, OriginsOfNone, SameGathered DEF AllFound
    <2>6. AllKept => AllKept'
      BY <2>1, SameAllKept
    <2>. QED  BY <2>1, <2>5, <2>6 DEF Accounts, WithFindings, BeforeFindings
  <1>7. CASE Attach \/ AttachRedesigns
    <2>1. /\ pc \in {"attach", "redesign"} /\ pc' \in {"redesign", "publish"}
          /\ UNCHANGED <<observed, journeys, diagnostics, unverified, strengths, synthesis, preserve>>
      BY <1>7 DEF Attach, AttachRedesigns, Running, vision
    <2>2. DOMAIN findings' = DOMAIN findings /\ \A k \in DOMAIN findings : findings'[k].from = findings[k].from
      <3>1. \A k \in DOMAIN findings : DOMAIN findings[k] = Fields
        BY ListedFacts DEF IInv, Found, Sound
      <3>2. CASE Attach
        <4>1. findings' = [k \in DOMAIN findings |->
                [findings[k] EXCEPT !.quotes = PersonaEvidence(findings[k]),
                                    !.region = @ /\ findings[k].crop # None,
                                    !.crop = VerdictScreenshot(findings[k])]]
          BY <3>2 DEF Attach
        <4>. QED  BY <4>1, <3>1 DEF Fields
      <3>3. CASE AttachRedesigns
        <4>1. PICK drawn : findings' = [k \in DOMAIN findings |-> [findings[k] EXCEPT !.redesign = k \in drawn]]
          BY <3>3 DEF AttachRedesigns
        <4>. QED  BY <4>1, <3>1 DEF Fields
      <3>. QED  BY <1>7, <3>2, <3>3
    <2>3. Origins(findings') = Origins(findings)
      BY <2>2, SameOrigins
    <2>4. AllFound => AllFound'
      BY <2>1, <2>3, SameGathered DEF AllFound
    <2>5. AllKept => AllKept'
      BY <2>1, SameAllKept
    <2>. QED  BY <2>1, <2>4, <2>5 DEF Accounts, WithFindings, BeforeFindings
  <1>8. CASE Publish \/ UNCHANGED vars
    <2>1. /\ UNCHANGED <<observed, journeys, findings, diagnostics, unverified, strengths, synthesis, preserve>>
          /\ (pc = "publish" /\ pc' = "done") \/ pc' = pc
      BY <1>8 DEF Publish, Running, vars, vision
    <2>2. AllFound => AllFound'
      BY <2>1, SameAllFound
    <2>3. AllKept => AllKept'
      BY <2>1, SameAllKept
    <2>. QED  BY <2>1, <2>2, <2>3 DEF Accounts, WithFindings, BeforeFindings
  <1>. QED  BY <1>1, <1>2, <1>3, <1>4, <1>5, <1>6, <1>7, <1>8
            DEF Next, JourneyStage, CritiqueStage, CompileStage

LEMMA AccountsAlways == Spec => [](IInv /\ Accounts)
  <1>1. Init => IInv /\ Accounts
    BY InitIInv, InitAccounts
  <1>2. IInv /\ Accounts /\ [Next]_vars => (IInv /\ Accounts)'
    BY NextIInv, NextAccounts
  <1>. QED  BY <1>1, <1>2, PTL DEF Spec

\* Nothing a verdict, a critique or a synthesis says is lost: what the report
\* holds as an issue, an unverifiable claim, a diagnostic or a strength has, all
\* together, the origins of what was said (_combined_test, _merge_similar_findings).
NothingIsLost ==
    Compiled /\ observed =>
        Origins(findings) \cup Origins(unverified) \cup Origins(diagnostics) \cup Origins(preserve)
            = Origins(FromVerdicts \o FromPraise \o strengths \o synthesis)

LEMMA AllAccounted ==
    ASSUME IInv, Accounts
    PROVE  /\ NothingIsLost
           /\ Compiled /\ observed => AllFound /\ AllKept
  <1>. SUFFICES ASSUME Compiled, observed
                PROVE  /\ AllFound /\ AllKept
                       /\ Origins(findings) \cup Origins(unverified) \cup Origins(diagnostics) \cup Origins(preserve)
                            = Origins(FromVerdicts \o FromPraise \o strengths \o synthesis)
    BY DEF NothingIsLost
  <1>1. AllFound /\ AllKept
    BY DEF Accounts, Compiled, WithFindings
  <1>2. Journeyed /\ Critiqued
    BY DEF IInv
  <1>3. Listed(FromVerdicts) /\ Listed(FromPraise) /\ Listed(strengths) /\ Listed(synthesis)
    BY <1>2, VerdictItems, PraiseItems, SynthesisItems DEF Critiqued
  <1>a. PICK a : a = FromVerdicts \o FromPraise
    OBVIOUS
  <1>b. PICK b : b = a \o strengths
    OBVIOUS
  <1>c. PICK c : c = b \o synthesis
    OBVIOUS
  <1>4. Listed(a) /\ ToSet(a) = ToSet(FromVerdicts) \cup ToSet(FromPraise)
    BY <1>3, <1>a, JoinedLists
  <1>5. Listed(b) /\ ToSet(b) = ToSet(a) \cup ToSet(strengths)
    BY <1>3, <1>4, <1>b, JoinedLists
  <1>6. Listed(c) /\ ToSet(c) = ToSet(b) \cup ToSet(synthesis)
    BY <1>3, <1>5, <1>c, JoinedLists
  <1>7. ASSUME NEW s, NEW t, NEW u, ToSet(s) = ToSet(t) \cup ToSet(u) PROVE Origins(s) = Origins(t) \cup Origins(u)
    BY <1>7 DEF Origins
  <1>8. Origins(c) = Origins(FromVerdicts) \cup Origins(FromPraise) \cup Origins(strengths) \cup Origins(synthesis)
    <2>1. Origins(a) = Origins(FromVerdicts) \cup Origins(FromPraise)
      BY <1>4, <1>7
    <2>2. Origins(b) = Origins(a) \cup Origins(strengths)
      BY <1>5, <1>7
    <2>3. Origins(c) = Origins(b) \cup Origins(synthesis)
      BY <1>6, <1>7
    <2>. QED  BY <2>1, <2>2, <2>3
  <1>9. /\ Origins(Gathered) = Origins(FromVerdicts) \cup Origins(VisionFindings)
        /\ Origins(synthesis) = Origins(VisionFindings) \cup Origins(VisionPraise)
    BY <1>2, CompiledOrigins
  <1>. QED  BY <1>1, <1>8, <1>9, <1>a, <1>b, <1>c DEF AllFound, AllKept

\* Nothing that was said is lost on the way to the report, whoever is in the
\* cohort and whatever is answered.
THEOREM NothingLost == Spec => []NothingIsLost
  <1>1. IInv /\ Accounts => NothingIsLost
    BY AllAccounted
  <1>. QED  BY <1>1, AccountsAlways, PTL

\* The pain points that share an identity are worded alike.  The synthesis finds
\* a pain point by its identity, and the last with it is the one found.
OneWording == \A i, k \in DOMAIN points : points[i].id = points[k].id => points[i].summary = points[k].summary

\* No pain point is behind two of the synthesized issues.
LEMMA VisionApart ==
    ASSUME Critiqued, OneWording, NEW a \in DOMAIN synthesis, NEW b \in DOMAIN synthesis,
           NEW o, o \in synthesis[a].from, o \in synthesis[b].from
    PROVE  a = b
  <1>1. CASE synthesis = <<>>
    BY <1>1
  <1>2. CASE synthesis = Synthesized(points)
    <2>1. PICK i \in DOMAIN points, k \in DOMAIN points :
             /\ synthesis[a] = Synthesis(points, CauseOf(points, i))
             /\ synthesis[b] = Synthesis(points, CauseOf(points, k))
             /\ Signature(points[i]) = Signature(points[k]) => a = b
      BY <1>2, SynthesizedItems DEF Critiqued
    <2>2. Listed(points) /\ \A q \in ToSet(points) : Pointed(q)
      BY DEF Critiqued
    <2>3. PICK m \in Alikes(points, i) : o = points[m].id
      BY <2>1, <2>2, SynthesisSound
    <2>4. PICK n \in Alikes(points, k) : o = points[n].id
      BY <2>1, <2>2, SynthesisSound
    <2>5. m \in DOMAIN points /\ n \in DOMAIN points /\ points[m].id = points[n].id
      BY <2>3, <2>4 DEF Alikes
    <2>6. points[m].summary = points[n].summary
      BY <2>5 DEF OneWording
    <2>7. points[m].element = points[n].element
      <3>1. Pointed(points[m]) /\ Pointed(points[n])
        BY <2>2, <2>5, ListedFacts
      <3>. QED  BY <2>5, <3>1 DEF Pointed
    <2>8. Signature(points[m]) = Signature(points[n])
      BY <2>6, <2>7 DEF Signature
    <2>9. Signature(points[i]) = Signature(points[m]) /\ Signature(points[k]) = Signature(points[n])
      BY <2>3, <2>4 DEF Alikes
    <2>. QED  BY <2>1, <2>8, <2>9
  <1>. QED  BY <1>1, <1>2 DEF Critiqued

LEMMA VisionOrigins ==
    ASSUME Critiqued, NEW a \in DOMAIN synthesis, NEW o \in synthesis[a].from
    PROVE  DOMAIN o = {"run", "title", "element"}
  <1>1. CASE synthesis = <<>>
    BY <1>1
  <1>2. CASE synthesis = Synthesized(points)
    <2>1. PICK i \in DOMAIN points : synthesis[a] = Synthesis(points, CauseOf(points, i))
      BY <1>2, SynthesizedItems DEF Critiqued
    <2>2. Listed(points) /\ \A q \in ToSet(points) : Pointed(q)
      BY DEF Critiqued
    <2>3. PICK m \in Alikes(points, i) : o = points[m].id
      BY <2>1, <2>2, SynthesisSound
    <2>4. Pointed(points[m])
      BY <2>2, <2>3, ListedFacts DEF Alikes
    <2>. QED  BY <2>3, <2>4 DEF Pointed
  <1>. QED  BY <1>1, <1>2 DEF Critiqued

\* What a verdict reports as an issue is none of its praise.
LEMMA VerdictOrigins ==
    ASSUME Journeyed, NEW o \in Origins(FromVerdicts)
    PROVE  \E k \in DOMAIN journeys : \E source, n :
              /\ o = [run |-> Cohort[k], bucket |-> source, at |-> n]
              /\ source = "uxFindings" => n \notin Praised(journeys[k])
  <1>1. PICK f \in ToSet(FromVerdicts) : o \in f.from
    BY DEF Origins
  <1>2. PICK k \in DOMAIN journeys : f \in ToSet(PainPointsFromJourney(journeys[k]))
    BY VerdictItems
  <1>j. PICK j : j = journeys[k]
    OBVIOUS
  <1>3. j \in RunsOf(Cohort[k]) /\ j.run = Cohort[k]
    BY <1>j, JourneyPersona, JourneyFields
  <1>4. \/ \E n \in Reported("blockers", j.verdict.blockers) :
                f = AboutNote(j, "blockers", j.verdict.blockers, "critical", n)
        \/ \E n \in Reported("uxFindings", j.verdict.uxFindings) :
                f = AboutNote(j, "uxFindings", j.verdict.uxFindings, "medium", n)
        \/ \E n \in Reported("suggestedImprovements", j.verdict.suggestedImprovements) :
                f = AboutNote(j, "suggestedImprovements", j.verdict.suggestedImprovements, "low", n)
        \/ \E n \in Missed(j) : f = AboutCriterion(j, n)
    BY <1>2, <1>3, <1>j, PainPointItems
  <1>5. ASSUME NEW source, NEW notes, NEW fallback, NEW n, f = AboutNote(j, source, notes, fallback, n)
        PROVE  o = [run |-> Cohort[k], bucket |-> source, at |-> n]
    <2>1. f.from = {[run |-> j.run, bucket |-> source, at |-> n]}
      BY <1>5 DEF AboutNote, Observation
    <2>. QED  BY <1>1, <1>3, <2>1
  <1>6. ASSUME NEW n, f = AboutCriterion(j, n)
        PROVE  o = [run |-> Cohort[k], bucket |-> "criteria", at |-> n]
    <2>1. f.from = {[run |-> j.run, bucket |-> "criteria", at |-> n]}
      BY <1>6 DEF AboutCriterion, Observation
    <2>. QED  BY <1>1, <1>3, <2>1
  <1>7. \A n \in Reported("uxFindings", j.verdict.uxFindings) : n \notin Praised(j)
    BY DEF Reported, Praised
  <1>8. CASE \E n \in Reported("blockers", j.verdict.blockers) :
                f = AboutNote(j, "blockers", j.verdict.blockers, "critical", n)
    <2>1. PICK n : o = [run |-> Cohort[k], bucket |-> "blockers", at |-> n]
      BY <1>5, <1>8
    <2>2. "blockers" # "uxFindings"
      OBVIOUS
    <2>3. "blockers" = "uxFindings" => n \notin Praised(journeys[k])
      BY <2>2
    <2>. QED  BY <2>1, <2>3, Zenon
  <1>9. CASE \E n \in Reported("uxFindings", j.verdict.uxFindings) :
                f = AboutNote(j, "uxFindings", j.verdict.uxFindings, "medium", n)
    <2>1. PICK n : o = [run |-> Cohort[k], bucket |-> "uxFindings", at |-> n] /\ n \notin Praised(j)
      BY <1>5, <1>7, <1>9
    <2>. QED  BY <1>j, <2>1
  <1>10. CASE \E n \in Reported("suggestedImprovements", j.verdict.suggestedImprovements) :
                f = AboutNote(j, "suggestedImprovements", j.verdict.suggestedImprovements, "low", n)
    <2>1. PICK n : o = [run |-> Cohort[k], bucket |-> "suggestedImprovements", at |-> n]
      BY <1>5, <1>10
    <2>2. "suggestedImprovements" # "uxFindings"
      OBVIOUS
    <2>3. "suggestedImprovements" = "uxFindings" => n \notin Praised(journeys[k])
      BY <2>2
    <2>. QED  BY <2>1, <2>3, Zenon
  <1>11. CASE \E n \in Missed(j) : f = AboutCriterion(j, n)
    <2>1. PICK n : o = [run |-> Cohort[k], bucket |-> "criteria", at |-> n]
      BY <1>6, <1>11
    <2>2. "criteria" # "uxFindings"
      OBVIOUS
    <2>3. "criteria" = "uxFindings" => n \notin Praised(journeys[k])
      BY <2>2
    <2>. QED  BY <2>1, <2>3, Zenon
  <1>. QED  BY <1>4, <1>8, <1>9, <1>10, <1>11

LEMMA PraiseOrigins ==
    ASSUME Journeyed, NEW o \in Origins(FromPraise)
    PROVE  \E k \in DOMAIN journeys : \E n \in Praised(journeys[k]) :
              o = [run |-> Cohort[k], bucket |-> "uxFindings", at |-> n]
  <1>1. PICK x \in ToSet(FromPraise) : o \in x.from
    BY DEF Origins
  <1>2. PICK k \in DOMAIN journeys : x \in ToSet(PraiseFromVerdict(journeys[k]))
    BY <1>1, PraiseItems
  <1>3. Cohort[k] \in ToSet(Cohort) /\ journeys[k] \in RunsOf(Cohort[k])
    BY JourneyPersona
  <1>4. PICK n \in Praised(journeys[k]) : x.from = {[run |-> Cohort[k], bucket |-> "uxFindings", at |-> n]}
    BY <1>2, <1>3, VerdictPraise
  <1>. QED  BY <1>1, <1>4

\* What is found is not kept, where no persona is in the cohort twice.
LEMMA FoundApart ==
    ASSUME Journeyed, Critiqued, OneWording, IsInjective(Cohort),
           NEW o \in Origins(Gathered), o \in Origins(strengths) \cup Origins(FromPraise) \cup Origins(VisionPraise)
    PROVE  FALSE
  <1>1. Origins(Gathered) = Origins(FromVerdicts) \cup Origins(VisionFindings)
    BY CompiledOrigins
  <1>2. Listed(synthesis)
    BY SynthesisItems
  <1>3. /\ ToSet(VisionFindings) = {synthesis[k] : k \in {m \in DOMAIN synthesis : ~ReadsAsPraise(synthesis[m])}}
        /\ ToSet(VisionPraise) = {synthesis[k] : k \in {m \in DOMAIN synthesis : ReadsAsPraise(synthesis[m])}}
    BY <1>2, GatheredItems
  <1>4. ASSUME o \in Origins(VisionFindings)
        PROVE  \E a \in DOMAIN synthesis : o \in synthesis[a].from /\ ~ReadsAsPraise(synthesis[a])
    BY <1>3, <1>4 DEF Origins
  <1>5. ASSUME o \in Origins(VisionPraise)
        PROVE  \E a \in DOMAIN synthesis : o \in synthesis[a].from /\ ReadsAsPraise(synthesis[a])
    BY <1>3, <1>5 DEF Origins
  <1>6. o \in Origins(VisionFindings) \/ o \in Origins(VisionPraise) => DOMAIN o = {"run", "title", "element"}
    BY <1>4, <1>5, VisionOrigins
  <1>7. o \in Origins(strengths) => DOMAIN o = {"run", "stem", "strength"}
    BY DEF Critiqued, Heard, Origins
  <1>8. o \in Origins(FromVerdicts) \/ o \in Origins(FromPraise) => DOMAIN o = {"run", "bucket", "at"}
    <2>1. ASSUME NEW r, NEW s, NEW n, o = [run |-> r, bucket |-> s, at |-> n] PROVE DOMAIN o = {"run", "bucket", "at"}
      BY <2>1
    <2>2. o \in Origins(FromVerdicts) => \E r, s, n : o = [run |-> r, bucket |-> s, at |-> n]
      BY VerdictOrigins
    <2>3. o \in Origins(FromPraise) => \E r, s, n : o = [run |-> r, bucket |-> s, at |-> n]
      BY PraiseOrigins
    <2>. QED  BY <2>1, <2>2, <2>3
  <1>9. "title" \notin {"run", "stem", "strength"} /\ "title" \notin {"run", "bucket", "at"} /\ "at" \notin {"run", "stem", "strength"}
    OBVIOUS
  <1>10. CASE o \in Origins(FromVerdicts)
    <2>1. o \in Origins(FromPraise)
      BY <1>6, <1>7, <1>8, <1>9, <1>10
    <2>2. PICK k \in DOMAIN journeys : \E source, n :
              /\ o = [run |-> Cohort[k], bucket |-> source, at |-> n]
              /\ source = "uxFindings" => n \notin Praised(journeys[k])
      BY <1>10, VerdictOrigins
    <2>3. PICK source, n : /\ o = [run |-> Cohort[k], bucket |-> source, at |-> n]
                           /\ source = "uxFindings" => n \notin Praised(journeys[k])
      BY <2>2
    <2>4. PICK i \in DOMAIN journeys : \E m \in Praised(journeys[i]) :
              o = [run |-> Cohort[i], bucket |-> "uxFindings", at |-> m]
      BY <2>1, PraiseOrigins
    <2>5. PICK m \in Praised(journeys[i]) : o = [run |-> Cohort[i], bucket |-> "uxFindings", at |-> m]
      BY <2>4
    <2>6. Cohort[k] = Cohort[i] /\ source = "uxFindings" /\ n = m
      <3>1. o.run = Cohort[k] /\ o.bucket = source /\ o.at = n
        BY <2>3
      <3>2. o.run = Cohort[i] /\ o.bucket = "uxFindings" /\ o.at = m
        BY <2>5
      <3>. QED  BY <3>1, <3>2
    <2>7. k = i
      <3>1. DOMAIN journeys \subseteq DOMAIN Cohort
        <4>1. Len(Cohort) \in Nat /\ DOMAIN Cohort = 1 .. Len(Cohort)
          BY CohortAssumption, ListedFacts
        <4>2. Len(journeys) \in Nat /\ DOMAIN journeys = 1 .. Len(journeys) /\ Len(journeys) <= Len(Cohort)
          BY JourneyPersona DEF Journeyed
        <4>. QED  BY <4>1, <4>2
      <3>. QED  BY <2>6, <3>1 DEF IsInjective
    <2>. QED  BY <2>3, <2>5, <2>6, <2>7
  <1>11. CASE o \in Origins(VisionFindings)
    <2>1. o \in Origins(VisionPraise)
      BY <1>6, <1>7, <1>8, <1>9, <1>11
    <2>2. PICK a \in DOMAIN synthesis : o \in synthesis[a].from /\ ~ReadsAsPraise(synthesis[a])
      BY <1>4, <1>11
    <2>3. PICK b \in DOMAIN synthesis : o \in synthesis[b].from /\ ReadsAsPraise(synthesis[b])
      BY <1>5, <2>1
    <2>4. a = b
      BY <2>2, <2>3, VisionApart
    <2>. QED  BY <2>2, <2>3, <2>4
  <1>. QED  BY <1>1, <1>10, <1>11

\* Where no persona is in the cohort twice and the pain points that share an
\* identity are worded alike, whatever is said is in the report, and nothing is
\* an issue and a strength at once.
THEOREM Accounted ==
    ASSUME IsInjective(Cohort)
    PROVE  Spec => [](OneWording => AccountedOnce)
  <1>1. IInv /\ Accounts => (OneWording => AccountedOnce)
    <2>. SUFFICES ASSUME IInv, Accounts, OneWording, Compiled, observed
                  PROVE  LET issues == Origins(findings) \cup Origins(unverified) \cup Origins(diagnostics)
                             said == Origins(Each(journeys, PainPointsFromJourney) \o Each(journeys, PraiseFromVerdict)
                                             \o strengths \o synthesis)
                         IN  issues \cup Origins(preserve) = said /\ issues \cap Origins(preserve) = {}
      BY DEF AccountedOnce
    <2>1. Journeyed /\ Critiqued
      BY DEF IInv
    <2>2. AllFound /\ AllKept /\ NothingIsLost
      BY AllAccounted
    <2>3. Origins(findings) \cup Origins(unverified) \cup Origins(diagnostics) \cup Origins(preserve)
            = Origins(Each(journeys, PainPointsFromJourney) \o Each(journeys, PraiseFromVerdict) \o strengths \o synthesis)
      BY <2>2 DEF NothingIsLost, FromVerdicts, FromPraise
    <2>4. ASSUME NEW o \in Origins(Gathered), o \in Origins(preserve) PROVE FALSE
      BY <2>1, <2>2, <2>4, FoundApart DEF AllKept
    <2>. QED  BY <2>2, <2>3, <2>4 DEF AllFound
  <1>. QED  BY <1>1, AccountsAlways, PTL

-----------------------------------------------------------------------------
(* The views of the report.                                                *)

\* Numbers that increase are in order as they are.
LEMMA AscendingNumbers ==
    ASSUME NEW n \in Nat, NEW f, f = [k \in 1 .. n |-> f[k]], \A k \in 1 .. n : f[k] \in Int,
           \A i, k \in 1 .. n : i < k => f[i] < f[k],
           NEW S, S = {f[k] : k \in 1 .. n}
    PROVE  Ascending(S) = f /\ IsFiniteSet(S) /\ Cardinality(S) = n
  <1>1. IsFiniteSet(1 .. n) /\ Cardinality(1 .. n) = n
    BY FS_Interval
  <1>2. f \in [1 .. n -> S]
    OBVIOUS
  <1>3. f \in Bijection(1 .. n, S)
    <2>1. \A i, k \in 1 .. n : f[i] = f[k] => i = k
      OBVIOUS
    <2>2. f \in Injection(1 .. n, S)
      BY <1>2, <2>1 DEF Injection, IsInjective
    <2>3. f \in Surjection(1 .. n, S)
      BY <1>2 DEF Surjection
    <2>. QED  BY <2>2, <2>3 DEF Bijection
  <1>4. IsFiniteSet(S) /\ Cardinality(S) = n
    BY <1>1, <1>3, FS_Bijection DEF ExistsBijection
  <1>t. PICK t : t = Ascending(S)
    OBVIOUS
  <1>5. /\ t \in [1 .. n -> S] /\ \A x \in S : \E k \in 1 .. n : t[k] = x
        /\ \A i, k \in 1 .. n : i < k <=> t[i] < t[k]
    <2>1. \A i \in S : i \in Int
      OBVIOUS
    <2>2. /\ t \in [1 .. Cardinality(S) -> S] /\ \A x \in S : \E k \in 1 .. Cardinality(S) : t[k] = x
          /\ \A i, k \in 1 .. Cardinality(S) : i < k <=> t[i] < t[k]
      BY <1>4, <1>t, <2>1, AscendingList, ZenonT(30)
    <2>. QED  BY <1>4, <2>2
  <1>g. PICK good : good = {m \in 0 .. n : \A k \in 1 .. m : t[k] = f[k]}
    OBVIOUS
  <1>6. 0 \in good
    BY <1>g
  <1>7. ASSUME NEW m \in 0 .. (n - 1), m \in good PROVE m + 1 \in good
    <2>0. m + 1 \in 1 .. n /\ m \in Nat
      OBVIOUS
    <2>1. \A k \in 1 .. m : t[k] = f[k]
      BY <1>7, <1>g
    <2>n. t[m + 1] \in Int /\ f[m + 1] \in Int /\ \A k \in 1 .. m : k \in 1 .. n
      BY <1>5, <2>0
    <2>2. PICK i \in 1 .. n : t[m + 1] = f[i]
      BY <1>5, <2>0
    <2>3. i >= m + 1
      <3>1. ASSUME i \in 1 .. m PROVE FALSE
        <4>1. t[i] = t[m + 1]
          BY <2>1, <2>2, <3>1
        <4>2. i < m + 1
          BY <3>1
        <4>. QED  BY <1>5, <2>0, <2>n, <4>1, <4>2
      <3>. QED  BY <3>1
    <2>4. f[m + 1] <= t[m + 1]
      <3>1. CASE i = m + 1
        BY <2>2, <2>n, <3>1
      <3>2. CASE m + 1 < i
        <4>1. f[m + 1] < f[i]
          BY <2>0, <3>2
        <4>. QED  BY <2>2, <2>n, <4>1
      <3>. QED  BY <2>3, <3>1, <3>2
    <2>5. PICK k \in 1 .. n : t[k] = f[m + 1]
      BY <1>5, <2>0
    <2>6. k >= m + 1
      <3>1. ASSUME k \in 1 .. m PROVE FALSE
        <4>0. k < m + 1
          BY <2>0, <3>1
        <4>1. t[k] = f[k] /\ k < m + 1
          BY <2>1, <3>1, <4>0
        <4>2. f[k] < f[m + 1] /\ f[k] \in Int
          BY <2>0, <4>1
        <4>. QED  BY <2>5, <2>n, <4>1, <4>2
      <3>. QED  BY <3>1
    <2>7. t[m + 1] <= f[m + 1]
      <3>1. CASE k = m + 1
        BY <2>5, <2>n, <3>1
      <3>2. CASE m + 1 < k
        <4>1. t[m + 1] < t[k]
          BY <1>5, <2>0, <3>2
        <4>. QED  BY <2>5, <2>n, <4>1
      <3>. QED  BY <2>6, <3>1, <3>2
    <2>8. t[m + 1] = f[m + 1]
      BY <2>4, <2>7, <2>n
    <2>9. \A j \in 1 .. (m + 1) : t[j] = f[j]
      <3>1. \A j \in 1 .. (m + 1) : j \in 1 .. m \/ j = m + 1
        BY <2>0
      <3>. QED  BY <2>1, <2>8, <3>1
    <2>10. m + 1 \in 0 .. n
      BY <2>0
    <2>. QED  BY <1>g, <2>9, <2>10
  <1>8. \A m \in 0 .. n : m \in good
    BY <1>6, <1>7, UpTheNumbers
  <1>9. \A k \in 1 .. n : t[k] = f[k]
    <2>1. n \in good
      BY <1>8
    <2>. QED  BY <1>g, <2>1
  <1>. QED  BY <1>2, <1>4, <1>5, <1>9, <1>t

\* All of the items of a list, in their order.
LEMMA AllItems ==
    ASSUME NEW s, Listed(s)
    PROVE  Those(s, DOMAIN s) = s /\ Ascending(DOMAIN s) = [k \in DOMAIN s |-> k]
  <1>n. PICK n : n = Len(s)
    OBVIOUS
  <1>1. n \in Nat /\ DOMAIN s = 1 .. n
    BY <1>n, ListedFacts
  <1>f. PICK f : f = [k \in 1 .. n |-> k]
    OBVIOUS
  <1>2. /\ f = [k \in 1 .. n |-> f[k]] /\ \A k \in 1 .. n : f[k] \in Int
        /\ \A i, k \in 1 .. n : i < k => f[i] < f[k]
        /\ 1 .. n = {f[k] : k \in 1 .. n}
    BY <1>f
  <1>3. Ascending(1 .. n) = f
    BY <1>1, <1>2, AscendingNumbers
  <1>4. Those(s, 1 .. n) = [k \in 1 .. n |-> s[k]]
    BY <1>3, <1>f DEF Those
  <1>5. s = [k \in 1 .. n |-> s[k]]
    BY <1>1, <1>n DEF Listed
  <1>. QED  BY <1>1, <1>3, <1>4, <1>5, <1>f

\* The issues' slides come in pairs.
ArePairs(ss, a, b, n) == ss = [k \in 1 .. n |-> ss[k]] /\ \A k \in 1 .. n : ss[k] = <<a[k], b[k]>>

Interleaved(s, a, b, n) == \A k \in 1 .. n : s[2 * k - 1] = a[k] /\ s[2 * k] = b[k]

LEMMA FlattenPairs ==
    ASSUME NEW n \in Nat, NEW a, NEW b, NEW ss, ArePairs(ss, a, b, n), NEW flat, flat = FlattenSeq(ss)
    PROVE  Listed(flat) /\ Len(flat) = 2 * n /\ Interleaved(flat, a, b, n)
  <1>x. PICK X : X = {a[k] : k \in 1 .. n} \cup {b[k] : k \in 1 .. n}
    OBVIOUS
  <1>1. ASSUME NEW k \in 1 .. n
        PROVE  ss[k] \in Seq(X) /\ Len(ss[k]) = 2 /\ ss[k][1] = a[k] /\ ss[k][2] = b[k]
    <2>1. ss[k] = <<a[k], b[k]>>
      BY DEF ArePairs
    <2>2. a[k] \in X /\ b[k] \in X
      BY <1>x
    <2>. QED  BY ONLY <2>1, <2>2
  <1>2. ss \in Seq(Seq(X)) /\ Len(ss) = n
    <2>1. ss \in [1 .. n -> Seq(X)]
      <3>1. ss = [k \in 1 .. n |-> ss[k]]
        BY DEF ArePairs
      <3>2. \A k \in 1 .. n : ss[k] \in Seq(X)
        BY <1>1
      <3>. QED  BY ONLY <3>1, <3>2
    <2>. QED  BY <2>1
  <1>flat. flat = FlattenSeq(ss)
    OBVIOUS
  <1>3. CASE n = 0
    <2>1. ss = <<>>
      BY <1>2, <1>3
    <2>2. flat = <<>>
      BY <1>2, <1>3, <2>1 DEF FlattenSeq
    <2>3. Interleaved(flat, a, b, 0)
      BY DEF Interleaved
    <2>. QED  BY <1>3, <2>2, <2>3, EmptyList
  <1>4. CASE n # 0
    <2>1. ss # <<>>
      BY <1>2, <1>4
    <2>2. PICK f \in [1 .. n -> Seq(X)] :
             /\ flat = f[n] /\ f[1] = ss[1]
             /\ \A i \in 2 .. n : f[i] = f[i - 1] \o ss[i]
      <3>1. \E f \in [1 .. Len(ss) -> Seq(X)] :
               /\ FlattenSeq(ss) = f[Len(ss)] /\ f[1] = ss[1]
               /\ \A i \in 2 .. Len(ss) : f[i] = f[i - 1] \o ss[i]
        BY ONLY <1>2, <2>1, FlattenSteps
      <3>. QED  BY ONLY <1>2, <1>flat, <3>1
    <2>g. PICK good : good = {0} \cup {m \in 1 .. n : /\ Len(f[m]) = 2 * m
                                                     /\ \A k \in 1 .. m : f[m][2 * k - 1] = a[k] /\ f[m][2 * k] = b[k]}
      OBVIOUS
    <2>3. ASSUME NEW m \in 0 .. (n - 1), m \in good PROVE m + 1 \in good
      <3>1. CASE m = 0
        <4>1. f[1] = ss[1] /\ 1 \in 1 .. n
          BY <1>4, <2>2
        <4>2. Len(f[1]) = 2 * 1 /\ f[1][2 * 1 - 1] = a[1] /\ f[1][2 * 1] = b[1]
          BY <1>1, <4>1
        <4>3. \A k \in 1 .. 1 : k = 1
          OBVIOUS
        <4>4. 1 \in good
          BY <2>g, <4>1, <4>2, <4>3
        <4>. QED  BY <3>1, <4>4
      <3>2. CASE m # 0
        <4>1. /\ m \in 1 .. n /\ m + 1 \in 2 .. n /\ Len(f[m]) = 2 * m
              /\ \A k \in 1 .. m : f[m][2 * k - 1] = a[k] /\ f[m][2 * k] = b[k]
          BY <2>3, <2>g, <3>2
        <4>s. PICK s : s = f[m]
          OBVIOUS
        <4>t. PICK t : t = ss[m + 1]
          OBVIOUS
        <4>2. s \in Seq(X) /\ t \in Seq(X) /\ Len(s) = 2 * m /\ Len(t) = 2 /\ t[1] = a[m + 1] /\ t[2] = b[m + 1]
          BY <1>1, <4>1, <4>s, <4>t
        <4>3. f[m + 1] = s \o t
          <5>1. (m + 1) - 1 = m
            OBVIOUS
          <5>. QED  BY <2>2, <4>1, <4>s, <4>t, <5>1
        <4>4. /\ Len(s \o t) = 2 * m + 2
              /\ \A i \in 1 .. (2 * m + 2) : (s \o t)[i] = IF i <= 2 * m THEN s[i] ELSE t[i - 2 * m]
          <5>1. /\ Len(s \o t) = Len(s) + Len(t)
                /\ \A i \in 1 .. Len(s) + Len(t) : (s \o t)[i] = IF i <= Len(s) THEN s[i] ELSE t[i - Len(s)]
            BY <4>2, ConcatProperties
          <5>2. Len(s) + Len(t) = 2 * m + 2
            BY <4>2
          <5>. QED  BY <4>2, <5>1, <5>2
        <4>5. ASSUME NEW k \in 1 .. (m + 1) PROVE (s \o t)[2 * k - 1] = a[k] /\ (s \o t)[2 * k] = b[k]
          <5>1. CASE k \in 1 .. m
            <6>1. /\ 2 * k - 1 \in 1 .. (2 * m + 2) /\ 2 * k \in 1 .. (2 * m + 2)
                  /\ 2 * k - 1 <= 2 * m /\ 2 * k <= 2 * m
              BY <5>1
            <6>. QED  BY <4>1, <4>4, <4>s, <5>1, <6>1
          <5>2. CASE k = m + 1
            <6>0. m \in Int
              OBVIOUS
            <6>1. /\ 2 * k - 1 \in 1 .. (2 * m + 2) /\ 2 * k \in 1 .. (2 * m + 2)
                  /\ ~(2 * k - 1 <= 2 * m) /\ ~(2 * k <= 2 * m)
                  /\ (2 * k - 1) - 2 * m = 1 /\ 2 * k - 2 * m = 2
              BY ONLY <5>2, <4>1, <6>0
            <6>2. (s \o t)[2 * k - 1] = t[1] /\ (s \o t)[2 * k] = t[2]
              BY <4>4, <6>1
            <6>. QED  BY <4>2, <5>2, <6>2
          <5>3. k \in 1 .. m \/ k = m + 1
            OBVIOUS
          <5>. QED  BY <5>1, <5>2, <5>3
        <4>6. 2 * m + 2 = 2 * (m + 1)
          OBVIOUS
        <4>7. /\ m + 1 \in 1 .. n /\ Len(f[m + 1]) = 2 * (m + 1)
              /\ \A k \in 1 .. (m + 1) : f[m + 1][2 * k - 1] = a[k] /\ f[m + 1][2 * k] = b[k]
          <5>1. m + 1 \in 1 .. n
            BY <4>1
          <5>. QED  BY ONLY <5>1, <4>3, <4>4, <4>5, <4>6
        <4>. QED  BY <2>g, <4>7
      <3>. QED  BY <3>1, <3>2
    <2>4. n \in good
      <3>1. 0 \in good
        BY <2>g
      <3>2. \A m \in 0 .. n : m \in good
        BY <2>3, <3>1, UpTheNumbers
      <3>. QED  BY <3>2
    <2>5. Listed(flat)
      BY <1>4, <2>2, ListedSeq
    <2>6. Len(flat) = 2 * n /\ \A k \in 1 .. n : flat[2 * k - 1] = a[k] /\ flat[2 * k] = b[k]
      BY <1>4, <2>2, <2>4, <2>g
    <2>. QED  BY <2>5, <2>6 DEF Interleaved
  <1>. QED  BY <1>3, <1>4

LEMMA OneItem ==
    ASSUME NEW x
    PROVE  Listed(<<x>>) /\ Len(<<x>>) = 1 /\ ToSet(<<x>>) = {x}
  <1>1. <<x>> \in Seq({x}) /\ ToSet(<<x>>) = {x} /\ Len(<<x>>) = 1
    BY DEF ToSet
  <1>. QED  BY <1>1, ListedSeq

\* What a part of the deck shows, and where: the slide of the k-th issue is the
\* second of its pair, after the five that open the deck.
Shown(s) == {x.shows : x \in ToSet(s)}

Deck(s, n) ==
    /\ Listed(s)
    /\ {k \in DOMAIN s : s[k].shows = "issue"} = {2 * k + 5 : k \in 1 .. n}
    /\ \A k \in 1 .. n : s[2 * k + 5].of = k

Paired(s, n) ==
    \A k \in 1 .. n : /\ s[2 * k - 1].shows = "issue title"
                      /\ s[2 * k].shows = "issue" /\ s[2 * k].of = k

LEMMA HalfOf ==
    ASSUME NEW n \in Nat, NEW i \in 1 .. 2 * n
    PROVE  \E k \in 1 .. n : i = 2 * k - 1 \/ i = 2 * k
  <1>h. PICK h : h = (i + 1) \div 2
    OBVIOUS
  <1>1. h \in Int /\ (i = 2 * h - 1 \/ i = 2 * h)
    BY <1>h
  <1>2. h \in 1 .. n
    BY <1>1
  <1>. QED  BY <1>1, <1>2

LEMMA DeckStarts ==
    ASSUME NEW s, Listed(s), Len(s) = 5, "issue" \notin Shown(s), NEW n \in Nat,
           NEW flat, Listed(flat), Len(flat) = 2 * n, Paired(flat, n)
    PROVE  /\ Deck(s \o flat, n) /\ Shown(s \o flat) = Shown(s) \cup Shown(flat)
           /\ Shown(flat) \subseteq {"issue title", "issue"}
  <1>t. PICK t : t = s \o flat
    OBVIOUS
  <1>1. DOMAIN s = 1 .. 5 /\ DOMAIN flat = 1 .. 2 * n
    BY ListedFacts
  <1>2. Listed(t) /\ ToSet(t) = ToSet(s) \cup ToSet(flat) /\ Len(t) = 5 + 2 * n
    BY <1>t, JoinedLists
  <1>3. DOMAIN t = 1 .. (5 + 2 * n)
    BY <1>2, ListedFacts
  <1>4. \A i \in 1 .. (5 + 2 * n) : t[i] = IF i <= 5 THEN s[i] ELSE flat[i - 5]
    <2>x. PICK X : X = ToSet(s) \cup ToSet(flat)
      OBVIOUS
    <2>1. s \in Seq(X) /\ flat \in Seq(X)
      BY <2>x, ListedFacts
    <2>2. \A i \in 1 .. Len(s) + Len(flat) : (s \o flat)[i] = IF i <= Len(s) THEN s[i] ELSE flat[i - Len(s)]
      BY <2>1, ConcatProperties
    <2>. QED  BY <1>t, <2>2
  <1>5. ASSUME NEW k \in 1 .. n
        PROVE  /\ 2 * k - 1 \in DOMAIN flat /\ flat[2 * k - 1].shows = "issue title"
               /\ 2 * k \in DOMAIN flat /\ flat[2 * k].shows = "issue" /\ flat[2 * k].of = k
    <2>1. 2 * k - 1 \in DOMAIN flat /\ 2 * k \in DOMAIN flat
      BY <1>1
    <2>2. flat[2 * k - 1].shows = "issue title" /\ flat[2 * k].shows = "issue" /\ flat[2 * k].of = k
      BY DEF Paired
    <2>. QED  BY <2>1, <2>2
  <1>6. ASSUME NEW i \in DOMAIN flat PROVE \E k \in 1 .. n : i = 2 * k - 1 \/ i = 2 * k
    BY <1>1, HalfOf
  <1>7. Shown(flat) \subseteq {"issue title", "issue"}
    <2>1. ASSUME NEW i \in DOMAIN flat PROVE flat[i].shows \in {"issue title", "issue"}
      <3>1. PICK k \in 1 .. n : i = 2 * k - 1 \/ i = 2 * k
        BY <1>6
      <3>2. flat[2 * k - 1].shows = "issue title" /\ flat[2 * k].shows = "issue"
        BY <1>5
      <3>. QED  BY <3>1, <3>2
    <2>. QED  BY <2>1 DEF Shown, ToSet
  <1>8. \A i \in DOMAIN s : s[i].shows # "issue"
    BY DEF Shown, ToSet
  <1>9. ASSUME NEW i \in DOMAIN t, t[i].shows = "issue" PROVE \E k \in 1 .. n : i = 2 * k + 5
    <2>1. CASE i <= 5
      <3>1. i \in DOMAIN s /\ t[i] = s[i]
        BY <1>1, <1>3, <1>4, <2>1
      <3>. QED  BY <1>8, <1>9, <3>1
    <2>2. CASE ~(i <= 5)
      <3>1. i - 5 \in DOMAIN flat /\ t[i] = flat[i - 5]
        BY <1>1, <1>3, <1>4, <2>2
      <3>2. PICK k \in 1 .. n : i - 5 = 2 * k - 1 \/ i - 5 = 2 * k
        BY <1>6, <3>1
      <3>3. flat[2 * k - 1].shows = "issue title"
        BY <1>5
      <3>4. i - 5 # 2 * k - 1
        BY <1>9, <3>1, <3>3
      <3>5. i = 2 * k + 5
        BY <1>3, <3>2, <3>4
      <3>. QED  BY <3>5
    <2>. QED  BY <2>1, <2>2
  <1>10. ASSUME NEW k \in 1 .. n
         PROVE  2 * k + 5 \in DOMAIN t /\ t[2 * k + 5].shows = "issue" /\ t[2 * k + 5].of = k
    <2>1. 2 * k + 5 \in 1 .. (5 + 2 * n) /\ ~(2 * k + 5 <= 5) /\ (2 * k + 5) - 5 = 2 * k
      OBVIOUS
    <2>2. t[2 * k + 5] = flat[2 * k]
      BY <1>4, <2>1
    <2>. QED  BY <1>3, <1>5, <2>1, <2>2, ZenonT(30)
  <1>11. {i \in DOMAIN t : t[i].shows = "issue"} = {2 * k + 5 : k \in 1 .. n}
    <2>p. PICK P : P = {i \in DOMAIN t : t[i].shows = "issue"}
      OBVIOUS
    <2>q. PICK Q : Q = {2 * k + 5 : k \in 1 .. n}
      OBVIOUS
    <2>1. ASSUME NEW i \in P PROVE i \in Q
      BY <1>9, <2>1, <2>p, <2>q
    <2>2. ASSUME NEW i \in Q PROVE i \in P
      <3>1. PICK k \in 1 .. n : i = 2 * k + 5
        BY <2>2, <2>q
      <3>. QED  BY <1>10, <2>p, <3>1
    <2>. QED  BY <2>1, <2>2, <2>p, <2>q
  <1>12. Deck(t, n)
    BY <1>2, <1>10, <1>11 DEF Deck
  <1>13. Shown(t) = Shown(s) \cup Shown(flat)
    BY <1>2 DEF Shown
  <1>. QED  BY <1>7, <1>12, <1>13, <1>t

LEMMA DeckGoesOn ==
    ASSUME NEW n \in Nat, NEW s, Deck(s, n), NEW t, Listed(t), "issue" \notin Shown(t)
    PROVE  Deck(s \o t, n) /\ Shown(s \o t) = Shown(s) \cup Shown(t)
  <1>l. PICK l : l = Len(s)
    OBVIOUS
  <1>m. PICK m : m = Len(t)
    OBVIOUS
  <1>j. PICK joined : joined = s \o t
    OBVIOUS
  <1>0. Listed(s)
    BY DEF Deck
  <1>1. l \in Nat /\ DOMAIN s = 1 .. l /\ m \in Nat /\ DOMAIN t = 1 .. m
    BY <1>0, <1>l, <1>m, ListedFacts
  <1>2. Listed(joined) /\ ToSet(joined) = ToSet(s) \cup ToSet(t) /\ Len(joined) = l + m
    BY <1>0, <1>j, <1>l, <1>m, JoinedLists
  <1>3. DOMAIN joined = 1 .. (l + m)
    BY <1>2, ListedFacts
  <1>4. \A i \in 1 .. (l + m) : joined[i] = IF i <= l THEN s[i] ELSE t[i - l]
    <2>x. PICK X : X = ToSet(s) \cup ToSet(t)
      OBVIOUS
    <2>1. s \in Seq(X) /\ t \in Seq(X)
      BY <1>0, <2>x, ListedFacts
    <2>2. \A i \in 1 .. Len(s) + Len(t) : (s \o t)[i] = IF i <= Len(s) THEN s[i] ELSE t[i - Len(s)]
      BY <2>1, ConcatProperties
    <2>. QED  BY <1>j, <1>l, <1>m, <2>2
  <1>5. \A i \in DOMAIN s : i \in DOMAIN joined /\ joined[i] = s[i]
    BY <1>1, <1>3, <1>4
  <1>6. ASSUME NEW i \in DOMAIN joined, i \notin DOMAIN s PROVE joined[i].shows # "issue"
    <2>1. i - l \in DOMAIN t /\ joined[i] = t[i - l]
      BY <1>1, <1>3, <1>4, <1>6
    <2>2. t[i - l] \in ToSet(t)
      BY <2>1 DEF ToSet
    <2>. QED  BY <2>1, <2>2 DEF Shown
  <1>7. {k \in DOMAIN joined : joined[k].shows = "issue"} = {k \in DOMAIN s : s[k].shows = "issue"}
    BY <1>5, <1>6
  <1>8. {k \in DOMAIN s : s[k].shows = "issue"} = {2 * k + 5 : k \in 1 .. n} /\ \A k \in 1 .. n : s[2 * k + 5].of = k
    BY DEF Deck
  <1>9. \A k \in 1 .. n : joined[2 * k + 5].of = k
    <2>1. \A k \in 1 .. n : 2 * k + 5 \in DOMAIN s
      BY <1>8
    <2>. QED  BY <1>5, <1>8, <2>1
  <1>. QED  BY <1>2, <1>7, <1>8, <1>9, <1>j DEF Deck, Shown

LEMMA SlideFields ==
    \A shows, of : Slide(shows, of).shows = shows /\ Slide(shows, of).of = of
  BY DEF Slide

One(shows) == <<Slide(shows, 0)>>

\* A part of the deck that shows no issue, and not that there is none.
Plain(s) == Listed(s) /\ "issue" \notin Shown(s) /\ "no findings" \notin Shown(s)

LEMMA PlainParts ==
    ASSUME NEW s, NEW t, Plain(s), Plain(t)
    PROVE  Plain(s \o t) /\ Len(s \o t) = Len(s) + Len(t)
  <1>1. Listed(s \o t) /\ ToSet(s \o t) = ToSet(s) \cup ToSet(t) /\ Len(s \o t) = Len(s) + Len(t)
    BY JoinedLists DEF Plain
  <1>2. Shown(s \o t) = Shown(s) \cup Shown(t)
    BY <1>1 DEF Shown
  <1>. QED  BY <1>1, <1>2 DEF Plain

LEMMA FivePlain ==
    ASSUME NEW a, NEW b, NEW c, NEW d, NEW e, Plain(a), Plain(b), Plain(c), Plain(d), Plain(e),
           Len(a) = 1, Len(b) = 1, Len(c) = 1, Len(d) = 1, Len(e) = 1
    PROVE  Plain(a \o b \o c \o d \o e) /\ Len(a \o b \o c \o d \o e) = 5
  <1>1. Plain(a \o b) /\ Len(a \o b) = Len(a) + Len(b)
    BY PlainParts
  <1>2. Plain(a \o b \o c) /\ Len(a \o b \o c) = Len(a \o b) + Len(c)
    BY <1>1, PlainParts
  <1>3. Plain(a \o b \o c \o d) /\ Len(a \o b \o c \o d) = Len(a \o b \o c) + Len(d)
    BY <1>2, PlainParts
  <1>4. Plain(a \o b \o c \o d \o e) /\ Len(a \o b \o c \o d \o e) = Len(a \o b \o c \o d) + Len(e)
    BY <1>3, PlainParts
  <1>. QED  BY <1>1, <1>2, <1>3, <1>4

LEMMA OneSlide ==
    ASSUME NEW shows
    PROVE  /\ Listed(One(shows)) /\ Len(One(shows)) = 1 /\ Shown(One(shows)) = {shows}
           /\ shows # "issue" /\ shows # "no findings" => Plain(One(shows))
  <1>1. Slide(shows, 0).shows = shows
    BY SlideFields
  <1>2. Listed(One(shows)) /\ Len(One(shows)) = 1 /\ ToSet(One(shows)) = {Slide(shows, 0)}
    BY OneItem DEF One
  <1>3. Shown(One(shows)) = {shows}
    BY <1>1, <1>2 DEF Shown
  <1>. QED  BY <1>2, <1>3 DEF Plain

\* The deck of the report.
LEMMA SlidesShown ==
    ASSUME Listed(findings), Listed(preserve)
    PROVE  /\ Listed(Real) /\ Deck(Slides, Len(Real))
           /\ "no findings" \in Shown(Slides) <=> Real = <<>> /\ preserve = <<>>
  <1>q. PICK P : P = {k \in DOMAIN findings : ~IsPlaceholder(findings[k])}
    OBVIOUS
  <1>r. PICK real : real = Real
    OBVIOUS
  <1>n. PICK n : n = Len(real)
    OBVIOUS
  <1>1. Listed(real) /\ n \in Nat /\ DOMAIN real = 1 .. n
    <2>1. real = Those(findings, P) /\ P \in SUBSET DOMAIN findings
      BY <1>q, <1>r DEF Real
    <2>2. Listed(real)
      BY <2>1, ThoseLists
    <2>. QED  BY <1>n, <2>2, ListedFacts
  <1>a. PICK a : a = [k \in 1 .. n |-> Slide("issue title", k)]
    OBVIOUS
  <1>b. PICK b : b = [k \in 1 .. n |-> Slide("issue", k)]
    OBVIOUS
  <1>s. PICK ss : ss = [k \in 1 .. n |-> <<a[k], b[k]>>]
    OBVIOUS
  <1>f. PICK flat : flat = FlattenSeq(ss)
    OBVIOUS
  <1>2. Listed(flat) /\ Len(flat) = 2 * n /\ Paired(flat, n)
    <2>1. n \in Nat
      BY <1>1
    <2>2. ArePairs(ss, a, b, n)
      BY <1>s DEF ArePairs
    <2>3. Listed(flat) /\ Len(flat) = 2 * n /\ Interleaved(flat, a, b, n)
      BY <1>f, <2>1, <2>2, FlattenPairs
    <2>4. ASSUME NEW k \in 1 .. n
          PROVE  flat[2 * k - 1].shows = "issue title" /\ flat[2 * k].shows = "issue" /\ flat[2 * k].of = k
      <3>1. flat[2 * k - 1] = a[k] /\ flat[2 * k] = b[k]
        BY <2>3 DEF Interleaved
      <3>2. a[k] = Slide("issue title", k) /\ b[k] = Slide("issue", k)
        BY <1>a, <1>b
      <3>3. /\ Slide("issue title", k).shows = "issue title"
            /\ Slide("issue", k).shows = "issue" /\ Slide("issue", k).of = k
        BY SlideFields
      <3>. QED  BY ONLY <3>1, <3>2, <3>3
    <2>. QED  BY <2>3, <2>4 DEF Paired
  <1>3. FlattenSeq([k \in DOMAIN Real |-> <<Slide("issue title", k), Slide("issue", k)>>]) = flat
    <2>1. ss = [k \in 1 .. n |-> <<Slide("issue title", k), Slide("issue", k)>>]
      BY ONLY <1>a, <1>b, <1>s
    <2>. QED  BY ONLY <2>1, <1>1, <1>f, <1>r
  <1>k. PICK kept : kept = UpTo(PreserveLimit, preserve)
    OBVIOUS
  <1>m. PICK m : m = Len(kept)
    OBVIOUS
  <1>6. m \in Nat /\ DOMAIN kept = 1 .. m
    <2>1. Listed(kept)
      BY <1>k, UpToItems, LimitAssumption
    <2>. QED  BY <1>m, <2>1, ListedFacts
  <1>c. PICK keep : keep = [k \in 1 .. m |-> Slide("keep", k)]
    OBVIOUS
  <1>7. Plain(keep)
    <2>1. keep = [k \in 1 .. m |-> keep[k]]
      BY <1>c
    <2>2. m \in Nat
      BY <1>6
    <2>3. Listed(keep) /\ ToSet(keep) = {keep[k] : k \in 1 .. m}
      BY ONLY <2>1, <2>2, MappedList
    <2>4. \A k \in 1 .. m : keep[k].shows = "keep"
      BY <1>c, SlideFields
    <2>5. Shown(keep) \subseteq {"keep"}
      BY <2>3, <2>4 DEF Shown
    <2>. QED  BY <2>3, <2>5 DEF Plain
  <1>e. PICK none : none = <<>>
    OBVIOUS
  <1>8. Plain(none) /\ Listed(none) /\ Shown(none) = {}
    BY <1>e, EmptyList DEF Shown, Plain
  <1>x1. PICK x1 : x1 = IF preserve # <<>> THEN One("elements to preserve") ELSE none
    OBVIOUS
  <1>x2. PICK x2 : x2 = IF Len(preserve) > Len(kept) THEN One("what is working") ELSE none
    OBVIOUS
  <1>x3. PICK x3 : x3 = IF Real = <<>> /\ preserve = <<>> THEN One("no findings") ELSE none
    OBVIOUS
  <1>x4. PICK x4 : x4 = IF PriorityOrder # <<>> THEN One("what to fix first") ELSE none
    OBVIOUS
  <1>9. Plain(x1) /\ Plain(x2) /\ Plain(x4)
    <2>1. Plain(One("elements to preserve")) /\ Plain(One("what is working")) /\ Plain(One("what to fix first"))
      BY OneSlide
    <2>. QED  BY <1>8, <1>x1, <1>x2, <1>x4, <2>1
  <1>z. /\ Listed(x3) /\ "issue" \notin Shown(x3)
        /\ "no findings" \in Shown(x3) <=> Real = <<>> /\ preserve = <<>>
    <2>1. Listed(One("no findings")) /\ Shown(One("no findings")) = {"no findings"}
      BY OneSlide
    <2>. QED  BY <1>8, <1>x3, <2>1
  <1>10. Slides = One("title") \o One("contents") \o One("introduction") \o One("method") \o One("user issues")
                  \o flat \o x1 \o x2 \o keep \o x3 \o x4 \o One("credits")
    <2>2. [k \in DOMAIN kept |-> Slide("keep", k)] = keep
      BY <1>6, <1>c
    <2>. QED  BY <1>3, <2>2, <1>k, <1>e, <1>x1, <1>x2, <1>x3, <1>x4 DEF Slides, One
  <1>d. PICK d : d = One("title") \o One("contents") \o One("introduction") \o One("method") \o One("user issues")
    OBVIOUS
  <1>11. Plain(d) /\ Len(d) = 5
    <2>a. PICK a1 : a1 = One("title")
      OBVIOUS
    <2>b. PICK a2 : a2 = One("contents")
      OBVIOUS
    <2>c. PICK a3 : a3 = One("introduction")
      OBVIOUS
    <2>d. PICK a4 : a4 = One("method")
      OBVIOUS
    <2>e. PICK a5 : a5 = One("user issues")
      OBVIOUS
    <2>1. d = a1 \o a2 \o a3 \o a4 \o a5
      BY ONLY <1>d, <2>a, <2>b, <2>c, <2>d, <2>e
    <2>2. Plain(a1) /\ Plain(a2) /\ Plain(a3) /\ Plain(a4) /\ Plain(a5)
      BY <2>a, <2>b, <2>c, <2>d, <2>e, OneSlide
    <2>3. Len(a1) = 1 /\ Len(a2) = 1 /\ Len(a3) = 1 /\ Len(a4) = 1 /\ Len(a5) = 1
      BY <2>a, <2>b, <2>c, <2>d, <2>e, OneSlide
    <2>. QED  BY ONLY <2>1, <2>2, <2>3, FivePlain
  <1>12. /\ Deck(d \o flat, n) /\ Shown(d \o flat) = Shown(d) \cup Shown(flat)
         /\ Shown(flat) \subseteq {"issue title", "issue"}
    BY <1>1, <1>2, <1>11, DeckStarts DEF Plain
  <1>y0. PICK y0 : y0 = d \o flat
    OBVIOUS
  <1>y1. PICK y1 : y1 = y0 \o x1
    OBVIOUS
  <1>y2. PICK y2 : y2 = y1 \o x2
    OBVIOUS
  <1>y3. PICK y3 : y3 = y2 \o keep
    OBVIOUS
  <1>y4. PICK y4 : y4 = y3 \o x3
    OBVIOUS
  <1>y5. PICK y5 : y5 = y4 \o x4
    OBVIOUS
  <1>13. Slides = y5 \o One("credits")
    BY <1>10, <1>d, <1>y0, <1>y1, <1>y2, <1>y3, <1>y4, <1>y5
  <1>14. Deck(y0, n) /\ "no findings" \notin Shown(y0)
    BY <1>11, <1>12, <1>y0 DEF Plain
  <1>p. ASSUME NEW s, Deck(s, n), NEW t, Plain(t)
        PROVE  Deck(s \o t, n) /\ ("no findings" \in Shown(s \o t) <=> "no findings" \in Shown(s))
    <2>1. Listed(t) /\ "issue" \notin Shown(t) /\ "no findings" \notin Shown(t)
      BY <1>p DEF Plain
    <2>2. Deck(s \o t, n) /\ Shown(s \o t) = Shown(s) \cup Shown(t)
      BY <1>1, <1>p, <2>1, DeckGoesOn
    <2>. QED  BY <2>1, <2>2
  <1>15. Deck(y1, n) /\ "no findings" \notin Shown(y1)
    BY <1>9, <1>14, <1>y1, <1>p
  <1>16. Deck(y2, n) /\ "no findings" \notin Shown(y2)
    BY <1>9, <1>15, <1>y2, <1>p
  <1>17. Deck(y3, n) /\ "no findings" \notin Shown(y3)
    BY <1>7, <1>16, <1>y3, <1>p
  <1>18. Deck(y4, n) /\ ("no findings" \in Shown(y4) <=> Real = <<>> /\ preserve = <<>>)
    <2>1. Deck(y3 \o x3, n) /\ Shown(y3 \o x3) = Shown(y3) \cup Shown(x3)
      BY <1>1, <1>17, <1>z, DeckGoesOn
    <2>. QED  BY <1>17, <1>y4, <1>z, <2>1
  <1>19. Deck(y5, n) /\ ("no findings" \in Shown(y5) <=> Real = <<>> /\ preserve = <<>>)
    BY <1>9, <1>18, <1>y5, <1>p
  <1>20. Deck(Slides, n) /\ ("no findings" \in Shown(Slides) <=> Real = <<>> /\ preserve = <<>>)
    <2>1. Plain(One("credits"))
      BY OneSlide
    <2>. QED  BY <1>13, <1>19, <1>p, <2>1
  <1>. QED  BY <1>1, <1>20, <1>n, <1>r

\* The issues' slides are those of the issues, in their order.
LEMMA IssueSlides ==
    ASSUME NEW s, NEW n \in Nat, Deck(s, n), NEW slides,
           slides = Those(s, {k \in DOMAIN s : s[k].shows = "issue"})
    PROVE  [k \in DOMAIN slides |-> slides[k].of] = [k \in 1 .. n |-> k]
  <1>f. PICK f : f = [k \in 1 .. n |-> 2 * k + 5]
    OBVIOUS
  <1>p. PICK P : P = {2 * k + 5 : k \in 1 .. n}
    OBVIOUS
  <1>1. slides = Those(s, P)
    BY <1>p DEF Deck
  <1>2. /\ f = [k \in 1 .. n |-> f[k]] /\ \A k \in 1 .. n : f[k] \in Int
        /\ \A i, k \in 1 .. n : i < k => f[i] < f[k]
        /\ P = {f[k] : k \in 1 .. n}
    BY <1>f, <1>p
  <1>3. Ascending(P) = f
    BY ONLY n \in Nat, <1>2, AscendingNumbers
  <1>4. slides = [k \in 1 .. n |-> s[f[k]]]
    <2>1. DOMAIN f = 1 .. n
      BY <1>2
    <2>. QED  BY <1>1, <1>3, <2>1 DEF Those
  <1>5. \A k \in 1 .. n : slides[k].of = k
    BY <1>4, <1>f DEF Deck
  <1>. QED  BY <1>4, <1>5

\* The findings of a flow, and the first of each flow.
Sharing(k) == {j \in DOMAIN findings : findings[j].flow = findings[k].flow}

Firsts == {k \in DOMAIN findings : \A j \in Sharing(k) : k <= j}

Sections == [n \in DOMAIN Ascending(Firsts) |-> [flow |-> findings[Ascending(Firsts)[n]].flow,
                                                 of |-> Ascending(Sharing(Ascending(Firsts)[n]))]]

LEMMA FirstOfFlow ==
    ASSUME Listed(findings), NEW k \in DOMAIN findings
    PROVE  \E first \in Firsts : k \in Sharing(first) /\ \A other \in Firsts : k \in Sharing(other) => other = first
  <1>1. IsFiniteSet(DOMAIN findings) /\ \A i \in DOMAIN findings : i \in Int
    <2>1. IsFiniteSet(DOMAIN findings) /\ Len(findings) \in Nat /\ DOMAIN findings = 1 .. Len(findings)
      BY ListedFacts
    <2>. QED  BY <2>1
  <1>2. Sharing(k) \subseteq DOMAIN findings /\ k \in Sharing(k)
    BY DEF Sharing
  <1>3. IsFiniteSet(Sharing(k))
    BY <1>1, <1>2, FS_Subset
  <1>4. PICK first \in Sharing(k) : \A i \in Sharing(k) : first <= i
    <2>1. \A i \in Sharing(k) : i \in Int
      BY <1>1, <1>2
    <2>2. Sharing(k) # {}
      BY <1>2
    <2>. QED  BY <1>3, <2>1, <2>2, Ends
  <1>5. Sharing(first) = Sharing(k) /\ first \in DOMAIN findings
    BY <1>4 DEF Sharing
  <1>6. first \in Firsts /\ k \in Sharing(first)
    BY <1>2, <1>4, <1>5 DEF Firsts
  <1>7. ASSUME NEW other \in Firsts, k \in Sharing(other) PROVE other = first
    <2>1. other \in DOMAIN findings /\ \A j \in Sharing(other) : other <= j
      BY <1>7 DEF Firsts
    <2>2. Sharing(other) = Sharing(k) /\ other \in Sharing(k)
      BY <1>7, <2>1 DEF Sharing
    <2>3. other <= first /\ first <= other
      BY <1>4, <2>1, <2>2
    <2>4. other \in Int /\ first \in Int
      BY <1>1, <1>5, <2>1
    <2>. QED  BY <2>3, <2>4
  <1>. QED  BY <1>6, <1>7

\* Where the items of a sorted list come from.
Placed(sorted, s, key, n) ==
    \E at \in [1 .. n -> 1 .. n] :
        /\ \A k \in 1 .. n : sorted[k] = s[at[k]]
        /\ \A i \in 1 .. n : \E k \in 1 .. n : at[k] = i
        /\ \A i, k \in 1 .. n : at[i] = at[k] => i = k
        /\ \A i, k \in 1 .. n : i < k => key[at[k]] <= key[at[i]]

LEMMA SortedPlaces ==
    ASSUME NEW s, Listed(s), NEW n, n = Len(s), NEW key, key \in [DOMAIN s -> Int], NEW sorted, sorted = SortedBy(s, key)
    PROVE  /\ Listed(sorted) /\ Len(sorted) = n /\ DOMAIN sorted = 1 .. n /\ ToSet(sorted) = ToSet(s)
           /\ Placed(sorted, s, key, n)
  <1>x. PICK X : X = ToSet(s)
    OBVIOUS
  <1>1. s \in Seq(X) /\ DOMAIN s = 1 .. n
    BY <1>x, ListedFacts
  <1>2. /\ SortedBy(s, key) \in Seq(X) /\ Len(SortedBy(s, key)) = Len(s)
        /\ DOMAIN SortedBy(s, key) = DOMAIN s
        /\ \E at \in [DOMAIN s -> DOMAIN s] :
             /\ \A k \in DOMAIN s : SortedBy(s, key)[k] = s[at[k]]
             /\ \A i \in DOMAIN s : \E k \in DOMAIN s : at[k] = i
             /\ \A i, k \in DOMAIN s : at[i] = at[k] => i = k
             /\ \A i, k \in DOMAIN s : i < k => key[at[k]] <= key[at[i]]
    BY <1>1, SortedList
  <1>3. Listed(sorted)
    BY <1>2, ListedSeq
  <1>4. ToSet(sorted) = ToSet(s)
    BY <1>1, SortedItems
  <1>5. Placed(sorted, s, key, n)
    <2>1. PICK at \in [DOMAIN s -> DOMAIN s] :
             /\ \A k \in DOMAIN s : SortedBy(s, key)[k] = s[at[k]]
             /\ \A i \in DOMAIN s : \E k \in DOMAIN s : at[k] = i
             /\ \A i, k \in DOMAIN s : at[i] = at[k] => i = k
             /\ \A i, k \in DOMAIN s : i < k => key[at[k]] <= key[at[i]]
      BY <1>2
    <2>2. /\ at \in [1 .. n -> 1 .. n]
          /\ \A k \in 1 .. n : sorted[k] = s[at[k]]
          /\ \A i \in 1 .. n : \E k \in 1 .. n : at[k] = i
          /\ \A i, k \in 1 .. n : at[i] = at[k] => i = k
          /\ \A i, k \in 1 .. n : i < k => key[at[k]] <= key[at[i]]
      BY <1>1, <2>1
    <2>. QED  BY <2>2, Zenon DEF Placed
  <1>. QED  BY <1>1, <1>2, <1>3, <1>4, <1>5

\* Each finding is in one section of the report.
LEMMA SectionsOnce ==
    ASSUME Listed(findings), NEW k \in DOMAIN findings
    PROVE  Cardinality({m \in DOMAIN FlowGroups : k \in ToSet(FlowGroups[m].of)}) = 1
  <1>g. PICK groups : groups = Sections
    OBVIOUS
  <1>t. PICK t : t = Ascending(Firsts)
    OBVIOUS
  <1>n. PICK n : n = Cardinality(Firsts)
    OBVIOUS
  <1>1. IsFiniteSet(DOMAIN findings) /\ \A i \in DOMAIN findings : i \in Int
    <2>1. IsFiniteSet(DOMAIN findings) /\ Len(findings) \in Nat /\ DOMAIN findings = 1 .. Len(findings)
      BY ListedFacts
    <2>. QED  BY <2>1
  <1>2. IsFiniteSet(Firsts) /\ (\A i \in Firsts : i \in Int) /\ Firsts \subseteq DOMAIN findings
    <2>1. Firsts \subseteq DOMAIN findings
      BY DEF Firsts
    <2>. QED  BY <1>1, <2>1, FS_Subset
  <1>3. /\ n \in Nat /\ t \in [1 .. n -> Firsts] /\ \A x \in Firsts : \E a \in 1 .. n : t[a] = x
        /\ \A a, b \in 1 .. n : a < b <=> t[a] < t[b]
    BY <1>2, <1>n, <1>t, AscendingList
  <1>4. DOMAIN groups = 1 .. n /\ groups = [a \in 1 .. n |-> groups[a]]
        /\ \A a \in 1 .. n : groups[a].of = Ascending(Sharing(t[a]))
    BY <1>3, <1>g, <1>t DEF Sections
  <1>5. ASSUME NEW a \in 1 .. n PROVE Len(groups[a].of) \in Int /\ ToSet(groups[a].of) = Sharing(t[a])
    <2>s. PICK S : S = Sharing(t[a])
      OBVIOUS
    <2>f. PICK f : f = Ascending(S)
      OBVIOUS
    <2>1. S \subseteq DOMAIN findings
      BY <2>s DEF Sharing
    <2>2. IsFiniteSet(S) /\ \A i \in S : i \in Int
      BY <1>1, <2>1, FS_Subset
    <2>3. Cardinality(S) \in Nat /\ f \in [1 .. Cardinality(S) -> S] /\ \A x \in S : \E i \in 1 .. Cardinality(S) : f[i] = x
      BY <2>2, <2>f, AscendingList
    <2>4. ToSet(f) = S
      BY <2>3 DEF ToSet
    <2>5. Len(f) \in Int
      BY <2>3
    <2>. QED  BY <1>4, <2>f, <2>s, <2>4, <2>5
  <1>6. Listed(groups)
    <2>1. n \in Nat
      BY <1>3
    <2>2. groups = [a \in 1 .. n |-> groups[a]]
      BY <1>4
    <2>. QED  BY ONLY <2>1, <2>2, MappedList
  <1>k. PICK key : key = [a \in DOMAIN groups |-> Len(groups[a].of)]
    OBVIOUS
  <1>7. FlowGroups = SortedBy(groups, key)
    BY <1>g, <1>k DEF FlowGroups, Sections, Firsts, Sharing
  <1>8. DOMAIN FlowGroups = 1 .. n /\ Placed(FlowGroups, groups, key, n)
    <2>1. key \in [DOMAIN groups -> Int]
      BY <1>4, <1>5, <1>k
    <2>2. n = Len(groups)
      BY <1>3, <1>4, <1>6, ListedFacts
    <2>. QED  BY <1>6, <1>7, <2>1, <2>2, SortedPlaces
  <1>9. PICK at \in [1 .. n -> 1 .. n] : /\ \A m \in 1 .. n : FlowGroups[m] = groups[at[m]]
                                         /\ \A i \in 1 .. n : \E m \in 1 .. n : at[m] = i
                                         /\ \A i, m \in 1 .. n : at[i] = at[m] => i = m
    BY <1>8 DEF Placed
  <1>10. PICK first \in Firsts : k \in Sharing(first) /\ \A other \in Firsts : k \in Sharing(other) => other = first
    BY FirstOfFlow
  <1>11. PICK a \in 1 .. n : t[a] = first
    BY <1>3
  <1>12. PICK x \in 1 .. n : at[x] = a
    BY <1>9
  <1>13. ASSUME NEW m \in 1 .. n PROVE k \in ToSet(FlowGroups[m].of) <=> m = x
    <2>1. at[m] \in 1 .. n /\ ToSet(FlowGroups[m].of) = Sharing(t[at[m]]) /\ t[at[m]] \in Firsts
      BY <1>3, <1>5, <1>9
    <2>2. ASSUME k \in Sharing(t[at[m]]) PROVE m = x
      <3>1. t[at[m]] = t[a]
        BY <1>10, <1>11, <2>1, <2>2
      <3>2. t[a] \in Int
        BY <1>2, <1>3
      <3>3. at[m] = a
        BY <1>3, <2>1, <3>1, <3>2
      <3>. QED  BY <1>9, <1>12, <3>3
    <2>3. ASSUME m = x PROVE k \in Sharing(t[at[m]])
      BY <1>10, <1>11, <1>12, <2>3
    <2>. QED  BY <2>1, <2>2, <2>3
  <1>14. {m \in DOMAIN FlowGroups : k \in ToSet(FlowGroups[m].of)} = {x}
    BY <1>8, <1>13
  <1>. QED  BY <1>14, FS_Singleton

\* A graver finding weighs more, however few it affects.
LEMMA Weights ==
    ASSUME NEW c \in Nat, NEW r \in 1 .. 4, NEW q \in 1 .. 4, NEW a \in 0 .. c, NEW b \in 0 .. c,
           (c + 1) * r + a <= (c + 1) * q + b
    PROVE  r <= q
  <1>1. r \in {1, 2, 3, 4} /\ q \in {1, 2, 3, 4}
    OBVIOUS
  <1>2. CASE r = 1
    BY <1>1, <1>2
  <1>3. CASE r = 2
    BY <1>1, <1>3
  <1>4. CASE r = 3
    BY <1>1, <1>4
  <1>5. CASE r = 4
    BY <1>1, <1>5
  <1>. QED  BY <1>1, <1>2, <1>3, <1>4, <1>5

Weight(f) == (Len(Cohort) + 1) * Rank(f.severity) + Cardinality(f.personas)

LEMMA FindingWeight ==
    ASSUME NEW f, Sound(f)
    PROVE  /\ Weight(f) \in Int /\ Rank(f.severity) \in 1 .. 4 /\ Cardinality(f.personas) \in 0 .. Len(Cohort)
           /\ IsBlocking(f) <=> Rank(f.severity) >= 3
  <1>1. f.severity \in ToSet(Severities) /\ f.personas \subseteq ToSet(Cohort)
    BY DEF Sound
  <1>2. IsFiniteSet(ToSet(Cohort)) /\ Cardinality(ToSet(Cohort)) <= Len(Cohort) /\ Len(Cohort) \in Nat
    BY FiniteCohort
  <1>3. /\ IsFiniteSet(f.personas) /\ Cardinality(f.personas) <= Cardinality(ToSet(Cohort))
        /\ Cardinality(f.personas) \in Nat /\ Cardinality(ToSet(Cohort)) \in Nat
    BY <1>1, <1>2, FS_Subset, FS_CardinalityType
  <1>4. Rank(f.severity) \in 1 .. 4
    BY <1>1, Ranked
  <1>5. IsBlocking(f) <=> Rank(f.severity) >= 3
    BY <1>1, Ranked DEF IsBlocking
  <1>6. Weight(f) \in Int
    BY <1>2, <1>3, <1>4 DEF Weight
  <1>. QED  BY <1>2, <1>3, <1>4, <1>5, <1>6

\* Where an issue blocks, one that blocks is first to be fixed.
LEMMA PriorityLeads ==
    ASSUME Listed(findings), \A f \in ToSet(findings) : Sound(f), BlockingCount > 0
    PROVE  IsBlocking(PriorityOrder[1])
  <1>n. PICK n : n = Len(findings)
    OBVIOUS
  <1>k. PICK key : key = [k \in DOMAIN findings |-> Weight(findings[k])]
    OBVIOUS
  <1>s. PICK sorted : sorted = SortedBy(findings, key)
    OBVIOUS
  <1>1. /\ n \in Nat /\ DOMAIN findings = 1 .. n /\ findings \in Seq(ToSet(findings))
        /\ \A k \in 1 .. n : findings[k] \in ToSet(findings)
    BY <1>n, ListedFacts DEF Listed
  <1>2. \A k \in 1 .. n : Sound(findings[k])
    BY <1>1
  <1>3. key \in [DOMAIN findings -> Int]
    BY <1>1, <1>2, <1>k, FindingWeight
  <1>4. Listed(sorted) /\ Len(sorted) = n /\ Placed(sorted, findings, key, n)
    BY <1>3, <1>n, <1>s, SortedPlaces
  <1>5. PICK at \in [1 .. n -> 1 .. n] :
              /\ \A k \in 1 .. n : sorted[k] = findings[at[k]]
              /\ \A i \in 1 .. n : \E k \in 1 .. n : at[k] = i
              /\ \A i, k \in 1 .. n : i < k => key[at[k]] <= key[at[i]]
    BY <1>4 DEF Placed
  <1>6. PICK grave \in 1 .. n : IsBlocking(findings[grave])
    <2>1. CASE {k \in DOMAIN findings : IsBlocking(findings[k])} = {}
      BY <2>1, FS_EmptySet DEF BlockingCount
    <2>. QED  BY <1>1, <2>1
  <1>7. PICK x \in 1 .. n : at[x] = grave
    BY <1>5
  <1>8. 1 \in 1 .. n /\ at[1] \in 1 .. n
    BY <1>1, <1>5, <1>7
  <1>9. key[grave] <= key[at[1]]
    <2>1. CASE x = 1
      BY <1>1, <1>3, <1>7, <2>1
    <2>2. CASE 1 < x
      BY <1>5, <1>7, <1>8, <2>2
    <2>. QED  BY <2>1, <2>2
  <1>10. Rank(findings[grave].severity) <= Rank(findings[at[1]].severity)
    <2>c. PICK c : c = Len(Cohort)
      OBVIOUS
    <2>g. PICK g : g = findings[grave]
      OBVIOUS
    <2>h. PICK h : h = findings[at[1]]
      OBVIOUS
    <2>r. PICK r, q, a, b : r = Rank(g.severity) /\ q = Rank(h.severity)
                            /\ a = Cardinality(g.personas) /\ b = Cardinality(h.personas)
      OBVIOUS
    <2>1. Sound(g) /\ Sound(h)
      BY <1>2, <1>8, <2>g, <2>h
    <2>2. r \in 1 .. 4 /\ a \in 0 .. c
      BY <2>1, <2>c, <2>r, FindingWeight
    <2>3. q \in 1 .. 4 /\ b \in 0 .. c
      BY <2>1, <2>c, <2>r, FindingWeight
    <2>4. key[grave] = Weight(g) /\ key[at[1]] = Weight(h)
      BY <1>1, <1>8, <1>k, <2>g, <2>h
    <2>5. (c + 1) * r + a <= (c + 1) * q + b
      BY <1>9, <2>4, <2>c, <2>r DEF Weight
    <2>6. c \in Nat
      BY <2>c, FiniteCohort
    <2>7. r <= q
      BY ONLY <2>2, <2>3, <2>5, <2>6, Weights
    <2>. QED  BY <2>7, <2>r, <2>g, <2>h
  <1>11. IsBlocking(findings[at[1]])
    <2>1. Sound(findings[grave]) /\ Sound(findings[at[1]])
      BY <1>2, <1>8
    <2>2. /\ Rank(findings[grave].severity) >= 3 /\ Rank(findings[grave].severity) \in 1 .. 4
          /\ Rank(findings[at[1]].severity) \in 1 .. 4
      BY <1>6, <2>1, FindingWeight
    <2>. QED  BY <1>10, <2>1, <2>2, FindingWeight
  <1>12. PriorityOrder[1] = sorted[1]
    <2>1. PriorityOrder = UpTo(PriorityLimit, sorted)
      BY <1>k, <1>s DEF PriorityOrder, Weight
    <2>2. Listed(sorted)
      BY <1>4
    <2>3. PriorityLimit \in Nat /\ PriorityLimit >= 1
      BY LimitAssumption
    <2>4. /\ Len(PriorityOrder) = IF n < PriorityLimit THEN n ELSE PriorityLimit
          /\ Listed(PriorityOrder)
          /\ \A k \in DOMAIN PriorityOrder : PriorityOrder[k] = sorted[k]
      BY <1>4, <2>1, <2>2, <2>3, UpToItems
    <2>5. Len(PriorityOrder) >= 1 /\ DOMAIN PriorityOrder = 1 .. Len(PriorityOrder) /\ Len(PriorityOrder) \in Nat
      BY <1>1, <1>8, <2>3, <2>4, ListedFacts
    <2>6. 1 \in DOMAIN PriorityOrder
      BY <2>5
    <2>. QED  BY <2>4, <2>6
  <1>. QED  BY <1>5, <1>8, <1>11, <1>12

\* No verdict and no critique words an issue as the entry that stands for none.
Unmistaken == \A x \in ToSet(FromVerdicts) \cup ToSet(synthesis) : ~IsPlaceholder(x)

\* The findings are issues, or there is one entry at most and it is not grave.
AllIssues == \A f \in ToSet(findings) : ~IsPlaceholder(f)

OneEntry == Len(findings) <= 1 /\ \A f \in ToSet(findings) : f.severity = "low"

Marked == Unmistaken => AllIssues \/ OneEntry

LEMMA SameUnmistaken ==
    ASSUME UNCHANGED <<journeys, synthesis>>
    PROVE  UNCHANGED Unmistaken
  BY DEF Unmistaken, FromVerdicts

LEMMA FewerItems ==
    ASSUME NEW s, Listed(s), NEW P \in SUBSET DOMAIN s
    PROVE  Len(Those(s, P)) <= Len(s)
  <1>1. Len(s) \in Nat /\ DOMAIN s = 1 .. Len(s) /\ IsFiniteSet(DOMAIN s)
    BY ListedFacts
  <1>2. Cardinality(DOMAIN s) = Len(s)
    BY <1>1, FS_Interval
  <1>3. Cardinality(P) <= Cardinality(DOMAIN s)
    BY <1>1, FS_Subset
  <1>. QED  BY <1>2, <1>3, ThoseLists

\* What findings are made into is worded as they are.
LEMMA KeptMarked ==
    ASSUME Marked, NEW g, findings' = g, Len(g) <= Len(findings), Len(g) \in Nat, Len(findings) \in Nat,
           \A y \in ToSet(g) : \E x \in ToSet(findings) : y.title = x.title /\ y.severity = x.severity,
           UNCHANGED <<journeys, synthesis>>
    PROVE  Marked'
  <1>1. CASE ~Unmistaken
    BY <1>1, SameUnmistaken DEF Marked
  <1>2. CASE AllIssues
    <2>1. \A y \in ToSet(g) : ~IsPlaceholder(y)
      BY <1>2 DEF AllIssues, IsPlaceholder
    <2>. QED  BY <2>1 DEF Marked, AllIssues
  <1>3. CASE OneEntry
    <2>1. Len(g) <= 1 /\ \A y \in ToSet(g) : y.severity = "low"
      BY <1>3 DEF OneEntry
    <2>. QED  BY <2>1 DEF Marked, OneEntry
  <1>. QED  BY <1>1, <1>2, <1>3 DEF Marked

LEMMA NoFindingsMarked == findings = <<>> => Marked
  <1>1. findings = <<>> => ToSet(findings) = {}
    BY EmptyList
  <1>. QED  BY <1>1 DEF Marked, AllIssues

LEMMA CompileMarked ==
    ASSUME IInv, Compile
    PROVE  Marked'
  <1>1. findings' = Gathered /\ UNCHANGED <<journeys, synthesis>>
    BY DEF Compile, vision
  <1>2. Listed(synthesis) /\ Journeyed
    BY SynthesisItems DEF IInv
  <1>3. /\ Listed(Gathered)
        /\ ToSet(VisionFindings) = {synthesis[k] : k \in {m \in DOMAIN synthesis : ~ReadsAsPraise(synthesis[m])}}
        /\ \/ ToSet(Gathered) = ToSet(FromVerdicts) \cup ToSet(VisionFindings)
           \/ ToSet(FromVerdicts) \cup ToSet(VisionFindings) = {} /\ ToSet(Gathered) = {Blank}
    BY <1>2, GatheredItems
  <1>4. ToSet(VisionFindings) \subseteq ToSet(synthesis)
    <2>1. \A k \in DOMAIN synthesis : synthesis[k] \in ToSet(synthesis)
      BY <1>2, ListedFacts
    <2>. QED  BY <1>3, <2>1
  <1>5. CASE ToSet(Gathered) = ToSet(FromVerdicts) \cup ToSet(VisionFindings)
    <2>1. Unmistaken => \A f \in ToSet(Gathered) : ~IsPlaceholder(f)
      BY <1>4, <1>5 DEF Unmistaken
    <2>. QED  BY <1>1, <2>1, SameUnmistaken DEF Marked, AllIssues
  <1>6. CASE ToSet(FromVerdicts) \cup ToSet(VisionFindings) = {}
    <2>1. Gathered = <<Blank>>
      <3>v. PICK verdicts : verdicts = FromVerdicts
        OBVIOUS
      <3>w. PICK seen : seen = VisionFindings
        OBVIOUS
      <3>1. Listed(verdicts) /\ Listed(seen) /\ ToSet(verdicts) = {} /\ ToSet(seen) = {}
        BY <1>2, <1>6, <3>v, <3>w, VerdictItems, GatheredItems
      <3>2. Listed(verdicts \o seen) /\ ToSet(verdicts \o seen) = {}
        BY <3>1, JoinedLists
      <3>3. verdicts \o seen = <<>>
        BY <3>2 DEF Listed
      <3>. QED  BY <3>3, <3>v, <3>w DEF Gathered, FromVerdicts
    <2>2. Len(<<Blank>>) = 1 /\ ToSet(<<Blank>>) = {Blank}
      BY OneItem
    <2>3. Blank.severity = "low"
      BY DEF Blank
    <2>. QED  BY <1>1, <2>1, <2>2, <2>3 DEF Marked, OneEntry
  <1>. QED  BY <1>3, <1>5, <1>6

LEMMA InferMarked ==
    ASSUME Infer
    PROVE  Marked'
  <1>g. PICK about : about = [n \in DOMAIN Tasks |->
            [Blank EXCEPT !.title = {"Validate", "task", "clarity"} \cup Tasks[n], !.severity = "medium",
                          !.source = "task_text"]]
    OBVIOUS
  <1>1. findings' = about
    BY <1>g DEF Infer
  <1>2. \A f \in ToSet(about) : \E k \in DOMAIN Tasks : f = about[k]
    BY <1>g DEF ToSet
  <1>3. ASSUME NEW k \in DOMAIN Tasks PROVE ~IsPlaceholder(about[k])
    <2>b. PICK words : words = {"Validate", "task", "clarity"} \cup Tasks[k]
      OBVIOUS
    <2>1. about[k] = [Blank EXCEPT !.title = words, !.severity = "medium", !.source = "task_text"]
      BY <1>g, <2>b
    <2>2. about[k].title = words
      BY <2>1 DEF Blank
    <2>3. "Validate" \in words /\ "Validate" \notin Blank.title
      BY <2>b DEF Blank
    <2>. QED  BY <2>2, <2>3 DEF IsPlaceholder
  <1>4. \A f \in ToSet(findings') : ~IsPlaceholder(f)
    BY <1>1, <1>2, <1>3
  <1>. QED  BY <1>4 DEF Marked, AllIssues

\* The findings rewritten in their places are worded as they were.
LEMMA RewrittenMarked ==
    ASSUME IInv, Marked, NEW g, findings' = g, g = [k \in DOMAIN findings |-> g[k]],
           \A k \in DOMAIN findings : g[k].title = findings[k].title /\ g[k].severity = findings[k].severity,
           UNCHANGED <<journeys, synthesis>>
    PROVE  Marked'
  <1>1. Listed(findings)
    BY DEF IInv, Found
  <1>2. /\ Len(findings) \in Nat /\ DOMAIN findings = 1 .. Len(findings)
        /\ \A k \in DOMAIN findings : findings[k] \in ToSet(findings)
    BY <1>1, ListedFacts
  <1>3. Len(g) = Len(findings) /\ ToSet(g) = {g[k] : k \in 1 .. Len(findings)}
    <2>1. g = [k \in 1 .. Len(findings) |-> g[k]]
      BY <1>2
    <2>2. Len(findings) \in Nat
      BY <1>2
    <2>. QED  BY ONLY <2>1, <2>2, MappedList
  <1>4. \A y \in ToSet(g) : \E x \in ToSet(findings) : y.title = x.title /\ y.severity = x.severity
    BY <1>2, <1>3
  <1>. QED  BY <1>2, <1>3, <1>4, KeptMarked

LEMMA NextMarked ==
    ASSUME IInv, Marked, [Next]_vars
    PROVE  Marked'
  <1>1. CASE \/ Load \/ LoadFails \/ JourneyFails \/ CritiqueBreaksOff \/ JourneysDone \/ Aggregate
             \/ CritiqueRefused \/ Publish \/ UNCHANGED vars
             \/ (\E outcome \in Outcomes : RunJourney(outcome)) \/ (\E answer \in Critiques : Critique(answer))
    <2>1. CASE pc \in BeforeFindings
      <3>1. findings = <<>>
        BY <2>1 DEF IInv, Staged
      <3>2. UNCHANGED findings
        BY <1>1 DEF Load, LoadFails, JourneyFails, CritiqueBreaksOff, Fail, JourneysDone, Aggregate,
                    CritiqueRefused, Publish, vars, RunJourney, Critique, report
      <3>3. findings' = <<>>
        BY <3>1, <3>2
      <3>. QED  BY <3>3, EmptyList DEF Marked, AllIssues
    <2>2. CASE pc \notin BeforeFindings
      <3>1. Publish \/ UNCHANGED vars
        BY <1>1, <2>2 DEF Load, LoadFails, JourneyFails, CritiqueBreaksOff, Fail, JourneysDone, Aggregate,
                    CritiqueRefused, RunJourney, Critique, Running, BeforeFindings
      <3>2. UNCHANGED <<journeys, synthesis, findings>>
        BY <3>1 DEF Publish, vars, vision
      <3>3. UNCHANGED Unmistaken
        BY <3>2, SameUnmistaken
      <3>. QED  BY <3>2, <3>3 DEF Marked, AllIssues, OneEntry
    <2>. QED  BY <2>1, <2>2
  <1>2. CASE Compile
    BY <1>2, CompileMarked
  <1>3. CASE Infer
    BY <1>3, InferMarked
  <1>f. Listed(findings) /\ \A f \in ToSet(findings) : Sound(f)
    BY DEF IInv, Found
  <1>l. Len(findings) \in Nat
    BY <1>f, ListedFacts
  <1>4. CASE Merge
    <2>i. PICK items : items = Issues(findings)
      OBVIOUS
    <2>m. PICK merged : merged = MergeSimilarFindings(items)
      OBVIOUS
    <2>1. findings' = merged /\ UNCHANGED <<journeys, synthesis>>
      BY <1>4, <2>i, <2>m DEF Merge, vision
    <2>p. PICK P : P = {k \in DOMAIN findings : ~IsRunDiagnostic(findings[k])}
      OBVIOUS
    <2>2. Listed(items) /\ ToSet(items) \subseteq ToSet(findings) /\ Len(items) <= Len(findings)
      <3>1. items = Those(findings, P) /\ P \in SUBSET DOMAIN findings
        BY <2>i, <2>p DEF Issues
      <3>. QED  BY <1>f, <3>1, SomeFindings, FewerItems
    <2>3. /\ Listed(merged) /\ Len(merged) <= Len(items)
          /\ \A y \in ToSet(merged) : \E x \in ToSet(items) : y.title = x.title /\ y.severity = x.severity
      BY <1>f, <2>2, <2>m, MergedFindings
    <2>4. Len(merged) \in Nat /\ Len(items) \in Nat
      BY <2>2, <2>3, ListedFacts
    <2>5. Len(merged) <= Len(findings)
      BY <1>l, <2>2, <2>3, <2>4
    <2>6. \A y \in ToSet(merged) : \E x \in ToSet(findings) : y.title = x.title /\ y.severity = x.severity
      BY <2>2, <2>3
    <2>. QED  BY <1>l, <2>1, <2>4, <2>5, <2>6, KeptMarked
  <1>5. CASE DropUnverifiableQuotes
    <2>p. PICK P : P = {k \in DOMAIN findings : Invented(findings[k]) = {}}
      OBVIOUS
    <2>k. PICK kept : kept = Those(findings, P)
      OBVIOUS
    <2>1. findings' = kept /\ UNCHANGED <<journeys, synthesis>> /\ P \in SUBSET DOMAIN findings
      BY <1>5, <2>k, <2>p DEF DropUnverifiableQuotes, vision
    <2>2. Listed(kept) /\ ToSet(kept) \subseteq ToSet(findings) /\ Len(kept) <= Len(findings)
      BY <1>f, <2>1, <2>k, SomeFindings, FewerItems
    <2>3. Len(kept) \in Nat
      BY <2>2, ListedFacts
    <2>. QED  BY <1>l, <2>1, <2>2, <2>3, KeptMarked
  <1>6. CASE Attach
    <2>g. PICK g : g = [k \in DOMAIN findings |->
              [findings[k] EXCEPT !.quotes = PersonaEvidence(findings[k]),
                                  !.region = @ /\ findings[k].crop # None,
                                  !.crop = VerdictScreenshot(findings[k])]]
      OBVIOUS
    <2>1. findings' = g /\ UNCHANGED <<journeys, synthesis>>
      BY <1>6, <2>g DEF Attach, vision
    <2>2. Journeyed /\ narration \in {<<>>, Narration}
      BY DEF IInv, Narrated
    <2>3. ASSUME NEW k \in DOMAIN findings
          PROVE  g[k].title = findings[k].title /\ g[k].severity = findings[k].severity
      <3>f. PICK f : f = findings[k]
        OBVIOUS
      <3>1. Sound(f)
        BY <1>f, <3>f, ListedFacts
      <3>2. g[k] = [f EXCEPT !.quotes = PersonaEvidence(f), !.region = @ /\ f.crop # None, !.crop = VerdictScreenshot(f)]
        BY <2>g, <3>f
      <3>3. g[k].title = f.title /\ g[k].severity = f.severity
        BY <2>2, <3>1, <3>2, AttachedSound
      <3>. QED  BY <3>3, <3>f
    <2>4. g = [k \in DOMAIN findings |-> g[k]]
      BY <2>g
    <2>. QED  BY <2>1, <2>3, <2>4, RewrittenMarked
  <1>7. CASE AttachRedesigns
    <2>d. PICK drawn : findings' = [k \in DOMAIN findings |-> [findings[k] EXCEPT !.redesign = k \in drawn]]
      BY <1>7 DEF AttachRedesigns
    <2>g. PICK g : g = [k \in DOMAIN findings |-> [findings[k] EXCEPT !.redesign = k \in drawn]]
      OBVIOUS
    <2>1. findings' = g /\ UNCHANGED <<journeys, synthesis>>
      BY <1>7, <2>d, <2>g DEF AttachRedesigns, vision
    <2>2. \A f \in ToSet(findings) : Sound(f) /\ Grounded(f)
      BY DEF IInv, Found
    <2>3. ASSUME NEW k \in DOMAIN findings
          PROVE  g[k].title = findings[k].title /\ g[k].severity = findings[k].severity
      <3>f. PICK f : f = findings[k]
        OBVIOUS
      <3>1. Sound(f) /\ Grounded(f)
        BY <1>f, <2>2, <3>f, ListedFacts
      <3>2. PICK mine : mine = (k \in drawn)
        OBVIOUS
      <3>3. g[k] = [f EXCEPT !.redesign = mine]
        BY <2>g, <3>f, <3>2
      <3>. QED  BY <3>1, <3>3, <3>f, RedesignedSound
    <2>4. g = [k \in DOMAIN findings |-> g[k]]
      BY <2>g
    <2>. QED  BY <2>1, <2>3, <2>4, RewrittenMarked
  <1>. QED  BY <1>1, <1>2, <1>3, <1>4, <1>5, <1>6, <1>7
            DEF Next, JourneyStage, CritiqueStage, CompileStage

LEMMA NoItems ==
    ASSUME NEW s, Listed(s)
    PROVE  Len(s) = 0 <=> s = <<>>
  BY DEF Listed

LEMMA MarkedAlways == Spec => [](IInv /\ Marked)
  <1>1. Init => IInv /\ Marked
    <2>1. Init => findings = <<>>
      BY DEF Init
    <2>. QED  BY <2>1, InitIInv, NoFindingsMarked
  <1>2. IInv /\ Marked /\ [Next]_vars => (IInv /\ Marked)'
    BY NextIInv, NextMarked
  <1>. QED  BY <1>1, <1>2, PTL DEF Spec

\* The brief lists the gravest first.
LEMMA GravestFirst ==
    ASSUME Listed(findings), \A f \in ToSet(findings) : Sound(f), NEW ranked,
           ranked = SortedBy(findings, Severity(findings))
    PROVE  /\ Listed(ranked) /\ Len(ranked) = Len(findings) /\ ToSet(ranked) = ToSet(findings)
           /\ \A m, n \in DOMAIN ranked : m < n => Rank(ranked[n].severity) <= Rank(ranked[m].severity)
  <1>n. PICK n : n = Len(findings)
    OBVIOUS
  <1>k. PICK key : key = Severity(findings)
    OBVIOUS
  <1>1. DOMAIN findings = 1 .. n /\ n \in Nat /\ \A k \in DOMAIN findings : findings[k] \in ToSet(findings)
    BY <1>n, ListedFacts
  <1>2. \A k \in DOMAIN findings : findings[k].severity \in ToSet(Severities)
    BY <1>1 DEF Sound
  <1>3. key \in [DOMAIN findings -> Int]
    BY <1>2, <1>k, SeverityKeys
  <1>4. /\ Listed(ranked) /\ Len(ranked) = n /\ DOMAIN ranked = 1 .. n /\ ToSet(ranked) = ToSet(findings)
        /\ Placed(ranked, findings, key, n)
    BY <1>3, <1>k, <1>n, SortedPlaces
  <1>5. PICK at \in [1 .. n -> 1 .. n] :
              /\ \A k \in 1 .. n : ranked[k] = findings[at[k]]
              /\ \A i, k \in 1 .. n : i < k => key[at[k]] <= key[at[i]]
    BY <1>4 DEF Placed
  <1>6. \A k \in 1 .. n : key[at[k]] = Rank(ranked[k].severity)
    <2>1. \A i \in 1 .. n : key[i] = Rank(findings[i].severity)
      BY <1>1, <1>k DEF Severity
    <2>. QED  BY <1>5, <2>1
  <1>7. \A i, k \in 1 .. n : i < k => Rank(ranked[k].severity) <= Rank(ranked[i].severity)
    BY <1>5, <1>6
  <1>. QED  BY <1>4, <1>7, <1>n

RealPlaces == {k \in DOMAIN findings : ~IsPlaceholder(findings[k])}

\* The summary and the brief speak of the issues the report lists.
LEMMA SameIssues ==
    ASSUME IInv, Marked, Unmistaken
    PROVE  /\ Summary.blocking = BlockingCount
           /\ Len(Brief) = Summary.issues
           /\ \A m, n \in DOMAIN Brief : m < n => Rank(Brief[n].severity) <= Rank(Brief[m].severity)
  <1>1. Listed(findings) /\ \A f \in ToSet(findings) : Sound(f)
    BY DEF IInv, Found
  <1>2. /\ Len(findings) \in Nat /\ DOMAIN findings = 1 .. Len(findings)
        /\ \A k \in DOMAIN findings : findings[k] \in ToSet(findings)
    BY <1>1, ListedFacts
  <1>r. PICK ranked : ranked = SortedBy(findings, Severity(findings))
    OBVIOUS
  <1>3. /\ Listed(ranked) /\ Len(ranked) = Len(findings) /\ ToSet(ranked) = ToSet(findings)
        /\ \A m, n \in DOMAIN ranked : m < n => Rank(ranked[n].severity) <= Rank(ranked[m].severity)
    BY <1>1, <1>r, GravestFirst
  <1>4. Brief = IF ranked = <<>> \/ IsPlaceholder(ranked[1]) THEN <<>> ELSE ranked
    BY <1>r DEF Brief
  <1>5. ranked # <<>> => 1 \in DOMAIN findings /\ ranked[1] \in ToSet(findings)
    <2>1. Len(ranked) \in Nat /\ DOMAIN ranked = 1 .. Len(ranked) /\ \A k \in DOMAIN ranked : ranked[k] \in ToSet(ranked)
      BY <1>3, ListedFacts
    <2>2. ranked # <<>> => Len(ranked) # 0
      BY <1>3 DEF Listed
    <2>. QED  BY <1>2, <1>3, <2>1, <2>2
  <1>6. /\ Summary.issues = Len(Real)
        /\ Summary.blocking = Cardinality({k \in DOMAIN Real : IsBlocking(Real[k])})
    BY DEF Summary
  <1>7. Real = Those(findings, RealPlaces) /\ RealPlaces \in SUBSET DOMAIN findings
    BY DEF Real, RealPlaces
  <1>8. CASE AllIssues
    <2>1. RealPlaces = DOMAIN findings
      BY <1>2, <1>8 DEF RealPlaces, AllIssues
    <2>2. Real = findings
      BY <1>1, <1>7, <2>1, AllItems
    <2>3. ranked # <<>> => ~IsPlaceholder(ranked[1])
      BY <1>5, <1>8 DEF AllIssues
    <2>4. Brief = ranked
      BY <1>4, <2>3
    <2>. QED  BY <1>3, <1>6, <2>2, <2>4 DEF BlockingCount
  <1>9. CASE OneEntry /\ ~AllIssues
    <2>1. PICK f \in ToSet(findings) : IsPlaceholder(f)
      BY <1>9 DEF AllIssues
    <2>2. PICK k \in DOMAIN findings : f = findings[k]
      BY <2>1 DEF ToSet
    <2>3. DOMAIN findings = {1} /\ k = 1
      BY <1>2, <1>9, <2>2 DEF OneEntry
    <2>4. \A x \in ToSet(findings) : x = f
      BY <2>2, <2>3 DEF ToSet
    <2>5. RealPlaces = {}
      BY <2>1, <2>2, <2>3 DEF RealPlaces
    <2>6. Real = <<>>
      BY <1>1, <1>7, <2>5, ThoseLists
    <2>7. Brief = <<>>
      BY <1>4, <1>5, <2>1, <2>4
    <2>8. BlockingCount = 0
      <3>1. ~IsBlocking(f)
        BY <1>9, <2>1 DEF OneEntry, IsBlocking
      <3>2. {m \in DOMAIN findings : IsBlocking(findings[m])} = {}
        BY <2>2, <2>3, <3>1
      <3>. QED  BY <3>2, FS_EmptySet DEF BlockingCount
    <2>9. Summary.blocking = 0
      <3>1. DOMAIN Real = {}
        BY <2>6
      <3>2. {m \in DOMAIN Real : IsBlocking(Real[m])} = {}
        BY <3>1
      <3>. QED  BY <1>6, <3>2, FS_EmptySet
    <2>. QED  BY <1>6, <2>6, <2>7, <2>8, <2>9
  <1>. QED  BY <1>8, <1>9 DEF Marked

\* The review lists the issues of the page.
LEMMA SameReview ==
    ASSUME Listed(findings)
    PROVE  /\ DOMAIN Review.issues = DOMAIN Real /\ Review.first = Presentation.first
           /\ \A n \in DOMAIN Real : /\ Real[n] = findings[Review.issues[n].of]
                                     /\ Review.issues[n] = Presentation.entries[Review.issues[n].of]
  <1>t. PICK t : t = Ascending(RealPlaces)
    OBVIOUS
  <1>1. RealPlaces \subseteq DOMAIN findings /\ IsFiniteSet(RealPlaces) /\ \A i \in RealPlaces : i \in Int
    <2>1. RealPlaces \subseteq DOMAIN findings
      BY DEF RealPlaces
    <2>2. IsFiniteSet(DOMAIN findings) /\ DOMAIN findings = 1 .. Len(findings) /\ Len(findings) \in Nat
      BY ListedFacts
    <2>. QED  BY <2>1, <2>2, FS_Subset
  <1>2. \A n \in DOMAIN t : t[n] \in DOMAIN findings
    <2>1. t \in [1 .. Cardinality(RealPlaces) -> RealPlaces]
      BY <1>1, <1>t, AscendingList
    <2>. QED  BY <1>1, <2>1
  <1>3. Real = [n \in DOMAIN t |-> findings[t[n]]]
    BY <1>t DEF Real, RealPlaces, Those
  <1>4. /\ Review.issues = [n \in DOMAIN t |-> [of |-> t[n], quotes |-> Quotes(findings[t[n]])]]
        /\ Review.first = Presentation.first
    BY <1>t DEF Review, RealPlaces
  <1>5. Presentation.entries = [k \in DOMAIN findings |-> [of |-> k, quotes |-> Quotes(findings[k])]]
    BY DEF Presentation
  <1>6. ASSUME NEW n \in DOMAIN t
        PROVE  /\ Review.issues[n].of = t[n] /\ Real[n] = findings[t[n]]
               /\ Review.issues[n] = Presentation.entries[t[n]]
    BY <1>2, <1>3, <1>4, <1>5, <1>6
  <1>. QED  BY <1>3, <1>4, <1>6

\* Where none of what is said is worded as the entry that stands for no issue,
\* the report, its figures, the deck, the page, the review and the brief agree
\* on the issues: none of them lists one more or one less, or two in another
\* order, and the gravest come first (compile_slides, _executive_summary,
\* _presentation, format_ux_report, generate_design_agent_brief).
THEOREM Views == Spec => [](Unmistaken => ViewsAgree)
  <1>1. IInv /\ Marked => (Unmistaken => ViewsAgree)
    <2>. SUFFICES ASSUME IInv, Marked, Unmistaken PROVE ViewsAgree
      OBVIOUS
    <2>1. Listed(findings) /\ (\A f \in ToSet(findings) : Sound(f)) /\ Listed(preserve)
      BY DEF IInv, Found
    <2>2. \A k \in DOMAIN findings : Cardinality({m \in DOMAIN FlowGroups : k \in ToSet(FlowGroups[m].of)}) = 1
      BY <2>1, SectionsOnce
    <2>s. PICK slides : slides = Those(Slides, {k \in DOMAIN Slides : Slides[k].shows = "issue"})
      OBVIOUS
    <2>n. PICK n : n = Len(Real)
      OBVIOUS
    <2>3. /\ Listed(Real) /\ Deck(Slides, n)
          /\ "no findings" \in Shown(Slides) <=> Real = <<>> /\ preserve = <<>>
      BY <2>1, <2>n, SlidesShown
    <2>4. n \in Nat /\ DOMAIN Real = 1 .. n
      BY <2>3, <2>n, ListedFacts
    <2>5. [m \in DOMAIN slides |-> slides[m].of] = [m \in DOMAIN Real |-> m]
      <3>d. PICK deck : deck = Slides
        OBVIOUS
      <3>1. Deck(deck, n) /\ slides = Those(deck, {k \in DOMAIN deck : deck[k].shows = "issue"})
        BY <2>3, <2>s, <3>d
      <3>2. n \in Nat
        BY <2>4
      <3>3. [m \in DOMAIN slides |-> slides[m].of] = [m \in 1 .. n |-> m]
        BY ONLY <3>1, <3>2, IssueSlides
      <3>. QED  BY <2>4, <3>3
    <2>6. Summary.issues = 0 /\ Summary.working = 0 <=> \E s \in ToSet(Slides) : s.shows = "no findings"
      <3>1. Summary.issues = Len(Real) /\ Summary.working = Len(preserve)
        BY DEF Summary
      <3>2. (Len(Real) = 0 <=> Real = <<>>) /\ (Len(preserve) = 0 <=> preserve = <<>>)
        BY <2>1, <2>3, NoItems
      <3>3. "no findings" \in Shown(Slides) <=> \E s \in ToSet(Slides) : s.shows = "no findings"
        BY DEF Shown
      <3>. QED  BY <2>3, <3>1, <3>2, <3>3
    <2>7. /\ Summary.blocking = BlockingCount /\ Len(Brief) = Summary.issues
          /\ \A m, k \in DOMAIN Brief : m < k => Rank(Brief[k].severity) <= Rank(Brief[m].severity)
      BY SameIssues
    <2>8. BlockingCount > 0 => IsBlocking(PriorityOrder[1])
      BY <2>1, PriorityLeads
    <2>9. /\ DOMAIN Review.issues = DOMAIN Real /\ Review.first = Presentation.first
          /\ \A k \in DOMAIN Real : /\ Real[k] = findings[Review.issues[k].of]
                                    /\ Review.issues[k] = Presentation.entries[Review.issues[k].of]
      BY <2>1, SameReview
    <2>. QED  BY <2>2, <2>5, <2>6, <2>7, <2>8, <2>9, <2>s, Zenon DEF ViewsAgree
  <1>. QED  BY <1>1, MarkedAlways, PTL
=============================================================================
