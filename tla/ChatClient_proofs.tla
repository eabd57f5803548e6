--------------------------- MODULE ChatClient_proofs ---------------------------
(***************************************************************************)
(* Proofs about one tab of the page, for any conversations, numbers of       *)
(* requests that wait at a time, page size and bounds.                       *)
(*                                                                         *)
(* First what sorting, cutting a page and merging do to the IDs in a         *)
(* sequence; then, over the types, one part of the invariant for each        *)
(* property: nothing twice, nothing foreign (Owned), no hole (Whole).        *)
(***************************************************************************)
EXTENDS ChatClient, FiniteSetTheorems, FunctionTheorems, SequenceTheorems,
        WellFoundedInduction, TLAPS

-------------------------------------------------------------------------------
\* Sorting

\* The entry at k does not come after the one at i.
NotAfter(v, k, i) == v[k] < v[i] \/ (v[k] = v[i] /\ k <= i)

\* Ranks are places, and no two entries have the same one.
LEMMA RanksArePlaces ==
    ASSUME NEW n \in Nat, NEW v \in [1..n -> Nat], Len(v) = n
    PROVE  [i \in 1..n |-> Rank(v, i)] \in Bijection(1..n, 1..n)
<1> DEFINE low(i) == {k \in 1..n : NotAfter(v, k, i)}
<1>0. \A i \in 1..n : Rank(v, i) = Cardinality(low(i))
    BY DEF Rank, NotAfter
<1>1. /\ IsFiniteSet(1..n)
      /\ Cardinality(1..n) = n
    BY FS_Interval
<1>2. \A i \in 1..n : i \in low(i) /\ low(i) \in SUBSET (1..n)
    BY DEF NotAfter
<1>3. \A i \in 1..n : IsFiniteSet(low(i)) /\ Rank(v, i) \in 1..n
    <2>1. TAKE i \in 1..n
    <2>2. IsFiniteSet(low(i)) /\ Cardinality(low(i)) <= n
        BY <1>1, <1>2, FS_Subset
    <2>3. Cardinality(low(i)) \in Nat /\ Cardinality(low(i)) # 0
        BY <1>2, <2>2, FS_CardinalityType, FS_EmptySet
    <2> HIDE DEF low
    <2>4. QED
        BY <1>0, <2>2, <2>3
<1>4. \A i, k \in 1..n : ~ NotAfter(v, i, k) => Rank(v, k) < Rank(v, i)
    <2>1. SUFFICES ASSUME NEW i \in 1..n, NEW k \in 1..n, ~ NotAfter(v, i, k)
                   PROVE  Rank(v, k) < Rank(v, i)
        OBVIOUS
    <2>2. \A h \in 1..n : NotAfter(v, h, k) => NotAfter(v, h, i)
        BY <2>1 DEF NotAfter
    <2>3. low(k) \subseteq low(i) /\ i \notin low(k)
        BY <2>1, <2>2
    <2>4. low(k) # low(i)
        BY <1>2, <2>3
    <2> HIDE DEF low
    <2>5. Cardinality(low(k)) <= Cardinality(low(i)) /\ Cardinality(low(k)) # Cardinality(low(i))
        BY <1>3, <2>3, <2>4, FS_Subset
    <2>6. QED
        BY <1>0, <1>3, <2>5
<1> HIDE DEF low
<1>5. \A i, k \in 1..n : i # k => Rank(v, i) # Rank(v, k)
    <2>1. SUFFICES ASSUME NEW i \in 1..n, NEW k \in 1..n, i # k
                   PROVE  Rank(v, i) # Rank(v, k)
        OBVIOUS
    <2>2. ~ NotAfter(v, i, k) \/ ~ NotAfter(v, k, i)
        BY <2>1 DEF NotAfter
    <2>3. Rank(v, k) < Rank(v, i) \/ Rank(v, i) < Rank(v, k)
        BY <1>4, <2>2
    <2>4. Rank(v, i) \in Nat /\ Rank(v, k) \in Nat
        BY <1>3
    <2>5. QED
        BY <2>3, <2>4
<1> DEFINE rank == [i \in 1..n |-> Rank(v, i)]
<1>6. rank \in [1..n -> 1..n]
    BY <1>3
<1>7. \A i, k \in 1..n : rank[i] = rank[k] => i = k
    BY <1>5
<1> HIDE DEF rank
<1>8. rank \in Injection(1..n, 1..n)
    BY <1>6, <1>7, Fun_IsInj
<1>9. rank \in Surjection(1..n, 1..n)
    BY <1>1, <1>8, FS_Injection
<1>10. QED
    BY <1>8, <1>9, Fun_IsBij DEF rank

\* Sorting puts every entry into one place.
LEMMA InOrderPermutes ==
    ASSUME NEW n \in Nat, NEW v \in [1..n -> Nat], Len(v) = n
    PROVE  \E p \in [1..n -> 1..n] :
               /\ \A k \in 1..n : \E i \in 1..n : p[i] = k
               /\ \A i, k \in 1..n : p[i] = p[k] => i = k
               /\ InOrder(v) = [i \in 1..n |-> v[p[i]]]
<1> DEFINE rank == [i \in 1..n |-> Rank(v, i)]
           p    == [k \in 1..n |-> CHOOSE i \in 1..n : Rank(v, i) = k]
<1>1. /\ \A i, k \in 1..n : rank[i] = rank[k] => i = k
      /\ \A k \in 1..n : \E i \in 1..n : rank[i] = k
      /\ rank \in [1..n -> 1..n]
    <2>1. rank \in Bijection(1..n, 1..n)
        BY RanksArePlaces
    <2> HIDE DEF rank
    <2>2. QED
        BY <2>1, Zenon DEF Bijection, Injection, Surjection, IsInjective
<1>2. \A k \in 1..n : p[k] \in 1..n /\ Rank(v, p[k]) = k
    BY <1>1
<1>3. \A k \in 1..n : p[Rank(v, k)] = k
    BY <1>1, <1>2
<1>4. \A k \in 1..n : Rank(v, k) \in 1..n
    BY <1>1
<1>5. InOrder(v) = [i \in 1..n |-> v[p[i]]]
    BY DEF InOrder
<1>6. p \in [1..n -> 1..n]
    BY <1>2
<1> HIDE DEF p, rank
<1>7. \A k \in 1..n : \E i \in 1..n : p[i] = k
    BY <1>3, <1>4
<1>8. \A i, k \in 1..n : p[i] = p[k] => i = k
    BY <1>2
<1>9. QED
    BY <1>5, <1>6, <1>7, <1>8

\* The entries of sequences.
LEMMA IdsOfSeq ==
    ASSUME NEW S, NEW v \in Seq(S)
    PROVE  Ids(v) \subseteq S
BY DEF Ids

LEMMA SeqOfIds ==
    ASSUME NEW S, NEW T, NEW v \in Seq(T), Ids(v) \subseteq S
    PROVE  v \in Seq(S)
<1>1. Len(v) \in Nat /\ v \in [1..Len(v) -> T]
    OBVIOUS
<1>2. \A i \in 1..Len(v) : v[i] \in S
    BY DEF Ids
<1>3. v \in [1..Len(v) -> S]
    BY <1>1, <1>2
<1>4. QED
    BY <1>1, <1>3

LEMMA IdsOfAppend ==
    ASSUME NEW S, NEW v \in Seq(S), NEW x \in S
    PROVE  Ids(Append(v, x)) = Ids(v) \cup {x}
<1>1. /\ Len(Append(v, x)) = Len(v) + 1 /\ Len(v) \in Nat
      /\ \A i \in 1..Len(v) : Append(v, x)[i] = v[i]
      /\ Append(v, x)[Len(v) + 1] = x
    OBVIOUS
<1>2. 1..(Len(v) + 1) = (1..Len(v)) \cup {Len(v) + 1}
    BY <1>1
<1>3. QED
    BY <1>1, <1>2 DEF Ids

LEMMA IdsOfConcat ==
    ASSUME NEW S, NEW v \in Seq(S), NEW w \in Seq(S)
    PROVE  Ids(v \o w) = Ids(v) \cup Ids(w)
<1>1. /\ Len(v \o w) = Len(v) + Len(w) /\ Len(v) \in Nat /\ Len(w) \in Nat
      /\ \A i \in 1..Len(v) : (v \o w)[i] = v[i]
      /\ \A i \in 1..Len(w) : (v \o w)[Len(v) + i] = w[i]
    <2>1. /\ Len(v \o w) = Len(v) + Len(w) /\ Len(v) \in Nat /\ Len(w) \in Nat
          /\ \A i \in 1..(Len(v) + Len(w)) :
                (v \o w)[i] = IF i <= Len(v) THEN v[i] ELSE w[i - Len(v)]
        BY ConcatProperties
    <2>2. QED
        BY <2>1, SMTT(30)
<1>2. Ids(v) \cup Ids(w) \subseteq Ids(v \o w)
    BY <1>1 DEF Ids
<1>3. Ids(v \o w) \subseteq Ids(v) \cup Ids(w)
    <2>1. SUFFICES ASSUME NEW i \in 1..(Len(v) + Len(w))
                   PROVE  (v \o w)[i] \in Ids(v) \cup Ids(w)
        BY <1>1 DEF Ids
    <2>2. CASE i <= Len(v)
        BY <1>1, <2>2 DEF Ids
    <2>3. CASE i > Len(v)
        <3>1. i - Len(v) \in 1..Len(w) /\ Len(v) + (i - Len(v)) = i
            BY <1>1, <2>3
        <3>2. QED
            BY <1>1, <3>1 DEF Ids
    <2>4. QED
        BY <1>1, <2>2, <2>3
<1>4. QED
    BY <1>2, <1>3

\* Sorting keeps the entries, and repeats none.
LEMMA InOrderKeeps ==
    ASSUME NEW S \in SUBSET Nat, NEW v \in Seq(S)
    PROVE  /\ InOrder(v) \in Seq(S)
           /\ Len(InOrder(v)) = Len(v)
           /\ Ids(InOrder(v)) = Ids(v)
           /\ IsInjective(v) => IsInjective(InOrder(v))
<1> DEFINE n == Len(v)
<1>1. n \in Nat /\ v \in [1..n -> S] /\ v \in [1..n -> Nat]
    <2>1. n \in Nat /\ v \in [1..n -> S]
        OBVIOUS
    <2> HIDE DEF n
    <2>2. v \in [1..n -> Nat]
        BY <2>1
    <2>3. QED
        BY <2>1, <2>2
<1> HIDE DEF n
<1>2. PICK p \in [1..n -> 1..n] :
               /\ \A k \in 1..n : \E i \in 1..n : p[i] = k
               /\ \A i, k \in 1..n : p[i] = p[k] => i = k
               /\ InOrder(v) = [i \in 1..n |-> v[p[i]]]
    BY <1>1, InOrderPermutes DEF n
<1>3. InOrder(v) \in [1..n -> S]
    BY <1>1, <1>2
<1>4. InOrder(v) \in Seq(S) /\ Len(InOrder(v)) = n
    BY <1>1, <1>3
<1>5. Ids(InOrder(v)) = Ids(v)
    <2>1. \A i \in 1..n : InOrder(v)[i] = v[p[i]] /\ p[i] \in 1..n
        BY <1>2
    <2>2. \A k \in 1..n : \E i \in 1..n : InOrder(v)[i] = v[k]
        <3>1. TAKE k \in 1..n
        <3>2. PICK i \in 1..n : p[i] = k
            BY <1>2
        <3>3. InOrder(v)[i] = v[k]
            BY <2>1, <3>2
        <3>4. QED
            BY <3>3
    <2>3. \A i \in 1..n : InOrder(v)[i] \in Ids(v)
        BY <2>1 DEF Ids, n
    <2>4. \A k \in 1..n : v[k] \in Ids(InOrder(v))
        BY <1>4, <2>2 DEF Ids
    <2>5. QED
        BY <1>4, <2>3, <2>4 DEF Ids, n
<1>6. IsInjective(v) => IsInjective(InOrder(v))
    <2>1. DOMAIN v = 1..n
        BY <1>1
    <2>4. DOMAIN InOrder(v) = 1..n
        BY <1>3
    <2>2. \A i \in 1..n : InOrder(v)[i] = v[p[i]] /\ p[i] \in 1..n
        BY <1>2
    <2>3. ASSUME \A a, b \in 1..n : v[a] = v[b] => a = b,
                 NEW i \in 1..n, NEW k \in 1..n, InOrder(v)[i] = InOrder(v)[k]
          PROVE  i = k
        <3>1. v[p[i]] = v[p[k]] /\ p[i] \in 1..n /\ p[k] \in 1..n
            BY <2>2, <2>3
        <3>2. p[i] = p[k]
            BY <2>3, <3>1
        <3>3. QED
            BY <1>2, <3>2
    <2>5. QED
        BY <2>1, <2>3, <2>4, Zenon DEF IsInjective
<1>7. QED
    BY <1>4, <1>5, <1>6 DEF n

\* A set, sorted: each of its members once.
LEMMA SortedLists ==
    ASSUME NEW S \in SUBSET Nat, IsFiniteSet(S)
    PROVE  /\ Sorted(S) \in Seq(S)
           /\ Ids(Sorted(S)) = S
           /\ IsInjective(Sorted(S))
<1> DEFINE n == Cardinality(S)
           f == SetToSeq(S)
<1>1. n \in Nat /\ ExistsBijection(1..n, S)
    BY FS_CardinalityType
<1>2. \E g \in [1..n -> S] : IsInjective(g)
    BY <1>1, Zenon DEF ExistsBijection, Bijection, Injection
<1>3. f \in [1..n -> S] /\ IsInjective(f)
    BY <1>2, Zenon DEF SetToSeq
<1> HIDE DEF f
<1>4. f \in Surjection(1..n, S)
    <2>1. f \in Injection(1..n, S)
        BY <1>3, Zenon DEF Injection
    <2>2. Cardinality(1..n) = n
        BY <1>1, FS_Interval
    <2>3. QED
        BY <2>1, <2>2, FS_Injection
<1>5. f \in Seq(S) /\ Len(f) = n
    BY <1>1, <1>3
<1>6. Ids(f) = S
    <2>1. \A x \in S : \E i \in 1..n : f[i] = x
        BY <1>4, Zenon DEF Surjection
    <2>2. QED
        BY <1>3, <1>5, <2>1 DEF Ids
<1>7. Sorted(S) = InOrder(f)
    BY DEF Sorted, f
<1>8. QED
    BY <1>3, <1>5, <1>6, <1>7, InOrderKeeps

\* One sequence after another.
LEMMA InjectiveConcat ==
    ASSUME NEW S, NEW v \in Seq(S), NEW w \in Seq(S),
           IsInjective(v), IsInjective(w), Ids(v) \cap Ids(w) = {}
    PROVE  IsInjective(v \o w)
<1> DEFINE k == Len(v)
           n == Len(v) + Len(w)
           cat == v \o w
<1>1. /\ k \in Nat /\ Len(w) \in Nat /\ n = k + Len(w)
      /\ Len(cat) = n /\ DOMAIN cat = 1..n
      /\ DOMAIN v = 1..k /\ DOMAIN w = 1..Len(w)
      /\ \A i \in 1..n : cat[i] = IF i <= k THEN v[i] ELSE w[i - k]
    BY ConcatProperties
<1> HIDE DEF k, n, cat
<1>2. \A i \in 1..n : i <= k => i \in 1..k /\ cat[i] = v[i]
    BY <1>1
<1>3. \A i \in 1..n : i > k => i - k \in 1..Len(w) /\ cat[i] = w[i - k]
    BY <1>1
<1>4. \A i \in 1..k : v[i] \in Ids(v)
    BY <1>1 DEF Ids, k
<1>5. \A i \in 1..Len(w) : w[i] \in Ids(w)
    BY DEF Ids
<1>6. \A i, j \in 1..n : i <= k /\ cat[i] = cat[j] => i = j
    <2>1. SUFFICES ASSUME NEW i \in 1..n, NEW j \in 1..n, i <= k, cat[i] = cat[j]
                   PROVE  i = j
        OBVIOUS
    <2>2. i \in 1..k /\ cat[i] = v[i]
        BY <1>2, <2>1
    <2>3. CASE j <= k
        <3>1. j \in 1..k /\ v[i] = v[j]
            BY <1>2, <2>1, <2>2, <2>3, Zenon
        <3>2. \A a, b \in 1..k : v[a] = v[b] => a = b
            BY <1>1 DEF IsInjective
        <3>3. QED
            BY <2>2, <3>1, <3>2, Zenon
    <2>4. CASE j > k
        <3>1. j - k \in 1..Len(w) /\ v[i] = w[j - k]
            BY <1>3, <2>1, <2>2, <2>4, Zenon
        <3>2. v[i] \in Ids(v) /\ w[j - k] \in Ids(w)
            BY <1>4, <1>5, <2>2, <3>1, Zenon
        <3>3. QED
            BY <3>1, <3>2, Zenon
    <2>5. QED
        BY <1>1, <2>3, <2>4
<1>7. \A i, j \in 1..n : i > k /\ j > k /\ cat[i] = cat[j] => i = j
    <2>1. SUFFICES ASSUME NEW i \in 1..n, NEW j \in 1..n, i > k, j > k,
                          cat[i] = cat[j]
                   PROVE  i = j
        OBVIOUS
    <2>2. i - k \in 1..Len(w) /\ j - k \in 1..Len(w) /\ w[i - k] = w[j - k]
        BY <1>3, <2>1, Zenon
    <2>3. i - k = j - k
        BY <1>1, <2>2 DEF IsInjective
    <2>4. QED
        BY <1>1, <2>3
<1>8. \A i, j \in 1..n : cat[i] = cat[j] => i = j
    <2>1. SUFFICES ASSUME NEW i \in 1..n, NEW j \in 1..n, cat[i] = cat[j]
                   PROVE  i = j
        OBVIOUS
    <2>2. i <= k \/ j <= k \/ (i > k /\ j > k)
        BY <1>1
    <2>3. QED
        BY <1>6, <1>7, <2>1, <2>2
<1>9. QED
    BY <1>1, <1>8 DEF IsInjective, cat

LEMMA InjectiveAppend ==
    ASSUME NEW S, NEW v \in Seq(S), NEW x \in S, IsInjective(v), x \notin Ids(v)
    PROVE  IsInjective(Append(v, x))
<1>1. /\ Len(v) \in Nat /\ DOMAIN v = 1..Len(v)
      /\ DOMAIN Append(v, x) = 1..(Len(v) + 1)
      /\ \A i \in 1..Len(v) : Append(v, x)[i] = v[i] /\ v[i] # x
      /\ Append(v, x)[Len(v) + 1] = x
    BY DEF Ids
<1>2. SUFFICES ASSUME NEW i \in 1..(Len(v) + 1), NEW j \in 1..(Len(v) + 1),
                      Append(v, x)[i] = Append(v, x)[j]
               PROVE  i = j
    BY <1>1 DEF IsInjective
<1>3. (i \in 1..Len(v) \/ i = Len(v) + 1) /\ (j \in 1..Len(v) \/ j = Len(v) + 1)
    BY <1>1
<1>4. CASE i \in 1..Len(v) /\ j \in 1..Len(v)
    BY <1>1, <1>2, <1>4 DEF IsInjective
<1>5. QED
    BY <1>1, <1>2, <1>3, <1>4

\* The last entry is one of them.
LEMMA LastIsEntry ==
    ASSUME NEW S, NEW v \in Seq(S), Ids(v) # {}
    PROVE  Len(v) \in 1..Len(v) /\ v[Len(v)] \in Ids(v)
<1>1. Len(v) \in Nat /\ Len(v) # 0
    BY DEF Ids
<1>2. QED
    BY <1>1 DEF Ids

-------------------------------------------------------------------------------
\* The newest

LEMMA Least ==
    ASSUME NEW S \in SUBSET Nat, S # {}
    PROVE  \E x \in S : \A y \in S : x <= y
<1>1. PICK x \in S : \A y \in S : ~ (<<y, x>> \in OpToRel(<, Nat))
    BY NatLessThanWellFounded, WFMin
<1>2. \A y \in S : ~ (y < x)
    BY <1>1 DEF OpToRel
<1>3. QED
    BY <1>2

LEMMA NewestIsGreatest ==
    ASSUME NEW k \in Nat, NEW S \in SUBSET (0..k), S # {}
    PROVE  NewestOf(S) \in S /\ \A n \in S : n <= NewestOf(S)
<1> DEFINE bounds == {x \in Nat : \A n \in S : n <= x}
<1>1. PICK x \in bounds : \A y \in bounds : x <= y
    <2>1. k \in bounds /\ bounds \in SUBSET Nat
        OBVIOUS
    <2> HIDE DEF bounds
    <2>2. QED
        BY <2>1, Least
<1>2. x \in S
    <2>1. SUFFICES ASSUME x \notin S  PROVE FALSE
        OBVIOUS
    <2>2. \A n \in S : n <= x /\ n # x /\ n \in Nat
        BY <1>1, <2>1
    <2>3. x # 0
        <3>1. PICK n \in S : TRUE
            OBVIOUS
        <3>2. n <= x /\ n # x /\ n \in Nat
            BY <2>2
        <3>3. QED
            BY <3>2
    <2>4. x - 1 \in bounds
        BY <1>1, <2>2, <2>3
    <2>5. x <= x - 1
        BY <1>1, <2>4
    <2>6. x \in Nat
        BY <1>1 DEF bounds
    <2>7. QED
        BY <2>5, <2>6
<1>3. \E m \in S : \A n \in S : n <= m
    BY <1>1, <1>2
<1>4. QED
    BY <1>3 DEF NewestOf

\* The cursor of a catch-up is a message that the view has, unless it has none.
LEMMA CursorIsReal ==
    ASSUME NEW T, NEW v \in Seq(T), RealIn(v) # {}
    PROVE  Cursor(v) \in RealIn(v)
<1> DEFINE reals == {i \in 1..Len(v) : v[i] \in Real}
<1>1. Len(v) \in Nat /\ reals \in SUBSET (0..Len(v))
    OBVIOUS
<1>2. reals # {}
    BY DEF RealIn, Ids
<1>3. Cursor(v) = v[NewestOf(reals)]
    BY <1>2 DEF Cursor
<1>4. NewestOf(reals) \in reals
    <2> HIDE DEF reals
    <2>1. QED
        BY <1>1, <1>2, NewestIsGreatest
<1>5. QED
    BY <1>3, <1>4 DEF RealIn, Ids

\* Of the messages asked for, a page has all after the first that it has.
LEMMA PageIsUpToDate ==
    ASSUME ChatAssumption, NEW S \in SUBSET Nat, IsFiniteSet(S),
           NEW m \in NewestPage(S), NEW n \in S, m < n
    PROVE  n \in NewestPage(S)
<1> DEFINE after(x) == {k \in S : k > x}
<1>1. after(n) \in SUBSET after(m)
    <2>1. m \in Nat /\ n \in Nat
        BY DEF NewestPage
    <2>2. \A x \in S : x > n => x > m
        BY <2>1
    <2>3. QED
        BY <2>2
<1>2. IsFiniteSet(after(m)) /\ IsFiniteSet(after(n))
    BY FS_Subset
<1>3. Cardinality(after(m)) < Page
    BY DEF NewestPage
<1> HIDE DEF after
<1>4. Cardinality(after(n)) <= Cardinality(after(m))
    BY <1>1, <1>2, FS_Subset
<1>5. Cardinality(after(n)) \in Nat /\ Cardinality(after(m)) \in Nat
    BY <1>2, FS_CardinalityType
<1>6. Page \in Nat
    BY DEF ChatAssumption
<1>7. Cardinality(after(n)) < Page
    BY <1>3, <1>4, <1>5, <1>6
<1>8. QED
    BY <1>7 DEF NewestPage, after

-------------------------------------------------------------------------------
\* The inductive invariant, in parts

\* Messages that Garmin has, and entries that this tab has sent.
Known == 1..Len(timeline) \cup (MaxMessages + 1)..(MaxMessages + Len(sending))

\* Those of c.
Theirs(c) == {id \in Known : ConvOf(id) = c}

Message == [conv : Convs, own : BOOLEAN]
Request == [kind : {"idle", "get", "load", "catchup", "older", "send", "sent"},
            conv : Convs \cup {None}, cursor : {None} \cup Known, since : 0..Len(timeline)]
Races   == {"mixed", "echo", "gap", "late", "cut", "unsent"}

\* What Garmin has and what was sent fit their bounds.
Messages ==
    /\ timeline \in Seq(Message) /\ Len(timeline) <= MaxMessages
    /\ sending \in Seq(Convs) /\ Len(sending) <= MaxSends

\* The page, and what it asked, have only messages that there are.
PageType ==
    /\ {current, shown} \subseteq Convs \cup {None}
    /\ view \in Seq(Known)
    /\ store \in [Convs -> Seq(Known)]
    /\ cached \subseteq Convs
    /\ reads \in [Convs -> {None} \cup Known]
    /\ request \in [Requests -> Request]
    /\ timer \in BOOLEAN /\ steps \in 0..MaxSteps /\ races \subseteq Races

\* A request is about a conversation; what is being sent belongs to it, and so does
\* the message that Garmin made of it; a page of older messages is asked from a
\* message, and so is a catch-up, unless there was none.
Sound(q) ==
    /\ q.kind # "idle" => q.conv \in Convs
    /\ q.kind \in {"send", "sent"} => q.cursor \in Theirs(q.conv) \cap Sending
    /\ q.kind = "sent" => q.since \in Of(q.conv)
    /\ q.kind = "older" => q.cursor \in Real
    /\ q.kind = "catchup" => q.cursor \in Real \/ "gap" \in races

Asks == \A r \in Requests : Sound(request[r])

Types == Messages /\ PageType /\ Asks

\* Until the view of one conversation is used under the name of another: what is
\* in the view, in the store and in the marks is of the conversation it is for.
Owned ==
    "mixed" \notin races =>
        /\ shown = None => view = <<>>
        /\ \A c \in Convs : /\ shown = c => Ids(view) \subseteq Theirs(c)
                            /\ Ids(store[c]) \subseteq Theirs(c)
                            /\ reads[c] \in Theirs(c) \cup {None}
                            /\ "unsent" \notin races => reads[c] \notin Sending

\* Of some messages, ids has all between any two that it has.
Unbroken(ids, messages) ==
    \A m \in messages : \A lo, hi \in ids \cap Real : lo < m /\ m < hi => m \in ids

\* Until something leaves a gap or is late, a catch-up is cut, or the view of one
\* conversation is used under the name of another: nothing is missing between what
\* is in the view, or in the store.
Whole ==
    races \cap {"gap", "late", "mixed", "cut"} = {} =>
        \A c \in Convs : /\ shown = c => Unbroken(Ids(view), Of(c))
                        /\ Unbroken(Ids(store[c]), Of(c))

-------------------------------------------------------------------------------
\* What there is only grows

Grows ==
    /\ \/ timeline' = timeline
       \/ \E m \in Message : timeline' = Append(timeline, m) /\ Len(timeline) < MaxMessages
    /\ \/ sending' = sending
       \/ \E c \in Convs : sending' = Append(sending, c) /\ Len(sending) < MaxSends

LEMMA MessagesGrow ==
    ASSUME ChatAssumption, Types, Next
    PROVE  Grows /\ races \subseteq races'
<1>1. current \in Convs \cup {None} /\ current # None => current \in Convs
    BY DEF Types, PageType
<1>2. ASSUME NEW r \in Requests, \E c \in Convs : SelectConversation(r, c)
      PROVE  Grows /\ races \subseteq races'
    BY <1>2 DEF SelectConversation, Grows
<1>3. ASSUME NEW r \in Requests, GetDone(r)
      PROVE  Grows /\ races \subseteq races'
    BY <1>3 DEF GetDone, Grows
<1>4. ASSUME NEW r \in Requests, LoadDone(r)
      PROVE  Grows /\ races \subseteq races'
    BY <1>4 DEF LoadDone, Grows
<1>5. ASSUME NEW r \in Requests, TimerFires(r)
      PROVE  Grows /\ races \subseteq races'
    BY <1>5 DEF TimerFires, Grows
<1>6. ASSUME NEW r \in Requests, CatchUpDone(r)
      PROVE  Grows /\ races \subseteq races'
    BY <1>6 DEF CatchUpDone, Grows
<1>7. ASSUME NEW r \in Requests, LoadOlder(r)
      PROVE  Grows /\ races \subseteq races'
    BY <1>7 DEF LoadOlder, Grows
<1>8. ASSUME NEW r \in Requests, OlderDone(r)
      PROVE  Grows /\ races \subseteq races'
    BY <1>8 DEF OlderDone, Grows
<1>9. ASSUME NEW r \in Requests, SendMessage(r)
      PROVE  Grows /\ races \subseteq races'
    <2>1. /\ timeline' = timeline /\ sending' = Append(sending, current)
          /\ Len(sending) < MaxSends /\ current # None
          /\ races \subseteq races'
        BY <1>9 DEF SendMessage
    <2>2. current \in Convs
        BY <2>1 DEF Types, PageType
    <2>3. QED
        BY <2>1, <2>2 DEF Grows
<1>10. ASSUME NEW r \in Requests, Accept(r)
       PROVE  Grows /\ races \subseteq races'
    <2>1. /\ timeline' = Append(timeline, [conv |-> request[r].conv, own |-> TRUE])
          /\ sending' = sending /\ races' = races
          /\ request[r].kind = "send" /\ Len(timeline) < MaxMessages
        BY <1>10 DEF Accept
    <2>2. request[r].conv \in Convs
        BY <2>1 DEF Types, Asks, Sound
    <2>3. [conv |-> request[r].conv, own |-> TRUE] \in Message
        BY <2>2 DEF Message
    <2>4. QED
        BY <2>1, <2>3 DEF Grows
<1>11. ASSUME NEW r \in Requests, SendDone(r)
       PROVE  Grows /\ races \subseteq races'
    BY <1>11 DEF SendDone, Grows
<1>12. ASSUME NEW r \in Requests, Fails(r)
       PROVE  Grows /\ races \subseteq races'
    BY <1>12 DEF Fails, Grows
<1>13. ASSUME NEW c \in Convs, Arrive(c)
       PROVE  Grows /\ races \subseteq races'
    <2>1. [conv |-> c, own |-> FALSE] \in Message
        BY DEF Message
    <2>2. QED
        BY <1>13, <2>1 DEF Arrive, Grows
<1>14. ASSUME NEW m \in Real, HandleIncoming(m)
       PROVE  Grows /\ races \subseteq races'
    BY <1>14 DEF HandleIncoming, Grows
<1>15. ASSUME DeselectConversation \/ RunCatchUp \/ FlushReads \/ Reload
       PROVE  Grows /\ races \subseteq races'
    BY <1>15 DEF DeselectConversation, RunCatchUp, FlushReads, Reload, Grows
<1>16. QED
    BY <1>2, <1>3, <1>4, <1>5, <1>6, <1>7, <1>8, <1>9, <1>10, <1>11, <1>12, <1>13,
       <1>14, <1>15 DEF Next

\* What is known stays known, of the same conversation; and a message that is new
\* is newer than all.
LEMMA KnownGrows ==
    ASSUME ChatAssumption, Messages, Grows
    PROVE  /\ Messages'
           /\ Len(timeline) <= Len(timeline)' /\ Len(timeline) \in Nat /\ Len(timeline)' \in Nat
           /\ Known \subseteq Known'
           /\ \A c : Theirs(c) \subseteq Theirs(c)' /\ Of(c) \subseteq Of(c)'
           /\ \A c : \A m \in Of(c)' : m \in Of(c) \/ m > Len(timeline)
<1>1. /\ timeline \in Seq(Message) /\ Len(timeline) \in Nat
      /\ sending \in Seq(Convs) /\ Len(sending) \in Nat
      /\ MaxMessages \in Nat /\ MaxSends \in Nat
      /\ Len(timeline) <= MaxMessages /\ Len(sending) <= MaxSends
    BY DEF Messages, ChatAssumption
<1>2. /\ timeline' \in Seq(Message) /\ Len(timeline') \in Nat /\ Len(timeline') <= MaxMessages
      /\ Len(timeline) <= Len(timeline')
      /\ \A m \in 1..Len(timeline) : timeline'[m] = timeline[m]
    <2>1. CASE timeline' = timeline
        BY <1>1, <2>1
    <2>2. CASE \E m \in Message : timeline' = Append(timeline, m) /\ Len(timeline) < MaxMessages
        BY <1>1, <2>2
    <2>3. QED
        BY <2>1, <2>2 DEF Grows
<1>3. /\ sending' \in Seq(Convs) /\ Len(sending') \in Nat /\ Len(sending') <= MaxSends
      /\ Len(sending) <= Len(sending')
      /\ \A i \in 1..Len(sending) : sending'[i] = sending[i]
    <2>1. CASE sending' = sending
        BY <1>1, <2>1
    <2>2. CASE \E c \in Convs : sending' = Append(sending, c) /\ Len(sending) < MaxSends
        BY <1>1, <2>2
    <2>3. QED
        BY <2>1, <2>2 DEF Grows
<1>4. Messages'
    BY <1>2, <1>3 DEF Messages
<1>5. Known \subseteq Known'
    BY <1>1, <1>2, <1>3 DEF Known
<1>6. \A id \in Known : ConvOf(id)' = ConvOf(id)
    <2>1. TAKE id \in Known
    <2>2. CASE id \in 1..Len(timeline)
        <3>1. id \in Real
            BY <1>1, <2>2 DEF Real
        <3>2. QED
            BY <1>2, <2>2, <3>1 DEF ConvOf
    <2>3. CASE id \in (MaxMessages + 1)..(MaxMessages + Len(sending))
        <3>1. id \notin Real /\ id - MaxMessages \in 1..Len(sending)
            BY <1>1, <2>3 DEF Real
        <3>2. QED
            BY <1>3, <3>1 DEF ConvOf
    <2>4. QED
        BY <2>2, <2>3 DEF Known
<1>7. \A c : Theirs(c) \subseteq Theirs(c)'
    <2>1. SUFFICES ASSUME NEW c, NEW id \in Theirs(c)
                   PROVE  id \in Theirs(c)'
        BY Zenon
    <2>2. id \in Known /\ ConvOf(id) = c
        BY DEF Theirs
    <2>3. id \in Known' /\ ConvOf(id)' = c
        BY <1>5, <1>6, <2>2
    <2>4. QED
        BY <2>3 DEF Theirs, ConvOf
<1>8. \A c : Of(c) \subseteq Of(c)'
    BY <1>1, <1>2 DEF Of
<1>9. \A c : \A m \in Of(c)' : m \in Of(c) \/ m > Len(timeline)
    BY <1>1, <1>2 DEF Of
<1>10. QED
    BY <1>1, <1>2, <1>4, <1>5, <1>7, <1>8, <1>9

LEMMA OfIsKnown ==
    ASSUME ChatAssumption, Messages, NEW c
    PROVE  /\ Of(c) \subseteq Theirs(c) \cap Real
           /\ Of(c) \subseteq 1..Len(timeline)
           /\ Known \subseteq Nat \ {0}
           /\ Known \subseteq Real \cup Sending
           /\ IsFiniteSet(Of(c))
<1>1. /\ Len(timeline) \in Nat /\ Len(sending) \in Nat
      /\ MaxMessages \in Nat /\ MaxSends \in Nat
      /\ Len(timeline) <= MaxMessages /\ Len(sending) <= MaxSends
    BY DEF Messages, ChatAssumption
<1>2. Of(c) \subseteq 1..Len(timeline)
    BY DEF Of
<1>3. Known \subseteq Nat \ {0} /\ Known \subseteq Real \cup Sending
    BY <1>1 DEF Known, Real, Sending
<1>4. 1..Len(timeline) \subseteq Real /\ 1..Len(timeline) \subseteq Known
    BY <1>1 DEF Known, Real
<1>5. \A m \in Of(c) : ConvOf(m) = c
    BY <1>2, <1>4 DEF Of, ConvOf
<1>6. IsFiniteSet(Of(c))
    <2>1. IsFiniteSet(1..Len(timeline))
        BY <1>1, FS_Interval
    <2>2. QED
        BY <1>2, <2>1, FS_Subset
<1>7. QED
    BY <1>2, <1>3, <1>4, <1>5, <1>6 DEF Theirs

-------------------------------------------------------------------------------
\* What becomes of the view

LEMMA PageView ==
    ASSUME ChatAssumption, Messages, NEW c, NEW S \in SUBSET Of(c)
    PROVE  Sorted(S) \in Seq(Known) /\ Ids(Sorted(S)) = S /\ IsInjective(Sorted(S))
<1>1. S \in SUBSET Nat /\ IsFiniteSet(S) /\ S \subseteq Known
    <2>1. Of(c) \subseteq Known /\ Of(c) \subseteq Nat /\ IsFiniteSet(Of(c))
        BY OfIsKnown DEF Theirs
    <2>2. QED
        BY <2>1, FS_Subset
<1>2. Sorted(S) \in Seq(S) /\ Ids(Sorted(S)) = S /\ IsInjective(Sorted(S))
    BY <1>1, SortedLists
<1>3. Sorted(S) \in Seq(Known)
    BY <1>1, <1>2, SeqOfIds
<1>4. QED
    BY <1>2, <1>3

LEMMA OlderView ==
    ASSUME ChatAssumption, Messages, view \in Seq(Known),
           NEW c, NEW S \in SUBSET Of(c), S \cap Ids(view) = {}
    PROVE  /\ Sorted(S) \o view \in Seq(Known)
           /\ Ids(Sorted(S) \o view) = Ids(view) \cup S
           /\ IsInjective(view) => IsInjective(Sorted(S) \o view)
<1> DEFINE v == Sorted(S)
<1>1. v \in Seq(Known) /\ Ids(v) = S /\ IsInjective(v)
    BY PageView
<1> HIDE DEF v
<1>2. v \o view \in Seq(Known)
    BY <1>1, ConcatProperties
<1>3. Ids(v \o view) = Ids(view) \cup S
    BY <1>1, IdsOfConcat
<1>4. IsInjective(view) => IsInjective(v \o view)
    BY <1>1, InjectiveConcat
<1>5. QED
    BY <1>2, <1>3, <1>4 DEF v

LEMMA CatchUpView ==
    ASSUME ChatAssumption, Messages, view \in Seq(Known),
           NEW c, NEW S \in SUBSET Of(c), S \cap Ids(view) = {}
    PROVE  /\ InOrder(view \o Sorted(S)) \in Seq(Known)
           /\ Ids(InOrder(view \o Sorted(S))) = Ids(view) \cup S
           /\ IsInjective(view) => IsInjective(InOrder(view \o Sorted(S)))
<1> DEFINE v == Sorted(S)
           w == view \o v
<1>1. v \in Seq(Known) /\ Ids(v) = S /\ IsInjective(v)
    BY PageView
<1> HIDE DEF v
<1>2. w \in Seq(Known)
    BY <1>1, ConcatProperties
<1>3. Ids(w) = Ids(view) \cup S
    BY <1>1, IdsOfConcat
<1>4. IsInjective(view) => IsInjective(w)
    BY <1>1, InjectiveConcat
<1> HIDE DEF w
<1>5. Known \in SUBSET Nat
    BY OfIsKnown
<1>6. QED
    BY <1>2, <1>3, <1>4, <1>5, InOrderKeeps DEF v, w

LEMMA ReplacedView ==
    ASSUME NEW v \in Seq(Known), NEW temp \in Ids(v), NEW id \in Known,
           NEW w, w = [i \in 1..Len(v) |-> IF v[i] = temp THEN id ELSE v[i]]
    PROVE  /\ w \in Seq(Known)
           /\ Ids(w) = (Ids(v) \ {temp}) \cup {id}
           /\ id \notin Ids(v) /\ IsInjective(v) => IsInjective(w)
<1>1. /\ Len(v) \in Nat /\ \A i \in 1..Len(v) : v[i] \in Known
      /\ DOMAIN v = 1..Len(v)
    OBVIOUS
<1>2. w \in [1..Len(v) -> Known]
    BY <1>1
<1>3. w \in Seq(Known) /\ Len(w) = Len(v) /\ DOMAIN w = 1..Len(v)
    BY <1>1, <1>2
<1>4. \A i \in 1..Len(v) : w[i] = IF v[i] = temp THEN id ELSE v[i]
    OBVIOUS
<1>5. Ids(w) = (Ids(v) \ {temp}) \cup {id}
    <2>1. Ids(w) \subseteq (Ids(v) \ {temp}) \cup {id}
        BY <1>3, <1>4 DEF Ids
    <2>2. Ids(v) \ {temp} \subseteq Ids(w)
        BY <1>3, <1>4 DEF Ids
    <2>3. id \in Ids(w)
        BY <1>3, <1>4 DEF Ids
    <2>4. QED
        BY <2>1, <2>2, <2>3
<1>6. ASSUME id \notin Ids(v), IsInjective(v)
      PROVE  IsInjective(w)
    <2>1. \A i \in 1..Len(v) : v[i] # id
        BY <1>6 DEF Ids
    <2>2. \A i, j \in 1..Len(v) : v[i] = v[j] => i = j
        BY <1>1, <1>6 DEF IsInjective
    <2>3. \A i, j \in 1..Len(v) : w[i] = w[j] => i = j
        BY <1>4, <2>1, <2>2
    <2>4. QED
        BY <1>3, <2>3 DEF IsInjective
<1>7. QED
    BY <1>3, <1>5, <1>6

\* What Garmin answers is of the conversation that was asked for.
LEMMA Answers ==
    ASSUME NEW r \in Requests, NEW n
    PROVE  /\ Asked(r, n) \subseteq Of(request[r].conv)
           /\ NewestPage(Asked(r, n)) \subseteq Of(request[r].conv)
           /\ \A got \in CaughtUp(r, n) : got \subseteq Of(request[r].conv)
BY DEF Asked, NewestPage, OldestPage, Newer, CaughtUp

-------------------------------------------------------------------------------
\* Types: what stays what it is, and what is assigned

LEMMA Carried ==
    ASSUME PageType, Known \subseteq Known', Len(timeline) <= Len(timeline)',
           Len(timeline) \in Nat, Len(timeline)' \in Nat
    PROVE  /\ view \in Seq(Known)'
           /\ store \in [Convs -> Seq(Known)']
           /\ reads \in [Convs -> {None} \cup Known']
           /\ request \in [Requests -> Request']
<1>1. \A v \in Seq(Known) : v \in Seq(Known)'
    OBVIOUS
<1>2. Request \subseteq Request'
    BY DEF Request
<1>3. QED
    BY <1>1, <1>2 DEF PageType

LEMMA SetStoreType ==
    ASSUME store \in [Convs -> Seq(Known)'], cached \subseteq Convs,
           NEW c \in Convs, NEW v \in Seq(Known)', SetStore(c, v)
    PROVE  store' \in [Convs -> Seq(Known)'] /\ cached' \subseteq Convs
BY DEF SetStore

LEMMA MarkAsReadType ==
    ASSUME reads \in [Convs -> {None} \cup Known'],
           NEW c \in Convs, NEW id \in {None} \cup Known', MarkAsRead(c, id)
    PROVE  reads' \in [Convs -> {None} \cup Known']
BY DEF MarkAsRead

LEMMA RequestStep ==
    ASSUME ChatAssumption, Types, Messages', Known \subseteq Known',
           Len(timeline) <= Len(timeline)', Len(timeline) \in Nat, Len(timeline)' \in Nat,
           \A c : Theirs(c) \subseteq Theirs(c)' /\ Of(c) \subseteq Of(c)',
           races \subseteq races',
           NEW r \in Requests, NEW w \in Request', Sound(w)', Becomes(r, w)
    PROVE  request' \in [Requests -> Request'] /\ Asks'
<1>1. request \in [Requests -> Request']
    BY Carried DEF Types
<1>2. request' = [request EXCEPT ![r] = w]
    BY DEF Becomes
<1>3. request' \in [Requests -> Request']
    BY <1>1, <1>2
<1>4. ASSUME NEW s \in Requests
      PROVE  Sound(request[s])'
    <2>1. CASE s = r
        <3>1. request'[s] = w
            BY <1>1, <1>2, <2>1
        <3>2. QED
            BY <3>1 DEF Sound
    <2>2. CASE s # r
        <3>1. request'[s] = request[s] /\ Sound(request[s])
            BY <1>1, <1>2, <2>2 DEF Types, Asks
        <3>2. QED
            BY <3>1 DEF Sound
    <2>3. QED
        BY <2>1, <2>2
<1>5. QED
    BY <1>3, <1>4 DEF Asks

LEMMA RequestsStep ==
    ASSUME ChatAssumption, Types, Next, Messages', Known \subseteq Known',
           Len(timeline) <= Len(timeline)', Len(timeline) \in Nat, Len(timeline)' \in Nat,
           \A c : Theirs(c) \subseteq Theirs(c)' /\ Of(c) \subseteq Of(c)',
           races \subseteq races'
    PROVE  request' \in [Requests -> Request'] /\ Asks'
<1>1. /\ request \in [Requests -> Request']
      /\ view \in Seq(Known)
      /\ store \in [Convs -> Seq(Known)]
      /\ current \in Convs \cup {None}
      /\ Known \subseteq Nat \ {0} /\ Known \subseteq Real \cup Sending
    BY Carried, OfIsKnown DEF Types, PageType
<1>2. ASSUME request' = request
      PROVE  request' \in [Requests -> Request'] /\ Asks'
    <2>1. \A r \in Requests : Sound(request[r]) => Sound(request[r])'
        BY <1>2 DEF Sound
    <2>2. QED
        BY <1>1, <1>2, <2>1 DEF Types, Asks
<1>3. ASSUME NEW r \in Requests, Becomes(r, Idle)
      PROVE  request' \in [Requests -> Request'] /\ Asks'
    <2>1. PICK w : w = Idle
        OBVIOUS
    <2>2. w \in Request' /\ Sound(w)'
        BY <2>1 DEF Idle, Request, Sound
    <2>3. Becomes(r, w)
        BY <1>3, <2>1
    <2>4. QED
        BY <2>2, <2>3, RequestStep
<1>4. ASSUME NEW r \in Requests, NEW kind \in {"get", "load"}, NEW c \in Convs,
             Becomes(r, Waits(kind, c, None))
      PROVE  request' \in [Requests -> Request'] /\ Asks'
    <2>1. PICK w : w = Waits(kind, c, None)
        OBVIOUS
    <2>2. w \in Request' /\ Sound(w)'
        BY <2>1 DEF Waits, Request, Sound
    <2>3. Becomes(r, w)
        BY <1>4, <2>1
    <2>4. QED
        BY <2>2, <2>3, RequestStep
<1>5. ASSUME NEW r \in Requests, NEW c \in Convs, NEW v \in Seq(Known),
             Becomes(r, Waits("catchup", c, Cursor(v))), races' = races \cup Pageful(v)
      PROVE  request' \in [Requests -> Request'] /\ Asks'
    <2>1. PICK w : w = Waits("catchup", c, Cursor(v))
        OBVIOUS
    <2>2. Cursor(v) \in {None} \cup Known /\ (Cursor(v) \in Real \/ "gap" \in races')
        <3>1. CASE RealIn(v) # {}
            <4>1. Cursor(v) \in RealIn(v)
                BY <3>1, CursorIsReal
            <4>2. QED
                BY <4>1, IdsOfSeq DEF RealIn
        <3>2. CASE RealIn(v) = {}
            <4>1. Cursor(v) = None
                BY <3>2 DEF Cursor, RealIn, Ids
            <4>2. "gap" \in races'
                BY <1>5, <3>2 DEF Pageful
            <4>3. QED
                BY <4>1, <4>2
        <3>3. QED
            BY <3>1, <3>2
    <2>3. w \in Request' /\ Sound(w)'
        BY <2>1, <2>2 DEF Waits, Request, Sound
    <2>4. Becomes(r, w)
        BY <1>5, <2>1
    <2>5. QED
        BY <2>3, <2>4, RequestStep
<1>6. ASSUME NEW r \in Requests, \E c \in Convs : SelectConversation(r, c)
      PROVE  request' \in [Requests -> Request'] /\ Asks'
    BY <1>4, <1>6 DEF SelectConversation
<1>7. ASSUME NEW r \in Requests, GetDone(r)
      PROVE  request' \in [Requests -> Request'] /\ Asks'
    <2> DEFINE c == request[r].conv
    <2>1. c \in Convs
        BY <1>7 DEF GetDone, Types, Asks, Sound
    <2>2. \/ Becomes(r, Idle)
          \/ /\ Becomes(r, Waits("catchup", c, Cursor(store[c])))
             /\ races' = races \cup Pageful(store[c])
          \/ Becomes(r, Waits("load", c, None))
        BY <1>7 DEF GetDone
    <2>3. store[c] \in Seq(Known)
        BY <1>1, <2>1
    <2> HIDE DEF c
    <2>4. QED
        BY <1>3, <1>4, <1>5, <2>1, <2>2, <2>3
<1>8. ASSUME NEW r \in Requests, TimerFires(r)
      PROVE  request' \in [Requests -> Request'] /\ Asks'
    <2>1. CASE request' = request
        BY <1>2, <2>1
    <2>2. CASE /\ current # None /\ Becomes(r, Waits("catchup", current, Cursor(view)))
               /\ races' = races \cup Mixed(Foreign) \cup Pageful(view)
        <3>1. PICK c \in Convs : c = current
            BY <1>1, <2>2
        <3>2. PICK w : w = Waits("catchup", current, Cursor(view))
            OBVIOUS
        <3>3. Cursor(view) \in {None} \cup Known /\ (Cursor(view) \in Real \/ "gap" \in races')
            <4>1. CASE RealIn(view) # {}
                <5>1. Cursor(view) \in RealIn(view)
                    BY <1>1, <4>1, CursorIsReal
                <5>2. QED
                    BY <1>1, <5>1, IdsOfSeq DEF RealIn
            <4>2. CASE RealIn(view) = {}
                <5>1. Cursor(view) = None
                    BY <4>2 DEF Cursor, RealIn, Ids
                <5>2. "gap" \in races'
                    BY <2>2, <4>2 DEF Pageful
                <5>3. QED
                    BY <5>1, <5>2
            <4>3. QED
                BY <4>1, <4>2
        <3>4. w \in Request' /\ Sound(w)'
            BY <3>1, <3>2, <3>3 DEF Waits, Request, Sound
        <3>5. Becomes(r, w)
            BY <2>2, <3>2
        <3>6. QED
            BY <3>4, <3>5, RequestStep
    <2>3. QED
        BY <1>8, <2>1, <2>2 DEF TimerFires
<1>9. ASSUME NEW r \in Requests, LoadOlder(r)
      PROVE  request' \in [Requests -> Request'] /\ Asks'
    <2>1. PICK i \in 1..Len(view) : view[i] \in Real /\ Becomes(r, Waits("older", current, view[i]))
        BY <1>9 DEF LoadOlder
    <2>2. current \in Convs
        BY <1>1, <1>9 DEF LoadOlder
    <2>3. PICK w : w = Waits("older", current, view[i])
        OBVIOUS
    <2>4. view[i] \in Known
        BY <1>1
    <2>5. w \in Request' /\ Sound(w)'
        BY <2>1, <2>2, <2>3, <2>4 DEF Waits, Request, Sound
    <2>6. Becomes(r, w)
        BY <2>1, <2>3
    <2>7. QED
        BY <2>5, <2>6, RequestStep
<1>10. ASSUME NEW r \in Requests, SendMessage(r)
       PROVE  request' \in [Requests -> Request'] /\ Asks'
    <2>1. PICK id : id = MaxMessages + Len(sending) + 1
        OBVIOUS
    <2>2. /\ Becomes(r, Waits("send", current, id)) /\ sending' = Append(sending, current)
          /\ current \in Convs /\ Len(sending) < MaxSends /\ timeline' = timeline
        BY <1>1, <1>10, <2>1 DEF SendMessage
    <2>3. /\ sending \in Seq(Convs) /\ Len(sending) \in Nat /\ MaxMessages \in Nat
          /\ MaxSends \in Nat
        BY DEF Types, Messages, ChatAssumption
    <2>4. Len(sending') = Len(sending) + 1 /\ sending'[Len(sending) + 1] = current
        BY <2>2, <2>3
    <2>5. id \in Sending /\ id \notin Real /\ id \in Known'
        BY <2>2, <2>3, <2>4, <2>1 DEF Sending, Real, Known
    <2>6. ConvOf(id)' = current
        <3>1. id - MaxMessages = Len(sending) + 1
            BY <2>3, <2>1
        <3>2. QED
            BY <2>4, <2>5, <3>1 DEF ConvOf
    <2>7. PICK w : w = Waits("send", current, id)
        OBVIOUS
    <2>8. w.kind = "send" /\ w.conv = current /\ w.cursor = id /\ w.since = Len(timeline)
        BY <2>7 DEF Waits
    <2>9. w \in Request'
        BY <2>2, <2>5, <2>7 DEF Waits, Request
    <2>10. w.cursor \in Theirs(w.conv)'
        BY <2>5, <2>6, <2>8 DEF Theirs, ConvOf
    <2>11. Sound(w)'
        BY <2>2, <2>5, <2>8, <2>10 DEF Sound
    <2>12. Becomes(r, w)
        BY <2>2, <2>7
    <2>13. QED
        BY <2>9, <2>11, <2>12, RequestStep
<1>11. ASSUME NEW r \in Requests, Accept(r)
       PROVE  request' \in [Requests -> Request'] /\ Asks'
    <2>1. /\ request[r].kind = "send" /\ Len(timeline) < MaxMessages
          /\ timeline' = Append(timeline, [conv |-> request[r].conv, own |-> TRUE])
          /\ Becomes(r, [request[r] EXCEPT !.kind = "sent", !.since = Len(timeline')])
        BY <1>11 DEF Accept
    <2>2. request[r] \in Request' /\ Sound(request[r])
        BY <1>1 DEF Types, Asks
    <2>3. timeline \in Seq(Message)
        BY DEF Types, Messages
    <2>4. Len(timeline') = Len(timeline) + 1 /\ timeline'[Len(timeline')].conv = request[r].conv
        BY <2>1, <2>3
    <2>5. Len(timeline') \in 1..Len(timeline')
        BY <2>4
    <2>6. PICK w : w = [request[r] EXCEPT !.kind = "sent", !.since = Len(timeline')]
        OBVIOUS
    <2>7. /\ w.kind = "sent" /\ w.conv = request[r].conv /\ w.cursor = request[r].cursor
          /\ w.since = Len(timeline')
        BY <2>2, <2>6 DEF Request
    <2>8. w \in Request'
        <3>1. w = [kind |-> "sent", conv |-> request[r].conv, cursor |-> request[r].cursor,
                   since |-> Len(timeline')]
            BY <2>2, <2>6 DEF Request
        <3>2. Len(timeline') \in 0..Len(timeline')
            BY <2>5
        <3>3. QED
            BY <2>2, <3>1, <3>2 DEF Request
    <2>9. w.conv \in Convs /\ w.cursor \in Theirs(w.conv) \cap Sending
        BY <2>1, <2>2, <2>7 DEF Sound
    <2>10. w.since \in Of(w.conv)'
        BY <2>4, <2>5, <2>7 DEF Of
    <2>11. Sound(w)'
        BY <2>7, <2>9, <2>10 DEF Sound
    <2>12. Becomes(r, w)
        BY <2>1, <2>6
    <2>13. QED
        BY <2>8, <2>11, <2>12, RequestStep
<1>12. ASSUME NEW r \in Requests,
              LoadDone(r) \/ CatchUpDone(r) \/ OlderDone(r) \/ SendDone(r) \/ Fails(r)
       PROVE  request' \in [Requests -> Request'] /\ Asks'
    <2>1. Becomes(r, Idle)
        BY <1>12 DEF LoadDone, CatchUpDone, OlderDone, SendDone, Fails
    <2>2. QED
        BY <1>3, <2>1
<1>13. ASSUME \/ \E c \in Convs : Arrive(c)
              \/ \E m \in Real : HandleIncoming(m)
              \/ DeselectConversation \/ RunCatchUp \/ FlushReads
       PROVE  request' \in [Requests -> Request'] /\ Asks'
    <2>1. request' = request
        BY <1>13 DEF Arrive, HandleIncoming, DeselectConversation, RunCatchUp, FlushReads
    <2>2. QED
        BY <1>2, <2>1
<1>14. ASSUME Reload
       PROVE  request' \in [Requests -> Request'] /\ Asks'
    <2>1. request' = [r \in Requests |-> Idle]
        BY <1>14 DEF Reload
    <2>2. Idle \in Request'
        BY DEF Idle, Request
    <2>3. \A r \in Requests : request'[r] = Idle
        BY <2>1
    <2>4. \A r \in Requests : Sound(request[r])'
        BY <2>3 DEF Sound, Idle
    <2>5. QED
        BY <2>1, <2>2, <2>4 DEF Asks
<1>15. QED
    BY <1>6, <1>7, <1>8, <1>9, <1>10, <1>11, <1>12, <1>13, <1>14 DEF Next

\* What PageType says of the next state but for the requests and the counters.
PageNext ==
    /\ {current', shown'} \subseteq Convs \cup {None}
    /\ view' \in Seq(Known)'
    /\ store' \in [Convs -> Seq(Known)']
    /\ cached' \subseteq Convs
    /\ reads' \in [Convs -> {None} \cup Known']

LEMMA NewestIsKnown ==
    ASSUME ChatAssumption, Messages, NEW c, NEW S \in SUBSET Of(c)
    PROVE  NewestOf(S) \in S \cup {None} /\ NewestOf(S) \in Known \cup {None}
<1>1. S \in SUBSET (0..Len(timeline)) /\ Len(timeline) \in Nat /\ S \subseteq Known
    <2>1. Of(c) \subseteq 1..Len(timeline) /\ Of(c) \subseteq Known
        BY OfIsKnown DEF Theirs
    <2>2. Len(timeline) \in Nat
        BY DEF Messages
    <2>3. QED
        BY <2>1, <2>2
<1>2. CASE S = {}
    BY <1>2 DEF NewestOf
<1>3. CASE S # {}
    BY <1>1, <1>3, NewestIsGreatest
<1>4. QED
    BY <1>1, <1>2, <1>3

LEMMA PageStep ==
    ASSUME ChatAssumption, Types, Next, Messages', Known \subseteq Known',
           Len(timeline) <= Len(timeline)', Len(timeline) \in Nat, Len(timeline)' \in Nat
    PROVE  PageNext
<1>1. /\ {current, shown} \subseteq Convs \cup {None} /\ cached \subseteq Convs
      /\ view \in Seq(Known)
      /\ view \in Seq(Known)'
      /\ store \in [Convs -> Seq(Known)']
      /\ reads \in [Convs -> {None} \cup Known']
      /\ Messages /\ None \notin Convs
    BY Carried DEF Types, PageType, ChatAssumption
<1>2. ASSUME NEW v \in Seq(Known)
      PROVE  v \in Seq(Known)'
    OBVIOUS
<1>3. ASSUME UNCHANGED <<view, shown, store, cached, reads>>, current' \in Convs \cup {None}
      PROVE  PageNext
    BY <1>1, <1>3 DEF PageNext
<1>4. ASSUME NEW r \in Requests, \E c \in Convs : SelectConversation(r, c)
      PROVE  PageNext
    BY <1>3, <1>4 DEF SelectConversation
<1>5. ASSUME NEW r \in Requests, GetDone(r)
      PROVE  PageNext
    <2> DEFINE c == request[r].conv
    <2>1. c \in Convs
        BY <1>5 DEF GetDone, Types, Asks, Sound
    <2>2. /\ UNCHANGED <<view, shown>> \/ (view' = store[c] /\ shown' = c)
          /\ UNCHANGED <<current, store, cached, reads>>
        BY <1>5 DEF GetDone
    <2> HIDE DEF c
    <2>3. store[c] \in Seq(Known)'
        BY <1>1, <2>1
    <2>4. QED
        BY <1>1, <2>1, <2>2, <2>3 DEF PageNext
<1>6. ASSUME NEW r \in Requests, LoadDone(r)
      PROVE  PageNext
    <2> DEFINE c == request[r].conv
    <2>1. c \in Convs
        BY <1>6 DEF LoadDone, Types, Asks, Sound
    <2>2. PICK n \in Moments(r) :
              /\ view' = Sorted(NewestPage(Asked(r, n))) /\ shown' = c
              /\ SetStore(c, Sorted(NewestPage(Asked(r, n))))
              /\ MarkAsRead(c, NewestOf(NewestPage(Asked(r, n))))
        BY <1>6 DEF LoadDone
    <2> DEFINE S == NewestPage(Asked(r, n))
    <2>3. S \in SUBSET Of(c)
        BY Answers
    <2>4. current' = current
        BY <1>6 DEF LoadDone
    <2> HIDE DEF c, S
    <2>5. Sorted(S) \in Seq(Known)'
        BY <1>1, <1>2, <2>3, PageView
    <2>6. NewestOf(S) \in {None} \cup Known'
        BY <1>1, <2>3, NewestIsKnown
    <2>7. store' \in [Convs -> Seq(Known)'] /\ cached' \subseteq Convs
        BY <1>1, <2>1, <2>2, <2>5, SetStoreType DEF c, S
    <2>8. reads' \in [Convs -> {None} \cup Known']
        BY <1>1, <2>1, <2>2, <2>6, MarkAsReadType DEF c, S
    <2>9. QED
        BY <1>1, <2>1, <2>2, <2>4, <2>5, <2>7, <2>8 DEF PageNext, c, S
<1>7. ASSUME NEW r \in Requests, TimerFires(r)
      PROVE  PageNext
    BY <1>1, <1>3, <1>7 DEF TimerFires, pageVars
<1>8. ASSUME NEW r \in Requests, CatchUpDone(r)
      PROVE  PageNext
    <2> DEFINE c == request[r].conv
    <2>1. c \in Convs
        BY <1>8 DEF CatchUpDone, Types, Asks, Sound
    <2>2. PICK n \in Moments(r) : \E got \in CaughtUp(r, n) :
              \/ UNCHANGED <<view, shown, store, cached, reads>>
              \/ LET new == InOrder(view \o Sorted(got \ Ids(view))) IN
                 /\ got # {}
                 /\ view' = new
                 /\ shown' = IF shown = None THEN c ELSE shown
                 /\ SetStore(c, new)
                 /\ MarkAsRead(c, new[Len(new)])
        BY <1>8 DEF CatchUpDone
    <2>3. current' = current
        BY <1>8 DEF CatchUpDone
    <2>4. CASE UNCHANGED <<view, shown, store, cached, reads>>
        BY <1>1, <1>3, <2>3, <2>4
    <2>4a. PICK got \in CaughtUp(r, n) :
              \/ UNCHANGED <<view, shown, store, cached, reads>>
              \/ LET new == InOrder(view \o Sorted(got \ Ids(view))) IN
                 /\ got # {}
                 /\ view' = new
                 /\ shown' = IF shown = None THEN c ELSE shown
                 /\ SetStore(c, new)
                 /\ MarkAsRead(c, new[Len(new)])
        BY <2>2
    <2> DEFINE S   == got \ Ids(view)
               new == InOrder(view \o Sorted(S))
    <2>5. S \in SUBSET Of(c) /\ S \cap Ids(view) = {}
        BY Answers
    <2> HIDE DEF S
    <2>6. new \in Seq(Known) /\ Ids(new) = Ids(view) \cup S
        BY <1>1, <2>5, CatchUpView
    <2> HIDE DEF new
    <2>7. CASE /\ got # {} /\ view' = new
               /\ shown' = IF shown = None THEN c ELSE shown
               /\ SetStore(c, new) /\ MarkAsRead(c, new[Len(new)])
        <3>1. Ids(new) # {}
            BY <2>6, <2>7 DEF S
        <3>2. new[Len(new)] \in {None} \cup Known'
            BY <2>6, <3>1, LastIsEntry, IdsOfSeq
        <3>3. new \in Seq(Known)'
            BY <1>2, <2>6
        <3> HIDE DEF c
        <3>4. store' \in [Convs -> Seq(Known)'] /\ cached' \subseteq Convs
            BY <1>1, <2>1, <2>7, <3>3, SetStoreType
        <3>5. reads' \in [Convs -> {None} \cup Known']
            BY <1>1, <2>1, <2>7, <3>2, MarkAsReadType
        <3>6. QED
            BY <1>1, <2>1, <2>3, <2>7, <3>3, <3>4, <3>5 DEF PageNext
    <2>8. QED
        BY <2>4, <2>4a, <2>7 DEF S, new
<1>9. ASSUME NEW r \in Requests, LoadOlder(r)
      PROVE  PageNext
    BY <1>1, <1>3, <1>9 DEF LoadOlder, pageVars
<1>10. ASSUME NEW r \in Requests, OlderDone(r)
       PROVE  PageNext
    <2> DEFINE c     == request[r].conv
               older == NewestPage(Asked(r, request[r].cursor - 1))
               S     == older \ Ids(view)
    <2>1. c \in Convs
        BY <1>10 DEF OlderDone, Types, Asks, Sound
    <2>2. \/ UNCHANGED <<view, store, cached>>
          \/ view' = Sorted(S) \o view /\ SetStore(c, Sorted(S) \o view)
        BY <1>10 DEF OlderDone
    <2>3. UNCHANGED <<current, shown, reads>>
        BY <1>10 DEF OlderDone
    <2>4. S \in SUBSET Of(c) /\ S \cap Ids(view) = {}
        BY Answers
    <2> HIDE DEF c, S
    <2>5. Sorted(S) \o view \in Seq(Known)'
        BY <1>1, <1>2, <2>4, OlderView
    <2>6. /\ view' \in Seq(Known)'
          /\ store' \in [Convs -> Seq(Known)'] /\ cached' \subseteq Convs
        BY <1>1, <2>1, <2>2, <2>5, SetStoreType
    <2>7. QED
        BY <1>1, <2>3, <2>6 DEF PageNext
<1>11. ASSUME NEW r \in Requests, SendMessage(r)
       PROVE  PageNext
    <2>1. PICK id : id = MaxMessages + Len(sending) + 1
        OBVIOUS
    <2>2. /\ view' = Append(view, id) /\ shown' = IF shown = None THEN current ELSE shown
          /\ sending' = Append(sending, current) /\ UNCHANGED <<current, store, cached, reads>>
        BY <1>11, <2>1 DEF SendMessage
    <2>3. sending \in Seq(Convs) /\ Len(sending) \in Nat /\ MaxMessages \in Nat
        BY DEF Types, Messages, ChatAssumption
    <2>4. id \in Known'
        BY <2>1, <2>2, <2>3 DEF Known
    <2>5. view' \in Seq(Known)'
        BY <1>1, <2>2, <2>4
    <2>6. QED
        BY <1>1, <2>2, <2>5 DEF PageNext
<1>12. ASSUME NEW r \in Requests, SendDone(r)
       PROVE  PageNext
    <2> DEFINE temp == request[r].cursor
               id   == request[r].since
    <2>1. id \in Known
        <3>1. id \in Of(request[r].conv)
            BY <1>12 DEF SendDone, Types, Asks, Sound
        <3>2. QED
            BY <1>1, <3>1, OfIsKnown DEF Theirs
    <2>2. \/ view' = view
          \/ /\ temp \in Ids(view)
             /\ view' = [i \in 1..Len(view) |-> IF view[i] = temp THEN id ELSE view[i]]
        BY <1>12 DEF SendDone
    <2>3. UNCHANGED <<current, shown, store, cached, reads>>
        BY <1>12 DEF SendDone
    <2> HIDE DEF temp, id
    <2>4. view' \in Seq(Known)'
        BY <1>1, <1>2, <2>1, <2>2, ReplacedView
    <2>5. QED
        BY <1>1, <2>3, <2>4 DEF PageNext
<1>13. ASSUME NEW r \in Requests, Accept(r) \/ Fails(r)
       PROVE  PageNext
    BY <1>1, <1>3, <1>13 DEF Accept, Fails, pageVars
<1>14. ASSUME NEW c \in Convs, Arrive(c)
       PROVE  PageNext
    BY <1>1, <1>3, <1>14 DEF Arrive, pageVars
<1>15. ASSUME NEW m \in Real, HandleIncoming(m)
       PROVE  PageNext
    <2> DEFINE c == timeline[m].conv
    <2>1. m \in 1..Len(timeline) /\ c \in Convs /\ m \in Known
        <3>1. m \in 1..Len(timeline)
            BY <1>15 DEF HandleIncoming
        <3>2. timeline \in Seq(Message)
            BY <1>1 DEF Messages
        <3>3. timeline[m] \in Message
            BY <3>1, <3>2
        <3>4. QED
            BY <3>1, <3>3 DEF Message, Known
    <2>2. \/ UNCHANGED <<view, shown, store, cached, reads>>
          \/ /\ view' = Append(view, m)
             /\ shown' = IF shown = None THEN c ELSE shown
             /\ SetStore(c, view') /\ MarkAsRead(c, m)
        BY <1>15 DEF HandleIncoming
    <2>3. current' = current
        BY <1>15 DEF HandleIncoming
    <2>4. CASE UNCHANGED <<view, shown, store, cached, reads>>
        BY <1>1, <1>3, <2>3, <2>4
    <2> HIDE DEF c
    <2>5. CASE /\ view' = Append(view, m)
               /\ shown' = IF shown = None THEN c ELSE shown
               /\ SetStore(c, view') /\ MarkAsRead(c, m)
        <3>1. PICK v : v = view'
            OBVIOUS
        <3>2. v \in Seq(Known)
            BY <1>1, <2>1, <2>5, <3>1
        <3>3. v \in Seq(Known)'
            BY <1>2, <3>2
        <3>4. store' \in [Convs -> Seq(Known)'] /\ cached' \subseteq Convs
            BY <1>1, <2>1, <2>5, <3>1, <3>3, SetStoreType
        <3>5. reads' \in [Convs -> {None} \cup Known']
            BY <1>1, <2>1, <2>5, MarkAsReadType
        <3>6. QED
            BY <1>1, <2>1, <2>3, <2>5, <3>1, <3>3, <3>4, <3>5 DEF PageNext
    <2>6. QED
        BY <2>2, <2>4, <2>5
<1>16. ASSUME DeselectConversation \/ RunCatchUp \/ FlushReads \/ Reload
       PROVE  PageNext
    <2>1. <<>> \in Seq(Known)'
        OBVIOUS
    <2>2. QED
        BY <1>1, <1>16, <2>1 DEF DeselectConversation, RunCatchUp, FlushReads, Reload,
           pageVars, PageNext
<1>17. QED
    BY <1>4, <1>5, <1>6, <1>7, <1>8, <1>9, <1>10, <1>11, <1>12, <1>13, <1>14, <1>15,
       <1>16 DEF Next

\* The counters, the timer and the history stay within their types.
LEMMA RestStep ==
    ASSUME ChatAssumption, Types, Next
    PROVE  timer' \in BOOLEAN /\ steps' \in 0..MaxSteps /\ races' \subseteq Races
<1>1. timer \in BOOLEAN /\ steps \in 0..MaxSteps /\ races \subseteq Races /\ MaxSteps \in Nat
    BY DEF Types, PageType, ChatAssumption
<1>2. steps < MaxSteps => steps + 1 \in 0..MaxSteps
    BY <1>1
<1>3. \A p \in BOOLEAN : Mixed(p) \subseteq Races
    BY DEF Mixed, Races
<1>4. \A v : Pageful(v) \subseteq Races
    BY DEF Pageful, Races
<1>5. \A r : Late(r) \subseteq Races
    BY DEF Late, Races
<1>6. {"unsent", "echo", "gap", "cut"} \subseteq Races
    BY DEF Races
<1> DEFINE Rest == timer' \in BOOLEAN /\ steps' \in 0..MaxSteps /\ races' \subseteq Races
<1>7. ASSUME NEW r \in Requests, \E c \in Convs : SelectConversation(r, c)
      PROVE  Rest
    BY <1>1, <1>2, <1>7 DEF SelectConversation, Step
<1>8. ASSUME NEW r \in Requests, GetDone(r)
      PROVE  Rest
    BY <1>1, <1>4, <1>8 DEF GetDone
<1>9. ASSUME NEW r \in Requests, LoadDone(r)
      PROVE  Rest
    BY <1>1, <1>9 DEF LoadDone
<1>10. ASSUME NEW r \in Requests, TimerFires(r)
       PROVE  Rest
    BY <1>1, <1>3, <1>4, <1>10 DEF TimerFires, Foreign
<1>11. ASSUME NEW r \in Requests, CatchUpDone(r)
       PROVE  Rest
    <2>1. UNCHANGED <<timer, steps>>
        BY <1>11 DEF CatchUpDone
    <2>2. races' \subseteq races \cup Mixed(Foreign) \cup Late(r) \cup {"cut", "unsent"}
        BY <1>11 DEF CatchUpDone, Cut
    <2>3. QED
        BY <1>1, <1>3, <1>5, <1>6, <2>1, <2>2 DEF Foreign
<1>12. ASSUME NEW r \in Requests, LoadOlder(r)
       PROVE  Rest
    BY <1>1, <1>2, <1>3, <1>12 DEF LoadOlder, Step, Foreign
<1>13. ASSUME NEW r \in Requests, OlderDone(r)
       PROVE  Rest
    <2>1. UNCHANGED <<timer, steps>>
        BY <1>13 DEF OlderDone
    <2>2. races' \subseteq races \cup Mixed(shown # request[r].conv) \cup Late(r)
        BY <1>13 DEF OlderDone
    <2>3. QED
        BY <1>1, <1>3, <1>5, <2>1, <2>2
<1>14. ASSUME NEW r \in Requests, SendMessage(r)
       PROVE  Rest
    BY <1>1, <1>2, <1>3, <1>14 DEF SendMessage, Step, Foreign
<1>15. ASSUME NEW r \in Requests, Accept(r) \/ Fails(r)
       PROVE  Rest
    BY <1>1, <1>15 DEF Accept, Fails
<1>16. ASSUME NEW r \in Requests, SendDone(r)
       PROVE  Rest
    <2>1. UNCHANGED <<timer, steps>>
        BY <1>16 DEF SendDone
    <2>2. races' \subseteq races \cup {"echo", "gap"}
        BY <1>16 DEF SendDone
    <2>3. QED
        BY <1>1, <1>6, <2>1, <2>2
<1>17. ASSUME NEW c \in Convs, Arrive(c)
       PROVE  Rest
    BY <1>1, <1>17 DEF Arrive
<1>18. ASSUME NEW m \in Real, HandleIncoming(m)
       PROVE  Rest
    <2>1. UNCHANGED <<timer, steps>>
        BY <1>18 DEF HandleIncoming
    <2>2. races' \subseteq races \cup Mixed(Foreign) \cup {"echo", "gap"}
        BY <1>18 DEF HandleIncoming
    <2>3. QED
        BY <1>1, <1>3, <1>6, <2>1, <2>2 DEF Foreign
<1>19. ASSUME DeselectConversation \/ RunCatchUp \/ FlushReads \/ Reload
       PROVE  Rest
    BY <1>1, <1>2, <1>19 DEF DeselectConversation, RunCatchUp, FlushReads, Reload, Step
<1>20. QED
    BY <1>7, <1>8, <1>9, <1>10, <1>11, <1>12, <1>13, <1>14, <1>15, <1>16, <1>17, <1>18,
       <1>19 DEF Next

LEMMA TypesInit ==
    ASSUME ChatAssumption, Init
    PROVE  Types
<1>1. MaxMessages \in Nat /\ MaxSends \in Nat /\ MaxSteps \in Nat
    BY DEF ChatAssumption
<1>2. Messages
    BY <1>1 DEF Init, Messages
<1>3. Idle \in Request /\ Sound(Idle)
    BY <1>1, <1>2 DEF Idle, Request, Sound, Messages
<1>4. request \in [Requests -> Request] /\ Asks
    BY <1>3 DEF Init, Asks
<1>5. PageType
    <2>1. view \in Seq(Known) /\ store \in [Convs -> Seq(Known)]
        BY DEF Init
    <2>2. reads \in [Convs -> {None} \cup Known]
        BY DEF Init
    <2>3. timer \in BOOLEAN
        BY DEF Init
    <2>4. steps = 0 /\ races = {}
        BY DEF Init
    <2>5. steps \in 0..MaxSteps /\ races \subseteq Races
        BY <1>1, <2>4
    <2>6. {current, shown} \subseteq Convs \cup {None} /\ cached \subseteq Convs
        BY DEF Init
    <2>7. QED
        BY <1>4, <2>1, <2>2, <2>5, <2>6, <2>3 DEF PageType
<1>6. QED
    BY <1>2, <1>4, <1>5 DEF Types

LEMMA TypesStep ==
    ASSUME ChatAssumption, Types, [Next]_vars
    PROVE  Types'
<1>1. CASE Next
    <2>1. Grows /\ races \subseteq races'
        BY <1>1, MessagesGrow
    <2>2. /\ Messages'
          /\ Len(timeline) <= Len(timeline)' /\ Len(timeline) \in Nat /\ Len(timeline)' \in Nat
          /\ Known \subseteq Known'
          /\ \A c : Theirs(c) \subseteq Theirs(c)' /\ Of(c) \subseteq Of(c)'
        BY <2>1, KnownGrows DEF Types
    <2>3. request' \in [Requests -> Request'] /\ Asks'
        BY <1>1, <2>1, <2>2, RequestsStep
    <2>4. PageNext
        BY <1>1, <2>2, PageStep
    <2>5. timer' \in BOOLEAN /\ steps' \in 0..MaxSteps /\ races' \subseteq Races
        BY <1>1, RestStep
    <2>6. PageType'
        BY <2>3, <2>4, <2>5 DEF PageType, PageNext
    <2>7. QED
        BY <2>2, <2>3, <2>6 DEF Types
<1>2. CASE UNCHANGED vars
    <2>1. Known' = Known /\ Request' = Request
        BY <1>2 DEF vars, Known, Request
    <2>2. Messages' /\ PageType'
        BY <1>2, <2>1 DEF vars, pageVars, Types, Messages, PageType
    <2>3. \A r \in Requests : Sound(request[r])' = Sound(request[r])
        BY <1>2 DEF vars, pageVars, Sound, Theirs, Known, ConvOf, Of
    <2>4. request' = request
        BY <1>2 DEF vars
    <2>5. Asks'
        BY <2>3, <2>4 DEF Types, Asks
    <2>6. QED
        BY <2>2, <2>5 DEF Types
<1>3. QED
    BY <1>1, <1>2

LEMMA TypesSuffice ==
    ASSUME ChatAssumption, Types
    PROVE  TypeOK
<1>1. /\ Messages /\ PageType
      /\ MaxMessages \in Nat /\ MaxSends \in Nat
    BY DEF Types, ChatAssumption
<1>2. /\ timeline \in Seq(Message) /\ Len(timeline) <= MaxMessages
      /\ sending \in Seq(Convs) /\ Len(sending) <= MaxSends
    BY <1>1 DEF Messages
<1>3. /\ Len(timeline) \in 0..MaxMessages /\ timeline \in [1..Len(timeline) -> Message]
      /\ Len(sending) \in 0..MaxSends /\ sending \in [1..Len(sending) -> Convs]
    BY <1>1, <1>2
<1>4. /\ timeline \in UNION {[1..n -> [conv : Convs, own : BOOLEAN]] : n \in 0..MaxMessages}
      /\ sending \in UNION {[1..n -> Convs] : n \in 0..MaxSends}
    BY <1>3 DEF Message
<1>5. Known \subseteq Real \cup Sending
    BY <1>1, OfIsKnown
<1>6. \A v \in {view} \cup {store[c] : c \in Convs} : Ids(v) \subseteq Real \cup Sending
    <2>1. TAKE v \in {view} \cup {store[c] : c \in Convs}
    <2>2. v \in Seq(Known)
        BY <1>1 DEF PageType
    <2>3. QED
        BY <1>5, <2>2, IdsOfSeq
<1>7. /\ reads \in [Convs -> {None} \cup Known]
      /\ request \in [Requests -> Request]
    BY <1>1 DEF PageType
<1>8. reads \in [Convs -> {None} \cup Real \cup Sending]
    BY <1>5, <1>7
<1>9. Request \subseteq [kind : {"idle", "get", "load", "catchup", "older", "send", "sent"},
                        conv : Convs \cup {None}, cursor : {None} \cup Real \cup Sending,
                        since : 0..MaxMessages]
    BY <1>1, <1>3, <1>5 DEF Request
<1>10. QED
    BY <1>1, <1>4, <1>6, <1>7, <1>8, <1>9 DEF TypeOK, PageType, Races

\* Every variable of the page keeps its type: whatever order the answers, the
\* messages and the user come in, the view, the store and the read marks name only
\* messages that Garmin has or that this tab has sent.
THEOREM ChatTypeCorrect == Spec => []TypeOK
<1>1. Init => Types
    BY ChatAssumption, TypesInit
<1>2. Types /\ [Next]_vars => Types'
    BY ChatAssumption, TypesStep
<1>3. Types => TypeOK
    BY ChatAssumption, TypesSuffice
<1>4. QED
    BY <1>1, <1>2, <1>3, PTL DEF Spec

-------------------------------------------------------------------------------
\* Nothing twice

LEMMA StoreAfter ==
    ASSUME PageType, NEW c \in Convs, NEW v, SetStore(c, v)
    PROVE  \A d \in Convs : store'[d] = IF d = c THEN v ELSE store[d]
BY DEF SetStore, PageType

LEMMA ReadsAfter ==
    ASSUME PageType, NEW c \in Convs, NEW id, MarkAsRead(c, id)
    PROVE  \A d \in Convs : reads'[d] = reads[d] \/ (d = c /\ reads'[d] = id)
BY DEF MarkAsRead, PageType

LEMMA SingleStep ==
    ASSUME ChatAssumption, Types, NoDuplicates, Next
    PROVE  NoDuplicates'
<1> DEFINE Goal == IsInjective(view') /\ \A c \in Convs : IsInjective(store'[c])
<1>1. SUFFICES ASSUME "echo" \notin races'
               PROVE  Goal
    BY DEF NoDuplicates
<1>2. "echo" \notin races
    BY <1>1, MessagesGrow
<1>3. IsInjective(view) /\ \A c \in Convs : IsInjective(store[c])
    BY <1>2 DEF NoDuplicates
<1>4. /\ Messages /\ PageType
      /\ view \in Seq(Known) /\ store \in [Convs -> Seq(Known)]
    BY DEF Types, PageType
<1>5. ASSUME UNCHANGED <<view, store>>
      PROVE  Goal
    BY <1>3, <1>5
<1>6. ASSUME NEW c \in Convs, NEW v, IsInjective(v), SetStore(c, v), view' = v
      PROVE  Goal
    BY <1>3, <1>4, <1>6, StoreAfter
<1>7. ASSUME NEW r \in Requests, \E c \in Convs : SelectConversation(r, c)
      PROVE  Goal
    BY <1>5, <1>7 DEF SelectConversation
<1>8. ASSUME NEW r \in Requests, GetDone(r)
      PROVE  Goal
    <2>1. request[r].conv \in Convs
        BY <1>8 DEF GetDone, Types, Asks, Sound
    <2>2. (view' = view \/ view' = store[request[r].conv]) /\ store' = store
        BY <1>8 DEF GetDone
    <2>3. QED
        BY <1>3, <2>1, <2>2
<1>9. ASSUME NEW r \in Requests, LoadDone(r)
      PROVE  Goal
    <2> DEFINE c == request[r].conv
    <2>1. c \in Convs
        BY <1>9 DEF LoadDone, Types, Asks, Sound
    <2>2. PICK n \in Moments(r) :
              /\ view' = Sorted(NewestPage(Asked(r, n)))
              /\ SetStore(c, Sorted(NewestPage(Asked(r, n))))
        BY <1>9 DEF LoadDone
    <2>3. IsInjective(Sorted(NewestPage(Asked(r, n))))
        BY <1>4, Answers, PageView
    <2> HIDE DEF c
    <2>4. QED
        BY <1>6, <2>1, <2>2, <2>3
<1>10. ASSUME NEW r \in Requests, CatchUpDone(r)
       PROVE  Goal
    <2> DEFINE c == request[r].conv
    <2>1. c \in Convs
        BY <1>10 DEF CatchUpDone, Types, Asks, Sound
    <2>2. PICK n \in Moments(r) : \E got \in CaughtUp(r, n) :
              \/ UNCHANGED <<view, store>>
              \/ LET new == InOrder(view \o Sorted(got \ Ids(view))) IN
                 view' = new /\ SetStore(c, new)
        BY <1>10 DEF CatchUpDone
    <2>2a. PICK got \in CaughtUp(r, n) :
              \/ UNCHANGED <<view, store>>
              \/ LET new == InOrder(view \o Sorted(got \ Ids(view))) IN
                 view' = new /\ SetStore(c, new)
        BY <2>2
    <2> DEFINE S == got \ Ids(view)
    <2>3. S \in SUBSET Of(c) /\ S \cap Ids(view) = {}
        BY Answers
    <2> HIDE DEF c, S
    <2>4. IsInjective(InOrder(view \o Sorted(S)))
        BY <1>3, <1>4, <2>3, CatchUpView
    <2>5. QED
        BY <1>5, <1>6, <2>1, <2>2a, <2>4 DEF S
<1>11. ASSUME NEW r \in Requests, OlderDone(r)
       PROVE  Goal
    <2> DEFINE c == request[r].conv
               S == NewestPage(Asked(r, request[r].cursor - 1)) \ Ids(view)
    <2>1. c \in Convs
        BY <1>11 DEF OlderDone, Types, Asks, Sound
    <2>2. \/ UNCHANGED <<view, store>>
          \/ view' = Sorted(S) \o view /\ SetStore(c, Sorted(S) \o view)
        BY <1>11 DEF OlderDone
    <2>3. S \in SUBSET Of(c) /\ S \cap Ids(view) = {}
        BY Answers
    <2> HIDE DEF c, S
    <2>4. IsInjective(Sorted(S) \o view)
        BY <1>3, <1>4, <2>3, OlderView
    <2>5. QED
        BY <1>5, <1>6, <2>1, <2>2, <2>4
<1>12. ASSUME NEW r \in Requests, SendMessage(r)
       PROVE  Goal
    <2>1. PICK id : id = MaxMessages + Len(sending) + 1
        OBVIOUS
    <2>2. view' = Append(view, id) /\ store' = store
        BY <1>12, <2>1 DEF SendMessage
    <2>3. id \notin Known
        <3>1. /\ Len(timeline) \in Nat /\ Len(timeline) <= MaxMessages
              /\ Len(sending) \in Nat /\ MaxMessages \in Nat
            BY <1>4 DEF Messages, ChatAssumption
        <3>2. QED
            BY <2>1, <3>1 DEF Known
    <2>4. id \notin Ids(view)
        BY <1>4, <2>3, IdsOfSeq
    <2>5. view \in Seq(Known \cup {id})
        BY <1>4
    <2>6. IsInjective(Append(view, id))
        BY <1>3, <2>4, <2>5, InjectiveAppend
    <2>7. QED
        BY <1>3, <2>2, <2>6
<1>13. ASSUME NEW r \in Requests, SendDone(r)
       PROVE  Goal
    <2> DEFINE temp == request[r].cursor
               id   == request[r].since
    <2>1. id \in Known
        <3>1. id \in Of(request[r].conv)
            BY <1>13 DEF SendDone, Types, Asks, Sound
        <3>2. QED
            BY <1>4, <3>1, OfIsKnown DEF Theirs
    <2>2. \/ view' = view
          \/ /\ temp \in Ids(view) /\ id \notin Ids(view)
             /\ view' = [i \in 1..Len(view) |-> IF view[i] = temp THEN id ELSE view[i]]
        BY <1>1, <1>13 DEF SendDone
    <2>3. store' = store
        BY <1>13 DEF SendDone
    <2> HIDE DEF temp, id
    <2>4. IsInjective(view')
        BY <1>3, <1>4, <2>1, <2>2, ReplacedView
    <2>5. QED
        BY <1>3, <2>3, <2>4
<1>14. ASSUME NEW m \in Real, HandleIncoming(m)
       PROVE  Goal
    <2> DEFINE c == timeline[m].conv
    <2>1. m \in 1..Len(timeline)
        BY <1>14 DEF HandleIncoming
    <2>2. c \in Convs /\ m \in Known
        <3>1. timeline[m] \in Message
            BY <1>4, <2>1 DEF Messages
        <3>2. QED
            BY <2>1, <3>1 DEF Message, Known
    <2>3. \/ UNCHANGED <<view, store>>
          \/ m \notin Ids(view) /\ view' = Append(view, m) /\ SetStore(c, view')
        BY <1>14 DEF HandleIncoming
    <2> HIDE DEF c
    <2>4. m \notin Ids(view) => IsInjective(Append(view, m))
        BY <1>3, <1>4, <2>2, InjectiveAppend
    <2>5. QED
        BY <1>5, <1>6, <2>2, <2>3, <2>4
<1>15. ASSUME NEW r \in Requests, TimerFires(r) \/ LoadOlder(r) \/ Accept(r) \/ Fails(r)
       PROVE  Goal
    BY <1>5, <1>15 DEF TimerFires, LoadOlder, Accept, Fails, pageVars
<1>16. ASSUME (\E c \in Convs : Arrive(c)) \/ DeselectConversation \/ RunCatchUp \/ FlushReads
       PROVE  Goal
    BY <1>5, <1>16 DEF Arrive, DeselectConversation, RunCatchUp, FlushReads, pageVars
<1>17. ASSUME Reload
       PROVE  Goal
    <2>1. view' = <<>> /\ store' = store
        BY <1>17 DEF Reload
    <2>2. IsInjective(<<>>)
        BY DEF IsInjective
    <2>3. QED
        BY <1>3, <2>1, <2>2
<1>18. QED
    BY <1>7, <1>8, <1>9, <1>10, <1>11, <1>12, <1>13, <1>14, <1>15, <1>16, <1>17 DEF Next

\* No message is in the view twice, and none is kept twice in msgStore, whether it
\* came over the stream, once or twice, by a catch-up, by a page or by several of
\* them in any order, unless it came over the stream while it was being sent.
THEOREM NothingTwice == Spec => []NoDuplicates
<1>1. Init => Types /\ NoDuplicates
    <2>1. ASSUME Init
          PROVE  NoDuplicates
        <3>1. view = <<>> /\ \A c \in Convs : store[c] = <<>>
            BY <2>1 DEF Init
        <3>2. IsInjective(<<>>)
            BY DEF IsInjective
        <3>3. QED
            BY <3>1, <3>2 DEF NoDuplicates
    <2>2. QED
        BY <2>1, ChatAssumption, TypesInit
<1>2. Types /\ NoDuplicates /\ [Next]_vars => Types' /\ NoDuplicates'
    <2>1. ASSUME NoDuplicates, UNCHANGED vars
          PROVE  NoDuplicates'
        BY <2>1 DEF vars, pageVars, NoDuplicates
    <2>2. QED
        BY <2>1, ChatAssumption, TypesStep, SingleStep
<1>3. QED
    BY <1>1, <1>2, PTL DEF Spec

-------------------------------------------------------------------------------
\* Nothing foreign

\* What is already owned stays so.
LEMMA OwnedKept ==
    ASSUME ChatAssumption, Types, Owned, Next, "mixed" \notin races'
    PROVE  /\ shown = None => view = <<>>
           /\ \A c \in Convs :
                  /\ Theirs(c) \subseteq Theirs(c)' /\ Of(c) \subseteq Theirs(c)'
                  /\ shown = c => Ids(view) \subseteq Theirs(c) /\ Ids(view) \subseteq Theirs(c)'
                  /\ Ids(store[c]) \subseteq Theirs(c) /\ Ids(store[c]) \subseteq Theirs(c)'
                  /\ reads[c] \in Theirs(c)' \cup {None}
                  /\ "unsent" \notin races' => reads[c] \notin Sending
<1>1. Grows /\ races \subseteq races'
    BY MessagesGrow
<1>2. \A c : Theirs(c) \subseteq Theirs(c)' /\ Of(c) \subseteq Theirs(c)
    BY <1>1, KnownGrows, OfIsKnown DEF Types
<1>3. "mixed" \notin races
    BY <1>1
<1>4. "unsent" \notin races' => "unsent" \notin races
    BY <1>1
<1>5. QED
    BY <1>2, <1>3, <1>4 DEF Owned

LEMMA OwnedStep ==
    ASSUME ChatAssumption, Types, Owned, Next
    PROVE  Owned'
<1> DEFINE Goal ==
        /\ shown' = None => view' = <<>>
        /\ \A c \in Convs : /\ shown' = c => Ids(view') \subseteq Theirs(c)'
                            /\ Ids(store'[c]) \subseteq Theirs(c)'
                            /\ reads'[c] \in Theirs(c)' \cup {None}
                            /\ "unsent" \notin races' => reads'[c] \notin Sending
<1>1. SUFFICES ASSUME "mixed" \notin races'
               PROVE  Goal
    <2>1. ASSUME Goal
          PROVE  \A c \in Convs : /\ (shown = c => Ids(view) \subseteq Theirs(c))'
                                 /\ (Ids(store[c]) \subseteq Theirs(c))'
                                 /\ (reads[c] \in Theirs(c) \cup {None})'
                                 /\ ("unsent" \notin races => reads[c] \notin Sending)'
        BY <2>1 DEF Ids
    <2>2. QED
        BY <1>1, <2>1 DEF Owned
<1>2. /\ Messages /\ PageType /\ None \notin Convs
      /\ view \in Seq(Known) /\ store \in [Convs -> Seq(Known)]
      /\ current \in Convs \cup {None} /\ shown \in Convs \cup {None}
    BY DEF Types, PageType, ChatAssumption
<1>3. /\ shown = None => view = <<>>
      /\ \A c \in Convs :
             /\ Theirs(c) \subseteq Theirs(c)' /\ Of(c) \subseteq Theirs(c)'
             /\ shown = c => Ids(view) \subseteq Theirs(c) /\ Ids(view) \subseteq Theirs(c)'
             /\ Ids(store[c]) \subseteq Theirs(c) /\ Ids(store[c]) \subseteq Theirs(c)'
             /\ reads[c] \in Theirs(c)' \cup {None}
             /\ "unsent" \notin races' => reads[c] \notin Sending
    BY <1>1, OwnedKept
<1>4. \A c : Of(c) \cap Sending = {}
    BY <1>2, OfIsKnown DEF Real, Sending, ChatAssumption
<1>5. Ids(<<>>) = {}
    BY DEF Ids
<1>6. ASSUME UNCHANGED <<view, shown, store, reads>>
      PROVE  Goal
    BY <1>3, <1>6
<1>7. ASSUME NEW c \in Convs, NEW v, NEW id,
             shown' = c, view' = v, Ids(v) \subseteq Theirs(c)', SetStore(c, v),
             MarkAsRead(c, id), id \in Theirs(c)' \cup {None},
             "unsent" \notin races' => id \notin Sending
      PROVE  Goal
    <2>1. \A d \in Convs : store'[d] = IF d = c THEN v ELSE store[d]
        BY <1>2, <1>7, StoreAfter
    <2>2. \A d \in Convs : reads'[d] = reads[d] \/ (d = c /\ reads'[d] = id)
        BY <1>2, <1>7, ReadsAfter
    <2>3. ASSUME NEW d \in Convs
          PROVE  /\ shown' = d => Ids(view') \subseteq Theirs(d)'
                 /\ Ids(store'[d]) \subseteq Theirs(d)'
                 /\ reads'[d] \in Theirs(d)' \cup {None}
                 /\ "unsent" \notin races' => reads'[d] \notin Sending
        <3>1. CASE d = c
            <4>1. store'[d] = v /\ (reads'[d] = reads[c] \/ reads'[d] = id)
                BY <2>1, <2>2, <3>1
            <4>2. QED
                BY <1>3, <1>7, <3>1, <4>1
        <3>2. CASE d # c
            <4>1. store'[d] = store[d] /\ reads'[d] = reads[d] /\ shown' # d
                BY <1>7, <2>1, <2>2, <3>2
            <4>2. QED
                BY <1>3, <4>1
        <3>3. QED
            BY <3>1, <3>2
    <2>4. shown' # None
        BY <1>2, <1>7
    <2>5. QED
        BY <2>3, <2>4
<1>8. ASSUME NEW r \in Requests, GetDone(r)
      PROVE  Goal
    <2>0. PICK c : c = request[r].conv
        OBVIOUS
    <2>1. c \in Convs
        BY <1>8, <2>0 DEF GetDone, Types, Asks, Sound
    <2>2. UNCHANGED <<view, shown>> \/ (view' = store[c] /\ shown' = c)
        BY <1>8, <2>0 DEF GetDone
    <2>3. UNCHANGED <<store, reads>>
        BY <1>8, <2>0 DEF GetDone
    <2>4. CASE UNCHANGED <<view, shown>>
        BY <1>6, <2>3, <2>4
    <2>5. CASE view' = store[c] /\ shown' = c
        BY <1>2, <1>3, <2>1, <2>3, <2>5
    <2>6. QED
        BY <2>2, <2>4, <2>5
<1>9. ASSUME NEW r \in Requests, LoadDone(r)
      PROVE  Goal
    <2>0. PICK c : c = request[r].conv
        OBVIOUS
    <2>1. c \in Convs
        BY <1>9, <2>0 DEF LoadDone, Types, Asks, Sound
    <2>2. PICK n \in Moments(r) :
              /\ view' = Sorted(NewestPage(Asked(r, n))) /\ shown' = c
              /\ SetStore(c, Sorted(NewestPage(Asked(r, n))))
              /\ MarkAsRead(c, NewestOf(NewestPage(Asked(r, n))))
        BY <1>9, <2>0 DEF LoadDone
    <2> DEFINE S == NewestPage(Asked(r, n))
    <2>3. S \in SUBSET Of(c)
        BY <2>0, Answers
    <2> HIDE DEF S
    <2>4. Ids(Sorted(S)) = S
        BY <1>2, <2>3, PageView
    <2>5. NewestOf(S) \in S \cup {None}
        BY <1>2, <2>3, NewestIsKnown
    <2>6. NewestOf(S) \in Theirs(c)' \cup {None}
        BY <1>3, <2>1, <2>3, <2>5
    <2>7. NewestOf(S) \notin Sending
        BY <1>2, <1>4, <2>3, <2>5 DEF Sending, None, ChatAssumption
    <2>8. Ids(Sorted(S)) \subseteq Theirs(c)'
        BY <1>3, <2>1, <2>3, <2>4
    <2>9. QED
        BY <1>7, <2>1, <2>2, <2>6, <2>7, <2>8 DEF S
<1>10. ASSUME NEW r \in Requests, CatchUpDone(r)
       PROVE  Goal
    <2>0. PICK c : c = request[r].conv
        OBVIOUS
    <2>1. c \in Convs
        BY <1>10, <2>0 DEF CatchUpDone, Types, Asks, Sound
    <2>2. PICK n \in Moments(r) : \E got \in CaughtUp(r, n) :
              \/ UNCHANGED <<view, shown, store, reads>>
              \/ LET new == InOrder(view \o Sorted(got \ Ids(view))) IN
                 /\ got # {} /\ c = current
                 /\ view' = new
                 /\ shown' = IF shown = None THEN c ELSE shown
                 /\ SetStore(c, new)
                 /\ MarkAsRead(c, new[Len(new)])
                 /\ (Foreign => "mixed" \in races')
                 /\ new[Len(new)] \in Sending => "unsent" \in races'
        BY <1>10, <2>0 DEF CatchUpDone, Mixed
    <2>3. CASE UNCHANGED <<view, shown, store, reads>>
        BY <1>6, <2>3
    <2>3a. PICK got \in CaughtUp(r, n) :
              \/ UNCHANGED <<view, shown, store, reads>>
              \/ LET new == InOrder(view \o Sorted(got \ Ids(view))) IN
                 /\ got # {} /\ c = current
                 /\ view' = new
                 /\ shown' = IF shown = None THEN c ELSE shown
                 /\ SetStore(c, new)
                 /\ MarkAsRead(c, new[Len(new)])
                 /\ (Foreign => "mixed" \in races')
                 /\ new[Len(new)] \in Sending => "unsent" \in races'
        BY <2>2
    <2> DEFINE S   == got \ Ids(view)
               new == InOrder(view \o Sorted(S))
    <2>4. S \in SUBSET Of(c) /\ S \cap Ids(view) = {}
        BY <2>0, Answers
    <2> HIDE DEF S
    <2>5. new \in Seq(Known) /\ Ids(new) = Ids(view) \cup S
        BY <1>2, <2>4, CatchUpView
    <2> HIDE DEF new
    <2>6. CASE /\ got # {} /\ c = current
               /\ view' = new
               /\ shown' = IF shown = None THEN c ELSE shown
               /\ SetStore(c, new)
               /\ MarkAsRead(c, new[Len(new)])
               /\ (Foreign => "mixed" \in races')
               /\ new[Len(new)] \in Sending => "unsent" \in races'
        <3>1. shown \in {None, c}
            BY <1>1, <2>6 DEF Foreign
        <3>2. Ids(view) \subseteq Theirs(c)' /\ shown' = c
            BY <1>3, <1>5, <2>1, <2>6, <3>1
        <3>3. Ids(new) \subseteq Theirs(c)'
            BY <1>3, <2>1, <2>4, <2>5, <3>2
        <3>4. Ids(new) # {}
            BY <2>5, <2>6 DEF S
        <3>5. new[Len(new)] \in Ids(new)
            BY <2>5, <3>4, LastIsEntry
        <3>6. new[Len(new)] \in Theirs(c)' \cup {None}
            BY <3>3, <3>5
        <3>7. QED
            BY <1>7, <2>1, <2>6, <3>2, <3>3, <3>6
    <2>7. QED
        BY <2>3, <2>3a, <2>6 DEF S, new
<1>11. ASSUME NEW r \in Requests, OlderDone(r)
       PROVE  Goal
    <2>0. PICK c : c = request[r].conv
        OBVIOUS
    <2> DEFINE S == NewestPage(Asked(r, request[r].cursor - 1)) \ Ids(view)
    <2>1. c \in Convs
        BY <1>11, <2>0 DEF OlderDone, Types, Asks, Sound
    <2>2. \/ UNCHANGED <<view, store>>
          \/ /\ view' = Sorted(S) \o view /\ SetStore(c, Sorted(S) \o view)
             /\ (shown # c => "mixed" \in races')
        BY <1>11, <2>0 DEF OlderDone, Mixed
    <2>3. UNCHANGED <<shown, reads>>
        BY <1>11, <2>0 DEF OlderDone, Mixed
    <2>4. CASE UNCHANGED <<view, store>>
        BY <1>6, <2>3, <2>4
    <2>5. S \in SUBSET Of(c) /\ S \cap Ids(view) = {}
        BY <2>0, Answers
    <2> HIDE DEF S
    <2>6. CASE /\ view' = Sorted(S) \o view /\ SetStore(c, Sorted(S) \o view)
               /\ (shown # c => "mixed" \in races')
        <3>1. PICK new : new = Sorted(S) \o view
            OBVIOUS
        <3>2. Ids(new) = Ids(view) \cup S
            BY <1>2, <2>5, <3>1, OlderView
        <3>3. shown = c
            BY <1>1, <2>6
        <3>4. Ids(new) \subseteq Theirs(c)'
            BY <1>3, <2>1, <2>5, <3>2, <3>3
        <3>5. \A d \in Convs : store'[d] = IF d = c THEN new ELSE store[d]
            BY <1>2, <2>1, <2>6, <3>1, StoreAfter
        <3>6. ASSUME NEW d \in Convs
              PROVE  /\ shown' = d => Ids(view') \subseteq Theirs(d)'
                     /\ Ids(store'[d]) \subseteq Theirs(d)'
                     /\ reads'[d] \in Theirs(d)' \cup {None}
                     /\ "unsent" \notin races' => reads'[d] \notin Sending
            <4>1. CASE d = c
                BY <1>3, <2>3, <2>6, <3>1, <3>4, <3>5, <4>1
            <4>2. CASE d # c
                BY <1>3, <2>3, <3>3, <3>5, <4>2
            <4>3. QED
                BY <4>1, <4>2
        <3>7. QED
            BY <1>2, <2>1, <2>3, <3>3, <3>6
    <2>7. QED
        BY <2>2, <2>4, <2>6
<1>12. ASSUME NEW r \in Requests, SendMessage(r)
       PROVE  Goal
    <2>1. PICK id : id = MaxMessages + Len(sending) + 1
        OBVIOUS
    <2>2. PICK c : c = current
        OBVIOUS
    <2>3. /\ view' = Append(view, id) /\ shown' = IF shown = None THEN c ELSE shown
          /\ sending' = Append(sending, c) /\ UNCHANGED <<store, reads>>
          /\ c # None /\ (Foreign => "mixed" \in races')
        BY <1>12, <2>1, <2>2 DEF SendMessage, Mixed
    <2>4. c \in Convs /\ shown \in {None, c}
        BY <1>1, <1>2, <2>2, <2>3 DEF Foreign
    <2>5. sending \in Seq(Convs) /\ Len(sending) \in Nat /\ MaxMessages \in Nat
        BY <1>2 DEF Messages, ChatAssumption
    <2>6. Len(sending') = Len(sending) + 1 /\ sending'[Len(sending) + 1] = c
        BY <2>3, <2>4, <2>5
    <2>7. id \in Known' /\ id \notin Real /\ id - MaxMessages = Len(sending) + 1
        BY <2>1, <2>5, <2>6 DEF Known, Real
    <2>8. ConvOf(id)' = c
        BY <2>6, <2>7 DEF ConvOf
    <2>9. id \in Theirs(c)'
        BY <2>7, <2>8 DEF Theirs, ConvOf
    <2>10. view \in Seq(Known \cup {id})
        BY <1>2
    <2>11. Ids(view') = Ids(view) \cup {id}
        BY <2>3, <2>10, IdsOfAppend
    <2>12. Ids(view') \subseteq Theirs(c)' /\ shown' = c
        BY <1>3, <1>5, <2>3, <2>4, <2>9, <2>11
    <2>13. QED
        BY <1>2, <1>3, <2>3, <2>4, <2>12
<1>13. ASSUME NEW r \in Requests, SendDone(r)
       PROVE  Goal
    <2>0. PICK c : c = request[r].conv
        OBVIOUS
    <2> DEFINE temp == request[r].cursor
               id   == request[r].since
    <2>1. /\ id \in Of(c) /\ temp \in Theirs(c) /\ c \in Convs
        BY <1>13, <2>0 DEF SendDone, Types, Asks, Sound
    <2>2. UNCHANGED <<shown, store, reads>>
        BY <1>13, <2>0 DEF SendDone
    <2>3. CASE view' = view
        BY <1>6, <2>2, <2>3
    <2>4. CASE /\ temp \in Ids(view)
               /\ view' = [i \in 1..Len(view) |-> IF view[i] = temp THEN id ELSE view[i]]
        <3>1. shown # None
            BY <1>3, <1>5, <2>4
        <3>2. temp \in Theirs(shown)
            BY <1>2, <1>3, <2>4, <3>1
        <3>3. shown = c
            BY <2>1, <3>2 DEF Theirs
        <3>4. id \in Known
            BY <1>2, <2>1, OfIsKnown DEF Theirs
        <3> HIDE DEF temp, id
        <3>5. Ids(view') \subseteq Ids(view) \cup {id}
            <4>1. Len(view') = Len(view) /\ Len(view) \in Nat
                BY <1>2, <2>4
            <4>2. \A i \in 1..Len(view) : view'[i] \in {view[i], id}
                BY <2>4
            <4>3. QED
                BY <4>1, <4>2 DEF Ids
        <3>6. Ids(view') \subseteq Theirs(c)'
            BY <1>3, <2>1, <3>3, <3>5
        <3>7. QED
            BY <1>2, <1>3, <2>1, <2>2, <3>3, <3>6
    <2>5. QED
        BY <1>13, <2>3, <2>4 DEF SendDone
<1>14. ASSUME NEW m \in Real, HandleIncoming(m)
       PROVE  Goal
    <2>0. PICK c : c = timeline[m].conv
        OBVIOUS
    <2>1. m \in 1..Len(timeline)
        BY <1>14, <2>0 DEF HandleIncoming, Mixed
    <2>2. c \in Convs /\ m \in Known /\ m \in Of(c)
        <3>1. timeline[m] \in Message
            BY <1>2, <2>1 DEF Messages
        <3>2. QED
            BY <2>0, <2>1, <3>1 DEF Message, Known, Of
    <2>3. \/ UNCHANGED <<view, shown, store, reads>>
          \/ /\ c = current /\ view' = Append(view, m)
             /\ shown' = IF shown = None THEN c ELSE shown
             /\ SetStore(c, view') /\ MarkAsRead(c, m)
             /\ (Foreign => "mixed" \in races')
        BY <1>14, <2>0 DEF HandleIncoming, Mixed
    <2>4. CASE UNCHANGED <<view, shown, store, reads>>
        BY <1>6, <2>4
    <2>5. CASE /\ c = current /\ view' = Append(view, m)
               /\ shown' = IF shown = None THEN c ELSE shown
               /\ SetStore(c, view') /\ MarkAsRead(c, m)
               /\ (Foreign => "mixed" \in races')
        <3>1. PICK v : v = Append(view, m)
            OBVIOUS
        <3>2. shown \in {None, c}
            BY <1>1, <2>5 DEF Foreign
        <3>3. Ids(v) = Ids(view) \cup {m}
            BY <1>2, <2>2, <3>1, IdsOfAppend
        <3>4. Ids(v) \subseteq Theirs(c)' /\ shown' = c
            BY <1>3, <1>5, <2>2, <2>5, <3>2, <3>3
        <3>5. m \in Theirs(c)' \cup {None} /\ m \notin Sending
            BY <1>3, <1>4, <2>2
        <3>6. QED
            BY <1>7, <2>2, <2>5, <3>1, <3>4, <3>5
    <2>6. QED
        BY <2>3, <2>4, <2>5
<1>15. ASSUME NEW r \in Requests, \/ \E c \in Convs : SelectConversation(r, c)
                                  \/ TimerFires(r) \/ LoadOlder(r) \/ Accept(r) \/ Fails(r)
       PROVE  Goal
    BY <1>6, <1>15 DEF SelectConversation, TimerFires, LoadOlder, Accept, Fails, pageVars
<1>16. ASSUME (\E c \in Convs : Arrive(c)) \/ DeselectConversation \/ RunCatchUp
       PROVE  Goal
    BY <1>6, <1>16 DEF Arrive, DeselectConversation, RunCatchUp, pageVars
<1>17. ASSUME FlushReads \/ Reload
       PROVE  Goal
    <2>1. store' = store /\ \A c \in Convs : reads'[c] = None
        BY <1>17 DEF FlushReads, Reload
    <2>2. None \notin Sending
        BY DEF None, Sending, ChatAssumption
    <2>3. UNCHANGED <<view, shown>> \/ (view' = <<>> /\ shown' = None)
        BY <1>17 DEF FlushReads, Reload
    <2>4. QED
        BY <1>2, <1>3, <2>1, <2>2, <2>3
<1>18. QED
    BY <1>8, <1>9, <1>10, <1>11, <1>12, <1>13, <1>14, <1>15, <1>16, <1>17 DEF Next

LEMMA OwnedSuffices ==
    ASSUME Owned
    PROVE  NothingForeign
BY DEF Owned, NothingForeign, Theirs

LEMMA OwnedInit ==
    ASSUME ChatAssumption, Init
    PROVE  Owned
<1>1. /\ view = <<>> /\ shown = None
      /\ \A c \in Convs : store[c] = <<>> /\ reads[c] = None
    BY DEF Init
<1>2. Ids(<<>>) = {} /\ None \notin Sending
    BY DEF Ids, None, Sending, ChatAssumption
<1>3. None \notin Convs
    BY DEF ChatAssumption
<1>4. QED
    BY <1>1, <1>2, <1>3 DEF Owned

LEMMA OwnedNext ==
    ASSUME ChatAssumption, Types, Owned, [Next]_vars
    PROVE  Owned'
<1>1. ASSUME UNCHANGED vars
      PROVE  Owned'
    BY <1>1 DEF vars, pageVars, Owned, Theirs, Known, ConvOf
<1>2. QED
    BY <1>1, OwnedStep

\* What msgStore keeps for a conversation and the mark up to where it was read are
\* messages of that conversation, as long as nothing used the view of another one
\* under its name; and the mark is one that Garmin knows, as long as no catch-up
\* ended with an entry last that was still being sent.
THEOREM NothingForeignIsKept == Spec => []NothingForeign
<1>1. Init => Types /\ Owned
    BY ChatAssumption, TypesInit, OwnedInit
<1>2. Types /\ Owned /\ [Next]_vars => Types' /\ Owned'
    BY ChatAssumption, TypesStep, OwnedNext
<1>3. Owned => NothingForeign
    BY OwnedSuffices
<1>4. QED
    BY <1>1, <1>2, <1>3, PTL DEF Spec

-------------------------------------------------------------------------------
\* Nothing missing in between

\* What is new is newer than all that there was.
LEMMA UnbrokenKept ==
    ASSUME NEW n \in Nat, NEW ids, ids \cap Real \subseteq 0..n, NEW old, NEW new,
           new \subseteq Nat, \A m \in new : m \in old \/ m > n, Unbroken(ids, old)
    PROVE  Unbroken(ids, new)
BY DEF Unbroken

LEMMA UnbrokenSending ==
    ASSUME NEW ids, NEW id, id \notin Real, NEW messages, Unbroken(ids, messages)
    PROVE  Unbroken(ids \cup {id}, messages)
BY DEF Unbroken

\* Where no hole is seen there is none.
LEMMA NoHoleSeen ==
    ASSUME ChatAssumption, Messages, NEW v, NEW c, ~ HasHole(v, c)
    PROVE  Unbroken(Ids(v), Of(c))
<1>1. SUFFICES ASSUME NEW m \in Of(c), NEW lo \in RealIn(v), NEW hi \in RealIn(v),
                      lo < m, m < hi, m \notin Ids(v)
               PROVE  FALSE
    BY DEF Unbroken, RealIn
<1>2. RealIn(v) \in SUBSET (0..MaxMessages) /\ MaxMessages \in Nat /\ RealIn(v) # {}
    BY DEF RealIn, Real, ChatAssumption
<1>3. NewestOf(RealIn(v)) \in RealIn(v) /\ hi <= NewestOf(RealIn(v))
    BY <1>2, NewestIsGreatest
<1>4. m \in Nat /\ hi \in Nat /\ NewestOf(RealIn(v)) \in Nat
    BY <1>2, <1>3, OfIsKnown
<1>5. m <= NewestOf(RealIn(v))
    BY <1>1, <1>3, <1>4
<1>6. m \in Holes(v, c, NewestOf(RealIn(v)))
    BY <1>1, <1>5 DEF Holes
<1>7. QED
    BY <1>6 DEF HasHole

\* All after an entry, up to some moment, leave no hole, and none is left.
LEMMA AllAfterFill ==
    ASSUME NEW n \in Nat, NEW k \in Real, NEW ids, NEW messages \in SUBSET Real,
           ids = {} \/ (k \in ids /\ Unbroken(ids, messages)),
           MaxMessages \in Nat,
           NEW S \in SUBSET messages, \A m \in messages : m \in S <=> m <= n /\ m > k,
           NEW all, all = ids \cup S
    PROVE  /\ Unbroken(all, messages)
           /\ \A m \in messages : \A lo \in all \cap Real : m <= n /\ lo < m => m \in all
<1>1. Real \subseteq Nat /\ k \in Nat
    BY DEF Real
<1>2. ASSUME NEW m \in messages, NEW lo \in all \cap Real, m <= n, lo < m
      PROVE  m \in all
    <2>1. m \in Nat /\ lo \in Nat
        BY <1>1
    <2>2. CASE m > k
        BY <1>2, <2>2
    <2>3. CASE m = k
        BY <1>1, <1>2, <2>1, <2>3
    <2>4. CASE m < k
        <3>1. lo \in ids /\ lo < m /\ m < k
            BY <1>1, <1>2, <2>1, <2>4
        <3>2. k \in ids /\ Unbroken(ids, messages)
            BY <3>1
        <3>3. QED
            BY <3>1, <3>2 DEF Unbroken
    <2>5. QED
        BY <1>1, <2>1, <2>2, <2>3, <2>4
<1>3. ASSUME NEW m \in messages, NEW lo \in all \cap Real, NEW hi \in all \cap Real,
             lo < m, m < hi
      PROVE  m \in all
    <2>1. m \in Nat /\ lo \in Nat /\ hi \in Nat
        BY <1>1
    <2>2. CASE m <= n
        BY <1>2, <1>3, <2>2
    <2>3. CASE m > n
        <3>1. hi \in ids /\ k \in ids /\ Unbroken(ids, messages)
            BY <1>3, <2>1, <2>3
        <3>2. CASE lo \in ids
            BY <1>3, <3>1, <3>2 DEF Unbroken
        <3>3. CASE lo \in S
            <4>1. k < m
                BY <1>1, <1>3, <2>1, <3>3
            <4>2. QED
                BY <1>3, <3>1, <4>1 DEF Unbroken
        <3>4. QED
            BY <3>2, <3>3
    <2>4. QED
        BY <2>1, <2>2, <2>3
<1>4. Unbroken(all, messages)
    BY <1>3 DEF Unbroken
<1>5. QED
    BY <1>2, <1>4

\* A page of what comes before an entry, put in front of it, leaves no hole.
LEMMA PageBeforeFills ==
    ASSUME ChatAssumption, NEW k \in Real, NEW ids, k \in ids,
           NEW messages \in SUBSET Real, IsFiniteSet(messages), Unbroken(ids, messages)
    PROVE  Unbroken(ids \cup NewestPage({m \in messages : m <= k - 1}), messages)
<1> DEFINE A == {m \in messages : m <= k - 1}
           S == NewestPage(A)
<1>1. Real \subseteq Nat /\ k \in Nat
    BY DEF Real, ChatAssumption
<1>2. A \in SUBSET Nat /\ IsFiniteSet(A)
    BY <1>1, FS_Subset
<1>3. S \subseteq A
    BY DEF NewestPage
<1>4. \A x \in S : \A m \in A : x < m => m \in S
    <2> HIDE DEF A
    <2>1. QED
        BY <1>2, PageIsUpToDate
<1> HIDE DEF S
<1>5. \A x \in S : x < k /\ x \in Nat
    BY <1>1, <1>3
<1>6. \A x \in S : \A m \in messages : x < m /\ m < k => m \in S
    BY <1>1, <1>4
<1> HIDE DEF A
<1>7. ASSUME NEW m \in messages, NEW lo \in (ids \cup S) \cap Real,
             NEW hi \in (ids \cup S) \cap Real, lo < m, m < hi
      PROVE  m \in ids \cup S
    <2>1. m \in Nat /\ lo \in Nat /\ hi \in Nat
        BY <1>1
    <2>2. CASE lo \in ids
        <3>1. PICK h \in ids \cap Real : m < h
            <4>1. CASE hi \in ids
                BY <1>7, <4>1
            <4>2. CASE hi \in S
                BY <1>1, <1>5, <1>7, <2>1, <4>2
            <4>3. QED
                BY <4>1, <4>2
        <3>2. QED
            BY <1>7, <2>2, <3>1 DEF Unbroken
    <2>3. CASE lo \in S /\ m < k
        BY <1>6, <1>7, <2>3
    <2>4. CASE m = k
        BY <2>4
    <2>5. CASE m > k
        <3>1. hi \in ids /\ k < m
            BY <1>1, <1>5, <1>7, <2>1, <2>5
        <3>2. QED
            BY <1>7, <3>1 DEF Unbroken
    <2>6. QED
        BY <1>1, <1>7, <2>1, <2>2, <2>3, <2>4, <2>5
<1>8. Unbroken(ids \cup S, messages)
    BY <1>7 DEF Unbroken
<1>9. QED
    BY <1>8 DEF S, A

\* A page of what there is up to some moment has no hole.
LEMMA PageIsUnbroken ==
    ASSUME ChatAssumption, NEW n \in Nat, NEW messages \in SUBSET Real, IsFiniteSet(messages)
    PROVE  Unbroken(NewestPage({m \in messages : m <= n}), messages)
<1> DEFINE A == {m \in messages : m <= n}
           S == NewestPage(A)
<1>1. Real \subseteq Nat
    BY DEF Real, ChatAssumption
<1>2. A \in SUBSET Nat /\ IsFiniteSet(A)
    BY <1>1, FS_Subset
<1>3. S \subseteq A
    BY DEF NewestPage
<1>4. \A x \in S : \A m \in A : x < m => m \in S
    <2> HIDE DEF A
    <2>1. QED
        BY <1>2, PageIsUpToDate
<1> HIDE DEF S
<1>5. ASSUME NEW m \in messages, NEW lo \in S, NEW hi \in S, lo < m, m < hi
      PROVE  m \in S
    <2>1. m \in A
        BY <1>1, <1>3, <1>5
    <2>2. QED
        BY <1>4, <1>5, <2>1
<1>6. QED
    BY <1>5 DEF Unbroken, S, A

\* What has become known leaves no hole before it.
LEMMA WholeKept ==
    ASSUME ChatAssumption, Types, Owned, Whole, Next,
           races' \cap {"gap", "late", "mixed", "cut"} = {}
    PROVE  /\ races \cap {"gap", "late", "mixed", "cut"} = {}
           /\ shown = None => view = <<>>
           /\ \A c \in Convs : /\ shown = c => Unbroken(Ids(view), Of(c))
                               /\ shown = c => Unbroken(Ids(view), Of(c)')
                               /\ Unbroken(Ids(store[c]), Of(c)')
<1>1. Grows /\ races \subseteq races'
    BY MessagesGrow
<1>2. races \cap {"gap", "late", "mixed", "cut"} = {} /\ "mixed" \notin races
    BY <1>1
<1>3. /\ Messages /\ view \in Seq(Known) /\ store \in [Convs -> Seq(Known)]
    BY DEF Types, PageType
<1>4. /\ Messages' /\ Len(timeline) \in Nat
      /\ \A c : \A m \in Of(c)' : m \in Of(c) \/ m > Len(timeline)
    BY <1>1, <1>3, KnownGrows
<1>5. \A c : Of(c)' \subseteq Nat
    BY <1>4 DEF Of
<1>6. Known \cap Real \subseteq 0..Len(timeline)
    BY <1>4 DEF Known, Real, ChatAssumption
<1>7. ASSUME NEW v \in Seq(Known), NEW c, Unbroken(Ids(v), Of(c))
      PROVE  Unbroken(Ids(v), Of(c)')
    <2>1. Ids(v) \cap Real \subseteq 0..Len(timeline)
        BY <1>6, IdsOfSeq
    <2>2. QED
        BY <1>4, <1>5, <1>7, <2>1, UnbrokenKept
<1>8. ASSUME NEW c \in Convs
      PROVE  /\ shown = c => Unbroken(Ids(view), Of(c)) /\ Unbroken(Ids(view), Of(c)')
             /\ Unbroken(Ids(store[c]), Of(c)')
    <2>1. /\ shown = c => Unbroken(Ids(view), Of(c))
          /\ Unbroken(Ids(store[c]), Of(c))
        BY <1>2 DEF Whole
    <2>2. store[c] \in Seq(Known)
        BY <1>3
    <2>3. QED
        BY <1>3, <1>7, <2>1, <2>2
<1>9. QED
    BY <1>2, <1>8 DEF Owned

\* How a catch-up ends that had a message to start from and whose view was not put
\* back: nothing is missing of what there was when it asked, nor in between.
LEMMA CatchUpEnds ==
    ASSUME ChatAssumption, Types, Owned, Whole, Next, NEW r \in Requests, CatchUpDone(r),
           races' \cap {"gap", "late", "mixed", "cut"} = {},
           NEW c \in Convs, c = request[r].conv
    PROVE  /\ \/ UNCHANGED <<view, shown, store>>
              \/ /\ shown' = c /\ SetStore(c, view')
                 /\ Unbroken(Ids(view'), Of(c))
           /\ c = current /\ shown = c => Holes(view', c, request[r].since) = {}
<1>1. /\ races \cap {"gap", "late", "mixed", "cut"} = {}
      /\ shown = None => view = <<>>
      /\ shown = c => Unbroken(Ids(view), Of(c))
    BY WholeKept
<1>2. /\ Messages /\ view \in Seq(Known) /\ MaxMessages \in Nat /\ None \notin Convs
      /\ request[r] \in Request /\ Len(timeline) \in Nat
    BY DEF Types, PageType, Messages, ChatAssumption
<1>3. PICK k, since : k = request[r].cursor /\ since = request[r].since
    OBVIOUS
<1>4. k \in Real /\ k # None
    <2>1. request[r].kind = "catchup"
        BY DEF CatchUpDone
    <2>2. request[r].cursor \in Real \/ "gap" \in races
        BY <2>1 DEF Types, Asks, Sound
    <2>3. QED
        BY <1>1, <1>3, <2>2 DEF Real, None
<1>4a. PICK n \in Moments(r) : \E got \in CaughtUp(r, n) :
          LET new == InOrder(view \o Sorted(got \ Ids(view))) IN
          IF c # current THEN UNCHANGED <<view, shown, store>>
          ELSE IF got = {}
          THEN /\ UNCHANGED <<view, shown, store>>
               /\ Late(r) \cup Cut(r, n, got) \subseteq races'
          ELSE /\ view' = new /\ shown' = (IF shown = None THEN c ELSE shown)
               /\ SetStore(c, new)
               /\ Mixed(Foreign) \cup Late(r) \cup Cut(r, n, got) \subseteq races'
    BY DEF CatchUpDone
<1>5. PICK got \in CaughtUp(r, n) :
          LET new == InOrder(view \o Sorted(got \ Ids(view))) IN
          IF c # current THEN UNCHANGED <<view, shown, store>>
          ELSE IF got = {}
          THEN /\ UNCHANGED <<view, shown, store>>
               /\ Late(r) \cup Cut(r, n, got) \subseteq races'
          ELSE /\ view' = new /\ shown' = (IF shown = None THEN c ELSE shown)
               /\ SetStore(c, new)
               /\ Mixed(Foreign) \cup Late(r) \cup Cut(r, n, got) \subseteq races'
    BY <1>4a
<1>6. n \in Nat /\ since \in Nat /\ since <= n
    BY <1>2, <1>3, <1>4a DEF Moments, Request
\* The answer was not cut: it is all that is newer than the cursor.
<1>7. c = current => got = {m \in Of(c) : m <= n /\ m > k}
    <2>1. c = current => got = Newer(r, n)
        BY <1>3, <1>4, <1>5 DEF Cut
    <2>2. Newer(r, n) = {m \in Of(c) : m <= n /\ m > k}
        BY <1>3 DEF Newer, Asked
    <2>3. QED
        BY <2>1, <2>2
<1>8. Of(c) \in SUBSET Real /\ Of(c) \subseteq Nat
    BY <1>2, OfIsKnown
<1>9. c = current /\ shown = c => k \in Ids(view)
    BY <1>1, <1>3, <1>4, <1>5 DEF Late
<1> DEFINE all == Ids(view) \cup got
<1>10. ASSUME c = current,
              Ids(view) = {} \/ (k \in Ids(view) /\ Unbroken(Ids(view), Of(c)))
       PROVE  /\ Unbroken(all, Of(c))
              /\ \A m \in Of(c) : \A lo \in all \cap Real : m <= n /\ lo < m => m \in all
    <2>1. PICK S : S = got
        OBVIOUS
    <2>2. S \in SUBSET Of(c) /\ \A m \in Of(c) : m \in S <=> m <= n /\ m > k
        BY <1>7, <1>8, <1>10, <2>1
    <2>3. PICK x, I, T : I = Ids(view) /\ x = I \cup S /\ T = Of(c)
        OBVIOUS
    <2>4. /\ I = {} \/ (k \in I /\ Unbroken(I, T))
          /\ T \in SUBSET Real /\ S \in SUBSET T
          /\ \A m \in T : m \in S <=> m <= n /\ m > k
          /\ n \in Nat /\ k \in Real /\ MaxMessages \in Nat
        BY <1>2, <1>4, <1>6, <1>8, <1>10, <2>2, <2>3
    <2>5. /\ Unbroken(x, T)
          /\ \A m \in T : \A lo \in x \cap Real : m <= n /\ lo < m => m \in x
        <3>1. x = I \cup S
            BY <2>3
        <3>2. QED
            BY ONLY <2>4, <3>1, AllAfterFill, SMTT(60)
    <2>6. QED
        BY <2>1, <2>3, <2>5
<1>11. ASSUME NEW v, Ids(v) = all, \A m \in Of(c) : \A lo \in all \cap Real :
                                       m <= n /\ lo < m => m \in all
       PROVE  Holes(v, c, since) = {}
    <2>1. ASSUME NEW m \in Holes(v, c, since)
          PROVE  FALSE
        <3>1. m \in Of(c) /\ m <= since /\ m \notin Ids(v) /\ \E lo \in RealIn(v) : lo < m
            BY DEF Holes
        <3>2. m <= n
            BY <1>6, <1>8, <3>1
        <3>3. QED
            BY <1>11, <3>1, <3>2 DEF RealIn
    <2>2. QED
        BY <2>1
<1>12. CASE c # current
    BY <1>5, <1>12
<1>13. CASE c = current /\ got = {}
    <2>1. UNCHANGED <<view, shown, store>>
        BY <1>5, <1>13
    <2>2. ASSUME shown = c
          PROVE  Holes(view', c, since) = {}
        <3>1. all = Ids(view')
            BY <1>7, <1>13, <2>1
        <3>2. k \in Ids(view) /\ Unbroken(Ids(view), Of(c))
            BY <1>1, <1>9, <1>13, <2>2
        <3> HIDE DEF all
        <3>3. QED
            BY <1>10, <1>11, <1>13, <3>1, <3>2
    <2>3. QED
        BY <1>3, <2>1, <2>2
<1>14. CASE c = current /\ got # {}
    <2> DEFINE S   == got \ Ids(view)
               new == InOrder(view \o Sorted(S))
    <2>1. view' = new /\ SetStore(c, new) /\ shown \in {None, c} /\ shown' = c
        BY <1>5, <1>14 DEF Mixed, Foreign
    <2>2. S \in SUBSET Of(c) /\ S \cap Ids(view) = {} /\ Ids(view) \cup S = all
        BY <1>7, <1>14
    <2> HIDE DEF S
    <2>3. Ids(new) = Ids(view) \cup S
        BY <1>2, <2>2, CatchUpView
    <2> HIDE DEF new, all
    <2>4. Ids(view') = all /\ SetStore(c, view')
        BY <2>1, <2>2, <2>3
    <2>5. Ids(view) = {} \/ (k \in Ids(view) /\ Unbroken(Ids(view), Of(c)))
        <3>1. CASE shown = None
            BY <1>1, <3>1 DEF Ids
        <3>2. CASE shown = c
            BY <1>1, <1>9, <1>14, <3>2
        <3>3. QED
            BY <2>1, <3>1, <3>2
    <2>6. Unbroken(Ids(view'), Of(c)) /\ Holes(view', c, since) = {}
        BY <1>10, <1>11, <1>14, <2>4, <2>5
    <2>7. QED
        BY <1>3, <2>1, <2>4, <2>6
<1>15. QED
    BY <1>12, <1>13, <1>14

LEMMA WholeStep ==
    ASSUME ChatAssumption, Types, Owned, Whole, Next
    PROVE  Whole'
<1> DEFINE Goal == \A c \in Convs : /\ shown' = c => Unbroken(Ids(view'), Of(c)')
                                    /\ Unbroken(Ids(store'[c]), Of(c)')
<1>1. SUFFICES ASSUME races' \cap {"gap", "late", "mixed", "cut"} = {}
               PROVE  Goal
    <2>1. ASSUME Goal
          PROVE  \A c \in Convs : /\ (shown = c => Unbroken(Ids(view), Of(c)))'
                                  /\ (Unbroken(Ids(store[c]), Of(c)))'
        BY <2>1 DEF Unbroken, Ids
    <2>2. QED
        BY <1>1, <2>1 DEF Whole
<1>2. /\ Messages /\ PageType /\ None \notin Convs
      /\ view \in Seq(Known) /\ store \in [Convs -> Seq(Known)]
      /\ current \in Convs \cup {None} /\ shown \in Convs \cup {None}
      /\ races \subseteq races'
    BY MessagesGrow DEF Types, PageType, ChatAssumption
<1>3. /\ races \cap {"gap", "late", "mixed", "cut"} = {}
      /\ shown = None => view = <<>>
      /\ \A c \in Convs : /\ shown = c => Unbroken(Ids(view), Of(c))
                          /\ shown = c => Unbroken(Ids(view), Of(c)')
                          /\ Unbroken(Ids(store[c]), Of(c)')
    BY <1>1, WholeKept
<1>4. \A c : Of(c) \in SUBSET Real /\ IsFiniteSet(Of(c))
    BY <1>2, OfIsKnown
<1>5. \A c : Ids(<<>>) = {} /\ Unbroken({}, Of(c)')
    BY DEF Ids, Unbroken
<1>6. ASSUME UNCHANGED <<view, shown, store>>
      PROVE  Goal
    BY <1>3, <1>6
<1>7. ASSUME NEW c \in Convs, NEW v, SetStore(c, v), view' = v, shown' = c,
             Unbroken(Ids(v), Of(c)')
      PROVE  Goal
    <2>1. \A d \in Convs : store'[d] = IF d = c THEN v ELSE store[d]
        BY <1>2, <1>7, StoreAfter
    <2>2. QED
        BY <1>3, <1>7, <2>1
<1>8. ASSUME NEW r \in Requests, GetDone(r)
      PROVE  Goal
    <2>0. PICK c : c = request[r].conv
        OBVIOUS
    <2>1. UNCHANGED <<view, shown>> \/ (view' = store[c] /\ shown' = c)
        BY <1>8, <2>0 DEF GetDone
    <2>2. UNCHANGED store
        BY <1>8 DEF GetDone
    <2>3. QED
        BY <1>3, <1>6, <2>1, <2>2
<1>9. ASSUME NEW r \in Requests, LoadDone(r)
      PROVE  Goal
    <2>0. PICK c : c = request[r].conv
        OBVIOUS
    <2>1. c \in Convs /\ request[r] \in Request
        BY <1>2, <1>9, <2>0 DEF LoadDone, Types, Asks, Sound, PageType
    <2>2. PICK n \in Moments(r) :
              /\ view' = Sorted(NewestPage(Asked(r, n))) /\ shown' = c
              /\ SetStore(c, Sorted(NewestPage(Asked(r, n))))
        BY <1>9, <2>0 DEF LoadDone
    <2>3. n \in Nat /\ timeline' = timeline
        BY <1>9, <2>1 DEF Moments, Request, LoadDone
    <2>4. PICK T : T = Of(c)
        OBVIOUS
    <2>5. Asked(r, n) = {m \in T : m <= n}
        BY <2>0, <2>4 DEF Asked
    <2>6. Unbroken(NewestPage({m \in T : m <= n}), T)
        BY <1>4, <2>3, <2>4, PageIsUnbroken
    <2> DEFINE S == NewestPage(Asked(r, n))
    <2>7. S \in SUBSET Of(c)
        BY <2>0, Answers
    <2>8. Unbroken(S, Of(c))
        BY <2>4, <2>5, <2>6
    <2>9. Of(c)' = Of(c)
        BY <2>3 DEF Of
    <2> HIDE DEF S
    <2>10. Ids(Sorted(S)) = S
        BY <1>2, <2>7, PageView
    <2>11. PICK v : v = Sorted(S)
        OBVIOUS
    <2>12. Unbroken(Ids(v), Of(c)')
        BY <2>8, <2>9, <2>10, <2>11
    <2>13. QED
        BY <1>7, <2>1, <2>2, <2>11, <2>12 DEF S
<1>10. ASSUME NEW r \in Requests, CatchUpDone(r)
       PROVE  Goal
    <2>1. PICK c \in Convs : c = request[r].conv
        BY <1>10 DEF CatchUpDone, Types, Asks, Sound
    <2>2. \/ UNCHANGED <<view, shown, store>>
          \/ /\ shown' = c /\ SetStore(c, view')
             /\ Unbroken(Ids(view'), Of(c))
        BY <1>1, <1>10, <2>1, CatchUpEnds
    <2>3. Of(c)' = Of(c)
        BY <1>10 DEF Of, CatchUpDone
    <2>4. PICK v : v = view'
        OBVIOUS
    <2>5. QED
        BY <1>6, <1>7, <2>2, <2>3, <2>4
<1>11. ASSUME NEW r \in Requests, OlderDone(r)
       PROVE  Goal
    <2>0. PICK c, k : c = request[r].conv /\ k = request[r].cursor
        OBVIOUS
    <2>1. c \in Convs /\ k \in Real
        BY <1>11, <2>0 DEF OlderDone, Types, Asks, Sound
    <2> DEFINE P == NewestPage(Asked(r, k - 1))
               S == P \ Ids(view)
    <2>2. \/ UNCHANGED <<view, store>>
          \/ /\ view' = Sorted(S) \o view /\ SetStore(c, Sorted(S) \o view)
             /\ Mixed(shown # c) \cup Late(r) \subseteq races'
        BY <1>11, <2>0 DEF OlderDone
    <2>3. UNCHANGED <<shown, timeline>>
        BY <1>11 DEF OlderDone
    <2>4. CASE UNCHANGED <<view, store>>
        BY <1>6, <2>3, <2>4
    <2>5. S \in SUBSET Of(c) /\ S \cap Ids(view) = {} /\ Ids(view) \cup S = Ids(view) \cup P
        BY <2>0, Answers
    <2>6. PICK T, I : T = Of(c) /\ I = Ids(view)
        OBVIOUS
    <2>7. P = NewestPage({m \in T : m <= k - 1})
        BY <2>0, <2>6 DEF Asked
    <2> HIDE DEF S, P
    <2>8. CASE /\ view' = Sorted(S) \o view /\ SetStore(c, Sorted(S) \o view)
               /\ Mixed(shown # c) \cup Late(r) \subseteq races'
        <3>1. shown = c
            BY <1>1, <2>8 DEF Mixed
        <3>2. k \in I
            <4>1. k # None
                BY <2>1 DEF Real, None, ChatAssumption
            <4>2. Late(r) \subseteq races' /\ "late" \notin races'
                BY <1>1, <2>8
            <4>3. request[r].cursor \in Ids(view) \cup {None}
                BY <2>0, <3>1, <4>2 DEF Late
            <4>4. QED
                BY <2>0, <2>6, <4>1, <4>3
        <3>3. Unbroken(I, T) /\ T \in SUBSET Real /\ IsFiniteSet(T)
            BY <1>3, <1>4, <2>1, <2>6, <3>1
        <3>4. Unbroken(I \cup NewestPage({m \in T : m <= k - 1}), T)
            BY <2>1, <3>2, <3>3, PageBeforeFills
        <3>5. PICK new : new = Sorted(S) \o view
            OBVIOUS
        <3>6. Ids(new) = Ids(view) \cup S
            BY <1>2, <2>5, <3>5, OlderView
        <3>7. Of(c)' = Of(c)
            BY <2>3 DEF Of
        <3>8. Unbroken(Ids(new), Of(c)')
            BY <2>5, <2>6, <2>7, <3>4, <3>6, <3>7
        <3>9. QED
            BY <1>7, <2>1, <2>3, <2>8, <3>1, <3>5, <3>8
    <2>9. QED
        BY <2>2, <2>4, <2>8
<1>12. ASSUME NEW r \in Requests, SendMessage(r)
       PROVE  Goal
    <2>1. PICK id, c : id = MaxMessages + Len(sending) + 1 /\ c = current
        OBVIOUS
    <2>2. /\ view' = Append(view, id) /\ shown' = (IF shown = None THEN c ELSE shown)
          /\ UNCHANGED <<store, timeline>> /\ c # None /\ Mixed(Foreign) \subseteq races'
        BY <1>12, <2>1 DEF SendMessage
    <2>3. shown \in {None, c} /\ shown' = c /\ c \in Convs
        BY <1>1, <1>2, <2>1, <2>2 DEF Foreign, Mixed
    <2>4. id \notin Real
        BY <1>2, <2>1 DEF Real, Messages, ChatAssumption
    <2>5. view \in Seq(Known \cup {id})
        BY <1>2
    <2>6. Ids(view') = Ids(view) \cup {id}
        BY <2>2, <2>5, IdsOfAppend
    <2>7. Unbroken(Ids(view), Of(c)')
        BY <1>3, <1>5, <2>3
    <2>8. Unbroken(Ids(view'), Of(c)')
        BY <2>4, <2>6, <2>7, UnbrokenSending
    <2>9. QED
        BY <1>3, <2>2, <2>3, <2>8
<1>13. ASSUME NEW r \in Requests, SendDone(r)
       PROVE  Goal
    <2>0. PICK c, temp : c = request[r].conv /\ temp = request[r].cursor
        OBVIOUS
    <2>1. c \in Convs /\ temp \in Theirs(c)
        BY <1>13, <2>0 DEF SendDone, Types, Asks, Sound
    <2>2. UNCHANGED <<shown, store, timeline>>
        BY <1>13 DEF SendDone
    <2>3. \/ view' = view
          \/ temp \in Ids(view) /\ ~ HasHole(view', c)
        BY <1>1, <1>13, <2>0 DEF SendDone
    <2>4. CASE view' = view
        BY <1>6, <2>2, <2>4
    <2>5. CASE temp \in Ids(view) /\ ~ HasHole(view', c)
        <3>1. shown # None
            BY <1>3, <1>5, <2>5
        <3>2. temp \in Theirs(shown)
            BY <1>2, <1>3, <2>5, <3>1 DEF Owned
        <3>3. shown = c
            BY <2>1, <3>2 DEF Theirs
        <3>4. PICK v : v = view'
            OBVIOUS
        <3>5. Unbroken(Ids(v), Of(c))
            BY <1>2, <2>5, <3>4, NoHoleSeen
        <3>6. Of(c)' = Of(c)
            BY <2>2 DEF Of
        <3>7. QED
            BY <1>3, <2>2, <3>3, <3>4, <3>5, <3>6
    <2>6. QED
        BY <2>3, <2>4, <2>5
<1>14. ASSUME NEW m \in Real, HandleIncoming(m)
       PROVE  Goal
    <2>0. PICK c : c = timeline[m].conv
        OBVIOUS
    <2>1. \/ UNCHANGED <<view, shown, store>>
          \/ /\ c = current /\ shown' = (IF shown = None THEN c ELSE shown)
             /\ SetStore(c, view') /\ ~ HasHole(view', c) /\ Mixed(Foreign) \subseteq races'
        BY <1>1, <1>14, <2>0 DEF HandleIncoming
    <2>2. c \in Convs /\ timeline' = timeline
        <3>1. m \in 1..Len(timeline) /\ timeline' = timeline
            BY <1>14 DEF HandleIncoming
        <3>2. timeline[m] \in Message
            BY <1>2, <3>1 DEF Messages
        <3>3. QED
            BY <2>0, <3>1, <3>2 DEF Message
    <2>3. CASE UNCHANGED <<view, shown, store>>
        BY <1>6, <2>3
    <2>4. CASE /\ c = current /\ shown' = (IF shown = None THEN c ELSE shown)
               /\ SetStore(c, view') /\ ~ HasHole(view', c) /\ Mixed(Foreign) \subseteq races'
        <3>1. shown' = c
            BY <1>1, <2>4 DEF Foreign, Mixed
        <3>2. PICK v : v = view'
            OBVIOUS
        <3>3. Unbroken(Ids(v), Of(c))
            BY <1>2, <2>4, <3>2, NoHoleSeen
        <3>4. Of(c)' = Of(c)
            BY <2>2 DEF Of
        <3>5. QED
            BY <1>7, <2>2, <2>4, <3>1, <3>2, <3>3, <3>4
    <2>5. QED
        BY <2>1, <2>3, <2>4
<1>15. ASSUME NEW r \in Requests, \/ \E c \in Convs : SelectConversation(r, c)
                                  \/ TimerFires(r) \/ LoadOlder(r) \/ Accept(r) \/ Fails(r)
       PROVE  Goal
    BY <1>6, <1>15 DEF SelectConversation, TimerFires, LoadOlder, Accept, Fails, pageVars
<1>16. ASSUME \/ \E c \in Convs : Arrive(c)
              \/ DeselectConversation \/ RunCatchUp \/ FlushReads
       PROVE  Goal
    BY <1>6, <1>16 DEF Arrive, DeselectConversation, RunCatchUp, FlushReads, pageVars
<1>17. ASSUME Reload
       PROVE  Goal
    <2>1. store' = store /\ shown' = None
        BY <1>17 DEF Reload
    <2>2. QED
        BY <1>2, <1>3, <2>1
<1>18. QED
    BY <1>8, <1>9, <1>10, <1>11, <1>12, <1>13, <1>14, <1>15, <1>16, <1>17 DEF Next

LEMMA WholeInit ==
    ASSUME ChatAssumption, Init
    PROVE  Whole
<1>1. view = <<>> /\ \A c \in Convs : store[c] = <<>>
    BY DEF Init
<1>2. QED
    BY <1>1 DEF Whole, Unbroken, Ids

\* The inductive invariant: Owned needs the types, and Whole needs both, since what
\* the view has no hole of is the conversation that it is of.
PageInv == Types /\ Owned /\ Whole

LEMMA PageInvHolds == Spec => []PageInv
<1>1. Init => PageInv
    BY ChatAssumption, TypesInit, OwnedInit, WholeInit DEF PageInv
<1>2. PageInv /\ [Next]_vars => PageInv'
    <2>1. ASSUME PageInv, Next
          PROVE  Whole'
        BY <2>1, ChatAssumption, WholeStep DEF PageInv
    <2>2. ASSUME PageInv, UNCHANGED vars
          PROVE  Whole'
        BY <2>2, SMTT(30) DEF vars, pageVars, PageInv, Whole, Of, Ids, Unbroken
    <2>3. QED
        BY <2>1, <2>2, ChatAssumption, TypesStep, OwnedNext DEF PageInv
<1>3. QED
    BY <1>1, <1>2, PTL DEF Spec

\* After a catch-up nothing is missing in the open conversation of what Garmin had
\* when it asked, whatever came meanwhile over the stream, twice or not at all, and
\* wherever the user went: unless a message came before one that was missed, there
\* was none to start from, the view was put back to an earlier state or was that of
\* another conversation, or more was missed than the one page that a catch-up asks
\* for (limit=200), now or before.
THEOREM CatchUpLeavesNothingOut == Spec => CatchUpFills
<1>1. ASSUME PageInv, [Next]_vars
      PROVE  [races' \cap {"gap", "late", "mixed", "cut"} = {} =>
                 \A r \in Requests : PullsAll(r)]_vars
    <2>1. CASE UNCHANGED vars
        BY <2>1
    <2>2. CASE Next
        <3>1. SUFFICES ASSUME races' \cap {"gap", "late", "mixed", "cut"} = {},
                              NEW r \in Requests, CatchUpDone(r)
                       PROVE  LET c == request[r].conv
                              IN  c = current /\ shown = c
                                      => Holes(view', c, request[r].since) = {}
            BY DEF PullsAll
        <3>2. PICK c \in Convs : c = request[r].conv
            BY <1>1, <3>1 DEF CatchUpDone, PageInv, Types, Asks, Sound
        <3>3. c = current /\ shown = c => Holes(view', c, request[r].since) = {}
            BY <1>1, <2>2, <3>1, <3>2, ChatAssumption, CatchUpEnds DEF PageInv
        <3>4. QED
            BY <3>2, <3>3
    <2>3. QED
        BY <1>1, <2>1, <2>2
<1>2. Spec => []PageInv
    BY PageInvHolds
<1>3. QED
    BY <1>1, <1>2, PTL DEF Spec, CatchUpFills

===============================================================================
