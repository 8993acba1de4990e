------------------------------ MODULE NFConfigProofs ------------------------------
(* What a sync serves, for any stored configuration.  A list is made by sorting, so
   the proofs first say what sorting by tuples of numbers does: the order is total
   (BeforeTotal, BeforeAsymmetric, BeforeSplits), every finite set has a sorted
   enumeration (OrderExists), and one only if no two elements have one key
   (OrderUnique).  Then, list by list, which entries it has (...Served) and whether
   it is the only one that a sync may produce (...Unique).  The invariant says that
   what is in memory was derived from what is stored.                           *)
EXTENDS NFConfig, FiniteSetTheorems, TLAPS

-----------------------------------------------------------------------------
(* The order of tuples of integers of one length. *)

Keys(n) == {k \in Seq(Int) : Len(k) = n}

LEMMA KeyDomain ==
    ASSUME NEW n \in Nat, NEW k \in Keys(n)
    PROVE  DOMAIN k = 1..n /\ \A i \in 1..n : k[i] \in Int
BY DEF Keys

LEMMA LeastElement ==
    ASSUME NEW T \in SUBSET Nat, T # {}
    PROVE  \E i \in T : \A k \in T : i <= k
<1>1. PICK x \in T : \A y \in T : ~(<<y, x>> \in OpToRel(<, Nat))
  BY NatLessThanWellFounded, WFMin
<1>2. \A y \in T : ~(y < x)
  BY <1>1 DEF OpToRel
<1>3. QED BY <1>2

LEMMA FirstDifference ==
    ASSUME NEW n \in Nat, NEW a \in Keys(n), NEW b \in Keys(n), NEW m \in 1..n, a[m] # b[m]
    PROVE  \E i \in 1..m : a[i] # b[i] /\ \A k \in 1..i - 1 : a[k] = b[k]
<1> DEFINE T == {i \in 1..m : a[i] # b[i]}
<1>1. PICK i \in T : \A k \in T : i <= k
  <2>1. m \in T /\ T \in SUBSET Nat
    OBVIOUS
  <2> HIDE DEF T
  <2>2. QED BY <2>1, LeastElement
<1>2. \A k \in 1..i - 1 : k \in 1..m /\ k \notin T
  BY <1>1
<1>3. QED BY <1>2

LEMMA BeforeTotal ==
    ASSUME NEW n \in Nat, NEW a \in Keys(n), NEW b \in Keys(n), a # b
    PROVE  Before(a, b) \/ Before(b, a)
<1>1. PICK m \in 1..n : a[m] # b[m]
  BY DEF Keys
<1>2. PICK i \in 1..m : a[i] # b[i] /\ \A k \in 1..i - 1 : a[k] = b[k]
  BY <1>1, FirstDifference
<1>3. i \in DOMAIN a /\ i \in DOMAIN b /\ a[i] \in Int /\ b[i] \in Int
  BY KeyDomain
<1>4. a[i] < b[i] \/ b[i] < a[i]
  BY <1>2, <1>3
<1>5. QED BY <1>2, <1>3, <1>4 DEF Before

LEMMA BeforeAsymmetric ==
    ASSUME NEW n \in Nat, NEW a \in Keys(n), NEW b \in Keys(n), Before(a, b)
    PROVE  ~Before(b, a)
<1> SUFFICES ASSUME Before(b, a)
             PROVE  FALSE
  OBVIOUS
<1>1. PICK i \in 1..n : a[i] < b[i] /\ \A k \in 1..i - 1 : a[k] = b[k]
  BY KeyDomain DEF Before
<1>2. PICK j \in 1..n : b[j] < a[j] /\ \A k \in 1..j - 1 : b[k] = a[k]
  BY KeyDomain DEF Before
<1>3. a[i] \in Int /\ b[i] \in Int /\ a[j] \in Int /\ b[j] \in Int
  BY KeyDomain
<1>4. i < j \/ j < i \/ i = j
  OBVIOUS
<1>5. QED BY <1>1, <1>2, <1>3, <1>4

(* What lies between a and c comes after a or before c. *)
LEMMA BeforeSplits ==
    ASSUME NEW n \in Nat, NEW a \in Keys(n), NEW b \in Keys(n), NEW c \in Keys(n), Before(a, c)
    PROVE  Before(a, b) \/ Before(b, c)
<1>1. PICK i \in 1..n : a[i] < c[i] /\ \A k \in 1..i - 1 : a[k] = c[k]
  BY KeyDomain DEF Before
<1>2. \A k \in 1..n : /\ a[k] \in Int /\ b[k] \in Int /\ c[k] \in Int
                      /\ k \in DOMAIN a /\ k \in DOMAIN b
  BY KeyDomain
<1>3. CASE \A k \in 1..i - 1 : a[k] = b[k]
  <2>1. a[i] < b[i] \/ b[i] < c[i]
    BY <1>1, <1>2
  <2>2. \A k \in 1..i - 1 : b[k] = c[k]
    BY <1>1, <1>3
  <2>3. QED BY <1>2, <1>3, <2>1, <2>2 DEF Before
<1>4. CASE \E m \in 1..i - 1 : a[m] # b[m]
  <2>1. PICK m \in 1..i - 1 : a[m] # b[m]
    BY <1>4
  <2>2. PICK j \in 1..m : a[j] # b[j] /\ \A k \in 1..j - 1 : a[k] = b[k]
    BY <2>1, FirstDifference
  <2>3. j \in 1..n /\ a[j] = c[j] /\ \A k \in 1..j - 1 : b[k] = c[k]
    BY <1>1, <2>2
  <2>4. a[j] < b[j] \/ b[j] < c[j]
    BY <1>2, <2>2, <2>3
  <2>5. QED BY <1>2, <2>2, <2>3, <2>4 DEF Before
<1>5. QED BY <1>3, <1>4

-----------------------------------------------------------------------------
(* Induction, in terms of sets. *)

LEMMA SetInduction ==
    ASSUME NEW S, 0 \in S, \A n \in Nat : n \in S => n + 1 \in S
    PROVE  Nat \subseteq S
<1> DEFINE T == Nat \ S
<1> SUFFICES ASSUME T # {} PROVE FALSE
  OBVIOUS
<1>1. PICK x \in T : \A y \in T : x <= y
  <2>1. T \in SUBSET Nat
    OBVIOUS
  <2> HIDE DEF T
  <2>2. QED BY <2>1, LeastElement
<1>2. x \in Nat /\ x # 0
  OBVIOUS
<1>3. x - 1 \in Nat /\ x - 1 < x /\ (x - 1) + 1 = x
  BY <1>2
<1>4. x - 1 \in T
  BY <1>2, <1>3
<1>5. QED BY <1>1, <1>3, <1>4

(* What holds of the empty set, and of a set if it does whenever one element is left
   out, holds of every subset of a finite one.                                *)
LEMMA SubsetInduction ==
    ASSUME NEW D, IsFiniteSet(D), NEW C, {} \in C,
           \A T \in SUBSET D : T # {} /\ (\A x \in T : T \ {x} \in C) => T \in C
    PROVE  SUBSET D \subseteq C
<1> DEFINE S == {n \in Nat : \A T \in SUBSET D : Cardinality(T) = n => T \in C}
<1>1. \A T \in SUBSET D : IsFiniteSet(T) /\ Cardinality(T) \in Nat
  BY FS_Subset, FS_CardinalityType
<1>2. 0 \in S
  BY <1>1, FS_EmptySet
<1>3. \A n \in Nat : n \in S => n + 1 \in S
  <2> SUFFICES ASSUME NEW n \in Nat, n \in S, NEW T \in SUBSET D, Cardinality(T) = n + 1
               PROVE  T \in C
    OBVIOUS
  <2>1. T # {}
    BY FS_EmptySet
  <2>2. \A x \in T : T \ {x} \in C
    <3> SUFFICES ASSUME NEW x \in T
                 PROVE  T \ {x} \in C
      OBVIOUS
    <3>1. Cardinality(T \ {x}) = n
      BY <1>1, FS_RemoveElement
    <3>2. QED BY <3>1
  <2>3. QED BY <2>1, <2>2
<1>4. Nat \subseteq S
  <2> HIDE DEF S
  <2> QED BY <1>2, <1>3, SetInduction
<1>5. QED BY <1>1, <1>4

-----------------------------------------------------------------------------
(* Sorting: the elements of a set in the order of a key, which is a function. *)

Orders(S, key) == {q \in SetToSeqs(S) :
                     \A i, k \in DOMAIN q : i < k => ~Before(key[q[k]], key[q[i]])}

(* A sequence of the elements of a finite set has each once. *)
LEMMA Enumeration ==
    ASSUME NEW S, IsFiniteSet(S), NEW q \in SetToSeqs(S)
    PROVE  /\ Cardinality(S) \in Nat
           /\ q \in [1..Cardinality(S) -> S]
           /\ \A i, k \in 1..Cardinality(S) : q[i] = q[k] => i = k
           /\ \A x \in S : \E i \in 1..Cardinality(S) : q[i] = x
<1> DEFINE n == Cardinality(S)
<1>1. n \in Nat
  BY FS_CardinalityType
<1>2. q \in [1..n -> S] /\ \A i, k \in 1..n : q[i] = q[k] => i = k
  BY DEF SetToSeqs
<1>3. q \in Injection(1..n, S)
  BY <1>2 DEF Injection, IsInjective
<1>4. IsFiniteSet(1..n) /\ Cardinality(1..n) = n
  <2> HIDE DEF n
  <2> QED BY <1>1, FS_Interval
<1>5. q \in Surjection(1..n, S)
  BY <1>3, <1>4, FS_Injection
<1>6. QED BY <1>1, <1>2, <1>5 DEF Surjection

LEMMA Elements ==
    ASSUME NEW S, IsFiniteSet(S), NEW q \in SetToSeqs(S)
    PROVE  /\ q \in Seq(S) /\ Len(q) = Cardinality(S) /\ DOMAIN q = 1..Cardinality(S)
           /\ ToSet(q) = S
<1>1. /\ Cardinality(S) \in Nat
      /\ q \in [1..Cardinality(S) -> S]
      /\ \A x \in S : \E i \in 1..Cardinality(S) : q[i] = x
  BY Enumeration
<1>2. q \in Seq(S) /\ Len(q) = Cardinality(S) /\ DOMAIN q = 1..Cardinality(S)
  BY <1>1
<1>3. ToSet(q) = S
  BY <1>1, <1>2 DEF ToSet
<1>4. QED BY <1>2, <1>3

(* One of finitely many elements comes last. *)
LEMMA LastElement ==
    ASSUME NEW S, IsFiniteSet(S), NEW n \in Nat, NEW key \in [S -> Keys(n)],
           NEW T \in SUBSET S, T # {}
    PROVE  \E x \in T : \A y \in T : ~Before(key[x], key[y])
<1> DEFINE Lst(U) == \E x \in U : \A y \in U : ~Before(key[x], key[y])
           C == {U \in SUBSET S : U # {} => Lst(U)}
<1>1. {} \in C
  OBVIOUS
<1>2. ASSUME NEW U \in SUBSET S, U # {}, \A x \in U : U \ {x} \in C
      PROVE  U \in C
  <2>1. PICK x \in U : TRUE
    BY <1>2
  <2>2. \A y \in U : key[y] \in Keys(n)
    OBVIOUS
  <2>3. ~Before(key[x], key[x])
    BY <2>1, <2>2, BeforeAsymmetric
  <2>4. CASE U \ {x} = {}
    <3>1. \A y \in U : y = x
      BY <2>4
    <3>2. Lst(U)
      BY <2>1, <2>3, <3>1
    <3>3. QED BY <3>2
  <2>5. CASE U \ {x} # {}
    <3>1. PICK m \in U \ {x} : \A y \in U \ {x} : ~Before(key[m], key[y])
      BY <1>2, <2>1, <2>5
    <3>2. CASE ~Before(key[m], key[x])
      <4>1. \A y \in U : ~Before(key[m], key[y])
        BY <3>1, <3>2
      <4>2. Lst(U)
        BY <4>1
      <4>3. QED BY <4>2
    <3>3. CASE Before(key[m], key[x])
      <4>1. ASSUME NEW y \in U
            PROVE  ~Before(key[x], key[y])
        <5>1. CASE y = x
          BY <2>3, <5>1
        <5>2. CASE y # x
          <6>1. ~Before(key[m], key[y])
            BY <3>1, <5>2
          <6>2. Before(key[y], key[x])
            BY <2>1, <2>2, <3>3, <6>1, BeforeSplits
          <6>3. QED BY <2>1, <2>2, <6>2, BeforeAsymmetric
        <5>3. QED BY <5>1, <5>2
      <4>2. Lst(U)
        BY <2>1, <4>1
      <4>3. QED BY <4>2
    <3>4. QED BY <3>2, <3>3
  <2>6. QED BY <2>4, <2>5
<1>3. SUBSET S \subseteq C
  <2> HIDE DEF C
  <2> QED BY <1>1, <1>2, SubsetInduction
<1>4. QED BY <1>3

(* Finitely many elements have an order. *)
LEMMA OrderExists ==
    ASSUME NEW S, IsFiniteSet(S), NEW n \in Nat, NEW key \in [S -> Keys(n)]
    PROVE  Orders(S, key) # {}
<1> DEFINE C == {T \in SUBSET S : Orders(T, key) # {}}
<1>1. {} \in C
  <2>1. <<>> \in SetToSeqs({})
    BY FS_EmptySet DEF SetToSeqs
  <2>2. <<>> \in Orders({}, key)
    BY <2>1 DEF Orders
  <2>3. QED BY <2>2
<1>2. ASSUME NEW T \in SUBSET S, T # {}, \A x \in T : T \ {x} \in C
      PROVE  T \in C
  <2>1. PICK x \in T : \A y \in T : ~Before(key[x], key[y])
    BY <1>2, LastElement
  <2>2. PICK q \in SetToSeqs(T \ {x}) :
           \A i, k \in DOMAIN q : i < k => ~Before(key[q[k]], key[q[i]])
    BY <1>2, <2>1 DEF Orders
  <2> DEFINE m == Cardinality(T \ {x})
             r == [i \in 1..m + 1 |-> IF i = m + 1 THEN x ELSE q[i]]
  <2>3. IsFiniteSet(T) /\ IsFiniteSet(T \ {x}) /\ m \in Nat /\ Cardinality(T) = m + 1
    <3>1. IsFiniteSet(T)
      BY FS_Subset
    <3>2. Cardinality(T) \in Nat /\ IsFiniteSet(T \ {x}) /\ m = Cardinality(T) - 1
      BY <3>1, FS_CardinalityType, FS_RemoveElement
    <3>3. m \in Nat
      BY <3>2, FS_CardinalityType
    <3>4. QED BY <3>1, <3>2, <3>3
  <2>4. q \in [1..m -> T \ {x}] /\ \A i, k \in 1..m : q[i] = q[k] => i = k
    BY <2>3, Enumeration
  <2> HIDE DEF m
  <2>5. r \in [1..m + 1 -> T] /\ \A i, k \in 1..m + 1 : i # k => r[i] # r[k]
    <3>1. \A i \in 1..m + 1 : i # m + 1 => i \in 1..m /\ r[i] = q[i] /\ q[i] \in T \ {x}
      BY <2>3, <2>4
    <3>2. r[m + 1] = x
      BY <2>3
    <3>3. r \in [1..m + 1 -> T]
      BY <2>1, <3>1
    <3> HIDE DEF r
    <3>4. \A i, k \in 1..m + 1 : i # k => r[i] # r[k]
      BY <2>4, <3>1, <3>2
    <3>5. QED BY <3>3, <3>4
  <2>6. r \in SetToSeqs(T)
    BY <2>3, <2>5 DEF SetToSeqs
  <2>7. ASSUME NEW i \in 1..m + 1, NEW k \in 1..m + 1, i < k
        PROVE  ~Before(key[r[k]], key[r[i]])
    <3>1. i \in 1..m /\ r[i] = q[i] /\ q[i] \in T
      BY <2>3, <2>4, <2>7
    <3>2. CASE k = m + 1
      BY <2>1, <3>1, <3>2
    <3>3. CASE k # m + 1
      <4>1. k \in 1..m /\ r[k] = q[k]
        BY <2>3, <3>3
      <4>2. QED BY <2>2, <2>4, <2>7, <3>1, <4>1
    <3>4. QED BY <3>2, <3>3
  <2>8. DOMAIN r = 1..m + 1
    OBVIOUS
  <2> HIDE DEF r
  <2>9. r \in Orders(T, key)
    BY <2>6, <2>7, <2>8 DEF Orders
  <2>10. QED BY <2>9
<1>3. SUBSET S \subseteq C
  <2> HIDE DEF C
  <2> QED BY <1>1, <1>2, SubsetInduction
<1>4. QED BY <1>3

(* If no two elements have one key, there is one order only. *)
LEMMA OrderUnique ==
    ASSUME NEW S, IsFiniteSet(S), NEW n \in Nat, NEW key \in [S -> Keys(n)],
           \A x, y \in S : key[x] = key[y] => x = y,
           NEW q \in Orders(S, key), NEW r \in Orders(S, key)
    PROVE  q = r
<1> DEFINE m == Cardinality(S)
<1>1. m \in Nat /\ q \in [1..m -> S] /\ r \in [1..m -> S]
  BY Enumeration DEF Orders
<1>2. /\ \A i, k \in 1..m : q[i] = q[k] => i = k
      /\ \A i, k \in 1..m : r[i] = r[k] => i = k
      /\ \A x \in S : \E i \in 1..m : q[i] = x
      /\ \A x \in S : \E i \in 1..m : r[i] = x
  BY Enumeration DEF Orders
<1>3. /\ \A i, k \in 1..m : i < k => ~Before(key[q[k]], key[q[i]])
      /\ \A i, k \in 1..m : i < k => ~Before(key[r[k]], key[r[i]])
  BY <1>1 DEF Orders
<1> HIDE DEF m
<1> SUFFICES ASSUME q # r
             PROVE  FALSE
  OBVIOUS
<1> DEFINE T == {i \in 1..m : q[i] # r[i]}
<1>4. PICK i \in T : \A k \in T : i <= k
  <2>1. T # {}
    BY <1>1
  <2>2. T \in SUBSET Nat
    OBVIOUS
  <2> HIDE DEF T
  <2>3. QED BY <2>1, <2>2, LeastElement
<1>5. i \in 1..m /\ q[i] # r[i] /\ q[i] \in S /\ r[i] \in S
  BY <1>1
<1>6. \A k \in 1..m : k < i => q[k] = r[k]
  BY <1>4
<1>7. PICK j \in 1..m : r[j] = q[i]
  BY <1>2, <1>5
<1>8. i < j
  BY <1>2, <1>5, <1>6, <1>7
<1>9. PICK k \in 1..m : q[k] = r[i]
  BY <1>2, <1>5
<1>10. i < k
  BY <1>2, <1>5, <1>6, <1>9
<1>11. ~Before(key[q[i]], key[r[i]]) /\ ~Before(key[r[i]], key[q[i]])
  BY <1>3, <1>5, <1>7, <1>8, <1>9, <1>10
<1>12. key[q[i]] # key[r[i]] /\ key[q[i]] \in Keys(n) /\ key[r[i]] \in Keys(n)
  BY <1>5
<1>13. QED BY <1>11, <1>12, BeforeTotal

-----------------------------------------------------------------------------
(* What is stored. *)

StoredSlice == [name : Nat, plmn : Nat, sst : DOMAIN SstOf, sd : Nat, groups : Seq(GroupNames),
                gnbs : SUBSET [name : Nat, tac : Nat],
                upf : {None} \union [host : {None} \union Nat, port : {None} \union Int],
                rules : Seq([precedence : Int, id : Nat])]

StoredInv ==
    /\ slices \in Seq(StoredSlice)
    /\ IsFiniteSet(DOMAIN groups) /\ DOMAIN groups \subseteq GroupNames
    /\ \A g \in DOMAIN groups : groups[g] \in GroupType

(* Numbers, and indices of a sequence among them, are their own keys. *)
OwnKey(I) == [i \in I |-> <<i>>]

LEMMA OwnKeys ==
    ASSUME NEW I, I \subseteq Int
    PROVE  OwnKey(I) \in [I -> Keys(1)]
BY DEF OwnKey, Keys

LEMMA FiniteIndices ==
    ASSUME NEW E, NEW s \in Seq(E), NEW I \in SUBSET DOMAIN s
    PROVE  IsFiniteSet(I) /\ I \subseteq Int
<1>1. DOMAIN s = 1..Len(s) /\ Len(s) \in Nat
  OBVIOUS
<1>2. IsFiniteSet(DOMAIN s)
  BY <1>1, FS_Interval
<1>3. QED BY <1>1, <1>2, FS_Subset

(* What Where picks. *)
Picked(s, I) == LET order == CHOOSE q \in Orders(I, OwnKey(I)) : TRUE
                IN  [k \in DOMAIN order |-> s[order[k]]]

LEMMA PickedElements ==
    ASSUME NEW E, NEW s \in Seq(E), NEW I \in SUBSET DOMAIN s
    PROVE  Picked(s, I) \in Seq(E) /\ ToSet(Picked(s, I)) = {s[i] : i \in I}
<1> DEFINE order == CHOOSE q \in Orders(I, OwnKey(I)) : TRUE
           n == Cardinality(I)
<1>1. IsFiniteSet(I) /\ I \subseteq Int
  BY FiniteIndices
<1>2. order \in Orders(I, OwnKey(I))
  <2>1. Orders(I, OwnKey(I)) # {}
    BY <1>1, OwnKeys, OrderExists
  <2>2. QED BY <2>1
<1> HIDE DEF order
<1>3. /\ n \in Nat /\ order \in [1..n -> I]
      /\ \A x \in I : \E k \in 1..n : order[k] = x
  BY <1>1, <1>2, Enumeration DEF Orders
<1> HIDE DEF n
<1>4. Picked(s, I) = [k \in 1..n |-> s[order[k]]]
  BY <1>3 DEF Picked, order
<1>5. \A i \in I : s[i] \in E
  OBVIOUS
<1>6. Picked(s, I) \in Seq(E)
  BY <1>3, <1>4, <1>5
<1>7. ToSet(Picked(s, I)) = {s[order[k]] : k \in 1..n}
  BY <1>4 DEF ToSet
<1>8. QED BY <1>3, <1>6, <1>7

LEMMA ParsedIsPicked ==
    ASSUME NEW ss \in Seq(StoredSlice)
    PROVE  Parsed(ss) = Picked(ss, {i \in DOMAIN ss : Parses(ss[i])})
<1> DEFINE I == {i \in DOMAIN ss : Parses(ss[i])}
           os == {q \in SetToSeqs(I) : \A i, k \in DOMAIN q : i < k => ~Before(<<q[k]>>, <<q[i]>>)}
           order == CHOOSE q \in os : TRUE
<1>1. Parsed(ss) = [k \in DOMAIN order |-> ss[order[k]]]
  BY DEF Parsed, Where, Sorted, Map
<1>2. IsFiniteSet(I)
  BY FiniteIndices
<1> HIDE DEF I
<1>3. os = Orders(I, OwnKey(I))
  <2>1. \A q \in SetToSeqs(I) : \A i \in DOMAIN q : q[i] \in I
    BY <1>2, Enumeration
  <2>2. QED BY <2>1 DEF Orders, OwnKey
<1> HIDE DEF os
<1>4. QED BY <1>1, <1>3 DEF Picked, I

LEMMA ParsedElements ==
    ASSUME NEW ss \in Seq(StoredSlice)
    PROVE  /\ Parsed(ss) \in Seq(StoredSlice)
           /\ ToSet(Parsed(ss)) = {s \in ToSet(ss) : Parses(s)}
<1> DEFINE I == {i \in DOMAIN ss : Parses(ss[i])}
<1>1. Parsed(ss) \in Seq(StoredSlice) /\ ToSet(Parsed(ss)) = {ss[i] : i \in I}
  <2>1. Parsed(ss) = Picked(ss, I)
    BY ParsedIsPicked
  <2>2. I \in SUBSET DOMAIN ss
    OBVIOUS
  <2> HIDE DEF I
  <2>3. Picked(ss, I) \in Seq(StoredSlice) /\ ToSet(Picked(ss, I)) = {ss[i] : i \in I}
    BY <2>2, PickedElements
  <2>4. QED BY <2>1, <2>3
<1>2. {ss[i] : i \in I} = {s \in ToSet(ss) : Parses(s)}
  BY DEF ToSet
<1>3. QED BY <1>1, <1>2

LEMMA FiniteImage ==
    ASSUME NEW S, IsFiniteSet(S), NEW f, DOMAIN f = S
    PROVE  IsFiniteSet({f[x] : x \in S})
<1> DEFINE T == {f[x] : x \in S}
           g == [x \in S |-> f[x]]
<1>1. g \in Surjection(S, T)
  BY DEF Surjection
<1>2. QED BY <1>1, FS_Surjection

LEMMA FiniteElements ==
    ASSUME NEW E, NEW s \in Seq(E)
    PROVE  IsFiniteSet(DOMAIN s) /\ IsFiniteSet(ToSet(s)) /\ ToSet(s) \subseteq E
<1>1. DOMAIN s = 1..Len(s) /\ Len(s) \in Nat
  OBVIOUS
<1>2. IsFiniteSet(DOMAIN s)
  BY <1>1, FS_Interval
<1>3. QED BY <1>1, <1>2, FiniteImage DEF ToSet

(* The permutations of a sequence in the order of a key of its indices. *)
Stable(s, key) == {[i \in DOMAIN q |-> s[q[i]]] : q \in Orders(DOMAIN s, key)}

LEMMA StableList ==
    ASSUME NEW E, NEW s \in Seq(E), NEW key, NEW t \in Stable(s, key)
    PROVE  t \in Seq(E) /\ Len(t) = Len(s) /\ ToSet(t) = ToSet(s)
<1> DEFINE D == DOMAIN s
<1>1. PICK q \in Orders(D, key) : t = [i \in DOMAIN q |-> s[q[i]]]
  BY DEF Stable
<1>2. D = 1..Len(s) /\ Len(s) \in Nat /\ \A i \in D : s[i] \in E
  OBVIOUS
<1>3. IsFiniteSet(D) /\ Cardinality(D) = Len(s)
  BY <1>2, FS_Interval
<1>4. /\ q \in [1..Len(s) -> D]
      /\ \A x \in D : \E i \in 1..Len(s) : q[i] = x
  BY <1>1, <1>3, Enumeration DEF Orders
<1>5. ToSet(s) = {s[i] : i \in D}
  BY DEF ToSet
<1> HIDE DEF D
<1>6. t \in [1..Len(s) -> E]
  BY <1>1, <1>2, <1>4
<1>7. t \in Seq(E) /\ Len(t) = Len(s)
  BY <1>2, <1>6
<1>8. ToSet(t) = {s[q[i]] : i \in 1..Len(s)}
  BY <1>1, <1>4 DEF ToSet
<1>9. ToSet(t) = ToSet(s)
  BY <1>4, <1>5, <1>8
<1>10. QED BY <1>7, <1>9

LEMMA StableExists ==
    ASSUME NEW E, NEW s \in Seq(E), NEW n \in Nat, NEW key \in [DOMAIN s -> Keys(n)]
    PROVE  Stable(s, key) # {}
<1>1. Orders(DOMAIN s, key) # {}
  BY FiniteElements, OrderExists
<1>2. QED BY <1>1 DEF Stable

LEMMA StableUnique ==
    ASSUME NEW E, NEW s \in Seq(E), NEW n \in Nat, NEW key \in [DOMAIN s -> Keys(n)],
           \A i, k \in DOMAIN s : key[i] = key[k] => i = k,
           NEW t \in Stable(s, key), NEW u \in Stable(s, key)
    PROVE  t = u
<1>1. IsFiniteSet(DOMAIN s)
  BY FiniteElements
<1>2. \A q, r \in Orders(DOMAIN s, key) : q = r
  <2> DEFINE D == DOMAIN s
  <2>1. /\ IsFiniteSet(D) /\ key \in [D -> Keys(n)]
        /\ \A i, k \in D : key[i] = key[k] => i = k
    BY <1>1
  <2> HIDE DEF D
  <2>2. \A q, r \in Orders(D, key) : q = r
    BY <2>1, OrderUnique
  <2>3. QED BY <2>2 DEF D
<1>3. QED BY <1>2 DEF Stable

(* The keys in use. *)
LEMMA KeyOfOne ==
    ASSUME NEW p \in Int
    PROVE  <<p>> \in Keys(1) /\ <<p>>[1] = p
BY DEF Keys

LEMMA KeyAndIndex ==
    ASSUME NEW n \in Nat, NEW k \in Keys(n), NEW i \in Int
    PROVE  /\ Append(k, i) \in Keys(n + 1)
           /\ \A j \in 1..n : Append(k, i)[j] = k[j]
           /\ Append(k, i)[n + 1] = i
BY DEF Keys

LEMMA PlmnAndKey ==
    ASSUME NEW n \in Nat, NEW p \in Int, NEW k \in Keys(n)
    PROVE  /\ <<p>> \o k \in Keys(n + 1)
           /\ (<<p>> \o k)[1] = p
           /\ \A j \in 1..n : (<<p>> \o k)[j + 1] = k[j]
BY DEF Keys

Int32Int == \A v \in Int : Int32(v) \in Int

LEMMA Int32Type == Int32Int
<1> SUFFICES ASSUME NEW v \in Int
             PROVE  Int32(v) \in Int
  BY DEF Int32Int
<1>1. WordSize \in Nat /\ WordSize > 0
  BY NFConfigAssumption
<1>2. v % WordSize \in Int
  BY <1>1
<1>3. QED BY <1>1, <1>2 DEF Int32

LEMMA SnssaiKey ==
    ASSUME NEW s, s.sst \in DOMAIN SstOf, s.sd \in Int, Parses(s)
    PROVE  Snssai(s) \in Keys(2)
<1>1. SstOf[s.sst] \in Int
  BY NFConfigAssumption DEF Parses
<1>2. Int32(SstOf[s.sst]) \in Int
  BY <1>1, Int32Type DEF Int32Int
<1>3. QED BY <1>2 DEF Snssai, Keys

-----------------------------------------------------------------------------
(* PLMNs, and their S-NSSAIs. *)

Plmns(ss) == {s.plmn : s \in ToSet(ss)}

LEMMA OwnKeyOrder ==
    ASSUME NEW P, IsFiniteSet(P), P \subseteq Int
    PROVE  /\ OwnKey(P) \in [P -> Keys(1)]
           /\ \A x, y \in P : OwnKey(P)[x] = OwnKey(P)[y] => x = y
           /\ {q \in SetToSeqs(P) : \A i, k \in DOMAIN q : i < k => ~Before(<<q[k]>>, <<q[i]>>)}
                = Orders(P, OwnKey(P))
<1>1. OwnKey(P) \in [P -> Keys(1)]
  BY OwnKeys
<1>2. \A x, y \in P : OwnKey(P)[x] = OwnKey(P)[y] => x = y
  BY DEF OwnKey
<1>3. \A q \in SetToSeqs(P) : \A i \in DOMAIN q : q[i] \in P
  BY Enumeration
<1>4. {q \in SetToSeqs(P) : \A i, k \in DOMAIN q : i < k => ~Before(<<q[k]>>, <<q[i]>>)}
        = Orders(P, OwnKey(P))
  BY <1>3 DEF Orders, OwnKey
<1>5. QED BY <1>1, <1>2, <1>4

LEMMA OwnKeyUnique ==
    ASSUME NEW P, IsFiniteSet(P), P \subseteq Int,
           NEW q \in Orders(P, OwnKey(P)), NEW r \in Orders(P, OwnKey(P))
    PROVE  q = r
<1>1. /\ OwnKey(P) \in [P -> Keys(1)]
      /\ \A x, y \in P : OwnKey(P)[x] = OwnKey(P)[y] => x = y
  BY OwnKeyOrder
<1>2. QED BY <1>1, OrderUnique

LEMMA FinitePlmns ==
    ASSUME NEW ss \in Seq(StoredSlice)
    PROVE  IsFiniteSet(Plmns(ss)) /\ Plmns(ss) \subseteq Int
<1>1. IsFiniteSet(ToSet(ss)) /\ ToSet(ss) \subseteq StoredSlice
  BY FiniteElements
<1>2. IsFiniteSet(Plmns(ss))
  <2> DEFINE f == [s \in ToSet(ss) |-> s.plmn]
  <2>1. IsFiniteSet({f[s] : s \in ToSet(ss)})
    <3>1. DOMAIN f = ToSet(ss)
      OBVIOUS
    <3> HIDE DEF f
    <3>2. QED BY <1>1, <3>1, FiniteImage
  <2>2. QED BY <2>1 DEF Plmns
<1>3. QED BY <1>1, <1>2 DEF Plmns, StoredSlice

LEMMA PlmnOrder ==
    ASSUME NEW ss \in Seq(StoredSlice)
    PROVE  PlmnLists(ss) = Orders(Plmns(ss), OwnKey(Plmns(ss)))
<1> DEFINE P == Plmns(ss)
<1>1. PlmnLists(ss) = {q \in SetToSeqs(P) :
                         \A i, k \in DOMAIN q : i < k => ~Before(<<q[k]>>, <<q[i]>>)}
  BY DEF PlmnLists, Sorted, Plmns
<1>2. IsFiniteSet(P) /\ P \subseteq Int
  BY FinitePlmns
<1> HIDE DEF P
<1>3. PlmnLists(ss) = Orders(P, OwnKey(P))
  BY <1>1, <1>2, OwnKeyOrder
<1>4. QED BY <1>3 DEF P

LEMMA PlmnServed ==
    ASSUME NEW ss \in Seq(StoredSlice), NEW a \in PlmnLists(ss)
    PROVE  ToSet(a) = Plmns(ss)
<1>1. a \in SetToSeqs(Plmns(ss))
  BY PlmnOrder DEF Orders
<1>2. QED BY <1>1, FinitePlmns, Elements

LEMMA PlmnUnique ==
    ASSUME NEW ss \in Seq(StoredSlice), NEW a \in PlmnLists(ss), NEW b \in PlmnLists(ss)
    PROVE  a = b
<1>1. /\ a \in Orders(Plmns(ss), OwnKey(Plmns(ss)))
      /\ b \in Orders(Plmns(ss), OwnKey(Plmns(ss)))
  BY PlmnOrder
<1>2. QED BY <1>1, FinitePlmns, OwnKeyUnique

(* The identifiers of the slices that are served. *)
Ids(ss) == {SliceId(s) : s \in ToSet(Parsed(ss))}
IdType == {k \in [plmn : Nat, sst : DOMAIN SstOf, sd : Nat] : Parses(k)}

LEMMA FiniteIds ==
    ASSUME NEW ss \in Seq(StoredSlice)
    PROVE  IsFiniteSet(Ids(ss)) /\ Ids(ss) \subseteq IdType
<1>1. /\ Parsed(ss) \in Seq(StoredSlice)
      /\ \A s \in ToSet(Parsed(ss)) : Parses(s)
  BY ParsedElements
<1>2. IsFiniteSet(ToSet(Parsed(ss))) /\ ToSet(Parsed(ss)) \subseteq StoredSlice
  BY <1>1, FiniteElements
<1>3. IsFiniteSet(Ids(ss))
  <2> DEFINE S == ToSet(Parsed(ss))
             f == [s \in S |-> SliceId(s)]
  <2>1. IsFiniteSet({f[s] : s \in S})
    <3>1. DOMAIN f = S
      OBVIOUS
    <3> HIDE DEF f
    <3>2. QED BY <1>2, <3>1, FiniteImage
  <2>2. QED BY <2>1 DEF Ids
<1>4. \A s \in StoredSlice : Parses(s) => SliceId(s) \in IdType
  BY DEF StoredSlice, SliceId, IdType, Parses
<1>5. QED BY <1>1, <1>2, <1>3, <1>4 DEF Ids

IdKey(K) == [k \in K |-> Snssai(k)]

LEMMA IdKeys ==
    ASSUME NEW K, K \subseteq IdType
    PROVE  IdKey(K) \in [K -> Keys(2)]
<1>1. \A k \in K : k.sst \in DOMAIN SstOf /\ k.sd \in Int /\ Parses(k)
  BY DEF IdType
<1>2. \A k \in K : Snssai(k) \in Keys(2)
  BY <1>1, SnssaiKey
<1>3. QED BY <1>2 DEF IdKey

(* The S-NSSAIs of a PLMN *)
SnssaisOf(ids, p) == Map(CHOOSE q \in Sorted({k \in ids : k.plmn = p}, Snssai) : TRUE, Snssai)

LEMMA SnssaisServed ==
    ASSUME NEW ids, IsFiniteSet(ids), ids \subseteq IdType, NEW p
    PROVE  ToSet(SnssaisOf(ids, p)) = {Snssai(k) : k \in {x \in ids : x.plmn = p}}
<1> DEFINE K == {k \in ids : k.plmn = p}
           os == Sorted(K, Snssai)
           order == CHOOSE q \in os : TRUE
<1>1. SnssaisOf(ids, p) = [i \in DOMAIN order |-> Snssai(order[i])]
  BY DEF SnssaisOf, Map
<1>2. os = {q \in SetToSeqs(K) :
              \A i, k \in DOMAIN q : i < k => ~Before(Snssai(q[k]), Snssai(q[i]))}
  BY DEF Sorted
<1>3. IsFiniteSet(K) /\ K \subseteq IdType
  BY FS_Subset
<1> HIDE DEF K, os
<1>4. \A q \in SetToSeqs(K) : \A i \in DOMAIN q : q[i] \in K
  BY <1>3, Enumeration
<1>5. os = Orders(K, IdKey(K))
  BY <1>2, <1>4 DEF Orders, IdKey
<1>6. os # {}
  BY <1>3, <1>5, IdKeys, OrderExists
<1>7. order \in SetToSeqs(K)
  BY <1>2, <1>6
<1>8. ToSet(order) = K
  BY <1>3, <1>7, Elements
<1> HIDE DEF order
<1>9. ToSet(SnssaisOf(ids, p)) = {Snssai(order[i]) : i \in DOMAIN order}
  BY <1>1 DEF ToSet
<1>10. ToSet(SnssaisOf(ids, p)) = {Snssai(k) : k \in K}
  BY <1>8, <1>9 DEF ToSet
<1>11. QED BY <1>10 DEF K

IdPlmns(ss) == {k.plmn : k \in Ids(ss)}

LEMMA FiniteIdPlmns ==
    ASSUME NEW ss \in Seq(StoredSlice)
    PROVE  IsFiniteSet(IdPlmns(ss)) /\ IdPlmns(ss) \subseteq Int
<1>1. IsFiniteSet(Ids(ss)) /\ Ids(ss) \subseteq IdType
  BY FiniteIds
<1>2. IsFiniteSet(IdPlmns(ss))
  <2> DEFINE S == Ids(ss)
             f == [k \in S |-> k.plmn]
  <2>1. IsFiniteSet({f[k] : k \in S})
    <3>1. DOMAIN f = S
      OBVIOUS
    <3> HIDE DEF f
    <3>2. QED BY <1>1, <3>1, FiniteImage
  <2>2. QED BY <2>1 DEF IdPlmns
<1>3. QED BY <1>1, <1>2 DEF IdPlmns, IdType

LEMMA PlmnSnssaiOrder ==
    ASSUME NEW ss \in Seq(StoredSlice)
    PROVE  PlmnSnssaiLists(ss) =
             {[i \in DOMAIN q |-> [plmn |-> q[i], snssais |-> SnssaisOf(Ids(ss), q[i])]] :
                 q \in Orders(IdPlmns(ss), OwnKey(IdPlmns(ss)))}
<1> DEFINE P == IdPlmns(ss)
           os == {q \in SetToSeqs(P) :
                    \A i, k \in DOMAIN q : i < k => ~Before(<<q[k]>>, <<q[i]>>)}
<1>1. PlmnSnssaiLists(ss) =
        {[i \in DOMAIN q |-> [plmn |-> q[i], snssais |-> SnssaisOf(Ids(ss), q[i])]] : q \in os}
  BY DEF PlmnSnssaiLists, Sorted, Map, IdPlmns, Ids, SnssaisOf
<1>2. IsFiniteSet(P) /\ P \subseteq Int
  BY FiniteIdPlmns
<1> HIDE DEF P
<1>3. os = Orders(P, OwnKey(P))
  BY <1>2, OwnKeyOrder
<1> HIDE DEF os
<1>4. QED BY <1>1, <1>3 DEF P

LEMMA PlmnSnssaiServed ==
    ASSUME NEW ss \in Seq(StoredSlice), NEW b \in PlmnSnssaiLists(ss)
    PROVE  ToSet(b) = {[plmn |-> p, snssais |-> SnssaisOf(Ids(ss), p)] : p \in IdPlmns(ss)}
<1>1. PICK q \in Orders(IdPlmns(ss), OwnKey(IdPlmns(ss))) :
         b = [i \in DOMAIN q |-> [plmn |-> q[i], snssais |-> SnssaisOf(Ids(ss), q[i])]]
  BY PlmnSnssaiOrder
<1>2. q \in SetToSeqs(IdPlmns(ss))
  BY DEF Orders
<1>3. ToSet(q) = IdPlmns(ss)
  BY <1>2, FiniteIdPlmns, Elements
<1>4. ToSet(b) = {[plmn |-> q[i], snssais |-> SnssaisOf(Ids(ss), q[i])] : i \in DOMAIN q}
  BY <1>1 DEF ToSet
<1>5. QED BY <1>3, <1>4 DEF ToSet

LEMMA PlmnSnssaiUnique ==
    ASSUME NEW ss \in Seq(StoredSlice),
           NEW a \in PlmnSnssaiLists(ss), NEW b \in PlmnSnssaiLists(ss)
    PROVE  a = b
<1>1. \A q, r \in Orders(IdPlmns(ss), OwnKey(IdPlmns(ss))) : q = r
  BY FiniteIdPlmns, OwnKeyUnique
<1>2. QED BY <1>1, PlmnSnssaiOrder

-----------------------------------------------------------------------------
(* Access and mobility. *)

AccessEntry(ss, id) == [plmn |-> id.plmn, snssai |-> Snssai(id), tacs |-> Tacs(ss, id)]
AccessKey(K) == [id \in K |-> <<id.plmn>> \o Snssai(id)]

LEMMA AccessKeys ==
    ASSUME NEW K, K \subseteq IdType
    PROVE  /\ AccessKey(K) \in [K -> Keys(3)]
           /\ \A x, y \in K : AccessKey(K)[x] = AccessKey(K)[y]
                                => x.plmn = y.plmn /\ Snssai(x) = Snssai(y)
<1>1. \A k \in K : k.sst \in DOMAIN SstOf /\ k.sd \in Int /\ Parses(k) /\ k.plmn \in Int
  BY DEF IdType
<1>2. \A k \in K : Snssai(k) \in Keys(2)
  BY <1>1, SnssaiKey
<1>3. \A k \in K : /\ <<k.plmn>> \o Snssai(k) \in Keys(3)
                   /\ (<<k.plmn>> \o Snssai(k))[1] = k.plmn
                   /\ \A j \in 1..2 : (<<k.plmn>> \o Snssai(k))[j + 1] = Snssai(k)[j]
  <2> SUFFICES ASSUME NEW k \in K
               PROVE  /\ <<k.plmn>> \o Snssai(k) \in Keys(3)
                      /\ (<<k.plmn>> \o Snssai(k))[1] = k.plmn
                      /\ \A j \in 1..2 : (<<k.plmn>> \o Snssai(k))[j + 1] = Snssai(k)[j]
    OBVIOUS
  <2>1. k.plmn \in Int /\ Snssai(k) \in Keys(2) /\ 2 \in Nat /\ 2 + 1 = 3
    BY <1>1, <1>2
  <2>2. QED BY <2>1, PlmnAndKey
<1>4. AccessKey(K) \in [K -> Keys(3)]
  BY <1>3 DEF AccessKey
<1>5. ASSUME NEW x \in K, NEW y \in K, AccessKey(K)[x] = AccessKey(K)[y]
      PROVE  x.plmn = y.plmn /\ Snssai(x) = Snssai(y)
  <2>1. <<x.plmn>> \o Snssai(x) = <<y.plmn>> \o Snssai(y)
    BY <1>5 DEF AccessKey
  <2>2. x.plmn = y.plmn /\ \A j \in 1..2 : Snssai(x)[j] = Snssai(y)[j]
    BY <1>3, <2>1
  <2>3. Snssai(x) \in Keys(2) /\ Snssai(y) \in Keys(2)
    BY <1>2
  <2>4. Snssai(x) = Snssai(y)
    BY <2>2, <2>3 DEF Keys
  <2>5. QED BY <2>2, <2>4
<1>6. QED BY <1>4, <1>5

LEMMA AccessOrder ==
    ASSUME NEW ss \in Seq(StoredSlice)
    PROVE  AccessMobilityLists(ss) =
             {[i \in DOMAIN q |-> AccessEntry(ss, q[i])] :
                 q \in Orders(Ids(ss), AccessKey(Ids(ss)))}
<1> DEFINE K == Ids(ss)
           os == {q \in SetToSeqs(K) : \A i, k \in DOMAIN q : i < k =>
                     ~Before(<<q[k].plmn>> \o Snssai(q[k]), <<q[i].plmn>> \o Snssai(q[i]))}
<1>1. AccessMobilityLists(ss) = {[i \in DOMAIN q |-> AccessEntry(ss, q[i])] : q \in os}
  BY DEF AccessMobilityLists, Sorted, Map, Ids, AccessEntry
<1>2. IsFiniteSet(K) /\ K \subseteq IdType
  BY FiniteIds
<1> HIDE DEF K
<1>3. \A q \in SetToSeqs(K) : \A i \in DOMAIN q : q[i] \in K
  BY <1>2, Enumeration
<1>4. os = Orders(K, AccessKey(K))
  BY <1>3 DEF Orders, AccessKey
<1> HIDE DEF os
<1>5. QED BY <1>1, <1>4 DEF K

LEMMA AccessServed ==
    ASSUME NEW ss \in Seq(StoredSlice), NEW c \in AccessMobilityLists(ss)
    PROVE  ToSet(c) = {AccessEntry(ss, id) : id \in Ids(ss)}
<1>1. PICK q \in Orders(Ids(ss), AccessKey(Ids(ss))) :
         c = [i \in DOMAIN q |-> AccessEntry(ss, q[i])]
  BY AccessOrder
<1>2. q \in SetToSeqs(Ids(ss))
  BY DEF Orders
<1>3. ToSet(q) = Ids(ss)
  BY <1>2, FiniteIds, Elements
<1>4. ToSet(c) = {AccessEntry(ss, q[i]) : i \in DOMAIN q}
  BY <1>1 DEF ToSet
<1>5. QED BY <1>3, <1>4 DEF ToSet

LEMMA AccessUnique ==
    ASSUME NEW ss \in Seq(StoredSlice),
           \A x, y \in Ids(ss) : x.plmn = y.plmn /\ Snssai(x) = Snssai(y) => x = y,
           NEW a \in AccessMobilityLists(ss), NEW b \in AccessMobilityLists(ss)
    PROVE  a = b
<1> DEFINE K == Ids(ss)
<1>1. IsFiniteSet(K) /\ K \subseteq IdType
  BY FiniteIds
<1>2. \A x, y \in K : x.plmn = y.plmn /\ Snssai(x) = Snssai(y) => x = y
  OBVIOUS
<1>3. /\ \A q \in Orders(K, AccessKey(K)) : TRUE
      /\ a \in {[i \in DOMAIN q |-> AccessEntry(ss, q[i])] : q \in Orders(K, AccessKey(K))}
      /\ b \in {[i \in DOMAIN q |-> AccessEntry(ss, q[i])] : q \in Orders(K, AccessKey(K))}
  BY AccessOrder
<1> HIDE DEF K
<1>4. AccessKey(K) \in [K -> Keys(3)] /\ \A x, y \in K : AccessKey(K)[x] = AccessKey(K)[y] => x = y
  BY <1>1, <1>2, AccessKeys
<1>5. \A q, r \in Orders(K, AccessKey(K)) : q = r
  BY <1>1, <1>4, OrderUnique
<1>6. QED BY <1>3, <1>5

-----------------------------------------------------------------------------
(* Stable sorts: the index of an element decides between elements of one key. *)

WithIndex(key) == [i \in DOMAIN key |-> Append(key[i], i)]

LEMMA WithIndexKeys ==
    ASSUME NEW E, NEW s \in Seq(E), NEW n \in Nat, NEW key \in [DOMAIN s -> Keys(n)]
    PROVE  /\ n + 1 \in Nat
           /\ WithIndex(key) \in [DOMAIN s -> Keys(n + 1)]
           /\ \A i, k \in DOMAIN s : WithIndex(key)[i] = WithIndex(key)[k] => i = k
<1>1. \A i \in DOMAIN s : key[i] \in Keys(n) /\ i \in Int
  OBVIOUS
<1>2. \A i \in DOMAIN s : Append(key[i], i) \in Keys(n + 1) /\ Append(key[i], i)[n + 1] = i
  BY <1>1, KeyAndIndex
<1>3. WithIndex(key) = [i \in DOMAIN s |-> Append(key[i], i)]
  BY DEF WithIndex
<1>4. QED BY <1>2, <1>3

LEMMA StablyUnique ==
    ASSUME NEW E, NEW s \in Seq(E), NEW n \in Nat, NEW key \in [DOMAIN s -> Keys(n)],
           NEW t \in Stable(s, WithIndex(key)), NEW u \in Stable(s, WithIndex(key))
    PROVE  t = u
<1>1. /\ n + 1 \in Nat
      /\ WithIndex(key) \in [DOMAIN s -> Keys(n + 1)]
      /\ \A i, k \in DOMAIN s : WithIndex(key)[i] = WithIndex(key)[k] => i = k
  BY WithIndexKeys
<1>2. QED BY <1>1, StableUnique

LEMMA StablyExists ==
    ASSUME NEW E, NEW s \in Seq(E), NEW n \in Nat, NEW key \in [DOMAIN s -> Keys(n)]
    PROVE  Stable(s, WithIndex(key)) # {}
<1>1. n + 1 \in Nat /\ WithIndex(key) \in [DOMAIN s -> Keys(n + 1)]
  BY WithIndexKeys
<1>2. QED BY <1>1, StableExists

LEMMA MapElements ==
    ASSUME NEW E, NEW s \in Seq(E), NEW m, DOMAIN m = DOMAIN s,
           m = [i \in DOMAIN m |-> m[i]], NEW F, \A i \in DOMAIN m : m[i] \in F
    PROVE  m \in Seq(F) /\ Len(m) = Len(s)
<1>1. DOMAIN s = 1..Len(s) /\ Len(s) \in Nat
  OBVIOUS
<1>2. m \in [1..Len(s) -> F]
  BY <1>1
<1>3. QED BY <1>1, <1>2

-----------------------------------------------------------------------------
(* Session management. *)

SessionsOf(ss, gs) == Map(Parsed(ss), LAMBDA s : Session(s, gs))
NameKey(m) == [i \in DOMAIN m |-> <<m[i].name>>]

LEMMA SessionsElements ==
    ASSUME NEW ss \in Seq(StoredSlice), NEW gs
    PROVE  /\ SessionsOf(ss, gs) \in Seq({Session(s, gs) : s \in ToSet(Parsed(ss))})
           /\ Len(SessionsOf(ss, gs)) = Len(Parsed(ss))
           /\ ToSet(SessionsOf(ss, gs)) = {Session(s, gs) : s \in ToSet(Parsed(ss))}
           /\ NameKey(SessionsOf(ss, gs)) \in [DOMAIN SessionsOf(ss, gs) -> Keys(1)]
<1> DEFINE p == Parsed(ss)
           m == SessionsOf(ss, gs)
           F == {Session(s, gs) : s \in ToSet(p)}
<1>1. p \in Seq(StoredSlice)
  BY ParsedElements
<1>2. m = [i \in DOMAIN p |-> Session(p[i], gs)]
  BY DEF SessionsOf, Map
<1> HIDE DEF p, m
<1>3. ToSet(m) = F
  BY <1>2 DEF ToSet
<1>4. DOMAIN m = DOMAIN p /\ \A i \in DOMAIN m : m[i] \in F
  BY <1>2 DEF ToSet
<1>5. m \in Seq(F) /\ Len(m) = Len(p)
  <2> HIDE DEF F
  <2> QED BY <1>1, <1>2, <1>4, MapElements
<1>6. \A i \in DOMAIN m : m[i].name \in Int
  <2>1. \A i \in DOMAIN p : p[i] \in StoredSlice
    BY <1>1
  <2>2. QED BY <1>2, <2>1 DEF Session, StoredSlice
<1>7. NameKey(m) \in [DOMAIN m -> Keys(1)]
  BY <1>6, KeyOfOne DEF NameKey
<1>8. QED BY <1>3, <1>5, <1>7 DEF m, p

LEMMA SessionOrder ==
    ASSUME NEW ss \in Seq(StoredSlice), NEW gs
    PROVE  SessionLists(ss, gs) =
             Stable(SessionsOf(ss, gs), WithIndex(NameKey(SessionsOf(ss, gs))))
<1> DEFINE m == SessionsOf(ss, gs)
           D == DOMAIN m
           os == {q \in SetToSeqs(D) : \A i, k \in DOMAIN q : i < k =>
                    ~Before(Append(<<m[q[k]].name>>, q[k]), Append(<<m[q[i]].name>>, q[i]))}
<1>1. SessionLists(ss, gs) = {[i \in DOMAIN q |-> m[q[i]]] : q \in os}
  BY DEF SessionLists, StablySorted, Sorted, SessionsOf
<1>2. IsFiniteSet(D)
  BY SessionsElements, FiniteElements
<1>3. DOMAIN NameKey(m) = D
  BY DEF NameKey
<1>4. \A i \in D : WithIndex(NameKey(m))[i] = Append(<<m[i].name>>, i)
  BY <1>3 DEF WithIndex, NameKey
<1> HIDE DEF D, m
<1>5. \A q \in SetToSeqs(D) : \A i \in DOMAIN q : q[i] \in D
  BY <1>2, Enumeration
<1>6. os = Orders(D, WithIndex(NameKey(m)))
  BY <1>4, <1>5 DEF Orders
<1> HIDE DEF os
<1>7. QED BY <1>1, <1>6 DEF Stable, D, m

LEMMA SessionServed ==
    ASSUME NEW ss \in Seq(StoredSlice), NEW gs, NEW d \in SessionLists(ss, gs)
    PROVE  /\ ToSet(d) = {Session(s, gs) : s \in ToSet(Parsed(ss))}
           /\ Len(d) = Len(Parsed(ss))
<1> DEFINE m == SessionsOf(ss, gs)
           F == {Session(s, gs) : s \in ToSet(Parsed(ss))}
<1>1. d \in Stable(m, WithIndex(NameKey(m)))
  BY SessionOrder
<1>2. m \in Seq(F) /\ Len(m) = Len(Parsed(ss)) /\ ToSet(m) = F
  BY SessionsElements
<1> HIDE DEF m, F
<1>3. Len(d) = Len(m) /\ ToSet(d) = ToSet(m)
  BY <1>1, <1>2, StableList
<1>4. QED BY <1>2, <1>3 DEF F

LEMMA SessionUnique ==
    ASSUME NEW ss \in Seq(StoredSlice), NEW gs,
           NEW a \in SessionLists(ss, gs), NEW b \in SessionLists(ss, gs)
    PROVE  a = b
<1> DEFINE m == SessionsOf(ss, gs)
           F == {Session(s, gs) : s \in ToSet(Parsed(ss))}
<1>1. a \in Stable(m, WithIndex(NameKey(m))) /\ b \in Stable(m, WithIndex(NameKey(m)))
  BY SessionOrder
<1>2. m \in Seq(F) /\ NameKey(m) \in [DOMAIN m -> Keys(1)] /\ 1 \in Nat
  BY SessionsElements
<1> HIDE DEF m, F
<1>3. QED BY <1>1, <1>2, StablyUnique

-----------------------------------------------------------------------------
(* Policy control. *)

PoliciesOf(ss, gs) == Map(Parsed(ss), LAMBDA s : Policy(s, gs))
SnssaiKeyOf(m) == [i \in DOMAIN m |-> <<m[i].plmn>> \o m[i].snssai]

LEMMA PoliciesElements ==
    ASSUME NEW ss \in Seq(StoredSlice), NEW gs
    PROVE  /\ PoliciesOf(ss, gs) \in Seq({Policy(s, gs) : s \in ToSet(Parsed(ss))})
           /\ Len(PoliciesOf(ss, gs)) = Len(Parsed(ss))
           /\ ToSet(PoliciesOf(ss, gs)) = {Policy(s, gs) : s \in ToSet(Parsed(ss))}
           /\ SnssaiKeyOf(PoliciesOf(ss, gs)) \in [DOMAIN PoliciesOf(ss, gs) -> Keys(3)]
<1> DEFINE p == Parsed(ss)
           m == PoliciesOf(ss, gs)
           F == {Policy(s, gs) : s \in ToSet(p)}
<1>1. p \in Seq(StoredSlice) /\ \A i \in DOMAIN p : Parses(p[i])
  BY ParsedElements DEF ToSet
<1>2. m = [i \in DOMAIN p |-> Policy(p[i], gs)]
  BY DEF PoliciesOf, Map
<1> HIDE DEF p, m
<1>3. ToSet(m) = F
  BY <1>2 DEF ToSet
<1>4. DOMAIN m = DOMAIN p /\ \A i \in DOMAIN m : m[i] \in F
  BY <1>2 DEF ToSet
<1>5. m \in Seq(F) /\ Len(m) = Len(p)
  <2> HIDE DEF F
  <2> QED BY <1>1, <1>2, <1>4, MapElements
<1>6. \A i \in DOMAIN m : m[i].plmn \in Int /\ m[i].snssai \in Keys(2)
  <2>1. \A i \in DOMAIN p : p[i].plmn \in Int /\ p[i].sst \in DOMAIN SstOf /\ p[i].sd \in Int
    <3>1. \A i \in DOMAIN p : p[i] \in StoredSlice
      BY <1>1
    <3>2. QED BY <3>1 DEF StoredSlice
  <2>2. \A i \in DOMAIN p : Snssai(p[i]) \in Keys(2)
    BY <1>1, <2>1, SnssaiKey
  <2>3. \A i \in DOMAIN p : m[i].plmn = p[i].plmn /\ m[i].snssai = Snssai(p[i])
    BY <1>2 DEF Policy
  <2>4. QED BY <1>4, <2>1, <2>2, <2>3
<1>7. \A i \in DOMAIN m : <<m[i].plmn>> \o m[i].snssai \in Keys(3)
  <2> SUFFICES ASSUME NEW i \in DOMAIN m
               PROVE  <<m[i].plmn>> \o m[i].snssai \in Keys(3)
    OBVIOUS
  <2>1. m[i].plmn \in Int /\ m[i].snssai \in Keys(2) /\ 2 \in Nat /\ 2 + 1 = 3
    BY <1>6
  <2>2. QED BY <2>1, PlmnAndKey
<1>8. SnssaiKeyOf(m) \in [DOMAIN m -> Keys(3)]
  BY <1>7 DEF SnssaiKeyOf
<1>9. QED BY <1>3, <1>5, <1>8 DEF m, p

LEMMA PolicyOrder ==
    ASSUME NEW ss \in Seq(StoredSlice), NEW gs
    PROVE  PolicyLists(ss, gs) =
             Stable(PoliciesOf(ss, gs), WithIndex(SnssaiKeyOf(PoliciesOf(ss, gs))))
<1> DEFINE m == PoliciesOf(ss, gs)
           D == DOMAIN m
           os == {q \in SetToSeqs(D) : \A i, k \in DOMAIN q : i < k =>
                    ~Before(Append(<<m[q[k]].plmn>> \o m[q[k]].snssai, q[k]),
                            Append(<<m[q[i]].plmn>> \o m[q[i]].snssai, q[i]))}
<1>1. PolicyLists(ss, gs) = {[i \in DOMAIN q |-> m[q[i]]] : q \in os}
  BY DEF PolicyLists, StablySorted, Sorted, PoliciesOf
<1>2. IsFiniteSet(D)
  BY PoliciesElements, FiniteElements
<1>3. DOMAIN SnssaiKeyOf(m) = D
  BY DEF SnssaiKeyOf
<1>4. \A i \in D : WithIndex(SnssaiKeyOf(m))[i] = Append(<<m[i].plmn>> \o m[i].snssai, i)
  BY <1>3 DEF WithIndex, SnssaiKeyOf
<1> HIDE DEF D, m
<1>5. \A q \in SetToSeqs(D) : \A i \in DOMAIN q : q[i] \in D
  BY <1>2, Enumeration
<1>6. os = Orders(D, WithIndex(SnssaiKeyOf(m)))
  BY <1>4, <1>5 DEF Orders
<1> HIDE DEF os
<1>7. QED BY <1>1, <1>6 DEF Stable, D, m

LEMMA PolicyServed ==
    ASSUME NEW ss \in Seq(StoredSlice), NEW gs, NEW e \in PolicyLists(ss, gs)
    PROVE  /\ ToSet(e) = {Policy(s, gs) : s \in ToSet(Parsed(ss))}
           /\ Len(e) = Len(Parsed(ss))
<1> DEFINE m == PoliciesOf(ss, gs)
           F == {Policy(s, gs) : s \in ToSet(Parsed(ss))}
<1>1. e \in Stable(m, WithIndex(SnssaiKeyOf(m)))
  BY PolicyOrder
<1>2. m \in Seq(F) /\ Len(m) = Len(Parsed(ss)) /\ ToSet(m) = F
  BY PoliciesElements
<1> HIDE DEF m, F
<1>3. Len(e) = Len(m) /\ ToSet(e) = ToSet(m)
  BY <1>1, <1>2, StableList
<1>4. QED BY <1>2, <1>3 DEF F

LEMMA PolicyUnique ==
    ASSUME NEW ss \in Seq(StoredSlice), NEW gs,
           NEW a \in PolicyLists(ss, gs), NEW b \in PolicyLists(ss, gs)
    PROVE  a = b
<1> DEFINE m == PoliciesOf(ss, gs)
           F == {Policy(s, gs) : s \in ToSet(Parsed(ss))}
<1>1. a \in Stable(m, WithIndex(SnssaiKeyOf(m))) /\ b \in Stable(m, WithIndex(SnssaiKeyOf(m)))
  BY PolicyOrder
<1>2. m \in Seq(F) /\ SnssaiKeyOf(m) \in [DOMAIN m -> Keys(3)] /\ 3 \in Nat
  BY PoliciesElements
<1> HIDE DEF m, F
<1>3. QED BY <1>1, <1>2, StablyUnique

-----------------------------------------------------------------------------
(* The IP domains of a slice. *)

DomainType == [dnn : Nat, qos : {None} \union STRING]

LEMMA FlattenType ==
    ASSUME NEW E, NEW q \in Seq(Seq(E))
    PROVE  FlattenSeq(q) \in Seq(E)
<1> DEFINE n == Len(q)
           F(m, f) == [i \in 1..m |-> IF i = 1 THEN q[i] ELSE f[i - 1] \o q[i]]
           Ok(m) == \E f \in [1..m -> Seq(E)] :
                      \A i \in 1..m : f[i] = IF i = 1 THEN q[i] ELSE f[i - 1] \o q[i]
           C == {m \in Nat : m <= n => Ok(m)}
<1>1. CASE n = 0
  BY <1>1 DEF FlattenSeq
<1>2. CASE n # 0
  <2>1. n \in Nat /\ \A i \in 1..n : q[i] \in Seq(E)
    OBVIOUS
  <2>2. 0 \in C
    <3>1. [i \in 1..0 |-> <<>>] \in [1..0 -> Seq(E)] /\ \A i \in 1..0 : FALSE
      OBVIOUS
    <3>2. Ok(0)
      BY <3>1
    <3> HIDE DEF Ok
    <3>3. QED BY <3>2
  <2>3. ASSUME NEW m \in Nat, m \in C
        PROVE  m + 1 \in C
    <3> HIDE DEF Ok
    <3> SUFFICES ASSUME m + 1 <= n
                 PROVE  Ok(m + 1)
      OBVIOUS
    <3>1. Ok(m)
      BY <2>1, <2>3
    <3>2. PICK f \in [1..m -> Seq(E)] :
             \A i \in 1..m : f[i] = IF i = 1 THEN q[i] ELSE f[i - 1] \o q[i]
      BY <3>1 DEF Ok
    <3> DEFINE x == IF m + 1 = 1 THEN q[m + 1] ELSE f[m] \o q[m + 1]
               g == [i \in 1..m + 1 |-> IF i = m + 1 THEN x ELSE f[i]]
    <3>3. x \in Seq(E)
      BY <2>1
    <3>4. g \in [1..m + 1 -> Seq(E)]
      <4> HIDE DEF x
      <4> QED BY <3>3
    <3>5. \A i \in 1..m + 1 : g[i] = IF i = 1 THEN q[i] ELSE g[i - 1] \o q[i]
      <4> SUFFICES ASSUME NEW i \in 1..m + 1
                   PROVE  g[i] = IF i = 1 THEN q[i] ELSE g[i - 1] \o q[i]
        OBVIOUS
      <4>1. CASE i = m + 1
        <5>1. g[i] = x
          BY <4>1
        <5>2. i # 1 => g[i - 1] = f[m]
          BY <4>1
        <5>3. QED BY <4>1, <5>1, <5>2
      <4>2. CASE i # m + 1
        <5>1. i \in 1..m /\ g[i] = f[i]
          BY <4>2
        <5>2. i # 1 => g[i - 1] = f[i - 1]
          BY <5>1
        <5> HIDE DEF g
        <5>3. QED BY <3>2, <5>1, <5>2
      <4>3. QED BY <4>1, <4>2
    <3> HIDE DEF g
    <3>6. QED BY <3>4, <3>5 DEF Ok
  <2>4. n \in C
    <3> HIDE DEF C
    <3> QED BY <2>1, <2>2, <2>3, SetInduction
  <2> DEFINE flatten == CHOOSE f : f = F(n, f)
  <2>5. FlattenSeq(q) = flatten[n]
    BY <1>2 DEF FlattenSeq
  <2>6. flatten = F(n, flatten)
    <3>1. Ok(n)
      <4> HIDE DEF Ok
      <4> QED BY <2>1, <2>4
    <3>2. PICK f \in [1..n -> Seq(E)] :
             \A i \in 1..n : f[i] = IF i = 1 THEN q[i] ELSE f[i - 1] \o q[i]
      BY <3>1
    <3>3. f = [i \in 1..n |-> f[i]]
      OBVIOUS
    <3>4. f = F(n, f)
      BY <3>2, <3>3
    <3> HIDE DEF F
    <3>5. QED BY <3>4
  <2> DEFINE B == {m \in Nat : m \in 1..n => flatten[m] \in Seq(E)}
  <2> HIDE DEF flatten
  <2>7. \A i \in 1..n : flatten[i] = IF i = 1 THEN q[i] ELSE flatten[i - 1] \o q[i]
    BY <2>6
  <2>8. 0 \in B /\ \A m \in Nat : m \in B => m + 1 \in B
    <3>1. 0 \in B
      OBVIOUS
    <3>2. ASSUME NEW m \in Nat, m \in B, m + 1 \in 1..n
          PROVE  flatten[m + 1] \in Seq(E)
      <4>1. q[m + 1] \in Seq(E)
        BY <2>1, <3>2
      <4>2. CASE m = 0
        BY <2>7, <3>2, <4>1, <4>2
      <4>3. CASE m # 0
        <5>1. m \in 1..n /\ flatten[m] \in Seq(E)
          BY <3>2, <4>3
        <5>2. m + 1 # 1 /\ (m + 1) - 1 = m
          BY <4>3
        <5>3. flatten[m + 1] = flatten[m] \o q[m + 1]
          BY <2>7, <3>2, <5>2
        <5>4. QED BY <4>1, <5>1, <5>3
      <4>4. QED BY <4>2, <4>3
    <3>3. QED BY <3>1, <3>2
  <2>9. Nat \subseteq B
    <3> HIDE DEF B
    <3> QED BY <2>8, SetInduction
  <2>10. flatten[n] \in Seq(E)
    BY <1>2, <2>1, <2>9
  <2>11. QED BY <2>5, <2>10
<1>3. QED BY <1>1, <1>2

LEMMA KnownIsPicked ==
    ASSUME NEW E, NEW q \in Seq(E), NEW gs
    PROVE  Where(q, LAMBDA g : g \in DOMAIN gs) = Picked(q, {i \in DOMAIN q : q[i] \in DOMAIN gs})
<1> DEFINE I == {i \in DOMAIN q : q[i] \in DOMAIN gs}
           os == {r \in SetToSeqs(I) : \A i, k \in DOMAIN r : i < k => ~Before(<<r[k]>>, <<r[i]>>)}
           order == CHOOSE r \in os : TRUE
<1>1. Where(q, LAMBDA g : g \in DOMAIN gs) = [k \in DOMAIN order |-> q[order[k]]]
  BY DEF Where, Sorted, Map
<1>2. IsFiniteSet(I) /\ I \subseteq Int
  BY FiniteIndices
<1> HIDE DEF I
<1>3. os = Orders(I, OwnKey(I))
  BY <1>2, OwnKeyOrder
<1> HIDE DEF os
<1>4. QED BY <1>1, <1>3 DEF Picked, I

LEMMA DomainsType ==
    ASSUME NEW s, s.groups \in Seq(GroupNames), NEW gs,
           \A g \in DOMAIN gs : gs[g].domains \in Seq(DomainType)
    PROVE  Domains(s, gs) \in Seq(DomainType)
<1> DEFINE q == s.groups
           I == {i \in DOMAIN q : q[i] \in DOMAIN gs}
           known == Picked(q, I)
           m == [i \in DOMAIN known |-> gs[known[i]].domains]
<1>1. Domains(s, gs) = FlattenSeq(m)
  <2>1. Where(s.groups, LAMBDA g : g \in DOMAIN gs) = known
    BY KnownIsPicked
  <2> HIDE DEF known
  <2>2. QED BY <2>1 DEF Domains, Map
<1>2. q \in Seq(GroupNames) /\ I \in SUBSET DOMAIN q /\ \A i \in I : q[i] \in DOMAIN gs
  OBVIOUS
<1> HIDE DEF q, I
<1>3. known \in Seq(GroupNames) /\ ToSet(known) = {q[i] : i \in I}
  BY <1>2, PickedElements
<1>4. \A i \in DOMAIN known : known[i] \in DOMAIN gs
  BY <1>2, <1>3 DEF ToSet
<1> HIDE DEF known
<1>5. m \in Seq(Seq(DomainType))
  <2>1. DOMAIN m = DOMAIN known /\ m = [i \in DOMAIN m |-> m[i]]
        /\ \A i \in DOMAIN m : m[i] \in Seq(DomainType)
    BY <1>4
  <2> HIDE DEF m
  <2>2. QED BY <1>3, <2>1, MapElements
<1> HIDE DEF m
<1>6. QED BY <1>1, <1>5, FlattenType

DnnsOf(s, gs) == Map(Domains(s, gs), LAMBDA d : d.dnn)

LEMMA DnnsType ==
    ASSUME NEW s, s.groups \in Seq(GroupNames), NEW gs,
           \A g \in DOMAIN gs : gs[g].domains \in Seq(DomainType)
    PROVE  DnnsOf(s, gs) \in Seq(Nat)
<1> DEFINE d == Domains(s, gs)
           m == [i \in DOMAIN d |-> d[i].dnn]
<1>1. d \in Seq(DomainType)
  BY DomainsType
<1>2. DnnsOf(s, gs) = m
  BY DEF DnnsOf, Map
<1> HIDE DEF d
<1>3. \A i \in DOMAIN d : d[i] \in DomainType
  BY <1>1
<1>4. DOMAIN m = DOMAIN d /\ m = [i \in DOMAIN m |-> m[i]] /\ \A i \in DOMAIN m : m[i] \in Nat
  BY <1>3 DEF DomainType
<1> HIDE DEF m
<1>5. QED BY <1>1, <1>2, <1>4, MapElements

NumberKey(s) == [i \in DOMAIN s |-> <<s[i]>>]

LEMMA NumbersSorted ==
    ASSUME NEW s \in Seq(Nat)
    PROVE  StablySorted(s, LAMBDA d : <<d>>) # {}
<1> DEFINE D == DOMAIN s
           os == {q \in SetToSeqs(D) : \A i, k \in DOMAIN q : i < k =>
                    ~Before(Append(<<s[q[k]]>>, q[k]), Append(<<s[q[i]]>>, q[i]))}
<1>1. StablySorted(s, LAMBDA d : <<d>>) = {[i \in DOMAIN q |-> s[q[i]]] : q \in os}
  BY DEF StablySorted, Sorted
<1>2. IsFiniteSet(D)
  BY FiniteElements
<1>3. NumberKey(s) \in [D -> Keys(1)]
  <2>1. \A i \in D : s[i] \in Int
    OBVIOUS
  <2>2. QED BY <2>1, KeyOfOne DEF NumberKey
<1>4. DOMAIN NumberKey(s) = D
  BY DEF NumberKey
<1>5. \A i \in D : WithIndex(NumberKey(s))[i] = Append(<<s[i]>>, i)
  BY <1>4 DEF WithIndex, NumberKey
<1>6. Stable(s, WithIndex(NumberKey(s))) # {}
  BY <1>3, StablyExists
<1> HIDE DEF D
<1>7. \A q \in SetToSeqs(D) : \A i \in DOMAIN q : q[i] \in D
  BY <1>2, Enumeration
<1>8. os = Orders(D, WithIndex(NumberKey(s)))
  BY <1>5, <1>7 DEF Orders
<1> HIDE DEF os
<1>9. QED BY <1>1, <1>6, <1>8 DEF Stable, D

(* What the PCF is served is a sorted permutation of what the SMF is. *)
LEMMA DnnsSorted ==
    ASSUME NEW s, s.groups \in Seq(GroupNames), NEW gs,
           \A g \in DOMAIN gs : gs[g].domains \in Seq(DomainType)
    PROVE  SupportedDnns(s, gs) \in StablySorted(DnnsOf(s, gs), LAMBDA d : <<d>>)
<1>1. DnnsOf(s, gs) \in Seq(Nat)
  BY DnnsType
<1>2. StablySorted(DnnsOf(s, gs), LAMBDA d : <<d>>) # {}
  BY <1>1, NumbersSorted
<1>3. SupportedDnns(s, gs) = CHOOSE q \in StablySorted(DnnsOf(s, gs), LAMBDA d : <<d>>) : TRUE
  BY DEF SupportedDnns, DnnsOf
<1>4. QED BY <1>2, <1>3

-----------------------------------------------------------------------------
(* QoS of an IMSI. *)

QosEntries(gs) == UNION {{<<g, i>> : i \in QosDomains(g, gs)} : g \in DOMAIN gs}
DomainOf(gs, e) == gs[e[1]].domains[e[2]]
QosEntry(gs, e) == [imsis |-> gs[e[1]].imsis, dnn |-> DomainOf(gs, e).dnn,
                    qos |-> DomainOf(gs, e).qos]

LEMMA FiniteQosEntries ==
    ASSUME NEW gs, IsFiniteSet(DOMAIN gs),
           \A g \in DOMAIN gs : gs[g].domains \in Seq(DomainType)
    PROVE  IsFiniteSet(QosEntries(gs))
<1> DEFINE part == [g \in DOMAIN gs |-> {<<g, i>> : i \in QosDomains(g, gs)}]
<1>1. \A g \in DOMAIN gs : IsFiniteSet(part[g])
  <2> SUFFICES ASSUME NEW g \in DOMAIN gs
               PROVE  IsFiniteSet(part[g])
    OBVIOUS
  <2> DEFINE Q == QosDomains(g, gs)
             f == [i \in Q |-> <<g, i>>]
  <2>1. IsFiniteSet(Q)
    <3>1. gs[g].domains \in Seq(DomainType) /\ Q \in SUBSET DOMAIN gs[g].domains
      BY DEF QosDomains
    <3> HIDE DEF Q
    <3>2. QED BY <3>1, FiniteIndices
  <2>2. part[g] = {f[i] : i \in Q} /\ DOMAIN f = Q
    OBVIOUS
  <2> HIDE DEF f, part, Q
  <2>3. QED BY <2>1, <2>2, FiniteImage
<1>2. DOMAIN part = DOMAIN gs /\ QosEntries(gs) = UNION {part[g] : g \in DOMAIN gs}
  BY DEF QosEntries
<1> HIDE DEF part
<1>3. IsFiniteSet({part[g] : g \in DOMAIN gs})
  BY <1>2, FiniteImage
<1>4. QED BY <1>1, <1>2, <1>3, FS_UNION

LEMMA QosList ==
    ASSUME NEW gs, IsFiniteSet(DOMAIN gs),
           \A g \in DOMAIN gs : gs[g].domains \in Seq(DomainType),
           NEW f \in ImsiQosLists(gs)
    PROVE  /\ DOMAIN f \subseteq Nat
           /\ \A i \in DOMAIN f : \E e \in QosEntries(gs) : f[i] = QosEntry(gs, e)
           /\ \A e \in QosEntries(gs) : \E i \in DOMAIN f : f[i] = QosEntry(gs, e)
<1>1. PICK q \in SetToSeqs(QosEntries(gs)) : f = [i \in DOMAIN q |-> QosEntry(gs, q[i])]
  BY DEF ImsiQosLists, Sorted, Map, QosEntries, QosEntry, DomainOf
<1>2. /\ Cardinality(QosEntries(gs)) \in Nat
      /\ DOMAIN q = 1..Cardinality(QosEntries(gs))
      /\ ToSet(q) = QosEntries(gs)
  <2>1. IsFiniteSet(QosEntries(gs))
    BY FiniteQosEntries
  <2>2. QED BY <2>1, FS_CardinalityType, Elements
<1>3. QED BY <1>1, <1>2 DEF ToSet

(* The entries that match a request, and what they configure. *)
Matching(imsi, dnn) == {e \in QosEntries(groups) : /\ DomainOf(groups, e).dnn = dnn
                                                   /\ imsi \in groups[e[1]].imsis}

LEMMA MatchingQos ==
    ASSUME StoredInv, NEW imsi, NEW dnn
    PROVE  QosOf(imsi, dnn) = {DomainOf(groups, e).qos : e \in Matching(imsi, dnn)}
<1>1. \A g \in DOMAIN groups : \A i : i \in QosDomains(g, groups) <=>
         i \in DOMAIN groups[g].domains /\ groups[g].domains[i].qos # None
  BY DEF QosDomains
<1>2. \A x : x \in QosOf(imsi, dnn) <=>
         \E g \in DOMAIN groups : \E i \in DOMAIN groups[g].domains :
            /\ imsi \in groups[g].imsis /\ groups[g].domains[i].dnn = dnn
            /\ groups[g].domains[i].qos = x /\ x # None
  BY DEF QosOf, ToSet
<1>3. \A x : x \in {DomainOf(groups, e).qos : e \in Matching(imsi, dnn)} <=>
         \E g \in DOMAIN groups : \E i \in QosDomains(g, groups) :
            /\ imsi \in groups[g].imsis /\ groups[g].domains[i].dnn = dnn
            /\ groups[g].domains[i].qos = x
  <2>1. \A e : e \in QosEntries(groups) <=>
           \E g \in DOMAIN groups : \E i \in QosDomains(g, groups) : e = <<g, i>>
    BY DEF QosEntries
  <2>2. \A g, i : DomainOf(groups, <<g, i>>) = groups[g].domains[i] /\ <<g, i>>[1] = g
    BY DEF DomainOf
  <2>3. \A x : x \in {DomainOf(groups, e).qos : e \in Matching(imsi, dnn)} <=>
           \E e \in QosEntries(groups) : /\ DomainOf(groups, e).dnn = dnn
                                         /\ imsi \in groups[e[1]].imsis
                                         /\ DomainOf(groups, e).qos = x
    BY DEF Matching
  <2>4. ASSUME NEW x
        PROVE  (\E e \in QosEntries(groups) : /\ DomainOf(groups, e).dnn = dnn
                                              /\ imsi \in groups[e[1]].imsis
                                              /\ DomainOf(groups, e).qos = x)
               <=> \E g \in DOMAIN groups : \E i \in QosDomains(g, groups) :
                     /\ imsi \in groups[g].imsis /\ groups[g].domains[i].dnn = dnn
                     /\ groups[g].domains[i].qos = x
    <3>1. ASSUME NEW g \in DOMAIN groups, NEW i \in QosDomains(g, groups)
          PROVE  <<g, i>> \in QosEntries(groups)
      BY <2>1
    <3>2. ASSUME NEW e \in QosEntries(groups), DomainOf(groups, e).dnn = dnn,
                 imsi \in groups[e[1]].imsis, DomainOf(groups, e).qos = x
          PROVE  \E g \in DOMAIN groups : \E i \in QosDomains(g, groups) :
                    /\ imsi \in groups[g].imsis /\ groups[g].domains[i].dnn = dnn
                    /\ groups[g].domains[i].qos = x
      <4>1. PICK g \in DOMAIN groups : \E i \in QosDomains(g, groups) : e = <<g, i>>
        BY <2>1
      <4>2. PICK i \in QosDomains(g, groups) : e = <<g, i>>
        BY <4>1
      <4>3. QED BY <2>2, <3>2, <4>2
    <3>3. ASSUME NEW g \in DOMAIN groups, NEW i \in QosDomains(g, groups),
                 imsi \in groups[g].imsis, groups[g].domains[i].dnn = dnn,
                 groups[g].domains[i].qos = x
          PROVE  \E e \in QosEntries(groups) : /\ DomainOf(groups, e).dnn = dnn
                                               /\ imsi \in groups[e[1]].imsis
                                               /\ DomainOf(groups, e).qos = x
      <4>1. <<g, i>> \in QosEntries(groups)
        BY <3>1
      <4>2. /\ DomainOf(groups, <<g, i>>).dnn = dnn /\ imsi \in groups[<<g, i>>[1]].imsis
            /\ DomainOf(groups, <<g, i>>).qos = x
        BY <2>2, <3>3
      <4>3. QED BY <4>1, <4>2
    <3>4. QED BY <3>2, <3>3
  <2>5. QED BY <2>3, <2>4
<1>4. QED BY <1>1, <1>2, <1>3

LEMMA QosAnswer ==
    ASSUME StoredInv, NEW f \in ImsiQosLists(groups), NEW imsi, NEW dnn
    PROVE  ImsiQos(f, imsi, dnn) \in
             IF QosOf(imsi, dnn) = {} THEN {None} ELSE QosOf(imsi, dnn)
<1> DEFINE found == {i \in DOMAIN f : f[i].dnn = dnn /\ imsi \in f[i].imsis}
<1>1. /\ DOMAIN f \subseteq Nat
      /\ \A i \in DOMAIN f : \E e \in QosEntries(groups) : f[i] = QosEntry(groups, e)
      /\ \A e \in QosEntries(groups) : \E i \in DOMAIN f : f[i] = QosEntry(groups, e)
  <2>1. IsFiniteSet(DOMAIN groups) /\ \A g \in DOMAIN groups : groups[g].domains \in Seq(DomainType)
    BY DEF StoredInv, GroupType, DomainType
  <2>2. QED BY <2>1, QosList
<1>2. \A e : /\ QosEntry(groups, e).dnn = DomainOf(groups, e).dnn
             /\ QosEntry(groups, e).imsis = groups[e[1]].imsis
             /\ QosEntry(groups, e).qos = DomainOf(groups, e).qos
  BY DEF QosEntry
<1>3. \A i \in found : \E e \in Matching(imsi, dnn) : f[i].qos = DomainOf(groups, e).qos
  <2> SUFFICES ASSUME NEW i \in found
               PROVE  \E e \in Matching(imsi, dnn) : f[i].qos = DomainOf(groups, e).qos
    OBVIOUS
  <2>1. i \in DOMAIN f /\ f[i].dnn = dnn /\ imsi \in f[i].imsis
    OBVIOUS
  <2>2. PICK e \in QosEntries(groups) : f[i] = QosEntry(groups, e)
    BY <1>1, <2>1
  <2>3. e \in Matching(imsi, dnn)
    BY <1>2, <2>1, <2>2 DEF Matching
  <2>4. QED BY <1>2, <2>2, <2>3
<1>4. Matching(imsi, dnn) # {} => found # {}
  <2> SUFFICES ASSUME NEW e \in Matching(imsi, dnn)
               PROVE  found # {}
    OBVIOUS
  <2>1. /\ e \in QosEntries(groups) /\ DomainOf(groups, e).dnn = dnn
        /\ imsi \in groups[e[1]].imsis
    BY DEF Matching
  <2>2. PICK i \in DOMAIN f : f[i] = QosEntry(groups, e)
    BY <1>1, <2>1
  <2>3. i \in found
    BY <1>2, <2>1, <2>2
  <2> HIDE DEF found
  <2>4. QED BY <2>3
<1>5. ImsiQos(f, imsi, dnn) = IF found = {} THEN None ELSE f[Min(found)].qos
  BY DEF ImsiQos
<1>6. found # {} => Min(found) \in found
  <2>1. found \in SUBSET Nat
    BY <1>1
  <2> HIDE DEF found
  <2>2. QED BY <2>1, LeastElement DEF Min
<1> HIDE DEF found
<1>7. \A x : x \in QosOf(imsi, dnn) <=> \E e \in Matching(imsi, dnn) : x = DomainOf(groups, e).qos
  BY MatchingQos
<1>8. CASE found = {}
  <2>1. QosOf(imsi, dnn) = {}
    BY <1>4, <1>7, <1>8
  <2>2. QED BY <1>5, <1>8, <2>1
<1>9. CASE found # {}
  <2>1. f[Min(found)].qos \in QosOf(imsi, dnn)
    BY <1>3, <1>6, <1>7, <1>9
  <2>2. QED BY <1>5, <1>9, <2>1
<1>10. QED BY <1>8, <1>9

-----------------------------------------------------------------------------
(* What is in memory was derived from what is stored. *)

Derived(m) == /\ m.plmn \in PlmnLists(slices)
              /\ m.plmnSnssai \in PlmnSnssaiLists(slices)
              /\ m.accessAndMobility \in AccessMobilityLists(slices)
              /\ m.sessionManagement \in SessionLists(slices, groups)
              /\ m.policyControl \in PolicyLists(slices, groups)
              /\ m.imsiQos \in ImsiQosLists(groups)

DerivedInv == Synced => Derived(mem)

Inv == StoredInv /\ DerivedInv

LEMMA InitStored == Init => StoredInv
<1> SUFFICES ASSUME Init
             PROVE  StoredInv
  OBVIOUS
<1>1. /\ SliceNames \subseteq Nat /\ IsFiniteSet(SliceNames) /\ IsFiniteSet(GroupNames)
      /\ \A v \in Varieties : v.slices \subseteq SliceType /\ v.groups \subseteq GroupType
  BY NFConfigAssumption
<1>2. PICK v \in Varieties :
         /\ \E names \in SUBSET SliceNames : \E order \in SetToSeqs(names) :
               \E doc \in [names -> v.slices] :
                  slices = [i \in DOMAIN order |-> Named(order[i], doc[order[i]])]
         /\ \E names \in SUBSET GroupNames : groups \in [names -> v.groups]
  BY DEF Init
<1>3. slices \in Seq(StoredSlice)
  <2>1. PICK names \in SUBSET SliceNames :
           \E order \in SetToSeqs(names) : \E doc \in [names -> v.slices] :
              slices = [i \in DOMAIN order |-> Named(order[i], doc[order[i]])]
    BY <1>2
  <2> PICK order \in SetToSeqs(names) : \E doc \in [names -> v.slices] :
              slices = [i \in DOMAIN order |-> Named(order[i], doc[order[i]])]
    BY <2>1
  <2>2. PICK doc \in [names -> v.slices] :
           slices = [i \in DOMAIN order |-> Named(order[i], doc[order[i]])]
    OBVIOUS
  <2>3. order \in Seq(names)
    <3>1. IsFiniteSet(names)
      BY <1>1, FS_Subset
    <3>2. QED BY <3>1, Elements
  <2>4. \A i \in DOMAIN order : order[i] \in Nat /\ doc[order[i]] \in SliceType
    <3>1. \A i \in DOMAIN order : order[i] \in names
      BY <2>3
    <3>2. QED BY <1>1, <2>2, <3>1
  <2>5. \A n \in Nat, d \in SliceType : Named(n, d) \in StoredSlice
    BY DEF Named, SliceType, StoredSlice
  <2>6. /\ DOMAIN slices = DOMAIN order /\ slices = [i \in DOMAIN slices |-> slices[i]]
        /\ \A i \in DOMAIN slices : slices[i] \in StoredSlice
    BY <2>2, <2>4, <2>5
  <2>7. QED BY <2>3, <2>6, MapElements
<1>4. PICK names \in SUBSET GroupNames : groups \in [names -> v.groups]
  BY <1>2
<1>5. IsFiniteSet(DOMAIN groups) /\ DOMAIN groups \subseteq GroupNames
  BY <1>1, <1>4, FS_Subset
<1>6. \A g \in DOMAIN groups : groups[g] \in GroupType
  BY <1>1, <1>4
<1>7. QED BY <1>3, <1>5, <1>6 DEF StoredInv

(* A sync derives, and changes nothing that is stored. *)
LEMMA SyncDerives ==
    ASSUME Sync
    PROVE  Derived(mem') /\ slices' = slices /\ groups' = groups
<1>1. PICK a \in PlmnLists(slices), b \in PlmnSnssaiLists(slices),
           c \in AccessMobilityLists(slices), d \in SessionLists(slices, groups),
           e \in PolicyLists(slices, groups), f \in ImsiQosLists(groups) :
             mem' = [plmn |-> a, plmnSnssai |-> b, accessAndMobility |-> c,
                     sessionManagement |-> d, policyControl |-> e, imsiQos |-> f]
  BY DEF Sync
<1>2. QED BY <1>1 DEF Sync, Derived

(* The support of the theorems below: every list in memory is one that a sync may
   derive from what is stored, which is what Sync chooses from.               *)
LEMMA DerivedAlways == Spec => []Inv
<1>1. Init => Inv
  <2>1. Init => DerivedInv
    BY DEF Init, DerivedInv, Synced
  <2>2. QED BY <2>1, InitStored DEF Inv
<1>2. Inv /\ [Sync]_vars => Inv'
  <2> SUFFICES ASSUME Inv, [Sync]_vars
               PROVE  Inv'
    OBVIOUS
  <2>1. CASE Sync
    <3>1. Derived(mem') /\ slices' = slices /\ groups' = groups
      BY <2>1, SyncDerives
    <3>2. StoredInv'
      BY <3>1 DEF Inv, StoredInv
    <3>3. DerivedInv'
      BY <3>1 DEF DerivedInv, Derived
    <3>4. QED BY <3>2, <3>3 DEF Inv
  <2>2. CASE UNCHANGED vars
    BY <2>2 DEF vars, Inv, StoredInv, DerivedInv, Derived, Synced
  <2>3. QED BY <2>1, <2>2
<1>3. QED BY <1>1, <1>2, PTL DEF Spec

-----------------------------------------------------------------------------
(* The endpoints agree. *)

(* The slices that are served, and their PLMNs and S-NSSAIs *)
ServedSlices == ToSet(Parsed(slices))
ServedKeys == {<<s.plmn, Snssai(s)>> : s \in ServedSlices}

LEMMA SameKeyAsId ==
    /\ \A s : SliceId(s).plmn = s.plmn /\ Snssai(SliceId(s)) = Snssai(s)
    /\ ServedKeys = {<<id.plmn, Snssai(id)>> : id \in Ids(slices)}
<1>1. \A s : SliceId(s).plmn = s.plmn /\ Snssai(SliceId(s)) = Snssai(s)
  BY DEF SliceId, Snssai
<1>2. QED BY <1>1 DEF ServedKeys, ServedSlices, Ids

LEMMA EndpointsAgreeWhenDerived == Inv => EndpointsAgree
<1> SUFFICES ASSUME Inv, Synced
             PROVE  EndpointsAgree
  BY DEF EndpointsAgree
<1>1. slices \in Seq(StoredSlice) /\ Derived(mem)
  BY DEF Inv, StoredInv, DerivedInv
<1>2. /\ Served("sessionManagement") = {Session(s, groups) : s \in ServedSlices}
      /\ Len(mem.sessionManagement) = Len(Parsed(slices))
  BY <1>1, SessionServed DEF Served, ServedSlices, Derived
<1>3. /\ Served("policyControl") = {Policy(s, groups) : s \in ServedSlices}
      /\ Len(mem.policyControl) = Len(Parsed(slices))
  BY <1>1, PolicyServed DEF Served, ServedSlices, Derived
<1>4. Served("accessAndMobility") = {AccessEntry(slices, id) : id \in Ids(slices)}
  BY <1>1, AccessServed DEF Served, Derived
<1>5. Served("plmnSnssai") =
        {[plmn |-> p, snssais |-> SnssaisOf(Ids(slices), p)] : p \in IdPlmns(slices)}
  BY <1>1, PlmnSnssaiServed DEF Served, Derived
<1>6. Served("plmn") = Plmns(slices)
  BY <1>1, PlmnServed DEF Served, Derived
<1>7. {<<e.plmn, e.snssai>> : e \in Served("sessionManagement")} = ServedKeys
  <2> DEFINE E(s) == Session(s, groups)
  <2>1. \A s : E(s).plmn = s.plmn /\ E(s).snssai = Snssai(s)
    BY DEF Session
  <2>2. Served("sessionManagement") = {E(s) : s \in ServedSlices}
    BY <1>2
  <2> HIDE DEF E
  <2>3. {<<e.plmn, e.snssai>> : e \in Served("sessionManagement")}
          = {<<E(s).plmn, E(s).snssai>> : s \in ServedSlices}
    BY <2>2
  <2>4. QED BY <2>1, <2>3 DEF ServedKeys
<1>8. {<<e.plmn, e.snssai>> : e \in Served("policyControl")} = ServedKeys
  <2> DEFINE E(s) == Policy(s, groups)
  <2>1. \A s : E(s).plmn = s.plmn /\ E(s).snssai = Snssai(s)
    BY DEF Policy
  <2>2. Served("policyControl") = {E(s) : s \in ServedSlices}
    BY <1>3
  <2> HIDE DEF E
  <2>3. {<<e.plmn, e.snssai>> : e \in Served("policyControl")}
          = {<<E(s).plmn, E(s).snssai>> : s \in ServedSlices}
    BY <2>2
  <2>4. QED BY <2>1, <2>3 DEF ServedKeys
<1>9. {<<e.plmn, e.snssai>> : e \in Served("accessAndMobility")} = ServedKeys
  <2> DEFINE E(id) == AccessEntry(slices, id)
  <2>1. \A id : E(id).plmn = id.plmn /\ E(id).snssai = Snssai(id)
    BY DEF AccessEntry
  <2>2. Served("accessAndMobility") = {E(id) : id \in Ids(slices)}
    BY <1>4
  <2> HIDE DEF E
  <2>3. {<<e.plmn, e.snssai>> : e \in Served("accessAndMobility")}
          = {<<E(id).plmn, E(id).snssai>> : id \in Ids(slices)}
    BY <2>2
  <2>4. QED BY <2>1, <2>3, SameKeyAsId
<1>10. UNION {{<<e.plmn, id>> : id \in ToSet(e.snssais)} : e \in Served("plmnSnssai")} = ServedKeys
  <2> DEFINE K == Ids(slices)
             P == IdPlmns(slices)
             E == {[plmn |-> p, snssais |-> SnssaisOf(K, p)] : p \in P}
             U == UNION {{<<e.plmn, id>> : id \in ToSet(e.snssais)} : e \in E}
  <2>1. IsFiniteSet(K) /\ K \subseteq IdType
    BY <1>1, FiniteIds
  <2>2. P = {k.plmn : k \in K}
    BY DEF IdPlmns
  <2>3. ServedKeys = {<<k.plmn, Snssai(k)>> : k \in K}
    BY SameKeyAsId
  <2> HIDE DEF K, P
  <2>4. U = UNION {{<<p, id>> : id \in ToSet(SnssaisOf(K, p))} : p \in P}
    <3> DEFINE e(p) == [plmn |-> p, snssais |-> SnssaisOf(K, p)]
               A(r) == {<<r.plmn, id>> : id \in ToSet(r.snssais)}
    <3>1. \A p : A(e(p)) = {<<p, id>> : id \in ToSet(SnssaisOf(K, p))}
      OBVIOUS
    <3>2. U = UNION {A(r) : r \in {e(p) : p \in P}}
      OBVIOUS
    <3> HIDE DEF A, e, U
    <3>3. U = UNION {A(e(p)) : p \in P}
      BY <3>2
    <3>4. QED BY <3>1, <3>3
  <2> HIDE DEF U
  <2>5. \A p \in P : ToSet(SnssaisOf(K, p)) = {Snssai(k) : k \in {x \in K : x.plmn = p}}
    BY <2>1, SnssaisServed
  <2>6. U = UNION {{<<p, id>> : id \in {Snssai(k) : k \in {x \in K : x.plmn = p}}} : p \in P}
    BY <2>4, <2>5
  <2>7. U = {<<k.plmn, Snssai(k)>> : k \in K}
    BY <2>2, <2>6
  <2>8. QED BY <1>5, <2>3, <2>7 DEF U, K, P
<1>11. {k[1] : k \in ServedKeys} \subseteq Served("plmn")
  <2>1. ServedSlices \subseteq ToSet(slices)
    BY <1>1, ParsedElements DEF ServedSlices
  <2>2. QED BY <1>6, <2>1 DEF ServedKeys, Plmns
<1>12. QED BY <1>2, <1>3, <1>7, <1>8, <1>9, <1>10, <1>11 DEF EndpointsAgree

(* Whatever is stored, and in whatever order it is read: the endpoints for access
   and mobility, sessions and policies and that for PLMNs with S-NSSAIs speak of
   the same slices, those whose SST parses, the PLMN endpoint has their PLMNs, and
   there are as many session entries as policy entries.                          *)
THEOREM EndpointsAgreeAlways == Spec => []EndpointsAgree
BY DerivedAlways, EndpointsAgreeWhenDerived, PTL

-----------------------------------------------------------------------------
(* TACs. *)

LEMMA TacsServedWhenDerived == Inv => TacsServed
<1> SUFFICES ASSUME Inv, Synced
             PROVE  TacsServed
  BY DEF TacsServed
<1>1. slices \in Seq(StoredSlice) /\ Derived(mem)
  BY DEF Inv, StoredInv, DerivedInv
<1>2. Served("accessAndMobility") = {AccessEntry(slices, id) : id \in Ids(slices)}
  BY <1>1, AccessServed DEF Served, Derived
<1>3. ServedSlices = {s \in ToSet(slices) : Parses(s)}
  BY <1>1, ParsedElements DEF ServedSlices
<1>4. ASSUME NEW id \in Ids(slices)
      PROVE  Tacs(slices, id) =
               UNION {{g.tac : g \in s.gnbs} : s \in {t \in ServedSlices : SliceId(t) = id}}
  <2>1. PICK u \in ServedSlices : id = SliceId(u)
    BY DEF Ids, ServedSlices
  <2>2. \A t : SliceId(t) = id => Parses(t)
    <3>1. Parses(u)
      BY <1>3
    <3>2. QED BY <2>1, <3>1 DEF SliceId, Parses
  <2>3. {t \in ToSet(slices) : SliceId(t) = id} = {t \in ServedSlices : SliceId(t) = id}
    BY <1>3, <2>2
  <2>4. QED BY <2>3 DEF Tacs
<1>5. ASSUME NEW k \in ServedKeys
      PROVE  UNION {e.tacs : e \in {x \in Served("accessAndMobility") : <<x.plmn, x.snssai>> = k}}
               = UNION {{g.tac : g \in s.gnbs} :
                           s \in {t \in ServedSlices : <<t.plmn, Snssai(t)>> = k}}
  <2> DEFINE K == {id \in Ids(slices) : <<id.plmn, Snssai(id)>> = k}
             U == UNION {e.tacs : e \in {x \in Served("accessAndMobility") :
                                            <<x.plmn, x.snssai>> = k}}
             G(s) == {g.tac : g \in s.gnbs}
             V == UNION {G(s) : s \in {t \in ServedSlices : <<t.plmn, Snssai(t)>> = k}}
  <2>1. U = UNION {Tacs(slices, id) : id \in K}
    <3> DEFINE E(id) == AccessEntry(slices, id)
    <3>1. \A id : E(id).plmn = id.plmn /\ E(id).snssai = Snssai(id) /\ E(id).tacs = Tacs(slices, id)
      BY DEF AccessEntry
    <3>2. Served("accessAndMobility") = {E(id) : id \in Ids(slices)}
      BY <1>2
    <3> HIDE DEF E
    <3>3. {x \in Served("accessAndMobility") : <<x.plmn, x.snssai>> = k} = {E(id) : id \in K}
      BY <3>1, <3>2
    <3>4. U = UNION {E(id).tacs : id \in K}
      BY <3>3
    <3>5. QED BY <3>1, <3>4
  <2>2. \A x : x \in U <=> \E id \in K : x \in Tacs(slices, id)
    BY <2>1
  <2>3. \A x : x \in U <=> \E id \in K : \E s \in ServedSlices : SliceId(s) = id /\ x \in G(s)
    BY <1>4, <2>2
  <2>4. \A x : x \in V <=> \E s \in ServedSlices : <<s.plmn, Snssai(s)>> = k /\ x \in G(s)
    OBVIOUS
  <2> HIDE DEF U, V, G
  <2>5. \A s \in ServedSlices : SliceId(s) \in K <=> <<s.plmn, Snssai(s)>> = k
    BY SameKeyAsId DEF Ids, ServedSlices
  <2> HIDE DEF K
  <2>6. U = V
    BY <2>3, <2>4, <2>5
  <2>7. QED BY <2>6 DEF U, V, G
<1>6. QED BY <1>5 DEF TacsServed, ServedSlices, ServedKeys

(* Slices of one PLMN and S-NSSAI, however their SST is written, are served with
   the TACs of all their gNBs and no other.                                      *)
THEOREM TacsServedAlways == Spec => []TacsServed
BY DerivedAlways, TacsServedWhenDerived, PTL

-----------------------------------------------------------------------------
(* DNNs. *)

LEMMA DnnsAgreeWhenDerived == Inv => DnnsAgree
<1> SUFFICES ASSUME Inv, Synced, NEW e \in Served("sessionManagement")
             PROVE  \E p \in Served("policyControl") :
                       /\ <<p.plmn, p.snssai>> = <<e.plmn, e.snssai>>
                       /\ p.dnns \in StablySorted(e.dnns, LAMBDA d : <<d>>)
  BY DEF DnnsAgree
<1>1. slices \in Seq(StoredSlice) /\ Derived(mem)
  BY DEF Inv, StoredInv, DerivedInv
<1>2. Served("sessionManagement") = {Session(s, groups) : s \in ServedSlices}
  BY <1>1, SessionServed DEF Served, ServedSlices, Derived
<1>3. Served("policyControl") = {Policy(s, groups) : s \in ServedSlices}
  BY <1>1, PolicyServed DEF Served, ServedSlices, Derived
<1>4. PICK s \in ServedSlices : e = Session(s, groups)
  BY <1>2
<1>5. Policy(s, groups) \in Served("policyControl")
  BY <1>3
<1>6. /\ s.groups \in Seq(GroupNames)
      /\ \A g \in DOMAIN groups : groups[g].domains \in Seq(DomainType)
  <2>1. s \in StoredSlice
    <3>1. Parsed(slices) \in Seq(StoredSlice)
      BY <1>1, ParsedElements
    <3>2. QED BY <3>1, FiniteElements DEF ServedSlices
  <2>2. \A g \in DOMAIN groups : groups[g] \in GroupType
    BY DEF Inv, StoredInv
  <2>3. QED BY <2>1, <2>2 DEF StoredSlice, GroupType, DomainType
<1>7. SupportedDnns(s, groups) \in StablySorted(DnnsOf(s, groups), LAMBDA d : <<d>>)
  BY <1>6, DnnsSorted
<1>8. e.dnns = DnnsOf(s, groups) /\ e.plmn = s.plmn /\ e.snssai = Snssai(s)
  BY <1>4 DEF Session, DnnsOf
<1>9. /\ Policy(s, groups).dnns = SupportedDnns(s, groups)
      /\ Policy(s, groups).plmn = s.plmn /\ Policy(s, groups).snssai = Snssai(s)
  BY DEF Policy
<1>10. QED BY <1>5, <1>7, <1>8, <1>9

(* Every session entry has a policy entry of its slice whose DNNs are the same, as
   many times, in order.                                                         *)
THEOREM DnnsAgreeAlways == Spec => []DnnsAgree
BY DerivedAlways, DnnsAgreeWhenDerived, PTL

-----------------------------------------------------------------------------
(* QoS. *)

LEMMA QosServedWhenDerived == Inv => QosServed
<1> SUFFICES ASSUME Inv, Synced
             PROVE  QosServed
  BY DEF QosServed
<1>1. StoredInv /\ mem.imsiQos \in ImsiQosLists(groups)
  BY DEF Inv, DerivedInv, Derived
<1>2. QED BY <1>1, QosAnswer DEF QosServed

(* A request for an IMSI and a DNN is answered with a QoS that is stored for them,
   and with none only if there is none: the groups and domains skipped on the way
   hide no other.                                                                *)
THEOREM QosServedAlways == Spec => []QosServed
BY DerivedAlways, QosServedWhenDerived, PTL

-----------------------------------------------------------------------------
(* What is served is stable. *)

LEMMA FiniteQos ==
    ASSUME StoredInv, NEW imsi, NEW dnn
    PROVE  IsFiniteSet(QosOf(imsi, dnn))
<1> DEFINE M == Matching(imsi, dnn)
           f == [e \in M |-> DomainOf(groups, e).qos]
<1>1. IsFiniteSet(QosEntries(groups))
  <2>1. IsFiniteSet(DOMAIN groups) /\ \A g \in DOMAIN groups : groups[g].domains \in Seq(DomainType)
    BY DEF StoredInv, GroupType, DomainType
  <2>2. QED BY <2>1, FiniteQosEntries
<1>2. IsFiniteSet(M)
  BY <1>1, FS_Subset DEF Matching
<1>3. QosOf(imsi, dnn) = {f[e] : e \in M} /\ DOMAIN f = M
  BY MatchingQos
<1> HIDE DEF f, M
<1>4. QED BY <1>2, <1>3, FiniteImage

LEMMA QosUnique ==
    ASSUME StoredInv, NEW f \in ImsiQosLists(groups), NEW h \in ImsiQosLists(groups),
           NEW imsi, NEW dnn, Cardinality(QosOf(imsi, dnn)) <= 1
    PROVE  ImsiQos(f, imsi, dnn) = ImsiQos(h, imsi, dnn)
<1> DEFINE Q == QosOf(imsi, dnn)
<1>1. /\ ImsiQos(f, imsi, dnn) \in IF Q = {} THEN {None} ELSE Q
      /\ ImsiQos(h, imsi, dnn) \in IF Q = {} THEN {None} ELSE Q
  BY QosAnswer
<1>2. IsFiniteSet(Q) /\ Cardinality(Q) <= 1
  BY FiniteQos
<1> HIDE DEF Q
<1>3. Cardinality(Q) = 0 \/ Cardinality(Q) = 1
  BY <1>2, FS_CardinalityType
<1>4. CASE Cardinality(Q) = 0
  <2>1. Q = {}
    BY <1>2, <1>4, FS_EmptySet
  <2>2. QED BY <1>1, <2>1
<1>5. CASE Cardinality(Q) = 1
  <2>1. PICK x : Q = {x}
    BY <1>2, <1>5, FS_Singleton
  <2>2. QED BY <1>1, <2>1
<1>6. QED BY <1>3, <1>4, <1>5

LEMMA Unambiguous ==
    ASSUME ~Ambiguous
    PROVE  \A x, y \in Ids(slices) : x.plmn = y.plmn /\ Snssai(x) = Snssai(y) => x = y
<1> SUFFICES ASSUME NEW x \in Ids(slices), NEW y \in Ids(slices),
                    x.plmn = y.plmn, Snssai(x) = Snssai(y)
             PROVE  x = y
  OBVIOUS
<1>1. PICK s \in ToSet(Parsed(slices)) : x = SliceId(s)
  BY DEF Ids
<1>2. PICK t \in ToSet(Parsed(slices)) : y = SliceId(t)
  BY DEF Ids
<1>3. s.plmn = t.plmn /\ Snssai(s) = Snssai(t)
  BY <1>1, <1>2, SameKeyAsId
<1>4. QED BY <1>1, <1>2, <1>3 DEF Ambiguous

Same == /\ \A f \in {"plmn", "plmnSnssai", "sessionManagement", "policyControl"} :
              mem'[f] = mem[f]
        /\ Ambiguous \/ mem'.accessAndMobility = mem.accessAndMobility
        /\ \A imsi \in Imsis, dnn \in Dnns : Cardinality(QosOf(imsi, dnn)) <= 1 =>
              ImsiQos(mem'.imsiQos, imsi, dnn) = ImsiQos(mem.imsiQos, imsi, dnn)

LEMMA SyncServesTheSame ==
    ASSUME Inv, Synced, Sync
    PROVE  Same
<1>1. StoredInv /\ slices \in Seq(StoredSlice) /\ Derived(mem) /\ Derived(mem')
  BY SyncDerives DEF Inv, StoredInv, DerivedInv
<1>2. mem'.plmn = mem.plmn
  BY <1>1, PlmnUnique DEF Derived
<1>3. mem'.plmnSnssai = mem.plmnSnssai
  BY <1>1, PlmnSnssaiUnique DEF Derived
<1>4. mem'.sessionManagement = mem.sessionManagement
  BY <1>1, SessionUnique DEF Derived
<1>5. mem'.policyControl = mem.policyControl
  BY <1>1, PolicyUnique DEF Derived
<1>6. Ambiguous \/ mem'.accessAndMobility = mem.accessAndMobility
  <2> SUFFICES ASSUME ~Ambiguous
               PROVE  mem'.accessAndMobility = mem.accessAndMobility
    OBVIOUS
  <2>1. \A x, y \in Ids(slices) : x.plmn = y.plmn /\ Snssai(x) = Snssai(y) => x = y
    BY Unambiguous
  <2>2. /\ mem'.accessAndMobility \in AccessMobilityLists(slices)
        /\ mem.accessAndMobility \in AccessMobilityLists(slices)
    BY <1>1 DEF Derived
  <2>3. QED BY <1>1, <2>1, <2>2, AccessUnique
<1>7. ASSUME NEW imsi \in Imsis, NEW dnn \in Dnns, Cardinality(QosOf(imsi, dnn)) <= 1
      PROVE  ImsiQos(mem'.imsiQos, imsi, dnn) = ImsiQos(mem.imsiQos, imsi, dnn)
  <2>1. mem'.imsiQos \in ImsiQosLists(groups) /\ mem.imsiQos \in ImsiQosLists(groups)
    BY <1>1 DEF Derived
  <2>2. QED BY <1>1, <1>7, <2>1, QosUnique
<1>8. QED BY <1>2, <1>3, <1>4, <1>5, <1>6, <1>7 DEF Same

(* A sync that finds the same documents stored serves the same lists, in the same
   order: access and mobility unless one S-NSSAI is written in two ways, and the QoS
   of an IMSI if it has at most one for the DNN.                                 *)
THEOREM ServedStableAlways == Spec => ServedStable
<1>1. Inv /\ [Sync]_vars => [Synced => Same]_vars
  BY SyncServesTheSame
<1>2. QED BY <1>1, DerivedAlways, PTL DEF Spec, ServedStable, Same

=============================================================================
