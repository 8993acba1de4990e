---------------------------- MODULE BitratesProofs ----------------------------
(* Proofs about Bitrates, for words of every width and every request. *)
EXTENDS Bitrates, FiniteSetTheorems, TLAPS

-----------------------------------------------------------------------------
(* Arithmetic modulo the number of words. *)

LEMMA Remainder ==
    ASSUME NEW n \in Nat \ {0}, NEW x \in Int
    PROVE  /\ x % n \in 0..(n - 1)
           /\ x \in 0..(n - 1) => x % n = x
OBVIOUS

LEMMA Quotient ==
    ASSUME NEW n \in Nat \ {0}, NEW x \in Int
    PROVE  /\ x \div n \in Int
           /\ (x \div n) * n <= x /\ x < (x \div n + 1) * n
OBVIOUS

(* Multiplication by a positive number does not lower a natural number. *)
LEMMA Grows ==
    ASSUME NEW m \in Nat, NEW n \in Nat \ {0}
    PROVE  m * n \in Nat /\ m <= m * n
OBVIOUS

LEMMA ProductPositive ==
    ASSUME NEW m \in Nat \ {0}, NEW n \in Nat \ {0}
    PROVE  m * n \in Nat \ {0}
OBVIOUS

(* A rate of 32 bits in any unit has at most 64 bits. *)
LEMMA Factors == \A unit : Factor(unit) \in Nat \ {0} /\ Half32 * Factor(unit) <= Half64
<1>1. K \in Nat \ {0} /\ Half32 \in Nat \ {0} /\ Half64 \in Nat \ {0}
      /\ Half32 * K * K * K <= Half64
  BY BitratesAssumption
<1>2. K * K \in Nat \ {0} /\ K * K * K \in Nat \ {0}
  <2>1. K * K \in Nat \ {0}
    BY <1>1, ProductPositive
  <2>2. QED BY <2>1, <1>1, ProductPositive
<1>3. /\ Half32 <= Half32 * K
      /\ Half32 * K <= Half32 * K * K
      /\ Half32 * K * K <= Half32 * K * K * K
  <2>1. Half32 * K \in Nat /\ Half32 <= Half32 * K
    BY <1>1, Grows
  <2>2. Half32 * K * K \in Nat /\ Half32 * K <= Half32 * K * K
    BY <1>1, <2>1, Grows
  <2>3. Half32 * K * K \in Nat /\ Half32 * K * K <= Half32 * K * K * K
    BY <1>1, <2>2, Grows
  <2>4. QED BY <2>1, <2>2, <2>3
<1>4. /\ Half32 * 1 = Half32
      /\ Half32 * (K * K) = Half32 * K * K
      /\ Half32 * (K * K * K) = Half32 * K * K * K
  BY <1>1
<1>5. /\ Half32 * 1 <= Half64 /\ Half32 * K <= Half64
      /\ Half32 * (K * K) <= Half64 /\ Half32 * (K * K * K) <= Half64
  <2>1. Half32 * K \in Int /\ Half32 * K * K \in Int /\ Half32 * K * K * K \in Int
    BY <1>1
  <2>2. QED BY <1>1, <1>3, <1>4, <2>1
<1>6. QED BY <1>1, <1>2, <1>5 DEF Factor

(* One turn around the words. *)
LEMMA RemainderNear ==
    ASSUME NEW n \in Nat \ {0}, NEW x \in Int
    PROVE  /\ x \in n..(2 * n - 1) => x % n = x - n
           /\ x \in -n..-1 => x % n = x + n
OBVIOUS

(* A word is what it was, and any integer becomes a word. *)
LEMMA WrapWord ==
    ASSUME NEW v \in Int
    PROVE  /\ Wrap(v) \in Word64
           /\ v \in Word64 => Wrap(v) = v
<1> DEFINE n == 2 * Half64
           x == v + Half64
<1>1. Half64 \in Nat \ {0}
  BY BitratesAssumption
<1>2. n \in Nat \ {0} /\ x \in Int
  BY <1>1
<1>3. x % n \in 0..(n - 1) /\ (x \in 0..(n - 1) => x % n = x)
  <2> HIDE DEF n, x
  <2> QED BY <1>2, Remainder
<1>4. QED BY <1>1, <1>3 DEF Wrap, Word64, MaxInt64

(* The sum of two positive words overflows as a signed word, and the unsigned
   reading brings it back.                                                    *)
LEMMA UnsignedSum ==
    ASSUME NEW a \in 0..MaxInt64, NEW b \in 0..MaxInt64
    PROVE  Uint64(Wrap(a + b)) = a + b
<1> DEFINE n == 2 * Half64
           x == a + b + Half64
           y == a + b - n
<1>1. Half64 \in Nat \ {0}
  BY BitratesAssumption
<1>2. n \in Nat \ {0} /\ a + b \in Int /\ a + b \in 0..(n - 1) /\ x \in Int /\ y \in Int
  BY <1>1 DEF MaxInt64
<1>3. CASE a + b <= MaxInt64
  <2>1. Wrap(a + b) = a + b
    BY <1>1, <1>3, WrapWord DEF Word64, MaxInt64
  <2>2. (a + b) % n = a + b
    <3> DEFINE sum == a + b
    <3> HIDE DEF n, sum
    <3>1. sum \in Int /\ sum \in 0..(n - 1)
      BY <1>2 DEF sum
    <3>2. sum % n = sum
      BY <1>2, <3>1, Remainder
    <3>3. QED BY <3>2 DEF sum
  <2>3. QED BY <2>1, <2>2 DEF Uint64
<1>4. CASE a + b > MaxInt64
  <2>1. x \in n..(2 * n - 1) /\ y \in -n..-1 /\ x - n - Half64 = y /\ y + n = a + b
    BY <1>1, <1>2, <1>4 DEF MaxInt64
  <2>2. x % n = x - n /\ y % n = a + b
    <3> HIDE DEF n, x, y
    <3> QED BY <1>2, <2>1, RemainderNear
  <2>3. Wrap(a + b) = y
    BY <2>1, <2>2 DEF Wrap
  <2>4. QED BY <2>2, <2>3 DEF Uint64
<1>5. QED BY <1>1, <1>3, <1>4 DEF MaxInt64

(* The text is cut to whole units and never to more than the rate. *)
LEMMA TextCuts ==
    ASSUME NEW val \in Int
    PROVE  LET text == ConvertToString(val)
               unit == Factor(text.unit)
           IN  text.amount * unit <= val /\ val < (text.amount + 1) * unit
<1>1. K \in Nat \ {0} /\ K * K \in Nat \ {0} /\ K * K * K \in Nat \ {0}
  <2>1. K \in Nat \ {0}
    BY BitratesAssumption
  <2>2. K * K \in Nat \ {0}
    BY <2>1, ProductPositive
  <2>3. QED BY <2>1, <2>2, ProductPositive
<1> DEFINE text == ConvertToString(val)
           g == val \div (K * K * K)
           m == val \div (K * K)
           k == val \div K
<1>2. /\ g * (K * K * K) <= val /\ val < (g + 1) * (K * K * K)
      /\ m * (K * K) <= val /\ val < (m + 1) * (K * K)
      /\ k * K <= val /\ val < (k + 1) * K
  BY <1>1, Quotient
<1>3. CASE g # 0
  <2>1. text.amount = g /\ text.unit = "gbps"
    BY <1>3 DEF ConvertToString
  <2>2. QED BY <1>2, <2>1 DEF Factor
<1>4. CASE g = 0 /\ m # 0
  <2>1. text.amount = m /\ text.unit = "mbps"
    BY <1>4 DEF ConvertToString
  <2>2. QED BY <1>2, <2>1 DEF Factor
<1>5. CASE g = 0 /\ m = 0 /\ k # 0
  <2>1. text.amount = k /\ text.unit = "kbps"
    BY <1>5 DEF ConvertToString
  <2>2. QED BY <1>2, <2>1 DEF Factor
<1>6. CASE g = 0 /\ m = 0 /\ k = 0
  <2>1. text.amount = val /\ text.unit = "bps"
    BY <1>6 DEF ConvertToString
  <2>2. QED BY <2>1 DEF Factor
<1>7. QED BY <1>3, <1>4, <1>5, <1>6

-----------------------------------------------------------------------------
(* Requests as they are stored. *)

Profile == [rate : Word64, unit : STRING, qci : Nat \union {None}]
Rule == [rate : Word32, unit : STRING]

(* A device group's rate is a natural number below 2^63, and exact below it. *)
LEMMA GroupRateExact ==
    ASSUME NEW val \in Word64, NEW unit
    PROVE  LET exact == val * Factor(unit)
           IN  /\ GroupRate(val, unit) \in 0..MaxInt64
               /\ exact \in 0..MaxInt64 => GroupRate(val, unit) = exact
<1> DEFINE exact == val * Factor(unit)
<1>1. Half64 \in Nat \ {0} /\ val \in Int /\ Factor(unit) \in Int
  BY BitratesAssumption, Factors DEF Word64, MaxInt64
<1>2. exact \in Int
  BY <1>1
<1>3. ConvertToBps(val, unit) \in Word64
      /\ (exact \in Word64 => ConvertToBps(val, unit) = exact)
  <2> HIDE DEF exact
  <2>1. ConvertToBps(val, unit) = Wrap(exact)
    BY DEF ConvertToBps, exact
  <2>2. QED BY <1>2, <2>1, WrapWord
<1> HIDE DEF exact
<1>4. exact \in 0..MaxInt64 => exact \in Word64
  BY <1>1, <1>2 DEF Word64, MaxInt64
<1>5. GroupRate(val, unit) \in 0..MaxInt64
      /\ (exact \in 0..MaxInt64 => GroupRate(val, unit) = exact)
  BY <1>1, <1>3, <1>4 DEF GroupRate, Word64, MaxInt64
<1>6. QED BY <1>5 DEF exact

(* The product of a 32-bit rate and its unit fits a word of 64 bits. *)
LEMMA RuleRateExact ==
    ASSUME NEW val \in Word32, NEW unit
    PROVE  ConvertToBps(val, unit) = val * Factor(unit) /\ val * Factor(unit) \in Int
<1> DEFINE f == Factor(unit)
<1>1. Half64 \in Nat \ {0} /\ Half32 \in Nat \ {0} /\ val \in -Half32..(Half32 - 1)
      /\ f \in Nat \ {0} /\ Half32 * f <= Half64
  BY BitratesAssumption, Factors DEF Word32, MaxInt32
<1>2. val * f \in Int /\ -(Half32 * f) <= val * f /\ val * f < Half32 * f
  <2> HIDE DEF f
  <2>1. (val + Half32) * f >= 0 /\ (Half32 - val) * f > 0
    BY <1>1
  <2>2. QED BY <1>1, <2>1
<1>3. val * f \in Word64
  <2>1. Half32 * f \in Int
    BY <1>1
  <2>2. QED BY <1>1, <1>2, <2>1 DEF Word64, MaxInt64
<1>4. QED BY <1>2, <1>3, WrapWord DEF ConvertToBps

-----------------------------------------------------------------------------
(* Induction over the natural numbers, of a set. *)
LEMMA SetInduction ==
    ASSUME NEW S, 0 \in S, \A n \in Nat : n \in S => n + 1 \in S
    PROVE  Nat \subseteq S
<1> DEFINE T == Nat \ S
<1> SUFFICES ASSUME T # {} PROVE FALSE
  OBVIOUS
<1>1. PICK x \in T : \A y \in T : ~(<<y, x>> \in OpToRel(<, Nat))
  BY NatLessThanWellFounded, WFMin
<1>2. x \in Nat /\ x # 0
  OBVIOUS
<1>3. x - 1 \in Nat /\ x - 1 < x /\ (x - 1) + 1 = x
  BY <1>2
<1>4. x - 1 \in T
  BY <1>2, <1>3
<1>5. <<x - 1, x>> \in OpToRel(<, Nat)
  BY <1>2, <1>3 DEF OpToRel
<1>6. QED BY <1>1, <1>4, <1>5

(* What holds of the empty set, and of a set if it does whenever one element is left
   out, holds of every subset of a finite one.                                *)
LEMMA SubsetInduction ==
    ASSUME NEW D, IsFiniteSet(D), NEW C, {} \in C,
           \A T \in SUBSET D : T # {} /\ (\A x \in T : T \ {x} \in C) => T \in C
    PROVE  SUBSET D \subseteq C
<1> DEFINE S == {n \in Nat : \A T \in SUBSET D : Cardinality(T) = n => T \in C}
<1>1. \A T \in SUBSET D : IsFiniteSet(T) /\ Cardinality(T) \in Nat
  BY FS_Subset, FS_CardinalityType
<1>2. 0 \in S
  BY <1>1, FS_EmptySet
<1>3. \A n \in Nat : n \in S => n + 1 \in S
  <2> SUFFICES ASSUME NEW n \in Nat, n \in S, NEW T \in SUBSET D, Cardinality(T) = n + 1
               PROVE  T \in C
    OBVIOUS
  <2>1. T # {}
    BY FS_EmptySet
  <2>2. \A x \in T : T \ {x} \in C
    <3> SUFFICES ASSUME NEW x \in T
                 PROVE  T \ {x} \in C
      OBVIOUS
    <3>1. Cardinality(T \ {x}) = n
      BY <1>1, FS_RemoveElement
    <3>2. QED BY <3>1
  <2>3. QED BY <2>1, <2>2
<1>4. Nat \subseteq S
  <2> HIDE DEF S
  <2> QED BY <1>2, <1>3, SetInduction
<1>5. QED BY <1>1, <1>4

LEMMA GreatestOfMany ==
    ASSUME NEW D \in SUBSET Nat, IsFiniteSet(D), NEW T \in SUBSET D, T # {}
    PROVE  Max(T) \in T /\ \A y \in T : y <= Max(T)
<1> DEFINE C == {U \in SUBSET D : U # {} => \E m \in U : \A y \in U : m >= y}
<1>1. {} \in C
  OBVIOUS
<1>2. \A U \in SUBSET D : U # {} /\ (\A x \in U : U \ {x} \in C) => U \in C
  <2> SUFFICES ASSUME NEW U \in SUBSET D, NEW x \in U, U \ {x} \in C
               PROVE  \E m \in U : \A y \in U : m >= y
    OBVIOUS
  <2>1. CASE U \ {x} = {}
    BY <2>1
  <2>2. CASE U \ {x} # {}
    <3>1. PICK m \in U \ {x} : \A y \in U \ {x} : m >= y
      BY <2>2
    <3>2. CASE m >= x
      BY <3>1, <3>2
    <3>3. CASE x > m
      BY <3>1, <3>3
    <3>4. QED BY <3>2, <3>3
  <2>3. QED BY <2>1, <2>2
<1>3. T \in C
  <2> HIDE DEF C
  <2> QED BY <1>1, <1>2, SubsetInduction
<1>4. PICK m \in T : \A y \in T : m >= y
  BY <1>3
<1>5. QED BY <1>4 DEF Max

(* A fold over a list from the left, as a function of sets of indices. *)
Folded(f, op, base, list) ==
    f = [s \in SUBSET DOMAIN list |->
            IF s = {} THEN base ELSE op[<<f[s \ {Max(s)}], list[Max(s)]>>]]

LEMMA FoldExists ==
    ASSUME NEW A, NEW E, NEW op \in [A \X E -> A], NEW base \in A, NEW list \in Seq(E)
    PROVE  \E f \in [SUBSET DOMAIN list -> A] : Folded(f, op, base, list)
<1> DEFINE n == Len(list)
           Rec(f, s) == IF s = {} THEN base ELSE op[<<f[s \ {Max(s)}], list[Max(s)]>>]
           Has(k) == \E f \in [SUBSET (1..k) -> A] : \A s \in SUBSET (1..k) : f[s] = Rec(f, s)
           S == {k \in Nat : k <= n => Has(k)}
<1>1. n \in Nat /\ DOMAIN list = 1..n /\ \A i \in 1..n : list[i] \in E
  OBVIOUS
<1> HIDE DEF n
<1>2. 0 \in S
  <2> DEFINE f == [s \in SUBSET (1..0) |-> base]
  <2>1. \A s \in SUBSET (1..0) : s = {}
    OBVIOUS
  <2>2. f \in [SUBSET (1..0) -> A] /\ \A s \in SUBSET (1..0) : f[s] = Rec(f, s)
    BY <2>1
  <2> HIDE DEF f, Rec
  <2>3. \E g \in [SUBSET (1..0) -> A] : \A s \in SUBSET (1..0) : g[s] = Rec(g, s)
    BY <2>2
  <2>4. Has(0)
    BY <2>3 DEF Rec
  <2> HIDE DEF Has
  <2>5. QED BY <2>4
<1>3. \A k \in Nat : k \in S => k + 1 \in S
  <2> SUFFICES ASSUME NEW k \in Nat, k \in S, k + 1 <= n
               PROVE  Has(k + 1)
    <3> HIDE DEF Has
    <3> QED OBVIOUS
  <2>0. Has(k)
    <3> HIDE DEF Has
    <3> QED BY <1>1
  <2>1. PICK f \in [SUBSET (1..k) -> A] : \A s \in SUBSET (1..k) : f[s] = Rec(f, s)
    BY <2>0
  <2>2. \A s \in SUBSET (1..k + 1) : s \ {k + 1} \in SUBSET (1..k)
    OBVIOUS
  <2> DEFINE g == [s \in SUBSET (1..k + 1) |->
                      IF k + 1 \in s THEN op[<<f[s \ {k + 1}], list[k + 1]>>] ELSE f[s]]
  <2>3. g \in [SUBSET (1..k + 1) -> A]
    <3> SUFFICES ASSUME NEW s \in SUBSET (1..k + 1)
                 PROVE  (IF k + 1 \in s THEN op[<<f[s \ {k + 1}], list[k + 1]>>] ELSE f[s]) \in A
      OBVIOUS
    <3>1. f[s \ {k + 1}] \in A
      BY <2>2
    <3>2. list[k + 1] \in E
      BY <1>1
    <3>3. CASE k + 1 \in s
      BY <3>1, <3>2, <3>3
    <3>4. CASE k + 1 \notin s
      BY <3>1, <3>4
    <3>5. QED BY <3>3, <3>4
  <2>4. \A s \in SUBSET (1..k) : g[s] = f[s]
    OBVIOUS
  <2>5. ASSUME NEW s \in SUBSET (1..k + 1)
        PROVE  g[s] = Rec(g, s)
    <3>1. CASE k + 1 \in s
      <4>1. Max(s) = k + 1
        <5>1. 1..k + 1 \in SUBSET Nat /\ IsFiniteSet(1..k + 1)
          BY FS_Interval
        <5>2. Max(s) \in s /\ k + 1 <= Max(s)
          BY <3>1, <5>1, GreatestOfMany
        <5>3. \A m \in 1..k + 1 : k + 1 <= m => m = k + 1
          OBVIOUS
        <5>4. QED BY <5>2, <5>3
      <4>2. g[s] = op[<<f[s \ {k + 1}], list[k + 1]>>]
        BY <3>1
      <4>3. f[s \ {k + 1}] = g[s \ {k + 1}]
        BY <2>2, <2>4
      <4> HIDE DEF g
      <4>4. QED BY <3>1, <4>1, <4>2, <4>3
    <3>2. CASE k + 1 \notin s
      <4>1. s \in SUBSET (1..k)
        BY <3>2, <2>2
      <4>2. g[s] = f[s] /\ g[s \ {Max(s)}] = f[s \ {Max(s)}]
        BY <4>1, <2>4
      <4>3. f[s] = Rec(f, s)
        BY <4>1, <2>1
      <4> HIDE DEF g
      <4>4. QED BY <4>2, <4>3
    <3>3. QED BY <3>1, <3>2
  <2> HIDE DEF g, Rec
  <2>6. QED BY <2>3, <2>5
<1>4. n \in S
  <2> HIDE DEF S
  <2> QED BY <1>1, <1>2, <1>3, SetInduction
<1>5. Has(n)
  <2> HIDE DEF Has
  <2> QED BY <1>1, <1>4
<1>6. PICK f \in [SUBSET (1..n) -> A] : \A s \in SUBSET (1..n) : f[s] = Rec(f, s)
  BY <1>5
<1>7. f = [s \in SUBSET (1..n) |-> Rec(f, s)]
  BY <1>6
<1>8. QED BY <1>1, <1>6, <1>7 DEF Folded

LEMMA Division ==
    ASSUME NEW n \in Nat \ {0}, NEW x \in Int
    PROVE  /\ x = (x \div n) * n + (x % n)
           /\ x \div n \in Int /\ x % n \in 0..(n - 1)
OBVIOUS

LEMMA SameRemainder ==
    ASSUME NEW n \in Nat \ {0}, NEW q \in Int, NEW p \in Int,
           NEW r \in 0..(n - 1), NEW s \in 0..(n - 1), q * n + r = p * n + s
    PROVE  r = s
OBVIOUS

LEMMA RemainderTurns ==
    ASSUME NEW n \in Nat \ {0}, NEW x \in Int, NEW k \in Int
    PROVE  (x + k * n) % n = x % n
<1> DEFINE y == x + k * n
           q == x \div n
           r == x % n
           p == y \div n
           s == y % n
<1>1. y \in Int
  OBVIOUS
<1>2. x = q * n + r /\ q \in Int /\ r \in 0..(n - 1)
  BY Division
<1>3. y = p * n + s /\ p \in Int /\ s \in 0..(n - 1)
  <2> HIDE DEF y
  <2> QED BY <1>1, Division
<1>4. y = x + k * n
  OBVIOUS
<1> HIDE DEF y, q, r, p, s
<1>5. (q + k) * n = q * n + k * n /\ q + k \in Int
  BY <1>2
<1>6. (q + k) * n + r = p * n + s
  BY <1>2, <1>3, <1>4, <1>5
<1>7. r = s
  BY <1>2, <1>3, <1>5, <1>6, SameRemainder
<1>8. QED BY <1>7 DEF y, r, s

(* Sums that wrap after every step may be taken in any order. *)
LEMMA WrapCommutes ==
    ASSUME NEW a \in Int, NEW b \in Int, NEW c \in Int
    PROVE  Wrap(Wrap(a + b) + c) = Wrap(Wrap(a + c) + b)
<1> DEFINE n == 2 * Half64
<1>1. n \in Nat \ {0} /\ Half64 \in Nat
  BY BitratesAssumption
<1>2. \A x \in Int : Wrap(x) = ((x + Half64) % n) - Half64
  BY DEF Wrap
<1> HIDE DEF n
<1>3. ASSUME NEW x \in Int, NEW y \in Int
      PROVE  Wrap(Wrap(x) + y) = Wrap(x + y)
  <2> DEFINE z == x + Half64
             k == -(z \div n)
  <2>1. z \in Int
    BY <1>1
  <2>2. z = (z \div n) * n + (z % n) /\ z \div n \in Int /\ z % n \in Int
    <3> HIDE DEF z
    <3> QED BY <1>1, <2>1, Division
  <2>3. k \in Int /\ Wrap(x) = x + k * n /\ Wrap(x) \in Int
    <3>1. (-(z \div n)) * n = -((z \div n) * n)
      BY <1>1, <2>2
    <3>2. k \in Int /\ z % n = z + k * n
      BY <1>1, <2>2, <3>1
    <3>3. QED BY <1>1, <1>2, <3>2
  <2> HIDE DEF k
  <2>4. k * n \in Int
    BY <1>1, <2>3
  <2>5. (x + k * n) + y + Half64 = (x + y + Half64) + k * n
    BY <1>1, <2>4
  <2>6. ((x + y + Half64) + k * n) % n = (x + y + Half64) % n
    <3> DEFINE w == x + y + Half64
    <3>1. w \in Int
      BY <1>1
    <3> HIDE DEF w
    <3>2. (w + k * n) % n = w % n
      BY <1>1, <2>3, <3>1, RemainderTurns
    <3>3. QED BY <3>2 DEF w
  <2>7. Wrap(Wrap(x) + y) = ((Wrap(x) + y + Half64) % n) - Half64
        /\ Wrap(x + y) = ((x + y + Half64) % n) - Half64
    <3>1. Wrap(x) + y \in Int /\ x + y \in Int
      BY <2>3
    <3>2. QED BY <1>2, <3>1
  <2>8. Wrap(x) + y + Half64 = (x + y + Half64) + k * n
    BY <2>3, <2>5
  <2>9. QED BY <2>6, <2>7, <2>8
<1>4. (a + b) + c = (a + c) + b
  OBVIOUS
<1>5. QED BY <1>3, <1>4

-----------------------------------------------------------------------------
(* The fold of aggregateQoS over lists of any length. *)

Acc == [rate : Word64, qci : Nat \union {None}]
Added(acc, q) == [rate |-> Wrap(acc.rate + q.rate), qci |-> BetterQci(acc, q)]

IsAggregate(f, list) ==
    /\ f \in [SUBSET DOMAIN list -> Acc]
    /\ f[{}] = [rate |-> 0, qci |-> None]
    /\ \A s \in SUBSET DOMAIN list :
          s # {} => f[s] = Added(f[s \ {Max(s)}], list[Max(s)])

LEMMA AddedType ==
    ASSUME NEW acc \in Acc, NEW q \in Profile
    PROVE  Added(acc, q) \in Acc
<1>1. acc.rate \in Int /\ q.rate \in Int
  BY BitratesAssumption DEF Acc, Profile, Word64, MaxInt64
<1>2. Wrap(acc.rate + q.rate) \in Word64
  BY <1>1, WrapWord
<1>3. BetterQci(acc, q) \in Nat \union {None}
  BY DEF BetterQci, Acc, Profile
<1>4. QED BY <1>2, <1>3 DEF Added, Acc

LEMMA AggregateIsFold ==
    ASSUME NEW list \in Seq(Profile)
    PROVE  \E f : IsAggregate(f, list) /\ AggregateQoS(list) = f[DOMAIN list]
<1> DEFINE D == DOMAIN list
           base == [rate |-> 0, qci |-> None]
           op == [p \in Acc \X Profile |-> Added(p[1], p[2])]
           F(f) == [s \in SUBSET D |-> IF s = {} THEN base
                                       ELSE Added(f[s \ {Max(s)}], list[Max(s)])]
           fold == CHOOSE f : f = F(f)
<1>1. AggregateQoS(list) = fold[D]
  BY Zenon DEF AggregateQoS, FoldLeft, MapThenFoldSet, Added
<1>2. D = 1..Len(list) /\ Len(list) \in Nat /\ \A i \in D : list[i] \in Profile
  OBVIOUS
<1>3. base \in Acc
  BY BitratesAssumption DEF Acc, Word64, MaxInt64
<1>4. op \in [Acc \X Profile -> Acc]
  BY AddedType
<1> HIDE DEF D, base
<1>5. PICK g \in [SUBSET DOMAIN list -> Acc] : Folded(g, op, base, list)
  <2> HIDE DEF op
  <2> QED BY <1>3, <1>4, FoldExists
<1>6. ASSUME NEW f \in [SUBSET D -> Acc], NEW s \in SUBSET D, s # {}
      PROVE  op[<<f[s \ {Max(s)}], list[Max(s)]>>] = Added(f[s \ {Max(s)}], list[Max(s)])
  <2>1. IsFiniteSet(D) /\ D \in SUBSET Nat
    BY <1>2, FS_Interval
  <2>2. Max(s) \in D
    BY <1>6, <2>1, GreatestOfMany
  <2>3. f[s \ {Max(s)}] \in Acc /\ list[Max(s)] \in Profile
    BY <1>2, <2>2
  <2>4. QED BY <2>3
<1>7. g = F(g) /\ g \in [SUBSET D -> Acc]
  <2>1. g \in [SUBSET D -> Acc]
    BY <1>5 DEF D
  <2>2. g = [s \in SUBSET D |-> IF s = {} THEN base ELSE op[<<g[s \ {Max(s)}], list[Max(s)]>>]]
    BY <1>5 DEF Folded, D
  <2>3. \A s \in SUBSET D : g[s] = IF s = {} THEN base
                                   ELSE op[<<g[s \ {Max(s)}], list[Max(s)]>>]
    <3> HIDE DEF op
    <3> QED BY <2>2
  <2> HIDE DEF op
  <2>4. \A s \in SUBSET D : g[s] = IF s = {} THEN base ELSE Added(g[s \ {Max(s)}], list[Max(s)])
    BY <1>6, <2>1, <2>3
  <2>5. QED BY <2>1, <2>4
<1>8. fold = F(fold)
  <2> HIDE DEF F
  <2> QED BY <1>7
<1> HIDE DEF fold
<1>9. \A s \in SUBSET D : fold[s] = IF s = {} THEN base ELSE Added(fold[s \ {Max(s)}], list[Max(s)])
  BY <1>8
<1>10. \A s \in SUBSET D : s # {} => Max(s) \in s
  <2>1. IsFiniteSet(D) /\ D \in SUBSET Nat
    BY <1>2, FS_Interval
  <2>2. QED BY <2>1, GreatestOfMany
<1>11. \A s \in SUBSET D : fold[s] \in Acc
  <2> DEFINE C == {s \in SUBSET D : fold[s] \in Acc}
  <2>1. {} \in C
    BY <1>3, <1>9
  <2>2. ASSUME NEW T \in SUBSET D, T # {}, \A x \in T : T \ {x} \in C
        PROVE  T \in C
    <3>1. fold[T \ {Max(T)}] \in Acc /\ list[Max(T)] \in Profile
      BY <1>2, <1>10, <2>2
    <3>2. QED BY <1>9, <2>2, <3>1, AddedType
  <2>3. IsFiniteSet(D)
    BY <1>2, FS_Interval
  <2> HIDE DEF C
  <2>4. SUBSET D \subseteq C
    BY <2>1, <2>2, <2>3, SubsetInduction
  <2>5. QED BY <2>4 DEF C
<1>12. fold \in [SUBSET D -> Acc]
  <2>1. fold = [s \in SUBSET D |-> fold[s]]
    BY <1>8 DEF F
  <2>2. QED BY <1>11, <2>1
<1>13. IsAggregate(fold, list)
  BY <1>9, <1>12 DEF IsAggregate, D, base
<1>14. QED BY <1>1, <1>13 DEF D

(* The greatest index of a set of them. *)
LEMMA LastIndex ==
    ASSUME NEW list \in Seq(Profile), NEW s \in SUBSET DOMAIN list, s # {}
    PROVE  Max(s) \in s /\ \A i \in s : i <= Max(s)
<1>1. DOMAIN list = 1..Len(list) /\ Len(list) \in Nat
  OBVIOUS
<1>2. IsFiniteSet(DOMAIN list) /\ DOMAIN list \in SUBSET Nat
  BY <1>1, FS_Interval
<1>3. QED BY <1>2, GreatestOfMany

(* Any profile may be the last that is added. *)
LEMMA AnyLast ==
    ASSUME NEW list \in Seq(Profile), NEW f, IsAggregate(f, list),
           NEW s \in SUBSET DOMAIN list, NEW t \in s
    PROVE  f[s].rate = Wrap(f[s \ {t}].rate + list[t].rate)
<1> DEFINE D == DOMAIN list
           C == {T \in SUBSET D : \A i \in T : f[T].rate = Wrap(f[T \ {i}].rate + list[i].rate)}
<1>1. D = 1..Len(list) /\ Len(list) \in Nat /\ IsFiniteSet(D)
  <2>1. D = 1..Len(list) /\ Len(list) \in Nat
    OBVIOUS
  <2>2. QED BY <2>1, FS_Interval
<1>2. \A i \in D : list[i].rate \in Int
  <2>1. \A i \in D : list[i] \in Profile
    OBVIOUS
  <2>2. QED BY <2>1, BitratesAssumption DEF Profile, Word64, MaxInt64
<1>3. \A T \in SUBSET D : f[T].rate \in Int
  <2>1. \A T \in SUBSET D : f[T] \in Acc
    BY DEF IsAggregate
  <2>2. QED BY <2>1, BitratesAssumption DEF Acc, Word64, MaxInt64
<1>4. \A T \in SUBSET D : T # {} => f[T].rate = Wrap(f[T \ {Max(T)}].rate + list[Max(T)].rate)
  <2>1. \A T \in SUBSET D : T # {} => f[T] = Added(f[T \ {Max(T)}], list[Max(T)])
    BY DEF IsAggregate
  <2>2. \A acc, q : Added(acc, q).rate = Wrap(acc.rate + q.rate)
    BY DEF Added
  <2>3. QED BY <2>1, <2>2
<1>5. {} \in C
  OBVIOUS
<1>6. ASSUME NEW T \in SUBSET D, T # {}, \A x \in T : T \ {x} \in C
      PROVE  T \in C
  <2> SUFFICES ASSUME NEW i \in T, i # Max(T)
               PROVE  f[T].rate = Wrap(f[T \ {i}].rate + list[i].rate)
    BY <1>4
  <2> DEFINE m == Max(T)
             U == T \ {m, i}
             a == f[U].rate
  <2>1. m \in T /\ \A y \in T : y <= m
    BY <1>6, LastIndex
  <2> HIDE DEF m
  <2>2. U \in SUBSET D /\ U = (T \ {m}) \ {i} /\ U = (T \ {i}) \ {m}
    OBVIOUS
  <2>3. f[T \ {m}].rate = Wrap(a + list[i].rate)
    <3>1. T \ {m} \in C /\ i \in T \ {m}
      BY <1>6, <2>1 DEF m
    <3>2. QED BY <2>2, <3>1
  <2>4. f[T \ {i}].rate = Wrap(a + list[m].rate)
    <3>1. T \ {i} # {} /\ m \in T \ {i}
      BY <2>1 DEF m
    <3>2. Max(T \ {i}) = m
      <4>1. Max(T \ {i}) \in T \ {i} /\ m <= Max(T \ {i})
        BY <3>1, LastIndex
      <4>2. Max(T \ {i}) <= m
        BY <2>1, <4>1
      <4>3. QED BY <1>1, <2>1, <4>1, <4>2
    <3>3. QED BY <1>4, <2>2, <3>1, <3>2
  <2>5. f[T].rate = Wrap(Wrap(a + list[i].rate) + list[m].rate)
    BY <1>4, <1>6, <2>3 DEF m
  <2>6. a \in Int /\ list[i].rate \in Int /\ list[m].rate \in Int
    BY <1>2, <1>3, <2>1, <2>2
  <2> HIDE DEF a
  <2>7. Wrap(Wrap(a + list[i].rate) + list[m].rate) = Wrap(Wrap(a + list[m].rate) + list[i].rate)
    BY <2>6, WrapCommutes
  <2>8. QED BY <2>4, <2>5, <2>7
<1>7. SUBSET D \subseteq C
  <2>1. IsFiniteSet(D)
    BY <1>1
  <2> HIDE DEF C, D
  <2>2. QED BY <1>5, <1>6, <2>1, SubsetInduction
<1>8. QED BY <1>7

(* The QCI is the lowest. *)
LEMMA LowestQci ==
    ASSUME NEW list \in Seq(Profile), NEW f, IsAggregate(f, list),
           NEW s \in SUBSET DOMAIN list
    PROVE  LET qcis == {list[i].qci : i \in s} \ {None}
           IN  IF qcis = {} THEN f[s].qci = None
               ELSE f[s].qci \in qcis /\ \A q \in qcis : f[s].qci <= q
<1> DEFINE D == DOMAIN list
           Q(T) == {list[i].qci : i \in T} \ {None}
           Low(T) == IF Q(T) = {} THEN f[T].qci = None
                     ELSE f[T].qci \in Q(T) /\ \A q \in Q(T) : f[T].qci <= q
           C == {T \in SUBSET D : Low(T)}
<1>1. D = 1..Len(list) /\ Len(list) \in Nat /\ IsFiniteSet(D)
  <2>1. D = 1..Len(list) /\ Len(list) \in Nat
    OBVIOUS
  <2>2. QED BY <2>1, FS_Interval
<1>2. \A i \in D : list[i].qci \in Nat \union {None}
  <2>1. \A i \in D : list[i] \in Profile
    OBVIOUS
  <2>2. QED BY <2>1 DEF Profile
<1>3. {} \in C
  BY DEF IsAggregate
<1>4. ASSUME NEW T \in SUBSET D, T # {}, \A x \in T : T \ {x} \in C
      PROVE  T \in C
  <2> DEFINE m == Max(T)
             U == T \ {m}
  <2>1. m \in T
    BY <1>4, LastIndex
  <2>2. f[T].qci = BetterQci(f[U], list[m])
    <3>1. f[T] = Added(f[U], list[m])
      BY <1>4 DEF IsAggregate
    <3>2. QED BY <3>1 DEF Added
  <2>3. Low(U)
    BY <1>4, <2>1
  <2>4. Q(T) = Q(U) \union ({list[m].qci} \ {None}) /\ Q(U) \subseteq Nat
    BY <1>2, <2>1
  <2>5. list[m].qci \in Nat \union {None}
    BY <1>2, <2>1
  <2> DEFINE c == list[m].qci
             d == f[U].qci
             QU == Q(U)
  <2>6. f[T].qci = IF c # None /\ (d = None \/ c < d) THEN c ELSE d
    BY <2>2 DEF BetterQci
  <2>7. Q(T) = QU \union ({c} \ {None}) /\ QU \subseteq Nat /\ None \notin QU
    BY <2>4
  <2>8. IF QU = {} THEN d = None ELSE d \in QU /\ \A q \in QU : d <= q
    BY <2>3
  <2> HIDE DEF c, d, QU, Q
  <2>9. c \in Nat \union {None}
    BY <2>5 DEF c
  <2>10. Low(T)
    <3>1. CASE c = None
      BY <2>6, <2>7, <2>8, <3>1
    <3>2. CASE c # None /\ QU = {}
      BY <2>6, <2>7, <2>8, <2>9, <3>2
    <3>3. CASE c # None /\ QU # {}
      <4>1. c \in Nat /\ d \in Nat /\ d # None /\ Q(T) = QU \union {c}
        BY <2>7, <2>8, <2>9, <3>3
      <4>2. d \in QU /\ (\A q \in QU : d <= q) /\ f[T].qci = IF c < d THEN c ELSE d
        BY <2>6, <2>8, <3>3, <4>1
      <4> DEFINE QT == Q(T)
                 e == f[T].qci
      <4>3. QT = QU \union {c} /\ e = (IF c < d THEN c ELSE d)
        BY <4>1, <4>2
      <4> HIDE DEF QT, e
      <4>4. e \in QT /\ \A q \in QT : e <= q
        BY <2>7, <4>1, <4>2, <4>3
      <4>5. QED BY <4>4 DEF QT, e
    <3>4. QED BY <3>1, <3>2, <3>3
  <2>11. QED BY <2>10
<1>5. SUBSET D \subseteq C
  <2>1. IsFiniteSet(D)
    BY <1>1
  <2> HIDE DEF C, D
  <2>2. QED BY <1>3, <1>4, <2>1, SubsetInduction
<1>6. QED BY <1>5

-----------------------------------------------------------------------------
(* Folds over lists of at most two profiles. *)

LEMMA Greatest ==
    ASSUME NEW s \in SUBSET {1, 2}, s # {}
    PROVE  Max(s) = IF 2 \in s THEN 2 ELSE 1
<1>1. CASE 2 \in s
  <2>1. \A x \in s : (\A y \in s : x >= y) <=> x = 2
    BY <1>1
  <2>2. QED BY <1>1, <2>1 DEF Max
<1>2. CASE 2 \notin s
  <2>1. s = {1}
    BY <1>2
  <2>2. QED BY <1>2, <2>1 DEF Max
<1>3. QED BY <1>1, <1>2

(* The sum is folded from the left. *)
LEMMA SumOfTwo ==
    ASSUME NEW list \in Seq(Profile), Len(list) <= 2
    PROVE  /\ Len(list) = 0 => Sum(list) = 0
           /\ Len(list) = 1 => Sum(list) = 0 + list[1].rate
           /\ Len(list) = 2 => Sum(list) = (0 + list[1].rate) + list[2].rate
<1> DEFINE D == DOMAIN list
           op(acc, q) == acc + q.rate
           base == 0
           F(f) == [s \in SUBSET D |-> IF s = {} THEN base
                                       ELSE op(f[s \ {Max(s)}], list[Max(s)])]
           fold == CHOOSE f : f = F(f)
           one(s) == IF 1 \in s THEN op(base, list[1]) ELSE base
           g == [s \in SUBSET D |-> IF 2 \in s THEN op(one(s), list[2]) ELSE one(s)]
<1>1. Sum(list) = fold[D]
  BY Zenon DEF Sum, FoldLeft, MapThenFoldSet
<1>2. D = 1..Len(list) /\ Len(list) \in 0..2
  <2>1. D = 1..Len(list) /\ Len(list) \in Nat
    OBVIOUS
  <2> DEFINE n == Len(list)
  <2>2. n \in Nat /\ n <= 2
    BY <2>1
  <2> HIDE DEF D, n
  <2>3. n \in 0..2
    BY <2>2
  <2>4. QED BY <2>1, <2>3 DEF n
<1>3. D \subseteq {1, 2} /\ (Len(list) = 2 => D = {1, 2}) /\ (Len(list) = 1 => D = {1})
      /\ (Len(list) = 0 => D = {})
  <2> HIDE DEF D
  <2> QED BY <1>2
<1> HIDE DEF op, base, D
<1>4. \A s \in SUBSET D : g[s] = IF s = {} THEN base
                                 ELSE op(g[s \ {Max(s)}], list[Max(s)])
  <2> SUFFICES ASSUME NEW s \in SUBSET D, s # {}
               PROVE  g[s] = op(g[s \ {Max(s)}], list[Max(s)])
    OBVIOUS
  <2>1. Max(s) = IF 2 \in s THEN 2 ELSE 1
    BY <1>3, Greatest
  <2>2. s \ {Max(s)} \in SUBSET D
    OBVIOUS
  <2>3. CASE 2 \in s
    <3>1. s \ {Max(s)} = s \ {2}
      BY <2>1, <2>3
    <3>2. g[s \ {2}] = one(s)
      BY <3>1, <2>2
    <3>3. QED BY <2>1, <2>3, <3>1, <3>2
  <2>4. CASE 2 \notin s
    <3>1. s = {1}
      BY <1>3, <2>4
    <3>2. s \ {Max(s)} = {}
      BY <2>1, <3>1
    <3>3. QED BY <2>1, <2>2, <2>4, <3>1, <3>2
  <2>5. QED BY <2>3, <2>4
<1>5. g = F(g)
  BY <1>4
<1>6. fold = F(fold)
  <2> HIDE DEF F, g
  <2> QED BY <1>5
<1>7. \A s \in SUBSET D : fold[s] = IF s = {} THEN base
                                    ELSE op(fold[s \ {Max(s)}], list[Max(s)])
  <2> HIDE DEF fold
  <2> QED BY <1>6
<1> HIDE DEF fold, F, g
<1>8. fold[{}] = base
  BY <1>7
<1>9. Len(list) >= 1 => fold[{1}] = op(base, list[1])
  <2> SUFFICES ASSUME Len(list) >= 1
               PROVE  fold[{1}] = op(base, list[1])
    OBVIOUS
  <2>1. {1} \in SUBSET D
    BY <1>2
  <2>2. Max({1}) = 1 /\ {1} \ {1} = {}
    BY Greatest
  <2>3. QED BY <1>7, <1>8, <2>1, <2>2
<1>10. Len(list) = 2 => fold[{1, 2}] = op(op(base, list[1]), list[2])
  <2> SUFFICES ASSUME Len(list) = 2
               PROVE  fold[{1, 2}] = op(op(base, list[1]), list[2])
    OBVIOUS
  <2>1. {1, 2} \in SUBSET D
    BY <1>3
  <2>2. Max({1, 2}) = 2 /\ {1, 2} \ {2} = {1}
    BY Greatest
  <2>3. fold[{1, 2}] = op(fold[{1, 2} \ {Max({1, 2})}], list[Max({1, 2})])
    BY <1>7, <2>1
  <2>4. fold[{1, 2}] = op(fold[{1}], list[2])
    BY <2>2, <2>3
  <2>5. QED BY <1>9, <2>4
<1>11. /\ Len(list) = 0 => Sum(list) = base
       /\ Len(list) = 1 => Sum(list) = op(base, list[1])
       /\ Len(list) = 2 => Sum(list) = op(op(base, list[1]), list[2])
  <2>1. Len(list) = 0 => Sum(list) = base
    BY <1>1, <1>3, <1>8
  <2>2. Len(list) = 1 => Sum(list) = op(base, list[1])
    BY <1>1, <1>2, <1>3, <1>9
  <2>3. Len(list) = 2 => Sum(list) = op(op(base, list[1]), list[2])
    BY <1>1, <1>3, <1>10
  <2>4. QED BY <2>1, <2>2, <2>3
<1>12. QED BY <1>2, <1>11 DEF op, base

(* The sum wraps after every profile. *)
LEMMA AggregateOfTwo ==
    ASSUME NEW list \in Seq(Profile), Len(list) <= 2
    PROVE  LET rate == AggregateQoS(list).rate
           IN  /\ Len(list) = 0 => rate = 0
               /\ Len(list) = 1 => rate = Wrap(0 + list[1].rate)
               /\ Len(list) = 2 => rate = Wrap(Wrap(0 + list[1].rate) + list[2].rate)
<1>1. PICK f : IsAggregate(f, list) /\ AggregateQoS(list) = f[DOMAIN list]
  BY AggregateIsFold
<1>2. DOMAIN list = 1..Len(list) /\ Len(list) \in Nat
  OBVIOUS
<1>3. \A acc, q : Added(acc, q).rate = Wrap(acc.rate + q.rate)
  BY DEF Added
<1>4. f[{}].rate = 0
  BY <1>1 DEF IsAggregate
<1>5. ASSUME Len(list) >= 1
      PROVE  f[{1}].rate = Wrap(0 + list[1].rate)
  <2>1. {1} \in SUBSET DOMAIN list /\ Max({1}) = 1 /\ {1} \ {1} = {}
    BY <1>2, <1>5, Greatest
  <2>2. f[{1}] = Added(f[{}], list[1])
    BY <1>1, <2>1 DEF IsAggregate
  <2>3. QED BY <1>3, <1>4, <2>2
<1>6. ASSUME Len(list) = 2
      PROVE  f[{1, 2}].rate = Wrap(Wrap(0 + list[1].rate) + list[2].rate)
  <2>1. {1, 2} \in SUBSET DOMAIN list /\ Max({1, 2}) = 2 /\ {1, 2} \ {2} = {1}
    BY <1>2, <1>6, Greatest
  <2>2. f[{1, 2}] = Added(f[{1}], list[2])
    BY <1>1, <2>1 DEF IsAggregate
  <2>3. QED BY <1>3, <1>5, <1>6, <2>2
<1>7. 1..0 = {} /\ 1..1 = {1} /\ 1..2 = {1, 2}
  OBVIOUS
<1>8. /\ Len(list) = 0 => AggregateQoS(list).rate = 0
      /\ Len(list) = 1 => AggregateQoS(list).rate = Wrap(0 + list[1].rate)
      /\ Len(list) = 2 => AggregateQoS(list).rate = Wrap(Wrap(0 + list[1].rate) + list[2].rate)
  <2>1. AggregateQoS(list).rate = f[1..Len(list)].rate
    BY <1>1, <1>2
  <2>2. CASE Len(list) = 0
    BY <1>4, <1>7, <2>1, <2>2
  <2>3. CASE Len(list) = 1
    BY <1>5, <1>7, <2>1, <2>3
  <2>4. CASE Len(list) = 2
    BY <1>6, <1>7, <2>1, <2>4
  <2>5. QED BY <2>2, <2>3, <2>4
<1>9. QED BY <1>8

-----------------------------------------------------------------------------
(* What is stored comes from a request of the right type, as its handler says. *)
RuleInv ==
    rule # None =>
        /\ rule \in Rule /\ ruleAsked \in Rule
        /\ rule.rate = ConvertBitrateToInt32(ConvertToBps(ruleAsked.rate, ruleAsked.unit))

GroupInv ==
    /\ group \in Seq(Profile) /\ groupAsked \in Seq(Profile)
    /\ DOMAIN group = DOMAIN groupAsked
    /\ \A i \in DOMAIN group :
          group[i].rate = GroupRate(groupAsked[i].rate, groupAsked[i].unit)

BitratesInv == RuleInv /\ GroupInv

LEMMA RuleStored ==
    ASSUME NEW r \in Rule, StoreRule(r), ruleAsked' = r
    PROVE  RuleInv'
<1> DEFINE rate == ConvertBitrateToInt32(ConvertToBps(r.rate, r.unit))
<1>1. rate \in Word32
  <2>1. ConvertToBps(r.rate, r.unit) \in Int
    BY RuleRateExact DEF Rule
  <2>2. Half32 \in Nat \ {0}
    BY BitratesAssumption
  <2>3. QED BY <2>1, <2>2 DEF ConvertBitrateToInt32, Word32, MaxInt32
<1>2. rule' = [r EXCEPT !.rate = rate]
  BY DEF StoreRule
<1> HIDE DEF rate
<1>3. rule' \in Rule /\ rule'.rate = rate
  BY <1>1, <1>2 DEF Rule
<1>4. QED BY <1>3 DEF RuleInv, rate

LEMMA GroupStored ==
    ASSUME NEW r \in Seq(Profile), StoreGroup(r), groupAsked' = r
    PROVE  GroupInv'
<1>1. \A i \in DOMAIN r : r[i] \in Profile /\ GroupRate(r[i].rate, r[i].unit) \in Word64
  <2> SUFFICES ASSUME NEW i \in DOMAIN r
               PROVE  r[i] \in Profile /\ GroupRate(r[i].rate, r[i].unit) \in Word64
    OBVIOUS
  <2>1. r[i] \in Profile
    OBVIOUS
  <2>2. r[i].rate \in Word64
    BY <2>1 DEF Profile
  <2>3. GroupRate(r[i].rate, r[i].unit) \in 0..MaxInt64
    BY <2>2, GroupRateExact
  <2>4. QED BY <2>1, <2>3, BitratesAssumption DEF Word64, MaxInt64
<1>2. group' = [i \in DOMAIN r |-> [r[i] EXCEPT !.rate = GroupRate(r[i].rate, r[i].unit)]]
  BY DEF StoreGroup
<1>3. \A i \in DOMAIN r :
         /\ [r[i] EXCEPT !.rate = GroupRate(r[i].rate, r[i].unit)] \in Profile
         /\ group'[i].rate = GroupRate(r[i].rate, r[i].unit)
  BY <1>1, <1>2 DEF Profile
<1>4. group' \in Seq(Profile) /\ DOMAIN group' = DOMAIN r
  <2> DEFINE e(i) == [r[i] EXCEPT !.rate = GroupRate(r[i].rate, r[i].unit)]
  <2>1. DOMAIN r = 1..Len(r) /\ Len(r) \in Nat
    OBVIOUS
  <2>2. group' = [i \in 1..Len(r) |-> e(i)] /\ \A i \in 1..Len(r) : e(i) \in Profile
    BY <1>2, <1>3, <2>1
  <2> HIDE DEF e
  <2>3. QED BY <2>1, <2>2
<1>5. QED BY <1>3, <1>4 DEF GroupInv

(* The stored rates are the converted ones in every reachable state. *)
THEOREM BitratesInvariant == Spec => []BitratesInv
<1>1. Init => BitratesInv
  BY DEF Init, BitratesInv, RuleInv, GroupInv
<1>2. BitratesInv /\ [Next]_vars => BitratesInv'
  <2> SUFFICES ASSUME BitratesInv, [Next]_vars
               PROVE  BitratesInv'
    OBVIOUS
  <2>1. CASE PutGroup
    <3>1. PICK r \in GroupRequests : StoreGroup(r) /\ groupAsked' = r
      BY <2>1 DEF PutGroup
    <3>2. r \in Seq(Profile)
      BY RequestsAssumption DEF Profile
    <3>3. GroupInv'
      BY <3>1, <3>2, GroupStored
    <3>4. RuleInv'
      BY <2>1 DEF PutGroup, BitratesInv, RuleInv
    <3>5. QED BY <3>3, <3>4 DEF BitratesInv
  <2>2. CASE PutGroupBack
    <3>1. GroupInv'
      BY <2>2, GroupStored DEF PutGroupBack, BitratesInv, GroupInv
    <3>2. RuleInv'
      BY <2>2 DEF PutGroupBack, BitratesInv, RuleInv
    <3>3. QED BY <3>1, <3>2 DEF BitratesInv
  <2>3. CASE PutRule
    <3>1. PICK r \in RuleRequests : StoreRule(r) /\ ruleAsked' = r
      BY <2>3 DEF PutRule
    <3>2. r \in Rule
      BY RequestsAssumption DEF Rule
    <3>3. RuleInv'
      BY <3>1, <3>2, RuleStored
    <3>4. GroupInv'
      BY <2>3 DEF PutRule, BitratesInv, GroupInv
    <3>5. QED BY <3>3, <3>4 DEF BitratesInv
  <2>4. CASE PutRuleBack
    <3>1. RuleInv'
      BY <2>4, RuleStored DEF PutRuleBack, BitratesInv, RuleInv
    <3>2. GroupInv'
      BY <2>4 DEF PutRuleBack, BitratesInv, GroupInv
    <3>3. QED BY <3>1, <3>2 DEF BitratesInv
  <2>5. CASE UNCHANGED vars
    BY <2>5 DEF vars, BitratesInv, RuleInv, GroupInv
  <2>6. QED BY <2>1, <2>2, <2>3, <2>4, <2>5 DEF Next
<1>3. QED BY <1>1, <1>2, PTL DEF Spec

(* A rule's rate is what was asked for or the largest 32-bit number, whatever the
   rate and its unit: the 64-bit product never wraps.                         *)
THEOREM RuleSaturatesAlways == Spec => []RuleSaturates
<1>1. BitratesInv => RuleSaturates
  <2> SUFFICES ASSUME RuleInv, rule # None
               PROVE  LET exact == ruleAsked.rate * Factor(ruleAsked.unit)
                      IN  rule.rate = IF exact \in 0..MaxInt32 THEN exact ELSE MaxInt32
    BY DEF RuleSaturates, BitratesInv
  <2> DEFINE exact == ruleAsked.rate * Factor(ruleAsked.unit)
  <2>1. ruleAsked.rate \in Word32
    BY DEF RuleInv, Rule
  <2>2. rule.rate = ConvertBitrateToInt32(exact) /\ exact \in Int
    BY <2>1, RuleRateExact DEF RuleInv
  <2>3. Half32 \in Nat \ {0}
    BY BitratesAssumption
  <2> HIDE DEF exact
  <2>4. rule.rate = IF exact \in 0..MaxInt32 THEN exact ELSE MaxInt32
    BY <2>2, <2>3 DEF ConvertBitrateToInt32, MaxInt32
  <2>5. QED BY <2>4 DEF exact
<1>2. QED BY <1>1, BitratesInvariant, PTL

(* A device group's rate is never negative, and it is the rate asked for whenever
   that has 63 bits.                                                          *)
THEOREM GroupRateKeptAlways == Spec => []GroupRateKept
<1>1. BitratesInv => GroupRateKept
  <2> SUFFICES ASSUME GroupInv, NEW i \in DOMAIN group
               PROVE  LET exact == groupAsked[i].rate * Factor(groupAsked[i].unit)
                      IN  /\ group[i].rate >= 0
                          /\ exact \in 0..MaxInt64 => group[i].rate = exact
    BY DEF GroupRateKept, BitratesInv
  <2>1. groupAsked[i] \in Profile
    BY DEF GroupInv
  <2>2. groupAsked[i].rate \in Word64
    BY <2>1 DEF Profile
  <2>3. group[i].rate = GroupRate(groupAsked[i].rate, groupAsked[i].unit)
    BY DEF GroupInv
  <2>4. QED BY <2>2, <2>3, GroupRateExact
<1>2. QED BY <1>1, BitratesInvariant, PTL

(* The AMBR written for one or two QoS profiles is their true sum, cut to whole
   units, although the 64-bit addition may overflow on the way.               *)
THEOREM AmbrOfTwoAlways == Spec => []AmbrOfTwo
<1>1. BitratesInv => AmbrOfTwo
  <2> SUFFICES ASSUME GroupInv, Len(group) <= 2
               PROVE  LET ambr == Ambr(group)
                          unit == Factor(ambr.unit)
                      IN  /\ ambr.amount * unit <= Sum(group)
                          /\ Sum(group) < (ambr.amount + 1) * unit
    BY DEF AmbrOfTwo, BitratesInv
  <2>1. group \in Seq(Profile) /\ DOMAIN group = 1..Len(group) /\ Len(group) \in 0..2
    <3>1. group \in Seq(Profile)
      BY DEF GroupInv
    <3>2. DOMAIN group = 1..Len(group) /\ Len(group) \in Nat
      BY <3>1
    <3>3. QED BY <3>1, <3>2
  <2>2. \A i \in DOMAIN group : group[i].rate \in 0..MaxInt64
    <3> SUFFICES ASSUME NEW i \in DOMAIN group
                 PROVE  group[i].rate \in 0..MaxInt64
      OBVIOUS
    <3>1. groupAsked[i] \in Profile
      BY DEF GroupInv
    <3>2. groupAsked[i].rate \in Word64
      BY <3>1 DEF Profile
    <3>3. QED BY <3>2, GroupRateExact DEF GroupInv
  <2>3. Half64 \in Nat \ {0} /\ MaxInt64 \in Nat /\ \A v \in 0..MaxInt64 : Wrap(v) = v /\ v \in Int
    <3>1. Half64 \in Nat \ {0}
      BY BitratesAssumption
    <3>2. QED BY <3>1, WrapWord DEF Word64, MaxInt64
  <2>4. Uint64(AggregateQoS(group).rate) = Sum(group) /\ Sum(group) \in Int
    <3>1. CASE Len(group) = 0
      <4>1. AggregateQoS(group).rate = 0 /\ Sum(group) = 0
        BY <2>1, <3>1, AggregateOfTwo, SumOfTwo
      <4>2. 0 \in 0..MaxInt64 /\ 0 + 0 = 0
        BY <2>3
      <4>3. Uint64(Wrap(0 + 0)) = 0
        BY <4>2, UnsignedSum
      <4>4. QED BY <2>3, <4>1, <4>2, <4>3
    <3>2. CASE Len(group) = 1
      <4> DEFINE a == group[1].rate
      <4>1. a \in 0..MaxInt64
        BY <2>1, <2>2, <3>2
      <4>2. AggregateQoS(group).rate = Wrap(0 + a) /\ Sum(group) = 0 + a
        BY <2>1, <3>2, AggregateOfTwo, SumOfTwo
      <4>3. 0 \in 0..MaxInt64
        BY <2>3
      <4> HIDE DEF a
      <4>4. 0 + a = a /\ a \in Int /\ a + 0 = a
        BY <2>3, <4>1
      <4>5. Uint64(Wrap(a + 0)) = a + 0
        BY <4>1, <4>3, UnsignedSum
      <4>6. QED BY <4>2, <4>4, <4>5
    <3>3. CASE Len(group) = 2
      <4> DEFINE a == group[1].rate
                 b == group[2].rate
      <4>1. a \in 0..MaxInt64 /\ b \in 0..MaxInt64
        BY <2>1, <2>2, <3>3
      <4>2. AggregateQoS(group).rate = Wrap(Wrap(0 + a) + b) /\ Sum(group) = (0 + a) + b
        BY <2>1, <3>3, AggregateOfTwo, SumOfTwo
      <4> HIDE DEF a, b
      <4>3. 0 + a = a /\ a + b \in Int
        BY <2>3, <4>1
      <4>4. QED BY <2>3, <4>1, <4>2, <4>3, UnsignedSum
    <3>4. QED BY <2>1, <3>1, <3>2, <3>3
  <2>5. QED BY <2>4, TextCuts DEF Ambr
<1>2. QED BY <1>1, BitratesInvariant, PTL

-----------------------------------------------------------------------------
(* The orders a map may be iterated in are the permutations of its keys. *)
LEMMA Permutation ==
    ASSUME NEW n \in Nat, NEW q \in SetToSeqs(1..n)
    PROVE  /\ q \in [1..n -> 1..n]
           /\ \A i, j \in 1..n : q[i] = q[j] => i = j
           /\ \A k \in 1..n : \E i \in 1..n : q[i] = k
<1>1. IsFiniteSet(1..n) /\ Cardinality(1..n) = n
  BY FS_Interval
<1>2. q \in [1..n -> 1..n] /\ \A i, j \in 1..n : q[i] = q[j] => i = j
  BY <1>1 DEF SetToSeqs
<1>3. q \in Injection(1..n, 1..n)
  BY <1>2 DEF Injection, IsInjective
<1>4. q \in Surjection(1..n, 1..n)
  BY <1>1, <1>3, FS_Injection
<1>5. QED BY <1>2, <1>4 DEF Surjection

(* Profiles collected in another order add up to the same rate. *)
LEMMA SameRate ==
    ASSUME NEW domains \in Seq(Profile), NEW list \in Profiles(domains)
    PROVE  list \in Seq(Profile) /\ AggregateQoS(list).rate = AggregateQoS(domains).rate
<1> DEFINE n == Len(domains)
<1>1. n \in Nat /\ DOMAIN domains = 1..n /\ \A i \in 1..n : domains[i] \in Profile
  OBVIOUS
<1>2. PICK q \in SetToSeqs(1..n) : list = [i \in DOMAIN q |-> domains[q[i]]]
  BY <1>1 DEF Profiles
<1> HIDE DEF n
<1>3. /\ q \in [1..n -> 1..n]
      /\ \A i, j \in 1..n : q[i] = q[j] => i = j
      /\ \A k \in 1..n : \E i \in 1..n : q[i] = k
  BY <1>1, Permutation
<1>4. list = [i \in 1..n |-> domains[q[i]]] /\ DOMAIN list = 1..n
  BY <1>2, <1>3
<1>5. list \in Seq(Profile)
  <2>1. \A i \in 1..n : domains[q[i]] \in Profile
    BY <1>1, <1>3
  <2>2. QED BY <1>1, <1>4, <2>1
<1>6. PICK f : IsAggregate(f, domains) /\ AggregateQoS(domains) = f[DOMAIN domains]
  BY AggregateIsFold
<1>7. PICK g : IsAggregate(g, list) /\ AggregateQoS(list) = g[DOMAIN list]
  BY <1>5, AggregateIsFold
<1> DEFINE Image(T) == {q[i] : i \in T}
           C == {T \in SUBSET (1..n) : g[T].rate = f[Image(T)].rate}
<1>8. {} \in C
  <2>1. Image({}) = {}
    OBVIOUS
  <2>2. QED BY <1>6, <1>7, <2>1 DEF IsAggregate
<1>9. ASSUME NEW T \in SUBSET (1..n), T # {}, \A x \in T : T \ {x} \in C
      PROVE  T \in C
  <2>1. PICK t \in T : TRUE
    BY <1>9
  <2>2. g[T \ {t}].rate = f[Image(T \ {t})].rate
    BY <1>9, <2>1
  <2>3. Image(T \ {t}) = Image(T) \ {q[t]} /\ q[t] \in Image(T) /\ Image(T) \in SUBSET (1..n)
    <3>1. \A i \in T : i \in 1..n /\ q[i] \in 1..n /\ (q[i] = q[t] => i = t)
      BY <1>3, <2>1
    <3>2. q[t] \in Image(T) /\ Image(T) \in SUBSET (1..n)
      BY <2>1, <3>1
    <3>3. \A k : k \in Image(T \ {t}) <=> k \in Image(T) \ {q[t]}
      BY <2>1, <3>1
    <3> HIDE DEF Image
    <3>4. Image(T \ {t}) = Image(T) \ {q[t]}
      BY <3>3
    <3>5. QED BY <3>2, <3>4
  <2> HIDE DEF Image
  <2>4. g[T].rate = Wrap(g[T \ {t}].rate + list[t].rate)
    <3>1. T \in SUBSET DOMAIN list /\ IsAggregate(g, list)
      BY <1>4, <1>7
    <3>2. \A u \in SUBSET DOMAIN list : \A i \in u : g[u].rate = Wrap(g[u \ {i}].rate + list[i].rate)
      <4>1. list \in Seq(Profile) /\ IsAggregate(g, list)
        BY <1>5, <1>7
      <4>2. QED BY <4>1, AnyLast
    <3>3. QED BY <2>1, <3>1, <3>2
  <2>5. f[Image(T)].rate = Wrap(f[Image(T) \ {q[t]}].rate + domains[q[t]].rate)
    <3>1. Image(T) \in SUBSET DOMAIN domains /\ IsAggregate(f, domains)
      BY <1>1, <1>6, <2>3
    <3>2. \A u \in SUBSET DOMAIN domains : \A i \in u : f[u].rate = Wrap(f[u \ {i}].rate + domains[i].rate)
      <4>1. IsAggregate(f, domains)
        BY <1>6
      <4>2. QED BY <4>1, AnyLast
    <3>3. QED BY <2>3, <3>1, <3>2
  <2>6. list[t] = domains[q[t]]
    BY <1>4, <2>1
  <2>7. QED BY <2>2, <2>3, <2>4, <2>5, <2>6
<1>10. 1..n \in C
  <2> DEFINE D == 1..n
  <2>1. IsFiniteSet(D)
    BY <1>1, FS_Interval
  <2>2. ASSUME NEW T \in SUBSET D, T # {}, \A x \in T : T \ {x} \in C
        PROVE  T \in C
    BY <1>9, <2>2
  <2> HIDE DEF C, D
  <2>3. SUBSET D \subseteq C
    BY <1>8, <2>1, <2>2, SubsetInduction
  <2>4. QED BY <2>3 DEF D
<1>11. Image(1..n) = 1..n
  <2>1. \A k : k \in Image(1..n) <=> \E i \in 1..n : k = q[i]
    OBVIOUS
  <2>2. \A k : k \in Image(1..n) <=> k \in 1..n
    <3>1. \A i \in 1..n : q[i] \in 1..n
      BY <1>3
    <3>2. \A k \in 1..n : \E i \in 1..n : k = q[i]
      BY <1>3
    <3> DEFINE I == Image(1..n)
               N == 1..n
    <3>3. /\ \A k : k \in I <=> \E i \in N : k = q[i]
          /\ \A i \in N : q[i] \in N
          /\ \A k \in N : \E i \in N : k = q[i]
      BY <2>1, <3>1, <3>2
    <3> HIDE DEF I, N
    <3>4. \A k : k \in I <=> k \in N
      BY <3>3
    <3>5. QED BY <3>4 DEF I, N
  <2> HIDE DEF Image
  <2>3. QED BY <2>2
<1> HIDE DEF Image
<1>12. QED BY <1>1, <1>4, <1>5, <1>6, <1>7, <1>10, <1>11

(* The AMBR is the same in whatever order the DNNs of a device group are collected,
   for groups of every size, and the QCI of the profiles is the lowest in them. *)
THEOREM AggregateOrderAlways == Spec => []AggregateOrderIrrelevant
<1>1. BitratesInv => AggregateOrderIrrelevant
  <2> SUFFICES ASSUME GroupInv, NEW list \in Profiles(group)
               PROVE  /\ Ambr(list) = Ambr(group)
                      /\ LET qci == AggregateQoS(list).qci
                         IN  IF Qcis(list) = {} THEN qci = None
                             ELSE qci \in Qcis(list) /\ \A q \in Qcis(list) : qci <= q
    BY DEF AggregateOrderIrrelevant, BitratesInv
  <2>1. group \in Seq(Profile)
    BY DEF GroupInv
  <2>2. list \in Seq(Profile) /\ AggregateQoS(list).rate = AggregateQoS(group).rate
    BY <2>1, SameRate
  <2>3. PICK f : IsAggregate(f, list) /\ AggregateQoS(list) = f[DOMAIN list]
    BY <2>2, AggregateIsFold
  <2>4. Qcis(list) = {list[i].qci : i \in DOMAIN list} \ {None}
    BY DEF Qcis, ToSet
  <2>5. QED BY <2>2, <2>3, <2>4, LowestQci DEF Ambr
<1>2. QED BY <1>1, BitratesInvariant, PTL

=============================================================================
