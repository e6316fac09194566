--------------------------- MODULE SawchainProofs ---------------------------
(***************************************************************************)
(* What the runs show on small instances, for every value of the           *)
(* constants.  (The two variables of VersionOrder occur in the theorem     *)
(* about it alone, the specification of Sawchain leaves them open.)        *)
(***************************************************************************)
EXTENDS SawchainInductive, ClusterProofs, VersionOrder,
        SequenceTheorems, FiniteSetTheorems, TLAPS

-----------------------------------------------------------------------------
(* When the string comparison of checkResourceVersion orders versions by   *)
(* age: as long as they are equally long.                                  *)

(* The digits a version has are counted by a finite set.  (Only SMT is     *)
(* asked about the powers themselves: Zenon writes numbers in unary.)      *)
LEMMA PowersBounded ==
    \E n \in Nat : \A t \in PowersOfTen : t \in Nat /\ 1 <= t /\ t <= n
BY SMTT(30) DEF PowersOfTen

LEMMA PowersFinite == IsFiniteSet(PowersOfTen)
<1>1. PICK n \in Nat : \A t \in PowersOfTen : t \in Nat /\ 1 <= t /\ t <= n
  BY PowersBounded
<1>2. IsFiniteSet(1..n)
  BY FS_Interval
<1>3. PowersOfTen \subseteq 1..n
  BY <1>1
<1> QED
  BY <1>2, <1>3, FS_Subset

LEMMA WidthMonotone ==
    ASSUME NEW a \in Nat, NEW b \in Nat, a <= b
    PROVE  Width(a) \in Nat /\ Width(a) <= Width(b)
<1> DEFINE P(n) == {t \in PowersOfTen : t <= n}
<1>1. \A t \in PowersOfTen : t \in Nat
  BY PowersBounded
<1>2. P(a) \subseteq P(b)
  BY <1>1
<1>3. IsFiniteSet(P(a)) /\ IsFiniteSet(P(b))
  BY PowersFinite, FS_Subset
<1>4. Cardinality(P(a)) \in Nat /\ Cardinality(P(a)) <= Cardinality(P(b))
  BY <1>2, <1>3, FS_Subset, FS_CardinalityType
<1> QED
  BY <1>4 DEF Width

(* Between two versions of the same length every comparison of texts is a  *)
(* comparison of numbers.                                                  *)
THEOREM SameWidthAgrees ==
    ASSUME NEW a \in Nat, NEW b \in Nat, Width(a) = Width(b)
    PROVE  OrderAgrees(a, b)
<1> SUFFICES ASSUME NEW x \in a..b, NEW y \in a..b
             PROVE  RvLess(x, y) <=> x < y
  BY DEF OrderAgrees
<1>1. x \in Nat /\ y \in Nat /\ a <= x /\ x <= b /\ a <= y /\ y <= b
  OBVIOUS
<1>2. /\ Width(a) \in Nat /\ Width(x) \in Nat /\ Width(y) \in Nat
      /\ Width(a) <= Width(x) /\ Width(x) <= Width(b)
      /\ Width(a) <= Width(y) /\ Width(y) <= Width(b)
  BY <1>1, WidthMonotone
<1>3. Width(x) = Width(y) /\ Width(x) \in Nat
  BY <1>2
<1> QED
  BY <1>1, <1>3 DEF RvLess

(* Between two versions that differ in width there is always a pair that   *)
(* it orders wrongly, the last of a width and the next: that two versions  *)
(* are equally long is exactly what the waits for updates need.            *)
THEOREM OnlySameWidthAgrees ==
    ASSUME NEW a \in Nat, NEW b \in Nat, 1 <= a, a <= b
    PROVE  OrderAgrees(a, b) <=> Width(a) = Width(b)
<1> SUFFICES ASSUME Width(a) # Width(b)
             PROVE  \E x, y \in a..b : ~(RvLess(x, y) <=> x < y)
  BY SameWidthAgrees DEF OrderAgrees
<1> DEFINE P(n) == {t \in PowersOfTen : t <= n}
<1>1. \A t \in PowersOfTen : t \in Nat /\ 1 <= t
  BY PowersBounded
<1>2. PICK p \in PowersOfTen : a < p /\ p <= b
  <2>1. P(a) # P(b)
    BY DEF Width
  <2> QED
    BY <1>1, <2>1
<1>3. p \in Nat /\ p - 1 \in Nat /\ p - 1 \in a..b /\ p \in a..b
  BY <1>1, <1>2
<1>4. Width(p) = Width(p - 1) + 1 /\ Width(p - 1) \in Nat
  <2>1. P(p) = P(p - 1) \cup {p} /\ p \notin P(p - 1)
    <3>1. \A t \in PowersOfTen : t <= p <=> t <= p - 1 \/ t = p
      BY <1>1, <1>3
    <3>2. ~(p <= p - 1)
      BY <1>3
    <3> QED
      BY <1>2, <3>1, <3>2
  <2>2. IsFiniteSet(P(p - 1)) /\ Cardinality(P(p - 1)) \in Nat
    BY PowersFinite, FS_Subset, FS_CardinalityType
  <2> HIDE DEF P
  <2>3. Cardinality(P(p)) = Cardinality(P(p - 1)) + 1
    BY <2>1, <2>2, FS_AddElement
  <2> QED
    BY <2>2, <2>3 DEF Width, P
<1>5. ~RvLess(p - 1, p)
  <2>1. p >= 10
    <3>1. \A t \in PowersOfTen : t = 1 \/ t >= 10
      BY SMTT(30) DEF PowersOfTen
    <3> QED
      BY <1>2, <3>1
  <2>2. ~(p - 1 <= p \div 10)
    BY <1>3, <2>1
  <2>3. Width(p) - Width(p - 1) = 1 /\ Width(p - 1) # Width(p) /\ ~(Width(p - 1) > Width(p))
    BY <1>4
  <2>4. 10 ^ (Width(p) - Width(p - 1)) = 10
    <3>1. 10 ^ 1 = 10
      BY SMT
    <3> QED
      BY <2>3, <3>1
  <2> QED
    BY <2>2, <2>3, <2>4 DEF RvLess
<1> QED
  BY <1>3, <1>5

-----------------------------------------------------------------------------
(* The comparison of the numbers is the comparison of their texts. *)

(* What holds of a number if it holds of all smaller ones. *)
LEMMA SmallerFirst ==
  ASSUME NEW S \in SUBSET Nat,
         ASSUME NEW n \in Nat, \A m \in Nat : m < n => m \in S PROVE n \in S
  PROVE  S = Nat
<1> DEFINE Bad == {n \in Nat : n \notin S}
<1>1. SUFFICES ASSUME Bad # {} PROVE FALSE
  OBVIOUS
<1>2. \E x \in Bad : \A y \in Bad : ~(<<y, x>> \in OpToRel(<, Nat))
  <2>1. Bad \in SUBSET Nat
    OBVIOUS
  <2> HIDE DEF Bad
  <2> QED
    BY <1>1, <2>1, NatLessThanWellFounded, WFMin
<1>3. PICK x \in Bad : \A y \in Bad : ~(<<y, x>> \in OpToRel(<, Nat))
  BY <1>2
<1>4. \A y \in Nat : y < x => <<y, x>> \in OpToRel(<, Nat)
  BY DEF OpToRel
<1>5. \A m \in Nat : m < x => m \in S
  BY <1>3, <1>4
<1> QED
  BY <1>3, <1>5

(* A number without its last digit. *)
LEMMA Tenth ==
  ASSUME NEW n \in Nat
  PROVE  /\ n \div 10 \in Nat /\ n % 10 \in 0..9
         /\ n = 10 * (n \div 10) + (n % 10)
         /\ n # 0 => n \div 10 < n
OBVIOUS

-----------------------------------------------------------------------------
(* The digits of all numbers up to m are defined, and so those of all.     *)
LEMMA DigitsUpTo ==
  ASSUME NEW m \in Nat
  PROVE  \E f : f = [n \in 0..m |->
                       IF n = 0 THEN <<>> ELSE Append(f[n \div 10], n % 10)]
<1> DEFINE Spells(f, k) ==
             f = [n \in 0..k |-> IF n = 0 THEN <<>> ELSE Append(f[n \div 10], n % 10)]
<1> DEFINE S == {k \in Nat : \E f : Spells(f, k)}
<1>1. ASSUME NEW n \in Nat, \A k \in Nat : k < n => k \in S
      PROVE  n \in S
  <2>1. CASE n = 0
    <3> DEFINE g == [k \in 0..0 |-> <<>>]
    <3>1. g = [k \in 0..0 |-> IF k = 0 THEN <<>> ELSE Append(g[k \div 10], k % 10)]
      OBVIOUS
    <3> HIDE DEF g
    <3> QED
      BY <2>1, <3>1
  <2>2. CASE n # 0
    <3>1. n - 1 \in Nat /\ n - 1 < n
      BY <2>2
    <3>2. PICK f : Spells(f, n - 1)
      BY <1>1, <3>1
    <3> DEFINE g == [k \in 0..n |-> IF k = n THEN Append(f[n \div 10], n % 10) ELSE f[k]]
    <3>3. ASSUME NEW k \in 0..n
          PROVE  g[k] = IF k = 0 THEN <<>> ELSE Append(g[k \div 10], k % 10)
      <4>1. k # 0 => k \div 10 \in 0..n /\ k \div 10 # n /\ g[k \div 10] = f[k \div 10]
        <5>1. k \in Nat /\ (k # 0 => k \div 10 \in Nat /\ k \div 10 < k)
          BY Tenth
        <5> QED
          BY <5>1
      <4>2. CASE k = n
        BY <2>2, <4>1, <4>2
      <4>3. CASE k # n
        <5>1. k \in 0..(n - 1)
          BY <4>3
        <5>2. f[k] = IF k = 0 THEN <<>> ELSE Append(f[k \div 10], k % 10)
          BY <3>2, <5>1
        <5> QED
          BY <4>1, <4>3, <5>2
      <4> QED
        BY <4>2, <4>3
    <3>4. g = [k \in 0..n |-> IF k = 0 THEN <<>> ELSE Append(g[k \div 10], k % 10)]
      BY <3>3
    <3> HIDE DEF g
    <3> QED
      BY <3>4
  <2> QED
    BY <2>1, <2>2
<1> HIDE DEF S
<1>2. S \in SUBSET Nat
  BY DEF S
<1>3. m \in S
  BY <1>1, <1>2, SmallerFirst
<1> QED
  BY <1>3 DEF S

LEMMA DigitsOf ==
  ASSUME NEW n \in Nat
  PROVE  Digits[n] = IF n = 0 THEN <<>> ELSE Append(Digits[n \div 10], n % 10)
<1> DEFINE F(m) == CHOOSE f : f = [k \in 0..m |->
                     IF k = 0 THEN <<>> ELSE Append(f[k \div 10], k % 10)]
<1>1. ASSUME NEW m \in Nat
      PROVE  F(m) = [k \in 0..m |->
                     IF k = 0 THEN <<>> ELSE Append(F(m)[k \div 10], k % 10)]
  BY DigitsUpTo
<1> HIDE DEF F
<1>2. ASSUME NEW m \in Nat, NEW k \in 0..m
      PROVE  F(m)[k] = IF k = 0 THEN <<>> ELSE Append(F(m)[k \div 10], k % 10)
  BY <1>1
<1>3. ASSUME NEW m \in Nat, NEW k \in 0..m
      PROVE  F(m)[k] = F(k)[k]
  <2> DEFINE S == {i \in Nat : \A p, q \in Nat : i <= p /\ i <= q => F(p)[i] = F(q)[i]}
  <2>1. ASSUME NEW i \in Nat, \A j \in Nat : j < i => j \in S
        PROVE  i \in S
    <3> SUFFICES ASSUME NEW p \in Nat, NEW q \in Nat, i <= p, i <= q
                 PROVE  F(p)[i] = F(q)[i]
      OBVIOUS
    <3>1. i \in 0..p /\ i \in 0..q
      OBVIOUS
    <3>2. i # 0 => F(p)[i \div 10] = F(q)[i \div 10]
      <4>1. i # 0 => i \div 10 \in Nat /\ i \div 10 < i
        BY Tenth
      <4>2. i # 0 => i \div 10 \in S /\ i \div 10 <= p /\ i \div 10 <= q
        BY <2>1, <4>1
      <4> QED
        BY <4>2
    <3> QED
      BY <1>2, <3>1, <3>2
  <2> HIDE DEF S
  <2>2. S \in SUBSET Nat
    BY DEF S
  <2>3. S = Nat
    BY <2>1, <2>2, SmallerFirst
  <2>4. k \in Nat /\ k <= m /\ k <= k
    OBVIOUS
  <2> QED
    BY <2>3, <2>4 DEF S
<1> DEFINE G == [k \in Nat |-> F(k)[k]]
<1>4. ASSUME NEW k \in Nat
      PROVE  G[k] = IF k = 0 THEN <<>> ELSE Append(G[k \div 10], k % 10)
  <2>1. k \in 0..k /\ (k # 0 => k \div 10 \in 0..k /\ k \div 10 \in Nat)
    BY Tenth
  <2>2. k # 0 => F(k)[k \div 10] = G[k \div 10]
    BY <1>3, <2>1
  <2> QED
    BY <1>2, <2>1, <2>2
<1>5. G = [k \in Nat |-> IF k = 0 THEN <<>> ELSE Append(G[k \div 10], k % 10)]
  BY <1>4
<1> HIDE DEF G
<1> DEFINE D == CHOOSE f : f = [k \in Nat |->
                  IF k = 0 THEN <<>> ELSE Append(f[k \div 10], k % 10)]
<1>6. D = [k \in Nat |-> IF k = 0 THEN <<>> ELSE Append(D[k \div 10], k % 10)]
  BY <1>5
<1>7. Digits = D
  BY DEF Digits
<1> HIDE DEF D
<1> QED
  BY <1>6, <1>7

-----------------------------------------------------------------------------
(* One digit less. *)
LEMMA WidthOf ==
  ASSUME NEW n \in Measured
  PROVE  /\ Width(n) \in Nat
         /\ n = 0 => Width(n) = 0
         /\ n # 0 => Width(n) = Width(n \div 10) + 1
         /\ n \div 10 \in Measured
<1> DEFINE P(m) == {t \in PowersOfTen : t <= m}
<1>1. ASSUME NEW m \in Nat
      PROVE  IsFiniteSet(P(m)) /\ Cardinality(P(m)) \in Nat
  BY PowersFinite, FS_Subset, FS_CardinalityType
<1>2. n \in Nat /\ n \div 10 \in Nat /\ n \div 10 \in Measured
  BY Tenth DEF Measured
<1>3. CASE n = 0
  <2>1. P(n) = {}
    BY <1>3, PowersBounded
  <2> QED
    BY <1>2, <1>3, <2>1, FS_EmptySet DEF Width
<1>4. CASE n # 0
  <2> DEFINE Q == P(n \div 10)
             T == {t \in P(n) : t # 1}
             f == [t \in Q |-> 10 * t]
  <2>1. /\ 1 \in P(n)
        /\ \A t \in Q : 10 * t \in T
        /\ \A t \in T : \E u \in Q : 10 * u = t
    <3>1. \A t \in PowersOfTen : t \in Nat /\ (t # 1000000000 => 10 * t \in PowersOfTen)
      BY SMTT(30) DEF PowersOfTen
    <3>2. \A t \in PowersOfTen : t # 1 => \E u \in PowersOfTen : t = 10 * u
      BY SMTT(30) DEF PowersOfTen
    <3>3. 1 \in PowersOfTen
      BY SMTT(30) DEF PowersOfTen
    <3>4. \A t \in Nat : t <= n \div 10 => 10 * t <= n /\ 10 * t # 1
      BY <1>2
    <3>5. \A t \in Nat : 10 * t <= n => t <= n \div 10
      BY <1>2
    <3>6. 1000000000 > n \div 10
      BY <1>2 DEF Measured
    <3> QED
      BY <1>2, <1>4, <3>1, <3>2, <3>3, <3>4, <3>5, <3>6
  <2>2. f \in Bijection(Q, T)
    <3>1. \A t \in Q : t \in Nat
      BY PowersBounded
    <3>2. f \in [Q -> T]
      BY <2>1
    <3>3. \A t, u \in Q : f[t] = f[u] => t = u
      BY <3>1
    <3>4. \A t \in T : \E u \in Q : f[u] = t
      BY <2>1
    <3> QED
      BY <3>2, <3>3, <3>4 DEF Bijection, Injection, Surjection, IsInjective
  <2>3. Cardinality(T) = Cardinality(Q) /\ IsFiniteSet(T)
    BY <1>1, <1>2, <2>2, FS_Bijection DEF ExistsBijection
  <2>4. P(n) = T \cup {1} /\ 1 \notin T
    BY <2>1
  <2> HIDE DEF T, Q, f
  <2>5. Cardinality(P(n)) = Cardinality(T) + 1
    BY <2>3, <2>4, FS_AddElement
  <2> QED
    BY <1>1, <1>2, <1>4, <2>3, <2>5 DEF Width, Q
<1> QED
  BY <1>3, <1>4

(* The list of powers has ten. *)
LEMMA WidthAtMost ==
  ASSUME NEW n \in Nat
  PROVE  Width(n) <= 10
<1> DEFINE f == [i \in 1..10 |->
       IF i = 1 THEN 1 ELSE IF i = 2 THEN 10 ELSE IF i = 3 THEN 100
       ELSE IF i = 4 THEN 1000 ELSE IF i = 5 THEN 10000 ELSE IF i = 6 THEN 100000
       ELSE IF i = 7 THEN 1000000 ELSE IF i = 8 THEN 10000000
       ELSE IF i = 9 THEN 100000000 ELSE 1000000000]
<1>1. f \in Surjection(1..10, PowersOfTen)
  <2>1. \A i \in 1..10 : f[i] \in PowersOfTen
    BY SMTT(30) DEF PowersOfTen
  <2>2. /\ f[1] = 1 /\ f[2] = 10 /\ f[3] = 100 /\ f[4] = 1000 /\ f[5] = 10000
        /\ f[6] = 100000 /\ f[7] = 1000000 /\ f[8] = 10000000
        /\ f[9] = 100000000 /\ f[10] = 1000000000
    BY SMTT(30)
  <2>3. DOMAIN f = 1..10 /\ \A i \in {1, 2, 3, 4, 5, 6, 7, 8, 9, 10} : i \in 1..10
    BY SMTT(30)
  <2>4. f \in [1..10 -> PowersOfTen]
    BY <2>1
  <2> HIDE DEF f
  <2>5. \A t \in PowersOfTen : \E i \in 1..10 : f[i] = t
    BY <2>2, <2>3, SMTT(30) DEF PowersOfTen
  <2> QED
    BY <2>4, <2>5 DEF Surjection
<1>2. Cardinality(1..10) = 10 /\ IsFiniteSet(1..10)
  <2>1. 1 \in Int /\ 10 \in Int /\ ~(1 > 10) /\ 10 - 1 + 1 = 10
    OBVIOUS
  <2>2. IsFiniteSet(1..10) /\ Cardinality(1..10) = IF 1 > 10 THEN 0 ELSE 10 - 1 + 1
    BY <2>1, FS_Interval, Zenon
  <2> QED
    BY <2>1, <2>2
<1>3. Cardinality(PowersOfTen) <= 10
  BY <1>1, <1>2, FS_Surjection
<1> DEFINE P == {t \in PowersOfTen : t <= n}
<1>4. Cardinality(P) <= Cardinality(PowersOfTen)
      /\ Cardinality(P) \in Nat /\ Cardinality(PowersOfTen) \in Nat
  BY PowersFinite, FS_Subset, FS_CardinalityType
<1> QED
  BY <1>3, <1>4 DEF Width

(* Width counts the digits. *)
LEMMA DigitsWidth ==
  \A n \in Measured : Digits[n] \in Seq(Nat) /\ Len(Digits[n]) = Width(n)
<1> DEFINE S == {n \in Nat : n \in Measured =>
                   Digits[n] \in Seq(Nat) /\ Len(Digits[n]) = Width(n)}
<1>1. ASSUME NEW n \in Nat, \A m \in Nat : m < n => m \in S
      PROVE  n \in S
  <2> SUFFICES ASSUME n \in Measured
               PROVE  Digits[n] \in Seq(Nat) /\ Len(Digits[n]) = Width(n)
    OBVIOUS
  <2>1. CASE n = 0
    <3>1. n \in Nat /\ Digits[n] = <<>>
      BY <2>1, DigitsOf
    <3>2. Width(n) = 0
      BY <2>1, WidthOf
    <3> QED
      BY <3>1, <3>2, EmptySeq
  <2>2. CASE n # 0
    <3>1. n \div 10 \in S /\ n \div 10 \in Measured /\ n % 10 \in Nat
      BY <1>1, <2>2, Tenth, WidthOf
    <3>2. Digits[n] = Append(Digits[n \div 10], n % 10)
      BY <2>2, DigitsOf
    <3>3. Digits[n \div 10] \in Seq(Nat) /\ Len(Digits[n \div 10]) = Width(n \div 10)
      BY <3>1
    <3>4. Width(n) = Width(n \div 10) + 1
      BY <2>2, WidthOf
    <3> QED
      BY <3>1, <3>2, <3>3, <3>4, AppendProperties
  <2> QED
    BY <2>1, <2>2
<1> HIDE DEF S
<1>2. S \in SUBSET Nat
  BY DEF S
<1>3. S = Nat
  BY <1>1, <1>2, SmallerFirst
<1> QED
  BY <1>3 DEF S, Measured

-----------------------------------------------------------------------------
(* A digit more. *)
LEMMA LessBothLonger ==
  ASSUME NEW s \in Seq(Nat), NEW t \in Seq(Nat), Len(s) = Len(t),
         NEW x \in Nat, NEW y \in Nat
  PROVE  TextLess(Append(s, x), Append(t, y)) <=> TextLess(s, t) \/ (s = t /\ x < y)
<1> DEFINE u == Append(s, x)
           v == Append(t, y)
           l == Len(s)
<1>1. /\ DOMAIN s = 1..l /\ DOMAIN t = 1..l /\ l \in Nat
      /\ DOMAIN u = 1..(l + 1) /\ DOMAIN v = 1..(l + 1)
      /\ \A i \in 1..l : u[i] = s[i] /\ v[i] = t[i]
      /\ u[l + 1] = x /\ v[l + 1] = y
      /\ s = t <=> \A i \in 1..l : s[i] = t[i]
  <2>1. /\ DOMAIN s = 1..l /\ DOMAIN t = 1..l /\ l \in Nat
        /\ u \in Seq(Nat) /\ v \in Seq(Nat) /\ Len(u) = l + 1 /\ Len(v) = l + 1
    BY AppendProperties
  <2>2. s = t <=> \A i \in 1..l : s[i] = t[i]
    BY SeqEqual
  <2> QED
    BY <2>1, <2>2, AppendProperties
<1> HIDE DEF u, v, l
<1>2. ASSUME NEW i \in 1..(l + 1), \A j \in 1..(i - 1) : u[j] = v[j], u[i] < v[i]
      PROVE  TextLess(s, t) \/ (s = t /\ x < y)
  <2>1. CASE i = l + 1
    BY <1>1, <1>2, <2>1
  <2>2. CASE i # l + 1
    <3>1. i \in 1..l /\ \A j \in 1..(i - 1) : j \in 1..l
      BY <1>1, <2>2
    <3> QED
      BY <1>1, <1>2, <3>1 DEF TextLess
  <2> QED
    BY <2>1, <2>2
<1>3. ASSUME NEW i \in 1..l, \A j \in 1..(i - 1) : s[j] = t[j], s[i] < t[i]
      PROVE  TextLess(u, v)
  <2>1. i \in 1..(l + 1) /\ \A j \in 1..(i - 1) : j \in 1..l /\ j \in 1..(l + 1)
    BY <1>1
  <2> QED
    BY <1>1, <1>3, <2>1 DEF TextLess
<1>4. ASSUME s = t, x < y
      PROVE  TextLess(u, v)
  <2>1. l + 1 \in 1..(l + 1) /\ \A j \in 1..l : j \in 1..(l + 1)
    BY <1>1
  <2>2. (l + 1) - 1 = l
    BY <1>1
  <2> QED
    BY <1>1, <1>4, <2>1, <2>2 DEF TextLess
<1> QED
  BY <1>1, <1>2, <1>3, <1>4 DEF TextLess, u, v

LEMMA LessRightLonger ==
  ASSUME NEW s \in Seq(Nat), NEW t \in Seq(Nat), Len(s) <= Len(t), NEW y \in Nat
  PROVE  TextLess(s, Append(t, y)) <=> TextLess(s, t) \/ s = t
<1> DEFINE v == Append(t, y)
           k == Len(s)
           l == Len(t)
<1>1. /\ DOMAIN s = 1..k /\ DOMAIN t = 1..l /\ k \in Nat /\ l \in Nat /\ k <= l
      /\ DOMAIN v = 1..(l + 1)
      /\ \A i \in 1..l : v[i] = t[i]
      /\ s = t <=> k = l /\ \A i \in 1..l : s[i] = t[i]
  <2>1. /\ DOMAIN s = 1..k /\ DOMAIN t = 1..l /\ k \in Nat /\ l \in Nat
        /\ v \in Seq(Nat) /\ Len(v) = l + 1
    BY AppendProperties
  <2>2. s = t <=> k = l /\ \A i \in 1..l : s[i] = t[i]
    BY SeqEqual
  <2>3. \A i \in 1..l : v[i] = t[i]
    BY AppendProperties
  <2> HIDE DEF v, k, l
  <2>4. DOMAIN v = 1..(l + 1)
    BY <2>1
  <2> QED
    BY <2>1, <2>2, <2>3, <2>4
<1> HIDE DEF v, k, l
<1>2. ASSUME NEW i \in 1..(l + 1), \A j \in 1..(i - 1) : j \in 1..k /\ s[j] = v[j],
             i \in 1..k => s[i] < v[i]
      PROVE  TextLess(s, t) \/ s = t
  <2>1. CASE i = l + 1
    <3>1. (l + 1) - 1 = l
      BY <1>1
    <3>2. \A j \in 1..l : j \in 1..k /\ s[j] = t[j]
      BY <1>1, <1>2, <2>1, <3>1
    <3>3. l > 0 => l \in 1..k
      BY <1>1, <3>2
    <3>4. k = l
      BY <1>1, <3>3
    <3> QED
      BY <1>1, <3>2, <3>4
  <2>2. CASE i # l + 1
    <3>1. i \in 1..l /\ \A j \in 1..(i - 1) : j \in 1..l
      BY <1>1, <2>2
    <3> QED
      BY <1>1, <1>2, <3>1 DEF TextLess
  <2> QED
    BY <2>1, <2>2
<1>3. ASSUME NEW i \in 1..l, \A j \in 1..(i - 1) : j \in 1..k /\ s[j] = t[j],
             i \in 1..k => s[i] < t[i]
      PROVE  TextLess(s, v)
  <2>1. i \in 1..(l + 1) /\ \A j \in 1..(i - 1) : j \in 1..l
    BY <1>1
  <2> QED
    BY <1>1, <1>3, <2>1 DEF TextLess
<1>4. ASSUME s = t
      PROVE  TextLess(s, v)
  <2>1. l + 1 \in 1..(l + 1) /\ (l + 1) - 1 = l /\ l + 1 \notin 1..l
    BY <1>1
  <2> QED
    BY <1>1, <1>4, <2>1 DEF TextLess
<1> QED
  BY <1>1, <1>2, <1>3, <1>4 DEF TextLess, v

LEMMA LessLeftLonger ==
  ASSUME NEW s \in Seq(Nat), NEW t \in Seq(Nat), Len(t) <= Len(s), NEW x \in Nat
  PROVE  TextLess(Append(s, x), t) <=> TextLess(s, t)
<1> DEFINE u == Append(s, x)
           k == Len(s)
           l == Len(t)
<1>1. /\ DOMAIN s = 1..k /\ DOMAIN t = 1..l /\ k \in Nat /\ l \in Nat /\ l <= k
      /\ DOMAIN u = 1..(k + 1)
      /\ \A i \in 1..k : u[i] = s[i]
  BY AppendProperties
<1> HIDE DEF u, k, l
<1>2. \A i \in 1..l : /\ i \in 1..k /\ i \in 1..(k + 1)
                      /\ \A j \in 1..(i - 1) : j \in 1..k /\ j \in 1..(k + 1)
  BY <1>1
<1>3. \A i \in 1..l : /\ u[i] = s[i]
                      /\ \A j \in 1..(i - 1) : u[j] = s[j]
  BY <1>1, <1>2
<1> QED
  BY <1>1, <1>2, <1>3 DEF TextLess, u

-----------------------------------------------------------------------------
(* Cutting a number digit by digit. *)
LEMMA CutOneMore ==
  ASSUME NEW b \in Nat, NEW k \in 1..9
  PROVE  b \div 10 ^ (k + 1) = (b \div 10) \div 10 ^ k
<1>1. CASE k = 1
  <2>1. 10 ^ 1 = 10 /\ 10 ^ (k + 1) = 100
    BY <1>1, SMT
  <2>2. b \div 100 = (b \div 10) \div 10
    OBVIOUS
  <2> QED
    BY <1>1, <2>1, <2>2
<1>2. CASE k = 2
  <2>1. 10 ^ 2 = 100 /\ 10 ^ (k + 1) = 1000
    BY <1>2, SMT
  <2>2. b \div 1000 = (b \div 10) \div 100
    OBVIOUS
  <2> QED
    BY <1>2, <2>1, <2>2
<1>3. CASE k = 3
  <2>1. 10 ^ 3 = 1000 /\ 10 ^ (k + 1) = 10000
    BY <1>3, SMT
  <2>2. b \div 10000 = (b \div 10) \div 1000
    OBVIOUS
  <2> QED
    BY <1>3, <2>1, <2>2
<1>4. CASE k = 4
  <2>1. 10 ^ 4 = 10000 /\ 10 ^ (k + 1) = 100000
    BY <1>4, SMT
  <2>2. b \div 100000 = (b \div 10) \div 10000
    OBVIOUS
  <2> QED
    BY <1>4, <2>1, <2>2
<1>5. CASE k = 5
  <2>1. 10 ^ 5 = 100000 /\ 10 ^ (k + 1) = 1000000
    BY <1>5, SMT
  <2>2. b \div 1000000 = (b \div 10) \div 100000
    OBVIOUS
  <2> QED
    BY <1>5, <2>1, <2>2
<1>6. CASE k = 6
  <2>1. 10 ^ 6 = 1000000 /\ 10 ^ (k + 1) = 10000000
    BY <1>6, SMT
  <2>2. b \div 10000000 = (b \div 10) \div 1000000
    OBVIOUS
  <2> QED
    BY <1>6, <2>1, <2>2
<1>7. CASE k = 7
  <2>1. 10 ^ 7 = 10000000 /\ 10 ^ (k + 1) = 100000000
    BY <1>7, SMT
  <2>2. b \div 100000000 = (b \div 10) \div 10000000
    OBVIOUS
  <2> QED
    BY <1>7, <2>1, <2>2
<1>8. CASE k = 8
  <2>1. 10 ^ 8 = 100000000 /\ 10 ^ (k + 1) = 1000000000
    BY <1>8, SMT
  <2>2. b \div 1000000000 = (b \div 10) \div 100000000
    OBVIOUS
  <2> QED
    BY <1>8, <2>1, <2>2
<1>9. CASE k = 9
  <2>1. 10 ^ 9 = 1000000000 /\ 10 ^ (k + 1) = 10000000000
    BY <1>9, SMT
  <2>2. b \div 10000000000 = (b \div 10) \div 1000000000
    OBVIOUS
  <2> QED
    BY <1>9, <2>1, <2>2
<1> QED
  BY <1>1, <1>2, <1>3, <1>4, <1>5, <1>6, <1>7, <1>8, <1>9

(* A digit more, and the comparison of the model. *)
LEMMA RvLessSameWidth ==
  ASSUME NEW x, NEW y, Width(x) \in Nat, Width(x) = Width(y)
  PROVE  RvLess(x, y) <=> x < y
<1>1. ~(Width(x) < Width(y)) /\ ~(Width(x) > Width(y))
  OBVIOUS
<1> QED
  BY <1>1, Zenon DEF RvLess

LEMMA RvLessOneMore ==
  ASSUME NEW x \in Measured, NEW y \in Measured
  PROVE  /\ x # 0 /\ y # 0 /\ Width(x) = Width(y) =>
              (RvLess(x, y) <=> \/ RvLess(x \div 10, y \div 10)
                                \/ x \div 10 = y \div 10 /\ x % 10 < y % 10)
         /\ Width(x) < Width(y) =>
              (RvLess(x, y) <=> RvLess(x, y \div 10) \/ x = y \div 10)
         /\ Width(x) > Width(y) =>
              (RvLess(x, y) <=> RvLess(x \div 10, y))
<1>1. /\ x \in Nat /\ x \div 10 \in Nat /\ x % 10 \in 0..9
      /\ y \in Nat /\ y \div 10 \in Nat /\ y % 10 \in 0..9
      /\ x = 10 * (x \div 10) + (x % 10) /\ y = 10 * (y \div 10) + (y % 10)
  BY Tenth DEF Measured
<1>2. /\ Width(x) \in 0..10 /\ Width(x \div 10) \in Nat
      /\ Width(y) \in 0..10 /\ Width(y \div 10) \in Nat
      /\ (x = 0 => Width(x) = 0) /\ (x # 0 => Width(x) = Width(x \div 10) + 1)
      /\ (y = 0 => Width(y) = 0) /\ (y # 0 => Width(y) = Width(y \div 10) + 1)
  <2>1. Width(x) <= 10 /\ Width(y) <= 10
    BY <1>1, WidthAtMost
  <2> QED
    BY <2>1, WidthOf
<1>3. ASSUME x # 0, y # 0, Width(x) = Width(y)
      PROVE  RvLess(x, y) <=> \/ RvLess(x \div 10, y \div 10)
                              \/ x \div 10 = y \div 10 /\ x % 10 < y % 10
  <2>1. Width(x \div 10) = Width(y \div 10)
    BY <1>2, <1>3
  <2>2. RvLess(x, y) <=> x < y
    BY <1>2, <1>3 DEF RvLess
  <2>3. RvLess(x \div 10, y \div 10) <=> x \div 10 < y \div 10
    BY <1>2, <2>1 DEF RvLess
  <2> QED
    BY <1>1, <2>2, <2>3
<1>4. ASSUME Width(x) < Width(y)
      PROVE  RvLess(x, y) <=> RvLess(x, y \div 10) \/ x = y \div 10
  <2> DEFINE k == Width(y) - Width(x)
  <2>1. k \in 1..10 /\ y # 0
    BY <1>2, <1>4
  <2>2. RvLess(x, y) <=> x <= y \div 10 ^ k
    BY <1>2, <1>4 DEF RvLess
  <2>3. CASE k = 1
    <3>1. Width(x) = Width(y \div 10)
      BY <1>2, <2>1, <2>3
    <3>2. RvLess(x, y \div 10) <=> x < y \div 10
      BY <1>2, <3>1, RvLessSameWidth
    <3> HIDE DEF k
    <3>3. 10 ^ k = 10
      BY <2>3, SMT
    <3> QED
      BY <1>1, <2>2, <3>2, <3>3
  <2>4. CASE k # 1
    <3>1. k - 1 \in 1..9 /\ Width(y \div 10) - Width(x) = k - 1 /\ Width(x) < Width(y \div 10)
      BY <1>2, <2>1, <2>4
    <3>6. Width(x) # Width(y \div 10) /\ ~(Width(x) > Width(y \div 10))
      BY <1>2, <3>1
    <3>2. RvLess(x, y \div 10) <=> x <= (y \div 10) \div 10 ^ (k - 1)
      BY <3>1, <3>6, Zenon DEF RvLess
    <3>3. x # y \div 10
      BY <3>6
    <3>4. y \div 10 ^ ((k - 1) + 1) = (y \div 10) \div 10 ^ (k - 1)
      BY <1>1, <3>1, CutOneMore
    <3>5. (k - 1) + 1 = k
      BY <2>1
    <3> HIDE DEF k
    <3> QED
      BY <2>2, <3>2, <3>3, <3>4, <3>5
  <2> QED
    BY <2>3, <2>4
<1>5. ASSUME Width(x) > Width(y)
      PROVE  RvLess(x, y) <=> RvLess(x \div 10, y)
  <2> DEFINE k == Width(x) - Width(y)
  <2>1. k \in 1..10 /\ x # 0
    BY <1>2, <1>5
  <2>2. RvLess(x, y) <=> x \div 10 ^ k < y
    BY <1>2, <1>5 DEF RvLess
  <2>3. CASE k = 1
    <3>1. Width(x \div 10) = Width(y)
      BY <1>2, <2>1, <2>3
    <3>2. RvLess(x \div 10, y) <=> x \div 10 < y
      BY <1>2, <3>1, RvLessSameWidth
    <3> HIDE DEF k
    <3>3. 10 ^ k = 10
      BY <2>3, SMT
    <3> QED
      BY <1>1, <2>2, <3>2, <3>3
  <2>4. CASE k # 1
    <3>1. k - 1 \in 1..9 /\ Width(x \div 10) - Width(y) = k - 1 /\ Width(x \div 10) > Width(y)
      BY <1>2, <2>1, <2>4
    <3>2. RvLess(x \div 10, y) <=> (x \div 10) \div 10 ^ (k - 1) < y
      BY <1>2, <3>1 DEF RvLess
    <3>3. x \div 10 ^ ((k - 1) + 1) = (x \div 10) \div 10 ^ (k - 1)
      BY <1>1, <3>1, CutOneMore
    <3>4. (k - 1) + 1 = k
      BY <2>1
    <3> HIDE DEF k
    <3> QED
      BY <2>2, <3>2, <3>3, <3>4
  <2> QED
    BY <2>3, <2>4
<1> QED
  BY <1>3, <1>4, <1>5

LEMMA AppendsEqual ==
  ASSUME NEW s \in Seq(Nat), NEW t \in Seq(Nat), NEW x \in Nat, NEW y \in Nat
  PROVE  (Append(s, x) = Append(t, y)) <=> (s = t /\ x = y)
BY AppendInjective

(* By induction on the two numbers, a digit at a time from the end.        *)
LEMMA RvLessIsTextLess ==
  ASSUME NEW v \in Measured, NEW w \in Measured
  PROVE  RvLess(v, w) <=> TextLess(Digits[v], Digits[w])
<1> DEFINE Agree(x, y) == /\ RvLess(x, y) <=> TextLess(Digits[x], Digits[y])
                          /\ Digits[x] = Digits[y] <=> x = y
           S == {n \in Nat : \A x, y \in Measured : x + y = n => Agree(x, y)}
<1>1. ASSUME NEW n \in Nat, \A m \in Nat : m < n => m \in S
      PROVE  n \in S
  <2> SUFFICES ASSUME NEW x \in Measured, NEW y \in Measured, x + y = n
               PROVE  Agree(x, y)
    OBVIOUS
  <2>1. /\ x \in Nat /\ x \div 10 \in Measured /\ x \div 10 \in Nat /\ x % 10 \in Nat
        /\ y \in Nat /\ y \div 10 \in Measured /\ y \div 10 \in Nat /\ y % 10 \in Nat
        /\ x # 0 => x \div 10 < x
        /\ y # 0 => y \div 10 < y
        /\ x = 10 * (x \div 10) + (x % 10) /\ y = 10 * (y \div 10) + (y % 10)
    BY Tenth, WidthOf DEF Measured
  <2>2. \A p, q \in Measured : p + q < n => Agree(p, q)
    <3>1. \A p, q \in Measured : p + q \in Nat
      BY DEF Measured
    <3> HIDE DEF Agree
    <3> QED
      BY <1>1, <3>1
  <2>3. /\ Digits[x] \in Seq(Nat) /\ Len(Digits[x]) = Width(x)
        /\ Digits[y] \in Seq(Nat) /\ Len(Digits[y]) = Width(y)
        /\ Digits[x \div 10] \in Seq(Nat) /\ Len(Digits[x \div 10]) = Width(x \div 10)
        /\ Digits[y \div 10] \in Seq(Nat) /\ Len(Digits[y \div 10]) = Width(y \div 10)
        /\ x # 0 => Digits[x] = Append(Digits[x \div 10], x % 10)
        /\ y # 0 => Digits[y] = Append(Digits[y \div 10], y % 10)
    BY <2>1, DigitsWidth, DigitsOf
  <2>4. /\ x = 0 => Width(x) = 0
        /\ y = 0 => Width(y) = 0
        /\ x # 0 => Width(x) = Width(x \div 10) + 1
        /\ y # 0 => Width(y) = Width(y \div 10) + 1
        /\ Width(x) \in Nat /\ Width(y) \in Nat
        /\ Width(x \div 10) \in Nat /\ Width(y \div 10) \in Nat
    BY <2>1, WidthOf
  <2>5. CASE x = 0 /\ y = 0
    <3>1. Digits[0] = <<>>
      BY DigitsOf
    <3>2. ~TextLess(<<>>, <<>>)
      BY DEF TextLess
    <3>3. ~RvLess(0, 0)
      BY <2>4, <2>5 DEF RvLess
    <3> QED
      BY <2>5, <3>1, <3>2, <3>3
  <2>6. CASE Width(x) = Width(y) /\ x # 0
    <3>1. y # 0 /\ Len(Digits[x \div 10]) = Len(Digits[y \div 10])
      BY <2>3, <2>4, <2>6
    <3>2. Agree(x \div 10, y \div 10)
      BY <2>1, <2>2, <2>6, <3>1
    <3>3. TextLess(Digits[x], Digits[y]) <=>
             \/ TextLess(Digits[x \div 10], Digits[y \div 10])
             \/ Digits[x \div 10] = Digits[y \div 10] /\ x % 10 < y % 10
      <4>1. /\ Digits[x \div 10] \in Seq(Nat) /\ Digits[y \div 10] \in Seq(Nat)
            /\ x % 10 \in Nat /\ y % 10 \in Nat
        BY <2>1, <2>3
      <4>2. TextLess(Append(Digits[x \div 10], x % 10), Append(Digits[y \div 10], y % 10)) <=>
               \/ TextLess(Digits[x \div 10], Digits[y \div 10])
               \/ Digits[x \div 10] = Digits[y \div 10] /\ x % 10 < y % 10
        BY <3>1, <4>1, LessBothLonger
      <4> QED
        BY <2>3, <2>6, <3>1, <4>2
    <3>4. Digits[x] = Digits[y] <=>
             Digits[x \div 10] = Digits[y \div 10] /\ x % 10 = y % 10
      <4>1. /\ Digits[x \div 10] \in Seq(Nat) /\ Digits[y \div 10] \in Seq(Nat)
            /\ x % 10 \in Nat /\ y % 10 \in Nat
        BY <2>1, <2>3
      <4>2. Append(Digits[x \div 10], x % 10) = Append(Digits[y \div 10], y % 10) <=>
               Digits[x \div 10] = Digits[y \div 10] /\ x % 10 = y % 10
        <5> DEFINE s == Digits[x \div 10]
                   t == Digits[y \div 10]
                   i == x % 10
                   j == y % 10
        <5>1. s \in Seq(Nat) /\ t \in Seq(Nat) /\ i \in Nat /\ j \in Nat
          BY <4>1
        <5> HIDE DEF s, t, i, j
        <5>2. Append(s, i) = Append(t, j) <=> s = t /\ i = j
          BY <5>1, AppendsEqual
        <5> QED
          BY <5>2 DEF s, t, i, j
      <4> QED
        BY <2>3, <2>6, <3>1, <4>2
    <3>5. RvLess(x, y) <=> \/ RvLess(x \div 10, y \div 10)
                           \/ x \div 10 = y \div 10 /\ x % 10 < y % 10
      BY <2>6, <3>1, RvLessOneMore
    <3>6. x = y <=> x \div 10 = y \div 10 /\ x % 10 = y % 10
      BY <2>1
    <3> QED
      BY <3>2, <3>3, <3>4, <3>5, <3>6
  <2>7. CASE Width(x) < Width(y)
    <3>1. y # 0 /\ Len(Digits[x]) <= Len(Digits[y \div 10])
      BY <2>3, <2>4, <2>7
    <3>2. Agree(x, y \div 10)
      BY <2>1, <2>2, <3>1
    <3>3. TextLess(Digits[x], Digits[y]) <=>
             TextLess(Digits[x], Digits[y \div 10]) \/ Digits[x] = Digits[y \div 10]
      <4>1. /\ Digits[x] \in Seq(Nat) /\ Digits[y \div 10] \in Seq(Nat) /\ y % 10 \in Nat
        BY <2>1, <2>3
      <4>2. TextLess(Digits[x], Append(Digits[y \div 10], y % 10)) <=>
               TextLess(Digits[x], Digits[y \div 10]) \/ Digits[x] = Digits[y \div 10]
        BY <3>1, <4>1, LessRightLonger
      <4> QED
        BY <2>3, <3>1, <4>2
    <3>4. RvLess(x, y) <=> RvLess(x, y \div 10) \/ x = y \div 10
      BY <2>7, RvLessOneMore
    <3>5. x # y /\ Digits[x] # Digits[y]
      BY <2>3, <2>4, <2>7
    <3> QED
      BY <3>2, <3>3, <3>4, <3>5
  <2>8. CASE Width(x) > Width(y)
    <3>1. x # 0 /\ Len(Digits[y]) <= Len(Digits[x \div 10])
      BY <2>3, <2>4, <2>8
    <3>2. Agree(x \div 10, y)
      BY <2>1, <2>2, <3>1
    <3>3. TextLess(Digits[x], Digits[y]) <=> TextLess(Digits[x \div 10], Digits[y])
      <4>1. /\ Digits[y] \in Seq(Nat) /\ Digits[x \div 10] \in Seq(Nat) /\ x % 10 \in Nat
        BY <2>1, <2>3
      <4>2. TextLess(Append(Digits[x \div 10], x % 10), Digits[y]) <=>
               TextLess(Digits[x \div 10], Digits[y])
        BY <3>1, <4>1, LessLeftLonger
      <4> QED
        BY <2>3, <3>1, <4>2
    <3>4. RvLess(x, y) <=> RvLess(x \div 10, y)
      BY <2>8, RvLessOneMore
    <3>5. x # y /\ Digits[x] # Digits[y]
      BY <2>3, <2>4, <2>8
    <3> QED
      BY <3>2, <3>3, <3>4, <3>5
  <2> QED
    <3>1. Width(x) = Width(y) \/ Width(x) < Width(y) \/ Width(x) > Width(y)
      BY <2>4
    <3>2. x = 0 /\ Width(x) = Width(y) => y = 0
      BY <2>4
    <3> HIDE DEF Agree
    <3> QED
      BY <2>5, <2>6, <2>7, <2>8, <3>1, <3>2
<1> HIDE DEF Agree, S
<1>2. S \in SUBSET Nat
  BY DEF S
<1>3. S = Nat
  BY <1>1, <1>2, SmallerFirst
<1>4. \A x, y \in Measured : x + y \in Nat
  BY DEF Measured
<1>5. Agree(v, w)
  BY <1>3, <1>4 DEF S
<1> QED
  BY <1>5 DEF Agree

(* What the model computes from numbers is Go's comparison of the decimal  *)
(* texts that checkResourceVersion makes, for all versions of up to ten    *)
(* digits.                                                                 *)
THEOREM VersionsCompareAsTexts ==
    ASSUME actualResourceVersion \in Measured, minResourceVersion \in Measured
    PROVE  ComparesTexts
BY RvLessIsTextLess DEF ComparesTexts

-----------------------------------------------------------------------------
(* The requests are what the assumption says they are. *)
LEMMA RequestsAreRequests ==
    ASSUME NEW c \in Callers
    PROVE  /\ Requests[c] # {}
           /\ \A r \in Requests[c] :
                /\ r \in Request
                /\ Len(r.docs) \in Nat \ {0}
                /\ r.docs \in [1..Len(r.docs) -> Keys]
                /\ DocKeys(r) \subseteq Keys
                /\ \A i, j \in 1..Len(r.docs) : r.docs[i] = r.docs[j] => i = j
                /\ r.wait => r.verb \in WriteVerbs
<1>1. Requests[c] \in (SUBSET Request) \ {{}}
  BY SawchainAssumption
<1>2. ASSUME NEW r \in Requests[c]
      PROVE  /\ r \in Request
             /\ Len(r.docs) \in Nat \ {0}
             /\ r.docs \in [1..Len(r.docs) -> Keys]
             /\ DocKeys(r) \subseteq Keys
             /\ \A i, j \in 1..Len(r.docs) : r.docs[i] = r.docs[j] => i = j
             /\ r.wait => r.verb \in WriteVerbs
  <2>1. r \in Request
    BY <1>1
  <2>2. r.docs \in Seq(Keys) /\ r.docs # <<>>
    BY <2>1, SawchainAssumption DEF Request
  <2>3. Len(r.docs) \in Nat \ {0} /\ r.docs \in [1..Len(r.docs) -> Keys]
    BY <2>2
  <2>4. DocKeys(r) \subseteq Keys
    BY <2>3 DEF DocKeys
  <2> QED
    BY <2>1, <2>3, <2>4, SawchainAssumption DEF WriteVerbs
<1> QED
  BY <1>1, <1>2

-----------------------------------------------------------------------------
(* The control part of a step and the object it puts in hand have types.   *)
ControlTypeOK ==
    /\ pc \in [Callers -> Steps]
    /\ idx \in [Callers -> Nat]
    /\ result \in [Callers -> {"none", "ok", "err", "fail"}]
    /\ cause \in [Callers -> Causes]
    /\ \A c \in Callers : idx[c] \in 1..Len(call[c].docs)

HeldTypeOK == held \in [Callers -> [{"template", "caller"} -> [Keys -> Object]]]

(* Facts about the call of a caller that every step uses. *)
LEMMA CallFacts ==
    ASSUME TypeOK, NEW c \in Callers
    PROVE  /\ call[c] \in Request /\ call[c] \in Requests[c]
           /\ call[c].val \in Vals \cup {NoVal}
           /\ Key(c) \in Keys
           /\ Owner(c) \in {"template", "caller"}
           /\ idx[c] \in 1..Len(call[c].docs)
           /\ Len(call[c].docs) \in Nat \ {0}
           /\ call[c].docs \in [1..Len(call[c].docs) -> Keys]
           /\ Key(c) \in DocKeys(call[c])
           /\ DocKeys(call[c]) \subseteq Keys
           /\ InHand(c) \in Object
           /\ view[Key(c)] \in State /\ server[Key(c)] \in State
<1>1. call[c] \in Request /\ call[c] \in Requests[c] /\ idx[c] \in 1..Len(call[c].docs)
  BY DEF TypeOK
<1>2. /\ Len(call[c].docs) \in Nat \ {0}
      /\ call[c].docs \in [1..Len(call[c].docs) -> Keys]
      /\ DocKeys(call[c]) \subseteq Keys
  BY <1>1, RequestsAreRequests
<1>3. Key(c) \in Keys /\ Key(c) \in DocKeys(call[c])
  BY <1>1, <1>2 DEF Key, DocKeys
<1>4. Owner(c) \in {"template", "caller"}
  BY DEF Owner
<1>5. InHand(c) \in Object
  BY <1>3, <1>4 DEF InHand, TypeOK
<1>6. view[Key(c)] \in State /\ server[Key(c)] \in State
  BY <1>3 DEF TypeOK, ClusterTypeOK
<1>7. call[c].val \in Vals \cup {NoVal}
  BY <1>1 DEF Request
<1> QED
  BY <1>1, <1>2, <1>3, <1>4, <1>5, <1>6, <1>7

LEMMA MoveType ==
    ASSUME TypeOK, NEW c \in Callers, NEW p \in Steps,
           NEW i \in 1..Len(call[c].docs), Move(c, p, i), UNCHANGED call
    PROVE  ControlTypeOK'
<1>1. Len(call[c].docs) \in Nat
  BY CallFacts
<1> QED
  BY <1>1 DEF TypeOK, ControlTypeOK, Move

LEMMA ReturnType ==
    ASSUME TypeOK, NEW c \in Callers, NEW r \in {"ok", "err", "fail"},
           NEW w \in Causes, Return(c, r, w), UNCHANGED call
    PROVE  ControlTypeOK'
<1>1. "idle" \in Steps
  BY DEF Steps
<1> QED
  BY <1>1 DEF TypeOK, ControlTypeOK, Return

LEMMA FailType ==
    ASSUME TypeOK, NEW c \in Callers, NEW w \in Causes, Fail(c, w), UNCHANGED call
    PROVE  ControlTypeOK'
BY ReturnType DEF Fail

LEMMA FinishType ==
    ASSUME TypeOK, NEW c \in Callers, Finish(c), UNCHANGED call
    PROVE  ControlTypeOK'
<1>1. idx[c] \in 1..Len(call[c].docs) /\ "save" \in Steps /\ "none" \in Causes
  BY CallFacts DEF Steps, Causes
<1>2. CASE Move(c, "save", idx[c])
  BY <1>1, <1>2, MoveType
<1>3. CASE Return(c, "ok", "none")
  BY <1>1, <1>3, ReturnType
<1> QED
  BY <1>2, <1>3 DEF Finish

LEMMA PutType ==
    ASSUME TypeOK, NEW c \in Callers, NEW x \in Object, Put(c, x)
    PROVE  HeldTypeOK'
<1>1. Key(c) \in Keys /\ Owner(c) \in {"template", "caller"}
  BY CallFacts
<1> QED
  BY <1>1 DEF TypeOK, HeldTypeOK, Put

LEMMA SeenType ==
    ASSUME NEW s \in State
    PROVE  Seen(s) \in Object
BY DEF Seen, State, Object

LEMMA ObserveType ==
    ASSUME TypeOK, NEW c \in Callers, Observe(c)
    PROVE  HeldTypeOK'
<1>1. Seen(view[Key(c)]) \in Object
  BY CallFacts, SeenType
<1>2. CASE UNCHANGED held
  BY <1>2 DEF TypeOK, HeldTypeOK
<1>3. CASE Put(c, Seen(view[Key(c)]))
  BY <1>1, <1>3, PutType
<1> QED
  BY <1>2, <1>3 DEF Observe

(* A step of a call that leaves the counters alone keeps TypeOK if it      *)
(* keeps the types of what it changes.                                     *)
LEMMA TypeParts ==
    ASSUME TypeOK, ClusterTypeOK', ControlTypeOK', HeldTypeOK',
           UNCHANGED <<call, calls>>,
           (floor \in [Callers -> [Keys -> Nat]])',
           (polls \in [Callers -> Nat])',
           (written \in [Callers -> [Keys -> Nat]])',
           (synced \in [Callers -> [Keys -> BOOLEAN]])'
    PROVE  TypeOK'
BY DEF TypeOK, ControlTypeOK, HeldTypeOK

LEMMA TypeInit == Init => TypeOK
<1> SUFFICES ASSUME Init PROVE TypeOK
  OBVIOUS
<1>1. Never \in State /\ \A v \in Vals : Fresh(FirstRevision, v) \in State
  BY ClusterAssumption DEF Never, Fresh, State
<1>2. ClusterTypeOK
  <2>1. server \in [Keys -> State]
    BY <1>1 DEF Init, ClusterInit
  <2> QED
    BY <2>1, ClusterAssumption DEF Init, ClusterInit, ClusterTypeOK
<1>3. \A c \in Callers : call[c] \in Requests[c]
  <2> SUFFICES ASSUME NEW c \in Callers PROVE (CHOOSE r \in Requests[c] : TRUE) \in Requests[c]
    BY DEF Init
  <2>1. \E r \in Requests[c] : TRUE
    BY RequestsAreRequests
  <2> QED
    BY <2>1
<1>4. call \in [Callers -> Request] /\ \A c \in Callers : 1 \in 1..Len(call[c].docs)
  BY <1>3, RequestsAreRequests DEF Init
<1>5. held \in [Callers -> [{"template", "caller"} -> [Keys -> Object]]]
  BY DEF Init, Blank, Object
<1>6. "idle" \in Steps /\ "none" \in Causes
  BY DEF Steps, Causes
<1> QED
  BY <1>2, <1>3, <1>4, <1>5, <1>6 DEF Init, TypeOK
-----------------------------------------------------------------------------
(* Each step keeps the types. *)
LEMMA CallTypeStep ==
    ASSUME TypeOK, NEW c \in Callers, Call(c)
    PROVE  TypeOK'
<1>1. PICK r \in Requests[c] :
        /\ call' = [call EXCEPT ![c] = r]
        /\ pc' = [pc EXCEPT ![c] = FirstStep(r)]
        /\ held' = [held EXCEPT ![c] = Prepared(c, r)]
  BY DEF Call
<1>2. r \in Request /\ 1 \in 1..Len(r.docs) /\ r.val \in Vals \cup {NoVal}
  <2>1. r \in Request /\ Len(r.docs) \in Nat \ {0}
    BY RequestsAreRequests
  <2> QED
    BY <2>1 DEF Request
<1>3. FirstStep(r) \in Steps
  BY DEF FirstStep, Steps
<1>4. Prepared(c, r) \in [{"template", "caller"} -> [Keys -> Object]]
  <2>1. Blank(r.val) \in Object
    BY <1>2 DEF Blank, Object
  <2>2. held[c]["caller"] \in [Keys -> Object]
    BY DEF TypeOK
  <2>3. \A k \in Keys : [held[c]["caller"][k] EXCEPT !.val = r.val] \in Object
    BY <1>2, <2>2 DEF Object
  <2>4. \A k \in Keys : GivenObject(c, r, k) \in Object
    BY <2>1, <2>2, <2>3 DEF GivenObject
  <2> QED
    BY <2>1, <2>4 DEF Prepared
<1>5. ClusterTypeOK'
  BY DEF Call, clusterVars, TypeOK, ClusterTypeOK
<1>6. call' \in [Callers -> Request] /\ pc' \in [Callers -> Steps]
  BY <1>1, <1>2, <1>3 DEF TypeOK
<1>7. HeldTypeOK'
  BY <1>1, <1>4 DEF TypeOK, HeldTypeOK
<1>8. \A d \in Callers : call'[d] \in Requests[d] /\ idx'[d] \in 1..Len(call'[d].docs)
  BY <1>1, <1>2 DEF TypeOK, Call
<1>9. /\ idx' \in [Callers -> Nat]
      /\ polls' \in [Callers -> Nat]
      /\ calls' \in [Callers -> Nat]
      /\ result' \in [Callers -> {"none", "ok", "err", "fail"}]
      /\ cause' \in [Callers -> Causes]
  BY DEF TypeOK, Call, Causes
<1>10. /\ floor' \in [Callers -> [Keys -> Nat]]
       /\ written' \in [Callers -> [Keys -> Nat]]
       /\ synced' \in [Callers -> [Keys -> BOOLEAN]]
  BY DEF TypeOK, Call
<1> QED
  BY <1>5, <1>6, <1>7, <1>8, <1>9, <1>10 DEF TypeOK, HeldTypeOK

(* What a write would store is a state with a revision. *)
LEMMA DesiredType ==
    ASSUME TypeOK, NEW c \in Callers
    PROVE  Desired(c) \in State
<1>1. InHand(c) \in Object /\ Key(c) \in Keys
  BY CallFacts
<1>2. InHand(c).val \in Vals \cup {NoVal} /\ InHand(c).other \in Nat
  BY <1>1 DEF Object
<1>3. ClusterTypeOK
  BY DEF TypeOK
<1> QED
  BY <1>1, <1>2, <1>3, StoredStates DEF Desired

LEMMA WriteTypeStep ==
    ASSUME TypeOK, NEW c \in Callers, Write(c)
    PROVE  TypeOK'
<1>1. Desired(c) \in State /\ Key(c) \in Keys
  BY DesiredType, CallFacts
<1>2. ClusterTypeOK'
  BY <1>1, StoreType DEF Write, TypeOK, ClusterTypeOK
<1>3. UNCHANGED call
  BY DEF Write
<1>4. ControlTypeOK'
  <2>1. CASE ~AtLast(c) /\ Move(c, FirstStep(call[c]), idx[c] + 1)
    <3>1. FirstStep(call[c]) \in Steps
      BY DEF FirstStep, Steps
    <3>2. idx[c] + 1 \in 1..Len(call[c].docs)
      <4>1. idx[c] \in 1..Len(call[c].docs) /\ Len(call[c].docs) \in Nat
        BY CallFacts
      <4> QED
        BY <2>1, <4>1 DEF AtLast
    <3> QED
      BY <1>3, <2>1, <3>1, <3>2, MoveType
  <2>2. CASE Move(c, "await", idx[c])
    BY <1>3, <2>2, MoveType, CallFacts DEF Steps
  <2>3. CASE Finish(c)
    BY <1>3, <2>3, FinishType
  <2> QED
    BY <2>1, <2>2, <2>3 DEF Write
<1>5. HeldTypeOK'
  <2>1. Seen(Desired(c)) \in Object
    BY <1>1, SeenType
  <2>2. CASE UNCHANGED held
    BY <2>2 DEF TypeOK, HeldTypeOK
  <2>3. CASE Put(c, Seen(Desired(c)))
    BY <2>1, <2>3, PutType
  <2> QED
    BY <2>2, <2>3 DEF Write, Respond
<1>6. Desired(c).rv \in Nat
  BY <1>1 DEF State
<1>7. /\ written' \in [Callers -> [Keys -> Nat]]
      /\ synced' \in [Callers -> [Keys -> BOOLEAN]]
      /\ floor' \in [Callers -> [Keys -> Nat]]
      /\ polls' \in [Callers -> Nat]
      /\ UNCHANGED <<call, calls>>
  BY <1>1, <1>6 DEF Write, TypeOK
<1> QED
  BY <1>2, <1>4, <1>5, <1>7, TypeParts

LEMMA LoseTypeStep ==
    ASSUME TypeOK, NEW c \in Callers, Lose(c)
    PROVE  TypeOK'
<1>1. ClusterTypeOK'
  BY DesiredType, CallFacts, StoreType DEF Lose, TypeOK, ClusterTypeOK
<1>2. ControlTypeOK'
  BY FailType DEF Lose, Causes
<1>3. HeldTypeOK'
  BY DEF Lose, TypeOK, HeldTypeOK
<1>4. Desired(c) \in State /\ Key(c) \in Keys
  BY DesiredType, CallFacts
<1>5. Desired(c).rv \in Nat
  BY <1>4 DEF State
<1>6. /\ written' \in [Callers -> [Keys -> Nat]]
      /\ synced' \in [Callers -> [Keys -> BOOLEAN]]
  BY <1>4, <1>5 DEF Lose, TypeOK
<1> QED
  BY <1>1, <1>2, <1>3, <1>6, TypeParts DEF Lose, TypeOK

(* The steps of a call that read or wait leave the server alone. *)
LEMMA QuietTypeStep ==
    ASSUME TypeOK, NEW c \in Callers,
           \/ ReadOriginal(c) \/ Refuse(c) \/ StartWait(c) \/ PollPass(c)
           \/ PollMiss(c) \/ Retry(c) \/ TimeOut(c) \/ GetOne(c)
           \/ Unavailable(c) \/ Save(c)
    PROVE  TypeOK'
<1> USE DEF clusterVars
<1>0. /\ call[c].val \in Vals \cup {NoVal}
      /\ idx[c] \in 1..Len(call[c].docs)
      /\ 1 \in 1..Len(call[c].docs)
      /\ view[Key(c)] \in State
  BY CallFacts
<1>1. /\ ClusterTypeOK'
      /\ UNCHANGED <<call, calls, written, synced>>
      /\ written' \in [Callers -> [Keys -> Nat]]
      /\ synced' \in [Callers -> [Keys -> BOOLEAN]]
  BY DEF TypeOK, ClusterTypeOK, ReadOriginal, Refuse, StartWait, PollPass,
         PollMiss, Retry, TimeOut, GetOne, Unavailable, Save
<1>2. floor' \in [Callers -> [Keys -> Nat]] /\ polls' \in [Callers -> Nat]
  <2>1. CASE StartWait(c)
    <3>1. \A k \in Keys : held[c][Owner(c)][k].rv \in Nat
      <4>1. Owner(c) \in {"template", "caller"}
        BY CallFacts
      <4>2. held[c][Owner(c)] \in [Keys -> Object]
        BY <4>1 DEF TypeOK
      <4> QED
        BY <4>2 DEF Object
    <3> QED
      BY <2>1, <3>1 DEF StartWait, TypeOK
  <2>2. CASE Retry(c)
    BY <2>2 DEF Retry, TypeOK
  <2>3. CASE UNCHANGED <<floor, polls>>
    BY <2>3 DEF TypeOK
  <2>4. StartWait(c) \/ Retry(c) \/ UNCHANGED <<floor, polls>>
    BY DEF ReadOriginal, Refuse, PollPass, PollMiss, TimeOut, GetOne, Unavailable, Save
  <2> QED
    BY <2>1, <2>2, <2>3, <2>4
<1>3. ControlTypeOK' /\ HeldTypeOK'
  <2>1. CASE ReadOriginal(c)
    <3>1. [Seen(view[Key(c)]) EXCEPT !.val = call[c].val] \in Object
      BY <1>0, SeenType DEF Object
    <3>2. CASE view[Key(c)].present
      BY <1>0, <1>1, <2>1, <3>1, <3>2, PutType, MoveType DEF ReadOriginal, Steps
    <3>3. CASE ~view[Key(c)].present
      <4>1. HeldTypeOK'
        BY <2>1, <3>3 DEF ReadOriginal, TypeOK, HeldTypeOK
      <4> QED
        BY <1>1, <2>1, <3>3, <4>1, FailType DEF ReadOriginal, Causes
    <3> QED
      BY <3>2, <3>3
  <2>2. CASE Refuse(c)
    <3>1. Refusal(c) \in Causes
      BY DEF Refusal, Causes
    <3>2. HeldTypeOK'
      BY <2>2 DEF Refuse, TypeOK, HeldTypeOK
    <3>3. "fault" \in Causes
      BY DEF Causes
    <3> QED
      BY <1>1, <2>2, <3>1, <3>2, <3>3, FailType DEF Refuse
  <2>3. CASE StartWait(c) \/ Retry(c)
    <3>1. HeldTypeOK'
      BY <2>3 DEF StartWait, Retry, TypeOK, HeldTypeOK
    <3> QED
      BY <1>0, <1>1, <2>3, <3>1, MoveType DEF StartWait, Retry, Steps
  <2>4. CASE PollPass(c)
    <3>1. idx[c] + 1 \in 1..Len(call[c].docs) \/ AtLast(c)
      BY CallFacts DEF AtLast
    <3>2. ControlTypeOK'
      BY <1>1, <2>4, <3>1, MoveType, FinishType DEF PollPass, Steps
    <3> QED
      BY <2>4, <3>2, ObserveType DEF PollPass
  <2>5. CASE PollMiss(c)
    <3>1. Mismatch(c) \in Causes /\ "retry" \in Steps
      BY DEF Mismatch, Causes, Steps
    <3>2. ControlTypeOK'
      BY <2>5, <3>1 DEF PollMiss, TypeOK, ControlTypeOK
    <3> QED
      BY <2>5, <3>2, ObserveType DEF PollMiss
  <2>6. CASE TimeOut(c)
    <3>1. HeldTypeOK' /\ cause[c] \in Causes
      BY <2>6 DEF TimeOut, TypeOK, HeldTypeOK
    <3> QED
      BY <1>1, <2>6, <3>1, ReturnType DEF TimeOut
  <2>7. CASE GetOne(c)
    <3>1. idx[c] + 1 \in 1..Len(call[c].docs) \/ AtLast(c)
      BY CallFacts DEF AtLast
    <3>2. ControlTypeOK'
      BY <1>1, <2>7, <3>1, MoveType, FinishType, FailType DEF GetOne, Steps, Causes
    <3> QED
      BY <2>7, <3>2, ObserveType DEF GetOne
  <2>8. CASE Unavailable(c)
    <3>1. HeldTypeOK'
      BY <2>8 DEF Unavailable, TypeOK, HeldTypeOK
    <3>2. CASE Fail(c, "fault")
      BY <1>1, <3>1, <3>2, FailType DEF Causes
    <3>3. CASE /\ pc' = [pc EXCEPT ![c] = "retry"]
               /\ cause' = [cause EXCEPT ![c] = "fault"]
               /\ UNCHANGED <<idx, result>>
      BY <1>1, <3>1, <3>3 DEF TypeOK, ControlTypeOK, Causes, Steps
    <3> QED
      BY <2>8, <3>2, <3>3 DEF Unavailable
  <2>9. CASE Save(c)
    <3> DEFINE r == call[c]
               fits == {r.docs[i] : i \in {j \in 1..Len(r.docs) :
                                              r.badSlot = 0 \/ j < r.badSlot}}
    <3>1. held' = [held EXCEPT ![c]["caller"] =
             [k \in Keys |-> IF k \in fits THEN held[c]["template"][k] ELSE @[k]]]
      BY <2>9 DEF Save
    <3>2. HeldTypeOK'
      <4>1. \A k \in Keys : held[c]["template"][k] \in Object /\ held[c]["caller"][k] \in Object
        BY DEF TypeOK
      <4> HIDE DEF fits
      <4> QED
        BY <3>1, <4>1 DEF TypeOK, HeldTypeOK
    <3>3. "none" \in Causes /\ "save" \in Causes
      BY DEF Causes
    <3> QED
      BY <1>1, <2>9, <3>2, <3>3, ReturnType DEF Save
  <2> QED
    BY <2>1, <2>2, <2>3, <2>4, <2>5, <2>6, <2>7, <2>8, <2>9
<1> QED
  BY <1>1, <1>2, <1>3, TypeParts

LEMMA TypeStep == TypeOK /\ [Next]_vars => TypeOK'
<1> SUFFICES ASSUME TypeOK, [Next]_vars PROVE TypeOK'
  OBVIOUS
<1>1. ASSUME NEW c \in Callers, Call(c) PROVE TypeOK'
  BY <1>1, CallTypeStep
<1>2. ASSUME NEW c \in Callers, Step(c) PROVE TypeOK'
  BY <1>2, WriteTypeStep, LoseTypeStep, QuietTypeStep DEF Step
<1>3. ASSUME NEW k \in Keys, World(k) PROVE TypeOK'
  <2>1. ClusterTypeOK'
    BY <1>3, WorldType DEF World, TypeOK
  <2> QED
    BY <1>3, <2>1 DEF World, SawchainVars, TypeOK
<1>4. CASE UNCHANGED vars
  BY <1>4 DEF vars, TypeOK, ClusterTypeOK
<1> QED
  BY <1>1, <1>2, <1>3, <1>4 DEF Next

(* Type correctness, for any callers, calls, resources and faults. *)
THEOREM TypeCorrect == Spec => []TypeOK
BY TypeInit, TypeStep, PTL DEF Spec
-----------------------------------------------------------------------------
(* A write extends the history of one resource at its end. *)
LEMMA CommitOrdered ==
    ASSUME ClusterTypeOK, HistoryOrdered, NEW k \in Keys, NEW s,
           Successor(k, s), Commit(k, s)
    PROVE  /\ HistoryOrdered'
           /\ revision < revision'
           /\ \A j \in Keys : server[j].rv <= server'[j].rv /\ view[j].rv <= view'[j].rv
<1>1. /\ s \in State /\ s.rv = revision + 1 /\ revision \in Nat
      /\ s.rv \in Nat /\ s.since \in Nat /\ s.present \in BOOLEAN
      /\ revision' = s.rv
  BY DEF Successor, NextRevision, ClusterTypeOK, State, Commit
<1>2. \A j \in Keys : /\ server[j] \in State /\ view[j] \in State
                      /\ pending[j] \in SUBSET State
  BY DEF ClusterTypeOK
<1>3. FirstRevision \in Nat /\ FirstRevision <= revision
  BY ClusterAssumption DEF HistoryOrdered
<1>4. ASSUME NEW j \in Keys
      PROVE  /\ Ordered(j)'
             /\ server[j].rv <= server'[j].rv /\ view[j].rv <= view'[j].rv
  <2>0. Ordered(j)
    BY DEF HistoryOrdered
  <2>1. CASE j # k
    <3>1. server'[j] = server[j] /\ view'[j] = view[j] /\ pending'[j] = pending[j]
      BY <2>1 DEF Commit, ClusterTypeOK
    <3>2. server[j].rv \in Nat /\ view[j].rv \in Nat
      BY <1>2 DEF State
    <3> QED
      BY <1>1, <2>0, <3>1, <3>2 DEF Ordered, History
  <2>2. CASE j = k
    <3>1. \A t \in History(k) : /\ t \in State /\ t.rv \in Nat /\ t.since \in Nat
                                /\ t.present \in BOOLEAN
      BY <1>2 DEF History, State
    <3>2. \A t \in History(k) :
            /\ t.since <= t.rv /\ t.rv <= server[k].rv /\ t.since <= server[k].since
            /\ t.since = server[k].since => t.present = server[k].present
            /\ t.rv < s.rv /\ t.since <= s.since
            /\ t.since = s.since => t.present = s.present
      <4>1. server[k] \in History(k)
        BY DEF History
      <4>2. server[k].since <= server[k].rv /\ server[k].rv <= revision
        BY <2>0, <2>2, <4>1 DEF Ordered
      <4>3. \A t \in History(k) :
               /\ t.since <= t.rv /\ t.rv <= server[k].rv /\ t.since <= server[k].since
               /\ t.since = server[k].since => t.present = server[k].present
        BY <2>0, <2>2, <3>1, <4>1 DEF Ordered
      <4> QED
        BY <1>1, <3>1, <4>1, <4>2, <4>3 DEF Successor, NextRevision
    <3>3. server'[k] = s
      BY DEF Commit, ClusterTypeOK
    <3>4. History(k)' \subseteq History(k) \cup {s}
      BY <3>3 DEF History, Commit, ClusterTypeOK
    <3>5. \A t \in pending'[k] : view'[k].rv < t.rv
      <4>1. CASE Cached
        <5>1. view'[k] = view[k] /\ pending'[k] = pending[k] \cup {s}
          BY <4>1 DEF Commit, ClusterTypeOK
        <5>2. view[k].rv < s.rv
          BY <3>2 DEF History
        <5> QED
          BY <2>0, <2>2, <5>1, <5>2 DEF Ordered
      <4>2. CASE ~Cached
        BY <2>0, <2>2, <4>2 DEF Ordered, Commit
      <4> QED
        BY <4>1, <4>2
    <3>6. \A t \in History(k)' :
             /\ t.since <= t.rv /\ t.rv <= s.rv
             /\ t.present => FirstRevision <= t.rv
      <4>1. s.since <= s.rv /\ FirstRevision <= s.rv
        <5>1. server[k] \in History(k)
          BY DEF History
        <5>2. server[k].since < s.rv
          BY <1>1, <3>1, <3>2, <5>1
        <5> QED
          BY <1>1, <1>3, <3>1, <5>1, <5>2 DEF Successor, NextRevision
      <4>2. \A t \in History(k) : /\ t.since <= t.rv /\ t.rv <= s.rv
                                  /\ t.present => FirstRevision <= t.rv
        BY <1>1, <2>0, <2>2, <3>1, <3>2 DEF Ordered
      <4> QED
        BY <1>1, <3>4, <4>1, <4>2
    <3>7. \A t, u \in History(k)' :
             /\ t.rv <= u.rv => t.since <= u.since
             /\ t.since = u.since => t.present = u.present
      BY <1>1, <2>0, <2>2, <3>1, <3>2, <3>4 DEF Ordered
    <3>8. ~Cached => pending'[k] = {}
      BY <2>0, <2>2 DEF Ordered, Commit
    <3>9. Ordered(k)'
      BY <1>1, <3>3, <3>5, <3>6, <3>7, <3>8 DEF Ordered
    <3>10. view[k].rv <= view'[k].rv
      <4>1. view[k] \in History(k)
        BY DEF History
      <4>2. view'[k] \in {view[k], s}
        BY DEF Commit, ClusterTypeOK
      <4> QED
        BY <1>1, <3>1, <3>2, <4>1, <4>2
    <3>11. server[k].rv <= server'[k].rv
      <4>1. server[k] \in History(k)
        BY DEF History
      <4> QED
        BY <1>1, <3>1, <3>2, <3>3, <4>1
    <3> QED
      BY <2>2, <3>9, <3>10, <3>11
  <2> QED
    BY <2>1, <2>2
<1> QED
  BY <1>1, <1>3, <1>4 DEF HistoryOrdered

(* The cache catching up shortens the history at its start. *)
LEMMA SyncOrdered ==
    ASSUME ClusterTypeOK, HistoryOrdered, NEW k \in Keys, Sync(k)
    PROVE  /\ HistoryOrdered'
           /\ \A j \in Keys : view[j].rv <= view'[j].rv
           /\ \A j \in Keys : pending'[j] \cup {view'[j]} \subseteq pending[j] \cup {view[j]}
<1>1. PICK s \in pending[k] :
        /\ view' = [view EXCEPT ![k] = s]
        /\ pending' = [pending EXCEPT ![k] = {e \in @ : e.rv > s.rv}]
        /\ UNCHANGED <<server, revision>>
  BY DEF Sync
<1>2. \A j \in Keys : /\ server[j] \in State /\ view[j] \in State
                      /\ pending[j] \in SUBSET State
  BY DEF ClusterTypeOK
<1>3. ASSUME NEW j \in Keys
      PROVE  /\ Ordered(j)' /\ view[j].rv <= view'[j].rv
             /\ pending'[j] \cup {view'[j]} \subseteq pending[j] \cup {view[j]}
  <2>0. Ordered(j)
    BY DEF HistoryOrdered
  <2>1. CASE j # k
    <3>1. server'[j] = server[j] /\ view'[j] = view[j] /\ pending'[j] = pending[j]
      BY <1>1, <2>1 DEF ClusterTypeOK
    <3>2. view[j].rv \in Nat
      BY <1>2 DEF State
    <3> QED
      BY <1>1, <2>0, <3>1, <3>2 DEF Ordered, History
  <2>2. CASE j = k
    <3>1. /\ view'[k] = s /\ server'[k] = server[k]
          /\ pending'[k] = {e \in pending[k] : e.rv > s.rv}
      BY <1>1 DEF ClusterTypeOK
    <3>2. pending'[k] \cup {view'[k]} \subseteq pending[k] \cup {view[k]}
      BY <3>1
    <3>3. History(k)' \subseteq History(k)
      BY <3>1, <3>2 DEF History
    <3>4. view[k].rv < s.rv /\ view[k].rv \in Nat /\ s.rv \in Nat
      BY <1>2, <2>0, <2>2 DEF Ordered, State
    <3>5. \A t \in pending'[k] : view'[k].rv < t.rv
      BY <1>2, <3>1, <3>4 DEF State
    <3>6. Ordered(k)'
      BY <1>1, <2>0, <2>2, <3>1, <3>3, <3>5 DEF Ordered
    <3> QED
      BY <2>2, <3>1, <3>2, <3>4, <3>6
  <2> QED
    BY <2>1, <2>2
<1> QED
  BY <1>1, <1>3 DEF HistoryOrdered
-----------------------------------------------------------------------------
(* What a step may do to the cluster: versions only grow, and what becomes *)
(* readable either was pending or is newer than everything before.         *)
Readable(k) == pending[k] \cup {view[k]}

ClusterMoves ==
    /\ HistoryOrdered'
    /\ revision <= revision'
    /\ \A k \in Keys : view[k].rv <= view'[k].rv
    /\ \A k \in Keys : \A s \in Readable(k)' : s \in Readable(k) \/ revision < s.rv

LEMMA CommitMoves ==
    ASSUME ClusterTypeOK, HistoryOrdered, NEW k \in Keys, NEW s,
           Successor(k, s), Commit(k, s)
    PROVE  ClusterMoves
<1>1. /\ HistoryOrdered' /\ revision < revision'
      /\ \A j \in Keys : view[j].rv <= view'[j].rv
  BY CommitOrdered
<1>2. revision \in Nat /\ s.rv \in Nat /\ s.rv = revision + 1 /\ revision' = s.rv
  BY DEF ClusterTypeOK, Successor, NextRevision, State, Commit
<1>3. \A j \in Keys : Readable(j)' \subseteq Readable(j) \cup {s}
  BY DEF Readable, Commit, ClusterTypeOK
<1> QED
  BY <1>1, <1>2, <1>3 DEF ClusterMoves

LEMMA StillMoves ==
    ASSUME ClusterTypeOK, HistoryOrdered, UNCHANGED <<server, view, pending, revision>>
    PROVE  ClusterMoves
<1>1. \A k \in Keys : view[k].rv \in Nat
  BY DEF ClusterTypeOK, State
<1> QED
  BY <1>1 DEF ClusterMoves, HistoryOrdered, Ordered, History, Readable, ClusterTypeOK

LEMMA StoreMoves ==
    ASSUME TypeOK, HistoryOrdered, NEW c \in Callers, Store(Key(c), Desired(c))
    PROVE  ClusterMoves
<1>1. ClusterTypeOK /\ Key(c) \in Keys /\ InHand(c) \in Object
  BY CallFacts DEF TypeOK
<1>2. InHand(c).val \in Vals \cup {NoVal} /\ InHand(c).other \in Nat
  BY <1>1 DEF Object
<1>3. Desired(c) = server[Key(c)] \/ Successor(Key(c), Desired(c))
  BY <1>1, <1>2, SuccessorStates DEF Desired
<1>4. CASE Desired(c) = server[Key(c)]
  BY <1>1, <1>4, StillMoves DEF Store
<1>5. CASE Desired(c) # server[Key(c)]
  BY <1>1, <1>3, <1>5, CommitMoves DEF Store
<1> QED
  BY <1>4, <1>5

LEMMA WorldMoves ==
    ASSUME ClusterTypeOK, HistoryOrdered, NEW k \in Keys, Sync(k) \/ Environment(k)
    PROVE  ClusterMoves
<1>1. CASE Sync(k)
  <2>1. revision' = revision /\ revision \in Nat
    BY <1>1 DEF Sync, ClusterTypeOK
  <2> QED
    BY <1>1, <2>1, SyncOrdered DEF ClusterMoves, Readable
<1>2. CASE Environment(k)
  <2>0. /\ server[k].val \in Vals \cup {NoVal} /\ server[k].other \in Nat
        /\ server[k].other + 1 \in Nat /\ server[k].other # server[k].other + 1
    BY DEF ClusterTypeOK, State
  <2>1. CASE OtherCreate(k)
    BY <2>0, <2>1, SuccessorStates, CommitMoves DEF OtherCreate
  <2>2. CASE OtherUpdate(k)
    BY <2>0, <2>2, SuccessorStates, CommitMoves DEF OtherUpdate
  <2>3. CASE OtherDelete(k)
    BY <2>0, <2>3, SuccessorStates, CommitMoves DEF OtherDelete
  <2>4. CASE FinalizerDone(k)
    BY <2>0, <2>4, SuccessorStates, CommitMoves DEF FinalizerDone
  <2> QED
    BY <1>2, <2>1, <2>2, <2>3, <2>4 DEF Environment
<1> QED
  BY <1>1, <1>2

(* Versions that are compared correctly now were before. *)
LEMMA OrderAgreedBefore ==
    ASSUME revision \in Nat, revision' \in Nat, revision <= revision',
           OrderAgrees(FirstRevision, revision)'
    PROVE  OrderAgrees(FirstRevision, revision)
<1>1. FirstRevision \in Nat
  BY ClusterAssumption
<1>2. FirstRevision..revision \subseteq FirstRevision..revision'
  BY <1>1
<1> QED
  BY <1>2 DEF OrderAgrees

(* What was recorded of a caller's writes survives every step that does    *)
(* not record another one.                                                 *)
LEMMA SyncedKept ==
    ASSUME TypeOK, TypeOK', ClusterMoves, NEW c \in Callers, SyncedBefore(c),
           \A k \in Keys : written[c][k] <= revision,
           call'[c].verb = call[c].verb,
           written'[c] = written[c], synced'[c] = synced[c]
    PROVE  SyncedBefore(c)' /\ \A k \in Keys : written'[c][k] <= revision'
<1>1. revision \in Nat /\ revision' \in Nat /\ \A k \in Keys : written[c][k] \in Nat
  BY DEF TypeOK, ClusterTypeOK
<1>2. \A k \in Keys : \A s \in Readable(k)' : s.rv \in Nat
  <2>1. \A k \in Keys : \A s \in Readable(k)' : s \in State
    BY DEF TypeOK, ClusterTypeOK, Readable
  <2> QED
    BY <2>1 DEF State
<1>3. SyncedBefore(c)'
  <2> SUFFICES ASSUME NEW k \in Keys, synced[c][k], call[c].verb \in {"create", "delete"},
                      NEW s \in Readable(k)', s.rv < written[c][k]
               PROVE  s.present = (call[c].verb = "delete")
    BY DEF SyncedBefore, Readable
  <2>1. s \in Readable(k)
    BY <1>1, <1>2 DEF ClusterMoves
  <2> QED
    BY <2>1 DEF SyncedBefore, Readable
<1> QED
  BY <1>1, <1>3 DEF ClusterMoves

(* What the cache reflects it keeps reflecting. *)
LEMMA ReflectedKept ==
    ASSUME TypeOK, TypeOK', ClusterMoves, NEW c \in Callers, NEW k \in Keys,
           Reflected(c, k), written'[c] = written[c]
    PROVE  Reflected(c, k)'
<1>1. view[k].rv \in Nat /\ view'[k].rv \in Nat /\ written[c][k] \in Nat
  <2>1. view[k] \in State /\ view'[k] \in State
    BY DEF TypeOK, ClusterTypeOK
  <2> QED
    BY <2>1 DEF State, TypeOK
<1> QED
  BY <1>1 DEF Reflected, ClusterMoves

(* A caller that does not move keeps its invariant while the rest does. *)
UnmovedCaller(c) ==
    /\ pc'[c] = pc[c] /\ call'[c] = call[c] /\ idx'[c] = idx[c]
    /\ held'[c] = held[c] /\ floor'[c] = floor[c]
    /\ result'[c] = result[c] /\ cause'[c] = cause[c]
    /\ written'[c] = written[c] /\ synced'[c] = synced[c]

LEMMA CallerKept ==
    ASSUME TypeOK, TypeOK', ClusterMoves, NEW c \in Callers, CallerInv(c), UnmovedCaller(c)
    PROVE  /\ CallerInv(c)'
           /\ PassedReflected(c) => PassedReflected(c)'
<1> USE DEF UnmovedCaller
<1>1. \A k \in Keys : written[c][k] <= revision
  BY DEF CallerInv, WritesRecorded
<1>2. SyncedBefore(c)' /\ \A k \in Keys : written'[c][k] <= revision'
  BY <1>1, SyncedKept DEF CallerInv
<1>3. ControlOK(c)' /\ FloorIsWritten(c)'
  BY DEF CallerInv, ControlOK, FloorIsWritten, DocKeys
<1>4. WritesRecorded(c)'
  BY <1>2 DEF CallerInv, WritesRecorded, IsWritten, Owner
<1>5. ASSUME PassedReflected(c) PROVE PassedReflected(c)'
  <2> SUFFICES ASSUME call[c].wait, call[c].verb \in WriteVerbs,
                      NEW j \in 1..Len(call[c].docs), Passed(c, j)',
                      call[c].verb = "update" \/ synced[c][call[c].docs[j]]
               PROVE  Reflected(c, call[c].docs[j])'
    BY DEF PassedReflected
  <2>1. Passed(c, j) /\ call[c].docs[j] \in Keys
    BY CallFacts DEF Passed
  <2>2. Reflected(c, call[c].docs[j])
    BY <1>5, <2>1 DEF PassedReflected
  <2> QED
    BY <2>1, <2>2, ReflectedKept
<1> QED
  BY <1>2, <1>3, <1>4, <1>5 DEF CallerInv
-----------------------------------------------------------------------------
(* The steps of the caller itself.  What each of them establishes: *)
CallerHolds(c) ==
    /\ CallerInv(c)'
    /\ Comparable(c) /\ PassedReflected(c) => PassedReflected(c)'

SameWrites(c) ==
    call'[c] = call[c] /\ written'[c] = written[c] /\ synced'[c] = synced[c]

(* A call that ends without success owes nothing. *)
LEMMA StoppedHolds ==
    ASSUME TypeOK, TypeOK', ClusterMoves, NEW c \in Callers, CallerInv(c),
           SameWrites(c), pc'[c] = "idle", result'[c] \in {"err", "fail"}
    PROVE  CallerHolds(c)
<1>1. SyncedBefore(c)' /\ \A k \in Keys : written'[c][k] <= revision'
  BY SyncedKept DEF CallerInv, WritesRecorded, SameWrites
<1>2. ControlOK(c)' /\ FloorIsWritten(c)' /\ PassedReflected(c)'
  BY DEF ControlOK, FloorIsWritten, PassedReflected, Passed
<1>3. WritesRecorded(c)'
  BY <1>1 DEF WritesRecorded, IsWritten
<1> QED
  BY <1>1, <1>2, <1>3 DEF CallerHolds, CallerInv

LEMMA FailStops ==
    ASSUME TypeOK, NEW c \in Callers, NEW w, Fail(c, w)
    PROVE  pc'[c] = "idle" /\ result'[c] \in {"err", "fail"}
BY DEF Fail, Return, TypeOK

(* A running call that neither writes nor stops: its history is carried    *)
(* along, and the rest is in the control, the floor and the objects.       *)
LEMMA RunningHolds ==
    ASSUME TypeOK, TypeOK', ClusterMoves, NEW c \in Callers, CallerInv(c), SameWrites(c),
           ControlOK(c)', FloorIsWritten(c)',
           call[c].verb \in WriteVerbs =>
              \A j \in 1..Len(call[c].docs) : IsWritten(c, j)' =>
                 /\ IsWritten(c, j)
                 /\ call[c].verb = "update" /\ pc'[c] \in {"read", "write", "await"} =>
                       /\ pc[c] \in {"read", "write", "await"}
                       /\ held'[c][Owner(c)][call[c].docs[j]].rv
                            = held[c][Owner(c)][call[c].docs[j]].rv
    PROVE  CallerInv(c)'
<1>1. SyncedBefore(c)' /\ \A k \in Keys : written'[c][k] <= revision'
  BY SyncedKept DEF CallerInv, WritesRecorded, SameWrites
<1>2. WritesRecorded(c)'
  BY <1>1 DEF CallerInv, WritesRecorded, SameWrites, Owner
<1> QED
  BY <1>1, <1>2 DEF CallerInv

(* The documents a poll passes anew are reflected. *)
LEMMA PassedHolds ==
    ASSUME TypeOK, TypeOK', ClusterMoves, NEW c \in Callers, SameWrites(c),
           PassedReflected(c),
           call[c].wait /\ call[c].verb \in WriteVerbs =>
              \A j \in 1..Len(call[c].docs) : Passed(c, j)' =>
                 \/ Passed(c, j)
                 \/ LET k == call[c].docs[j]
                    IN  call[c].verb = "update" \/ synced[c][k] => Reflected(c, k)
    PROVE  PassedReflected(c)'
<1> SUFFICES ASSUME call[c].wait, call[c].verb \in WriteVerbs,
                    NEW j \in 1..Len(call[c].docs), Passed(c, j)',
                    call[c].verb = "update" \/ synced[c][call[c].docs[j]]
             PROVE  Reflected(c, call[c].docs[j])'
  BY DEF PassedReflected, SameWrites
<1>1. call[c].docs[j] \in Keys
  BY CallFacts
<1>2. Reflected(c, call[c].docs[j])
  BY DEF PassedReflected
<1> QED
  BY <1>1, <1>2, ReflectedKept DEF SameWrites

LEMMA CallHolds ==
    ASSUME TypeOK, TypeOK', ClusterMoves, NEW c \in Callers, CallerInv(c), Call(c)
    PROVE  CallerHolds(c)
<1>1. PICK r \in Requests[c] : call' = [call EXCEPT ![c] = r]
                               /\ pc' = [pc EXCEPT ![c] = FirstStep(r)]
  BY DEF Call
<1>2. /\ call'[c] = r /\ pc'[c] = FirstStep(r) /\ idx'[c] = 1 /\ result'[c] = "none"
      /\ written'[c] = [k \in Keys |-> 0] /\ synced'[c] = [k \in Keys |-> FALSE]
  BY <1>1 DEF Call, TypeOK
<1>3. r.verb \in Verbs
  BY RequestsAreRequests DEF Request
<1>4. ControlOK(c)'
  BY <1>2, <1>3 DEF ControlOK, FirstStep, WriteVerbs, Verbs
<1>5. pc'[c] \in {"read", "write", "get"}
  BY <1>2 DEF FirstStep
<1>6. FloorIsWritten(c)' /\ PassedReflected(c)'
  BY <1>2, <1>5 DEF FloorIsWritten, PassedReflected, Passed
<1>7. SyncedBefore(c)'
  BY <1>2 DEF SyncedBefore
<1>8. WritesRecorded(c)'
  <2>1. revision' \in Nat
    BY DEF TypeOK, ClusterTypeOK
  <2>2. \A k \in Keys : written'[c][k] <= revision'
    BY <1>2, <2>1
  <2>3. \A j \in 1..Len(r.docs) : ~IsWritten(c, j)'
    BY <1>2, <1>5 DEF IsWritten
  <2> QED
    BY <1>2, <2>2, <2>3 DEF WritesRecorded
<1> QED
  BY <1>4, <1>6, <1>7, <1>8 DEF CallerHolds, CallerInv

(* Distinct documents: the one at hand is none of the others. *)
LEMMA DistinctDocs ==
    ASSUME TypeOK, NEW c \in Callers, NEW j \in 1..Len(call[c].docs), j # idx[c]
    PROVE  call[c].docs[j] # Key(c) /\ call[c].docs[j] \in Keys
BY CallFacts, RequestsAreRequests DEF Key

LEMMA PutElsewhere ==
    ASSUME TypeOK, NEW c \in Callers, NEW x, Put(c, x),
           NEW j \in 1..Len(call[c].docs), j # idx[c]
    PROVE  held'[c][Owner(c)][call[c].docs[j]] = held[c][Owner(c)][call[c].docs[j]]
<1>1. call[c].docs[j] # Key(c) /\ call[c].docs[j] \in Keys
  BY DistinctDocs
<1>2. Owner(c) \in {"template", "caller"} /\ Key(c) \in Keys
  BY CallFacts
<1> QED
  BY <1>1, <1>2 DEF Put, TypeOK

LEMMA ReadOriginalHolds ==
    ASSUME TypeOK, TypeOK', ClusterMoves, NEW c \in Callers, CallerInv(c), ReadOriginal(c)
    PROVE  CallerHolds(c)
<1>1. SameWrites(c)
  BY DEF ReadOriginal, SameWrites
<1>2. CASE Fail(c, "notfound")
  BY <1>1, <1>2, FailStops, StoppedHolds
<1>3. CASE /\ Put(c, [Seen(view[Key(c)]) EXCEPT !.val = call[c].val])
           /\ Move(c, "write", idx[c])
  <2>1. /\ pc[c] = "read" /\ pc'[c] = "write" /\ idx'[c] = idx[c]
        /\ result'[c] = result[c] /\ idx[c] \in 1..Len(call[c].docs)
    BY <1>3 DEF ReadOriginal, Move, TypeOK
  <2>2. result[c] = "none" /\ call[c].verb = "update"
    BY <2>1 DEF CallerInv, ControlOK
  <2>3. ControlOK(c)' /\ FloorIsWritten(c)'
    BY <1>1, <2>1, <2>2 DEF ControlOK, FloorIsWritten, SameWrites, WriteVerbs
  <2>4. \A j \in 1..Len(call[c].docs) : IsWritten(c, j)' =>
           /\ IsWritten(c, j)
           /\ held'[c][Owner(c)][call[c].docs[j]].rv
                = held[c][Owner(c)][call[c].docs[j]].rv
    BY <1>3, <2>1, <2>2, PutElsewhere DEF IsWritten
  <2>5. CallerInv(c)'
    BY <1>1, <2>1, <2>3, <2>4, RunningHolds
  <2>6. PassedReflected(c)'
    BY <2>1, <2>2 DEF PassedReflected, Passed
  <2> QED
    BY <2>5, <2>6 DEF CallerHolds
<1> QED
  BY <1>2, <1>3 DEF ReadOriginal

(* Steps that end a call with an error and write nothing. *)
LEMMA EndingsHold ==
    ASSUME TypeOK, TypeOK', ClusterMoves, NEW c \in Callers, CallerInv(c),
           Refuse(c) \/ TimeOut(c)
    PROVE  CallerHolds(c)
<1>1. SameWrites(c)
  BY DEF Refuse, TimeOut, SameWrites
<1>2. CASE Refuse(c)
  BY <1>1, <1>2, FailStops, StoppedHolds DEF Refuse
<1>3. CASE TimeOut(c)
  <2>1. pc'[c] = "idle" /\ result'[c] = "fail"
    BY <1>3 DEF TimeOut, Return, TypeOK
  <2> QED
    BY <1>1, <2>1, StoppedHolds
<1> QED
  BY <1>2, <1>3
(* A write finds the cache either synced, and then whatever it still may   *)
(* show of before has the presence the server had, or not.                 *)
LEMMA WriteSynced ==
    ASSUME TypeOK, TypeOK', HistoryOrdered, ClusterMoves, NEW c \in Callers,
           CallerInv(c), Write(c) \/ Lose(c)
    PROVE  SyncedBefore(c)' /\ \A k \in Keys : written'[c][k] <= revision'
<1> DEFINE q == Key(c)
<1>0. /\ q \in Keys /\ Desired(c) \in State /\ server[q] \in State
      /\ \A k \in Keys : /\ view[k] \in State /\ pending[k] \in SUBSET State
                         /\ written[c][k] \in Nat
      /\ revision \in Nat /\ revision' \in Nat
  BY CallFacts, DesiredType DEF TypeOK, ClusterTypeOK
<1>1. /\ written'[c] = [written[c] EXCEPT ![q] = Desired(c).rv]
      /\ synced'[c] = [synced[c] EXCEPT ![q] = view[q].since = server[q].since]
      /\ call'[c] = call[c]
  BY DEF Write, Lose, TypeOK
<1>2. Desired(c).rv <= revision'
  <2>1. server'[q].rv <= revision'
    BY <1>0 DEF ClusterMoves, HistoryOrdered, Ordered
  <2>2. server'[q] = Desired(c)
    BY <1>0 DEF Write, Lose, Store, Commit, TypeOK, ClusterTypeOK
  <2> QED
    BY <2>1, <2>2
<1>3. \A k \in Keys : written'[c][k] <= revision'
  <2>1. \A k \in Keys : written[c][k] <= revision /\ revision <= revision'
    BY DEF CallerInv, WritesRecorded, ClusterMoves
  <2>2. \A k \in Keys : written'[c][k] \in {written[c][k], Desired(c).rv}
    BY <1>0, <1>1 DEF TypeOK
  <2> QED
    BY <1>0, <1>2, <2>1, <2>2
<1>4. ASSUME NEW k \in Keys, synced'[c][k], call[c].verb \in {"create", "delete"},
             NEW s \in Readable(k)', s.rv < written'[c][k]
      PROVE  s.present = (call[c].verb = "delete")
  <2>0. s \in State /\ s.rv \in Nat
    <3>1. s \in State
      BY DEF Readable, TypeOK, ClusterTypeOK
    <3> QED
      BY <3>1 DEF State
  <2>1. CASE k # q
    <3>1. written'[c][k] = written[c][k] /\ synced[c][k]
      BY <1>1, <1>4, <2>1 DEF TypeOK
    <3>2. written[c][k] <= revision
      BY DEF CallerInv, WritesRecorded
    <3>3. s \in Readable(k)
      BY <1>0, <1>4, <2>0, <3>1, <3>2 DEF ClusterMoves
    <3> QED
      BY <1>4, <3>1, <3>3 DEF CallerInv, SyncedBefore, Readable
  <2>2. CASE k = q
    <3>1. s.rv < Desired(c).rv /\ view[q].since = server[q].since
      BY <1>0, <1>1, <1>4, <2>2 DEF TypeOK
    <3>2. s \in Readable(q)
      <4>1. pending'[q] \cup {view'[q]} \subseteq Readable(q) \cup {Desired(c)}
        <5>1. CASE UNCHANGED <<view, pending>>
          BY <5>1 DEF Readable
        <5>2. CASE Commit(q, Desired(c))
          BY <1>0, <5>2 DEF Commit, Readable, TypeOK, ClusterTypeOK
        <5> QED
          BY <5>1, <5>2 DEF Write, Lose, Store
      <4>2. s \in pending'[q] \cup {view'[q]}
        BY <1>4, <2>2 DEF Readable
      <4>3. s # Desired(c)
        BY <1>0, <2>0, <3>1
      <4> QED
        BY <4>1, <4>2, <4>3
    <3>3. /\ s \in History(q) /\ view[q] \in History(q) /\ server[q] \in History(q)
      BY <3>2 DEF Readable, History
    <3>4. view[q].rv <= s.rv /\ s.rv <= server[q].rv
      BY <1>0, <2>0, <3>2, <3>3 DEF HistoryOrdered, Ordered, Readable, State
    <3>5. s.since = server[q].since
      <4>1. view[q].since <= s.since /\ s.since <= server[q].since
        BY <1>0, <3>3, <3>4 DEF HistoryOrdered, Ordered
      <4> QED
        BY <1>0, <2>0, <3>1, <4>1 DEF State
    <3>6. s.present = server[q].present
      BY <1>0, <3>3, <3>5 DEF HistoryOrdered, Ordered
    <3>7. Refusal(c) = "none"
      BY DEF Write, Lose
    <3>8. server[q].present = (call[c].verb = "delete")
      BY <1>0, <1>4, <3>7 DEF Refusal, State
    <3> QED
      BY <3>6, <3>8
  <2> QED
    BY <2>1, <2>2
<1> QED
  BY <1>1, <1>3, <1>4 DEF SyncedBefore, Readable

(* The version a write leaves is one of a present resource, or a new one. *)
LEMMA DesiredNotOld ==
    ASSUME TypeOK, HistoryOrdered, NEW c \in Callers, Write(c) \/ Lose(c)
    PROVE  FirstRevision <= Desired(c).rv
<1>1. /\ Key(c) \in Keys /\ server[Key(c)] \in State /\ InHand(c) \in Object
      /\ revision \in Nat /\ ClusterTypeOK
  BY CallFacts DEF TypeOK, ClusterTypeOK
<1>2. FirstRevision \in Nat /\ FirstRevision <= revision
  BY ClusterAssumption DEF HistoryOrdered
<1>3. InHand(c).val \in Vals \cup {NoVal} /\ InHand(c).other \in Nat
  BY <1>1 DEF Object
<1>4. CASE Desired(c) = server[Key(c)] /\ server[Key(c)].present
  BY <1>1, <1>4 DEF HistoryOrdered, Ordered, History
<1>5. CASE Successor(Key(c), Desired(c))
  BY <1>1, <1>2, <1>5 DEF Successor, NextRevision
<1>6. Desired(c) = server[Key(c)] => server[Key(c)].present
  <2>1. CASE call[c].verb = "create"
    BY <1>1, <2>1 DEF Desired, Created, Fresh
  <2>2. CASE call[c].verb # "create"
    <3>1. Refusal(c) = "none"
      BY DEF Write, Lose
    <3> QED
      BY <2>2, <3>1 DEF Refusal
  <2> QED
    BY <2>1, <2>2
<1>7. Desired(c) = server[Key(c)] \/ Successor(Key(c), Desired(c))
  BY <1>1, <1>3, SuccessorStates DEF Desired
<1> QED
  BY <1>4, <1>5, <1>6, <1>7

(* A write whose answer is lost is recorded, and ends the call. *)
LEMMA LoseHolds ==
    ASSUME TypeOK, TypeOK', HistoryOrdered, ClusterMoves, NEW c \in Callers,
           CallerInv(c), Lose(c)
    PROVE  CallerHolds(c)
<1>1. SyncedBefore(c)' /\ \A k \in Keys : written'[c][k] <= revision'
  BY WriteSynced
<1>2. pc'[c] = "idle" /\ result'[c] \in {"err", "fail"}
  BY FailStops DEF Lose
<1>3. ControlOK(c)' /\ FloorIsWritten(c)' /\ PassedReflected(c)'
  BY <1>2 DEF ControlOK, FloorIsWritten, PassedReflected, Passed
<1>4. WritesRecorded(c)'
  BY <1>1, <1>2 DEF WritesRecorded, IsWritten
<1> QED
  BY <1>1, <1>3, <1>4 DEF CallerHolds, CallerInv

LEMMA WriteHolds ==
    ASSUME TypeOK, TypeOK', HistoryOrdered, ClusterMoves, NEW c \in Callers,
           CallerInv(c), Write(c)
    PROVE  CallerHolds(c)
<1>1. SyncedBefore(c)' /\ \A k \in Keys : written'[c][k] <= revision'
  BY WriteSynced
<1>2. /\ pc[c] = "write" /\ call'[c] = call[c] /\ result[c] = "none"
      /\ call[c].verb \in WriteVerbs
      /\ written'[c] = [written[c] EXCEPT ![Key(c)] = Desired(c).rv]
      /\ idx[c] \in 1..Len(call[c].docs) /\ Len(call[c].docs) \in Nat
      /\ Key(c) \in Keys
  BY CallFacts DEF Write, CallerInv, ControlOK, TypeOK
<1>3. \/ /\ ~AtLast(c) /\ pc'[c] = FirstStep(call[c]) /\ idx'[c] = idx[c] + 1
         /\ result'[c] = "none"
      \/ AtLast(c) /\ call[c].wait /\ pc'[c] = "await" /\ result'[c] = "none"
      \/ AtLast(c) /\ ~call[c].wait /\ pc'[c] = "save" /\ result'[c] = "none"
      \/ AtLast(c) /\ ~call[c].wait /\ pc'[c] = "idle" /\ result'[c] = "ok"
  <2>1. CASE ~AtLast(c) /\ Move(c, FirstStep(call[c]), idx[c] + 1)
    BY <1>2, <2>1 DEF Move, TypeOK
  <2>2. CASE AtLast(c) /\ call[c].wait /\ Move(c, "await", idx[c])
    BY <1>2, <2>2 DEF Move, TypeOK
  <2>3. CASE AtLast(c) /\ ~call[c].wait /\ Move(c, "save", idx[c])
    BY <1>2, <2>3 DEF Move, TypeOK
  <2>4. CASE AtLast(c) /\ ~call[c].wait /\ Return(c, "ok", "none")
    BY <1>2, <2>4 DEF Return, TypeOK
  <2> QED
    BY <2>1, <2>2, <2>3, <2>4 DEF Write, Finish
<1>4. FirstStep(call[c]) \in {"read", "write"}
      /\ (FirstStep(call[c]) = "read" => call[c].verb = "update" /\ call[c].template)
  BY <1>2 DEF FirstStep, WriteVerbs
<1>5. ControlOK(c)' /\ FloorIsWritten(c)'
  BY <1>2, <1>3, <1>4 DEF ControlOK, FloorIsWritten
<1>6. PassedReflected(c)'
  BY <1>2, <1>3, <1>4 DEF PassedReflected, Passed
<1>7. \A j \in 1..Len(call[c].docs) : IsWritten(c, j)' => j < idx[c] \/ j = idx[c]
  BY <1>2, <1>3, <1>4 DEF IsWritten, AtLast
<1>8. ASSUME NEW j \in 1..Len(call[c].docs), IsWritten(c, j)'
      PROVE  LET k == call[c].docs[j]
             IN  /\ FirstRevision <= written'[c][k]
                 /\ call[c].verb = "update" => held'[c][Owner(c)][k].rv = written'[c][k]
  <2>1. CASE j = idx[c]
    <3>1. call[c].docs[j] = Key(c)
      BY <2>1 DEF Key
    <3>2. written'[c][Key(c)] = Desired(c).rv
      BY <1>2 DEF TypeOK
    <3>3. FirstRevision <= Desired(c).rv
      BY DesiredNotOld
    <3>4. call[c].verb = "update" => held'[c][Owner(c)][Key(c)].rv = Desired(c).rv
      <4> SUFFICES ASSUME call[c].verb = "update"
                   PROVE  held'[c][Owner(c)][Key(c)].rv = Desired(c).rv
        OBVIOUS
      <4>1. Put(c, Seen(Desired(c)))
        BY DEF Write, Respond
      <4>2. Owner(c) \in {"template", "caller"}
        BY CallFacts
      <4>3. held'[c][Owner(c)][Key(c)] = Seen(Desired(c))
        BY <1>2, <4>1, <4>2 DEF Put, TypeOK
      <4> QED
        BY <4>3 DEF Seen
    <3> QED
      BY <3>1, <3>2, <3>3, <3>4
  <2>2. CASE j # idx[c]
    <3>1. IsWritten(c, j)
      BY <1>2, <1>7, <1>8, <2>2 DEF IsWritten
    <3>2. call[c].docs[j] # Key(c) /\ call[c].docs[j] \in Keys
      BY <2>2, DistinctDocs
    <3>3. written'[c][call[c].docs[j]] = written[c][call[c].docs[j]]
      BY <1>2, <3>2 DEF TypeOK
    <3>4. held'[c][Owner(c)][call[c].docs[j]] = held[c][Owner(c)][call[c].docs[j]]
      <4>1. CASE UNCHANGED held
        BY <4>1
      <4>2. CASE Put(c, Seen(Desired(c)))
        BY <2>2, <4>2, PutElsewhere
      <4> QED
        BY <4>1, <4>2 DEF Write, Respond
    <3> QED
      BY <1>2, <3>1, <3>3, <3>4 DEF CallerInv, WritesRecorded
  <2> QED
    BY <2>1, <2>2
<1>9. WritesRecorded(c)'
  BY <1>1, <1>2, <1>8 DEF WritesRecorded, Owner
<1> QED
  BY <1>1, <1>5, <1>6, <1>9 DEF CallerHolds, CallerInv
LEMMA StartWaitHolds ==
    ASSUME TypeOK, TypeOK', ClusterMoves, NEW c \in Callers, CallerInv(c), StartWait(c)
    PROVE  CallerHolds(c)
<1>1. /\ SameWrites(c) /\ pc[c] = "await" /\ pc'[c] = "poll" /\ idx'[c] = 1
      /\ result'[c] = result[c] /\ result[c] = "none"
      /\ call[c].wait /\ call[c].verb \in WriteVerbs
  BY DEF StartWait, Move, SameWrites, TypeOK, CallerInv, ControlOK
<1>2. ControlOK(c)'
  BY <1>1 DEF ControlOK, SameWrites
<1>3. FloorIsWritten(c)'
  <2> SUFFICES ASSUME call[c].verb = "update", NEW k \in DocKeys(call[c])
               PROVE  floor'[c][k] = written[c][k]
    BY <1>1 DEF FloorIsWritten, SameWrites
  <2>1. PICK j \in 1..Len(call[c].docs) : k = call[c].docs[j]
    BY DEF DocKeys
  <2>2. k \in Keys
    BY CallFacts
  <2>3. floor'[c][k] = held[c][Owner(c)][k].rv
    BY <2>2 DEF StartWait, TypeOK
  <2>4. held[c][Owner(c)][k].rv = written[c][k]
    BY <1>1, <2>1 DEF CallerInv, WritesRecorded, IsWritten
  <2> QED
    BY <2>3, <2>4
<1>4. CallerInv(c)'
  BY <1>1, <1>2, <1>3, RunningHolds DEF IsWritten
<1>5. PassedReflected(c)'
  BY <1>1 DEF PassedReflected, Passed
<1> QED
  BY <1>4, <1>5 DEF CallerHolds

(* A document that passes its poll is reflected, provided the order of the *)
(* texts is that of the versions, and the cache was synced when it counts. *)
LEMMA MatchIsReflected ==
    ASSUME TypeOK, HistoryOrdered, NEW c \in Callers, Comparable(c),
           CallerInv(c), pc[c] = "poll", Mismatch(c) = "none",
           call[c].verb = "update" \/ synced[c][Key(c)]
    PROVE  Reflected(c, Key(c))
<1> DEFINE k == Key(c)
<1>1. /\ k \in Keys /\ k \in DocKeys(call[c]) /\ view[k] \in State
      /\ idx[c] \in 1..Len(call[c].docs) /\ k = call[c].docs[idx[c]]
  BY CallFacts DEF Key
<1>2. /\ view[k].rv \in Nat /\ written[c][k] \in Nat /\ revision \in Nat
      /\ server[k].rv \in Nat /\ view[k].present \in BOOLEAN
  <2>1. server[k] \in State
    BY <1>1 DEF TypeOK, ClusterTypeOK
  <2> QED
    BY <1>1, <2>1 DEF State, TypeOK, ClusterTypeOK
<1>3. call[c].verb \in WriteVerbs
  BY DEF CallerInv, ControlOK
<1>4. CASE call[c].verb = "update"
  <2>1. view[k].present /\ ~RvLess(view[k].rv, floor[c][k])
    BY <1>4 DEF Mismatch
  <2>2. floor[c][k] = written[c][k]
    BY <1>1, <1>4 DEF CallerInv, FloorIsWritten
  <2>3. FirstRevision <= written[c][k] /\ written[c][k] <= revision
    BY <1>1, <1>3 DEF CallerInv, WritesRecorded, IsWritten
  <2>4. FirstRevision <= view[k].rv /\ view[k].rv <= server[k].rv /\ server[k].rv <= revision
    BY <1>1, <2>1 DEF HistoryOrdered, Ordered, History
  <2>5. FirstRevision \in Nat
    BY ClusterAssumption
  <2>6. view[k].rv \in FirstRevision..revision /\ written[c][k] \in FirstRevision..revision
    BY <1>2, <2>3, <2>4, <2>5
  <2>7. ~(view[k].rv < written[c][k])
    BY <1>4, <2>1, <2>2, <2>6 DEF Comparable, OrderAgrees
  <2> QED
    BY <1>2, <2>7 DEF Reflected
<1>5. CASE call[c].verb # "update"
  <2>1. view[k].present = (call[c].verb # "delete")
    BY <1>2, <1>5 DEF Mismatch
  <2>2. view[k].rv < written[c][k] => view[k].present = (call[c].verb = "delete")
    BY <1>1, <1>3, <1>5 DEF CallerInv, SyncedBefore, WriteVerbs
  <2>3. ~(view[k].rv < written[c][k])
    BY <1>2, <2>1, <2>2
  <2> QED
    BY <1>2, <2>3 DEF Reflected
<1> QED
  BY <1>4, <1>5

LEMMA PollPassHolds ==
    ASSUME TypeOK, TypeOK', HistoryOrdered, ClusterMoves, NEW c \in Callers,
           CallerInv(c), PollPass(c)
    PROVE  CallerHolds(c)
<1>1. /\ SameWrites(c) /\ pc[c] = "poll" /\ result[c] = "none" /\ call[c].wait
      /\ call[c].verb \in WriteVerbs /\ floor'[c] = floor[c]
      /\ idx[c] \in 1..Len(call[c].docs) /\ Len(call[c].docs) \in Nat
  BY CallFacts DEF PollPass, SameWrites, CallerInv, ControlOK
<1>2. \/ ~AtLast(c) /\ pc'[c] = "poll" /\ idx'[c] = idx[c] + 1 /\ result'[c] = "none"
      \/ AtLast(c) /\ pc'[c] = "save" /\ result'[c] = "none"
      \/ AtLast(c) /\ pc'[c] = "idle" /\ result'[c] = "ok"
  <2>1. CASE ~AtLast(c) /\ Move(c, "poll", idx[c] + 1)
    BY <1>1, <2>1 DEF Move, TypeOK
  <2>2. CASE AtLast(c) /\ Move(c, "save", idx[c])
    BY <1>1, <2>2 DEF Move, TypeOK
  <2>3. CASE AtLast(c) /\ Return(c, "ok", "none")
    BY <1>1, <2>3 DEF Return, TypeOK
  <2> QED
    BY <2>1, <2>2, <2>3 DEF PollPass, Finish
<1>3. ControlOK(c)' /\ FloorIsWritten(c)'
  BY <1>1, <1>2 DEF ControlOK, FloorIsWritten, SameWrites, CallerInv
<1>4. CallerInv(c)'
  BY <1>1, <1>2, <1>3, RunningHolds DEF IsWritten
<1>5. ASSUME Comparable(c), PassedReflected(c)
      PROVE  PassedReflected(c)'
  <2>1. \A j \in 1..Len(call[c].docs) : Passed(c, j)' => Passed(c, j) \/ j = idx[c]
    BY <1>1, <1>2 DEF Passed, AtLast
  <2>2. call[c].verb = "update" \/ synced[c][Key(c)] => Reflected(c, Key(c))
    BY <1>1, <1>5, MatchIsReflected DEF PollPass
  <2> QED
    BY <1>1, <1>5, <2>1, <2>2, PassedHolds DEF Key
<1> QED
  BY <1>4, <1>5 DEF CallerHolds

(* The steps that only move a call on. *)
LEMMA MovingHolds ==
    ASSUME TypeOK, TypeOK', ClusterMoves, NEW c \in Callers, CallerInv(c),
           PollMiss(c) \/ Retry(c) \/ Unavailable(c)
    PROVE  CallerHolds(c)
<1>1. SameWrites(c) /\ floor'[c] = floor[c]
  BY DEF PollMiss, Retry, Unavailable, SameWrites
<1>2. CASE Unavailable(c) /\ Fail(c, "fault")
  BY <1>1, <1>2, FailStops, StoppedHolds
<1>3. CASE /\ pc[c] \in {"poll", "retry"} /\ result'[c] = result[c]
           /\ pc'[c] = "retry" \/ (pc'[c] = "poll" /\ idx'[c] = 1)
  <2>1. result[c] = "none" /\ call[c].wait /\ call[c].verb \in WriteVerbs
    BY <1>3 DEF CallerInv, ControlOK
  <2>2. ControlOK(c)' /\ FloorIsWritten(c)'
    BY <1>1, <1>3, <2>1 DEF ControlOK, FloorIsWritten, SameWrites, CallerInv
  <2>3. CallerInv(c)'
    BY <1>1, <1>3, <2>2, RunningHolds DEF IsWritten
  <2>4. PassedReflected(c)'
    BY <1>3, <2>1 DEF PassedReflected, Passed
  <2> QED
    BY <2>3, <2>4 DEF CallerHolds
<1>4. CASE PollMiss(c)
  BY <1>3, <1>4 DEF PollMiss, TypeOK
<1>5. CASE Retry(c)
  BY <1>3, <1>5 DEF Retry, Move, TypeOK
<1>6. CASE Unavailable(c) /\ ~Fail(c, "fault")
  BY <1>3, <1>6 DEF Unavailable, TypeOK
<1> QED
  BY <1>2, <1>4, <1>5, <1>6

LEMMA GetOneHolds ==
    ASSUME TypeOK, TypeOK', ClusterMoves, NEW c \in Callers, CallerInv(c), GetOne(c)
    PROVE  CallerHolds(c)
<1>1. SameWrites(c) /\ pc[c] = "get" /\ call[c].verb \notin WriteVerbs /\ result[c] = "none"
  BY DEF GetOne, SameWrites, CallerInv, ControlOK
<1>2. CASE Fail(c, "notfound")
  BY <1>1, <1>2, FailStops, StoppedHolds
<1>3. CASE ~Fail(c, "notfound")
  <2>1. pc'[c] \in {"get", "save", "idle"} /\ (pc'[c] # "idle" => result'[c] = "none")
    <3>1. CASE Move(c, "get", idx[c] + 1) \/ Move(c, "save", idx[c])
      BY <1>1, <3>1 DEF Move, TypeOK
    <3>2. CASE Return(c, "ok", "none")
      BY <3>2 DEF Return, TypeOK
    <3> QED
      BY <1>3, <3>1, <3>2 DEF GetOne, Finish
  <2>2. ControlOK(c)' /\ FloorIsWritten(c)'
    BY <1>1, <2>1 DEF ControlOK, FloorIsWritten, SameWrites
  <2>3. CallerInv(c)'
    BY <1>1, <2>2, RunningHolds
  <2>4. PassedReflected(c)'
    BY <1>1 DEF PassedReflected, SameWrites
  <2> QED
    BY <2>3, <2>4 DEF CallerHolds
<1> QED
  BY <1>2, <1>3

LEMMA SaveHolds ==
    ASSUME TypeOK, TypeOK', ClusterMoves, NEW c \in Callers, CallerInv(c), Save(c)
    PROVE  CallerHolds(c)
<1>1. SameWrites(c) /\ pc[c] = "save" /\ result[c] = "none"
  BY DEF Save, SameWrites, CallerInv, ControlOK
<1>2. pc'[c] = "idle" /\ result'[c] \in {"ok", "fail"}
  BY DEF Save, Return, TypeOK
<1>3. ControlOK(c)' /\ FloorIsWritten(c)'
  BY <1>2 DEF ControlOK, FloorIsWritten
<1>4. CallerInv(c)'
  BY <1>1, <1>2, <1>3, RunningHolds DEF IsWritten
<1>5. ASSUME PassedReflected(c) PROVE PassedReflected(c)'
  BY <1>1, <1>5, PassedHolds DEF Passed
<1> QED
  BY <1>4, <1>5 DEF CallerHolds
-----------------------------------------------------------------------------
LEMMA InvInit == Init => IInv
<1> SUFFICES ASSUME Init PROVE IInv
  OBVIOUS
<1>1. TypeOK
  BY TypeInit
<1>2. HistoryOrdered
  <2>1. FirstRevision \in Nat /\ revision = FirstRevision
    BY ClusterAssumption DEF Init, ClusterInit
  <2>2. \A k \in Keys : /\ server[k] = Never \/ \E v \in Vals : server[k] = Fresh(FirstRevision, v)
                        /\ view[k] = server[k] /\ pending[k] = {}
    BY DEF Init, ClusterInit
  <2>3. \A k \in Keys : /\ server[k].rv \in {0, FirstRevision}
                        /\ server[k].since = server[k].rv
                        /\ server[k].present => server[k].rv = FirstRevision
    <3>1. Never.rv = 0 /\ Never.since = 0 /\ Never.present = FALSE
      BY DEF Never
    <3>2. \A v \in Vals : /\ Fresh(FirstRevision, v).rv = FirstRevision
                          /\ Fresh(FirstRevision, v).since = FirstRevision
      BY DEF Fresh
    <3> QED
      BY <2>2, <3>1, <3>2
  <2>4. \A k \in Keys : History(k) = {server[k]}
    BY <2>2 DEF History
  <2> QED
    BY <2>1, <2>2, <2>3, <2>4 DEF HistoryOrdered, Ordered
<1>3. ASSUME NEW c \in Callers PROVE CallerInv(c) /\ PassedReflected(c)
  <2>1. /\ pc[c] = "idle" /\ result[c] = "none"
        /\ written[c] = [k \in Keys |-> 0] /\ synced[c] = [k \in Keys |-> FALSE]
    BY DEF Init
  <2>2. ControlOK(c) /\ FloorIsWritten(c) /\ PassedReflected(c)
    BY <2>1 DEF ControlOK, FloorIsWritten, PassedReflected, Passed
  <2>3. SyncedBefore(c)
    BY <2>1 DEF SyncedBefore
  <2>4. WritesRecorded(c)
    BY <1>1, <2>1 DEF WritesRecorded, IsWritten, TypeOK, ClusterTypeOK
  <2> QED
    BY <2>2, <2>3, <2>4 DEF CallerInv
<1> QED
  BY <1>1, <1>2, <1>3 DEF IInv

(* Every step moves the cluster forward, or leaves it. *)
LEMMA NextMoves ==
    ASSUME TypeOK, HistoryOrdered, [Next]_vars
    PROVE  ClusterMoves
<1>0. ClusterTypeOK
  BY DEF TypeOK
<1>1. ASSUME NEW c \in Callers, Write(c) \/ Lose(c) PROVE ClusterMoves
  BY <1>1, StoreMoves DEF Write, Lose
<1>2. CASE UNCHANGED <<server, view, pending, revision>>
  BY <1>0, <1>2, StillMoves
<1>3. ASSUME NEW k \in Keys, World(k) PROVE ClusterMoves
  BY <1>0, <1>3, WorldMoves DEF World
<1>4. ASSUME NEW c \in Callers, Call(c) \/ Step(c), ~Write(c), ~Lose(c)
      PROVE  UNCHANGED <<server, view, pending, revision>>
  BY <1>4 DEF Step, clusterVars, Call, ReadOriginal, Refuse, StartWait, PollPass,
              PollMiss, Retry, TimeOut, GetOne, Unavailable, Save
<1>5. UNCHANGED vars => UNCHANGED <<server, view, pending, revision>>
  BY DEF vars
<1> QED
  BY <1>1, <1>2, <1>3, <1>4, <1>5 DEF Next

(* A step is the step of one caller, or of none. *)
LEMMA OthersUnmoved ==
    ASSUME TypeOK, NEW d \in Callers, NEW c \in Callers, c # d, Call(c) \/ Step(c)
    PROVE  UnmovedCaller(d)
<1> USE DEF UnmovedCaller, TypeOK
<1>1. CASE Call(c)
  BY <1>1 DEF Call
<1>2. CASE ReadOriginal(c)
  BY <1>2 DEF ReadOriginal, Put, Move, Fail, Return
<1>3. CASE Write(c)
  <2>1. held'[d] = held[d]
    BY <1>3 DEF Write, Respond, Put
  <2>2. /\ pc'[d] = pc[d] /\ idx'[d] = idx[d]
        /\ result'[d] = result[d] /\ cause'[d] = cause[d]
    BY <1>3 DEF Write, Move, Finish, Return
  <2> QED
    BY <1>3, <2>1, <2>2 DEF Write
<1>4. CASE Refuse(c)
  BY <1>4 DEF Refuse, Fail, Return
<1>5. CASE Lose(c)
  BY <1>5 DEF Lose, Fail, Return
<1>6. CASE StartWait(c)
  BY <1>6 DEF StartWait, Move
<1>7. CASE PollPass(c)
  BY <1>7 DEF PollPass, Observe, Put, Finish, Move, Return
<1>8. CASE PollMiss(c)
  BY <1>8 DEF PollMiss, Observe, Put
<1>9. CASE Retry(c)
  BY <1>9 DEF Retry, Move
<1>10. CASE TimeOut(c)
  BY <1>10 DEF TimeOut, Return
<1>11. CASE GetOne(c)
  BY <1>11 DEF GetOne, Observe, Put, Finish, Move, Fail, Return
<1>12. CASE Unavailable(c)
  BY <1>12 DEF Unavailable, Fail, Return
<1>13. CASE Save(c)
  BY <1>13 DEF Save, Return
<1> QED
  BY <1>1, <1>2, <1>3, <1>4, <1>5, <1>6, <1>7, <1>8, <1>9, <1>10, <1>11, <1>12, <1>13
     DEF Step

LEMMA InvStep == IInv /\ [Next]_vars => IInv'
<1> SUFFICES ASSUME IInv, [Next]_vars PROVE IInv'
  OBVIOUS
<1>1. TypeOK /\ TypeOK' /\ HistoryOrdered /\ \A c \in Callers : CallerInv(c)
  BY TypeStep DEF IInv
<1>2. ClusterMoves /\ HistoryOrdered'
  BY <1>1, NextMoves DEF ClusterMoves
<1>3. revision \in Nat /\ revision' \in Nat /\ revision <= revision'
  BY <1>1, <1>2 DEF ClusterMoves, TypeOK, ClusterTypeOK
<1>4. ASSUME NEW c \in Callers, Call(c) \/ Step(c) PROVE CallerHolds(c)
  <2>1. CallerInv(c)
    BY <1>1
  <2>2. CASE Call(c)
    BY <1>1, <1>2, <2>1, <2>2, CallHolds
  <2>3. CASE ReadOriginal(c)
    BY <1>1, <1>2, <2>1, <2>3, ReadOriginalHolds
  <2>4. CASE Write(c)
    BY <1>1, <1>2, <2>1, <2>4, WriteHolds
  <2>5. CASE Refuse(c) \/ TimeOut(c)
    BY <1>1, <1>2, <2>1, <2>5, EndingsHold
  <2>11. CASE Lose(c)
    BY <1>1, <1>2, <2>1, <2>11, LoseHolds
  <2>6. CASE StartWait(c)
    BY <1>1, <1>2, <2>1, <2>6, StartWaitHolds
  <2>7. CASE PollPass(c)
    BY <1>1, <1>2, <2>1, <2>7, PollPassHolds
  <2>8. CASE PollMiss(c) \/ Retry(c) \/ Unavailable(c)
    BY <1>1, <1>2, <2>1, <2>8, MovingHolds
  <2>9. CASE GetOne(c)
    BY <1>1, <1>2, <2>1, <2>9, GetOneHolds
  <2>10. CASE Save(c)
    BY <1>1, <1>2, <2>1, <2>10, SaveHolds
  <2> QED
    BY <1>4, <2>2, <2>3, <2>4, <2>5, <2>6, <2>7, <2>8, <2>9, <2>10, <2>11
     DEF Step
<1>5. ASSUME NEW d \in Callers, UnmovedCaller(d) PROVE CallerHolds(d)
  BY <1>1, <1>2, <1>5, CallerKept DEF CallerHolds
<1>6. ASSUME NEW d \in Callers PROVE CallerHolds(d)
  <2>1. CASE \E c \in Callers : Call(c) \/ Step(c)
    BY <1>1, <1>4, <1>5, <2>1, OthersUnmoved
  <2>2. CASE (\E k \in Keys : World(k)) \/ UNCHANGED vars
    <3>1. UnmovedCaller(d)
      BY <2>2 DEF World, SawchainVars, vars, UnmovedCaller
    <3> QED
      BY <1>5, <3>1
  <2> QED
    BY <2>1, <2>2 DEF Next
<1>7. ASSUME NEW d \in Callers, Comparable(d)' PROVE PassedReflected(d)'
  <2>1. CASE call'[d].verb = call[d].verb
    <3>1. Comparable(d)
      BY <1>3, <1>7, <2>1, OrderAgreedBefore DEF Comparable
    <3>2. PassedReflected(d)
      BY <3>1 DEF IInv
    <3> QED
      BY <1>6, <3>1, <3>2 DEF CallerHolds
  <2>2. CASE call'[d].verb # call[d].verb
    <3>1. result'[d] = "none" /\ pc'[d] \in {"read", "write", "get"}
      <4>1. ~UnmovedCaller(d)
        BY <2>2 DEF UnmovedCaller
      <4>2. PICK c \in Callers : Call(c) \/ Step(c)
        BY <4>1 DEF Next, World, SawchainVars, vars, UnmovedCaller
      <4>3. c = d
        BY <1>1, <4>1, <4>2, OthersUnmoved
      <4>4. Call(d)
        BY <2>2, <4>2, <4>3 DEF Step, ReadOriginal, Write, Refuse, Lose, StartWait,
             PollPass, PollMiss, Retry, TimeOut, GetOne, Unavailable, Save
      <4> QED
        BY <1>1, <4>4 DEF Call, FirstStep, TypeOK
    <3> QED
      BY <3>1 DEF PassedReflected, Passed
  <2> QED
    BY <2>1, <2>2
<1> QED
  BY <1>1, <1>2, <1>6, <1>7 DEF IInv, CallerHolds

(* The invariant of every behaviour. *)
THEOREM Invariance == Spec => []IInv
BY InvInit, InvStep, PTL DEF Spec

(* Of a call that was waited for and returned, all documents have passed. *)
LEMMA WaitedIsReflected ==
    ASSUME IInv, NEW c \in Callers, result[c] = "ok", call[c].wait,
           call[c].verb \in WriteVerbs, Comparable(c),
           NEW k \in DocKeys(call[c]), call[c].verb = "update" \/ synced[c][k]
    PROVE  Reflected(c, k)
<1>1. PICK j \in 1..Len(call[c].docs) : k = call[c].docs[j]
  BY DEF DocKeys
<1> QED
  BY <1>1 DEF IInv, PassedReflected, Passed

(* UpdateAndWait keeps its promise as long as the string comparison of     *)
(* checkResourceVersion orders the versions in use by age.                 *)
THEOREM UpdatesReflectedInOrder ==
    Spec => [](OrderAgrees(FirstRevision, revision) => UpdateReflected)
<1>1. IInv => (OrderAgrees(FirstRevision, revision) => UpdateReflected)
  BY WaitedIsReflected DEF UpdateReflected, Waited, Comparable, WriteVerbs
<1> QED
  BY <1>1, Invariance, PTL

(* So UpdateAndWait keeps its promise until the server's revision counter  *)
(* grows by a digit after the tests started.                               *)
THEOREM UpdatesReflected ==
    Spec => [](Width(FirstRevision) = Width(revision) => UpdateReflected)
<1>1. IInv => (Width(FirstRevision) = Width(revision) => UpdateReflected)
  <2> SUFFICES ASSUME IInv, Width(FirstRevision) = Width(revision)
               PROVE  UpdateReflected
    OBVIOUS
  <2>1. FirstRevision \in Nat /\ revision \in Nat
    BY ClusterAssumption DEF IInv, TypeOK, ClusterTypeOK
  <2>2. OrderAgrees(FirstRevision, revision)
    BY <2>1, SameWidthAgrees
  <2> QED
    BY <2>2, WaitedIsReflected DEF UpdateReflected, Waited, Comparable, WriteVerbs
<1> QED
  BY <1>1, Invariance, PTL

(* CreateAndWait keeps its promise for the resources whose absence the     *)
(* client had seen when they were created.                                 *)
THEOREM CreatesReflected == Spec => []CreateReflectedIfSynced
<1>1. IInv => CreateReflectedIfSynced
  BY WaitedIsReflected DEF CreateReflectedIfSynced, Waited, Comparable, WriteVerbs
<1> QED
  BY <1>1, Invariance, PTL

(* DeleteAndWait keeps its promise for the resources whose presence the    *)
(* client had seen when they were deleted.                                 *)
THEOREM DeletesReflected == Spec => []DeleteReflectedIfSynced
<1>1. IInv => DeleteReflectedIfSynced
  BY WaitedIsReflected DEF DeleteReflectedIfSynced, Waited, Comparable, WriteVerbs
<1> QED
  BY <1>1, Invariance, PTL

-----------------------------------------------------------------------------
(* What a caller of Sawchain can conclude from the outcome of a call: what *)
(* a failed one touched, what a poll that is not content says of the       *)
(* cache, when its objects change, and that its update undoes nobody       *)
(* else's.                                                                 *)

(* While a call writes, exactly the documents before the one at hand are   *)
(* changed; afterwards, what the way it ended says.                        *)
EndedWell(c) ==
    \/ Changed(c) = 1..(idx[c] - 1)
    \/ Changed(c) = 1..idx[c] /\ cause[c] = "fault"
    \/ Changed(c) = 1..Len(call[c].docs) /\ result[c] = "fail"

PrefixWritten(c) ==
    call[c].verb \in WriteVerbs =>
        /\ pc[c] \in {"read", "write"} => Changed(c) = 1..(idx[c] - 1)
        /\ result[c] \in {"err", "fail"} => EndedWell(c)

PrefixInv == IInv /\ \A c \in Callers : PrefixWritten(c)

-----------------------------------------------------------------------------
(* What a step that records no write leaves changed. *)
LEMMA ChangedKept ==
    ASSUME NEW c \in Callers, call'[c] = call[c], written'[c] = written[c]
    PROVE  Changed(c)' = Changed(c)
BY DEF Changed

(* Every document is changed once the call waits, saves or has succeeded. *)
LEMMA AllChanged ==
    ASSUME NEW c \in Callers, CallerInv(c), TypeOK, call[c].verb \in WriteVerbs,
           pc[c] \in {"await", "poll", "retry", "save"} \/ result[c] = "ok"
    PROVE  Changed(c) = 1..Len(call[c].docs)
<1> SUFFICES ASSUME NEW j \in 1..Len(call[c].docs)
             PROVE  written[c][call[c].docs[j]] # 0
  BY DEF Changed
<1>1. FirstRevision <= written[c][call[c].docs[j]] /\ FirstRevision \in Nat \ {0}
  BY ClusterAssumption DEF CallerInv, WritesRecorded, IsWritten
<1> QED
  BY <1>1

(* A write that is stored changes the document at hand. *)
LEMMA ChangedNow ==
    ASSUME TypeOK, HistoryOrdered, NEW c \in Callers, CallerInv(c), PrefixWritten(c),
           Write(c) \/ Lose(c)
    PROVE  Changed(c)' = 1..idx[c]
<1>1. /\ pc[c] = "write" /\ call'[c] = call[c] /\ call[c].verb \in WriteVerbs
      /\ written'[c] = [written[c] EXCEPT ![Key(c)] = Desired(c).rv]
      /\ idx[c] \in 1..Len(call[c].docs) /\ Len(call[c].docs) \in Nat
      /\ Key(c) \in Keys /\ Key(c) = call[c].docs[idx[c]]
  BY CallFacts DEF Write, Lose, CallerInv, ControlOK, TypeOK, Key
<1>2. FirstRevision <= Desired(c).rv /\ FirstRevision \in Nat \ {0}
  BY DesiredNotOld, ClusterAssumption
<1>3. Desired(c).rv # 0
  BY <1>2
<1>4. \A j \in 1..Len(call[c].docs) : written[c][call[c].docs[j]] # 0 <=> j < idx[c]
  BY <1>1 DEF PrefixWritten, Changed
<1>5. ASSUME NEW j \in 1..Len(call[c].docs)
      PROVE  written'[c][call[c].docs[j]] # 0 <=> j <= idx[c]
  <2>1. CASE j = idx[c]
    <3>1. written'[c][call[c].docs[j]] = Desired(c).rv
      BY <1>1, <2>1 DEF TypeOK
    <3> QED
      BY <1>1, <1>3, <2>1, <3>1
  <2>2. CASE j # idx[c]
    <3>1. call[c].docs[j] # Key(c) /\ call[c].docs[j] \in Keys
      BY <2>2, DistinctDocs
    <3>2. written'[c][call[c].docs[j]] = written[c][call[c].docs[j]]
      BY <1>1, <3>1 DEF TypeOK
    <3>3. j <= idx[c] <=> j < idx[c]
      BY <1>1, <2>2
    <3> QED
      BY <1>4, <3>2, <3>3
  <2> QED
    BY <2>1, <2>2
<1> QED
  BY <1>1, <1>5 DEF Changed

LEMMA PrefixCall ==
    ASSUME TypeOK, NEW c \in Callers, Call(c)
    PROVE  PrefixWritten(c)'
<1>1. PICK r \in Requests[c] : call' = [call EXCEPT ![c] = r]
  BY DEF Call
<1>2. /\ call'[c] = r /\ idx'[c] = 1 /\ result'[c] = "none"
      /\ written'[c] = [k \in Keys |-> 0]
  BY <1>1 DEF Call, TypeOK
<1>3. \A j \in 1..Len(r.docs) : r.docs[j] \in Keys
  BY RequestsAreRequests
<1>4. Changed(c)' = {} /\ 1..(idx'[c] - 1) = {}
  BY <1>2, <1>3 DEF Changed
<1> QED
  BY <1>2, <1>4 DEF PrefixWritten

LEMMA PrefixWrite ==
    ASSUME TypeOK, HistoryOrdered, NEW c \in Callers, CallerInv(c), PrefixWritten(c),
           Write(c) \/ Lose(c)
    PROVE  PrefixWritten(c)'
<1>1. /\ Changed(c)' = 1..idx[c] /\ result[c] = "none"
      /\ idx[c] \in Nat /\ call'[c] = call[c]
  BY ChangedNow, CallFacts DEF Write, Lose, CallerInv, ControlOK, TypeOK
<1>2. CASE Lose(c)
  <2>1. /\ pc'[c] = "idle" /\ idx'[c] = idx[c] /\ cause'[c] = "fault"
    BY <1>2 DEF Lose, Fail, Return, TypeOK
  <2> QED
    BY <1>1, <2>1 DEF PrefixWritten, EndedWell
<1>3. CASE Write(c) /\ ~AtLast(c)
  <2>1. idx'[c] = idx[c] + 1 /\ result'[c] = "none"
    BY <1>1, <1>3 DEF Write, Move, TypeOK
  <2>2. idx'[c] - 1 = idx[c]
    BY <1>1, <2>1
  <2> QED
    BY <1>1, <2>1, <2>2 DEF PrefixWritten
<1>4. CASE Write(c) /\ AtLast(c)
  <2>1. pc'[c] \in {"await", "save", "idle"} /\ result'[c] \in {"none", "ok"}
    <3>1. CASE Move(c, "await", idx[c]) \/ Move(c, "save", idx[c])
      BY <1>1, <3>1 DEF Move, TypeOK
    <3>2. CASE Return(c, "ok", "none")
      BY <3>2 DEF Return, TypeOK
    <3> QED
      BY <1>4, <3>1, <3>2 DEF Write, Finish
  <2> QED
    BY <2>1 DEF PrefixWritten
<1> QED
  BY <1>2, <1>3, <1>4

(* The steps that write nothing. *)
LEMMA PrefixQuiet ==
    ASSUME TypeOK, NEW c \in Callers, CallerInv(c), PrefixWritten(c), Step(c),
           ~Write(c), ~Lose(c)
    PROVE  PrefixWritten(c)'
<1>0. /\ call'[c] = call[c] /\ written'[c] = written[c]
      /\ pc[c] # "idle" /\ result[c] = "none"
  BY DEF Step, CallerInv, ControlOK, ReadOriginal, Refuse, StartWait,
         PollPass, PollMiss, Retry, TimeOut, GetOne, Unavailable, Save
<1>1. Changed(c)' = Changed(c)
  BY <1>0, ChangedKept
<1>2. SUFFICES ASSUME call[c].verb \in WriteVerbs PROVE PrefixWritten(c)'
  BY <1>0 DEF PrefixWritten
<1>3. ~GetOne(c) /\ pc[c] # "get"
  BY <1>2 DEF GetOne, CallerInv, ControlOK
<1>4. CASE pc[c] \in {"read", "write"}
  <2>1. Changed(c) = 1..(idx[c] - 1)
    BY <1>2, <1>4 DEF PrefixWritten
  <2>2. ReadOriginal(c) \/ Refuse(c) \/ (Unavailable(c) /\ pc[c] = "read" /\ Fail(c, "fault"))
    BY <1>3, <1>4 DEF Step, StartWait, PollPass, PollMiss, Retry, TimeOut, Unavailable, Save
  <2>3. idx'[c] = idx[c]
    BY <2>2 DEF ReadOriginal, Refuse, Fail, Return, Move, TypeOK
  <2> QED
    BY <1>1, <2>1, <2>3 DEF PrefixWritten, EndedWell
<1>5. CASE pc[c] \in {"await", "poll", "retry", "save"}
  <2>1. Changed(c) = 1..Len(call[c].docs)
    BY <1>2, <1>5, AllChanged
  <2>2. pc'[c] \notin {"read", "write"} /\ result'[c] # "err"
    <3>1. CASE StartWait(c) \/ Retry(c)
      BY <1>0, <3>1 DEF StartWait, Retry, Move, TypeOK
    <3>2. CASE PollMiss(c)
      BY <1>0, <3>2 DEF PollMiss, TypeOK
    <3>3. CASE TimeOut(c)
      BY <3>3 DEF TimeOut, Return, TypeOK
    <3>4. CASE PollPass(c)
      <4>1. CASE Move(c, "poll", idx[c] + 1) \/ Move(c, "save", idx[c])
        BY <1>0, <4>1 DEF Move, TypeOK
      <4>2. CASE Return(c, "ok", "none")
        BY <4>2 DEF Return, TypeOK
      <4> QED
        BY <3>4, <4>1, <4>2 DEF PollPass, Finish
    <3>5. CASE Unavailable(c)
      <4>1. pc' = [pc EXCEPT ![c] = "retry"] /\ result' = result
        BY <1>5, <3>5 DEF Unavailable
      <4> QED
        BY <1>0, <4>1 DEF TypeOK
    <3>6. CASE Save(c)
      BY <3>6 DEF Save, Return, TypeOK
    <3>7. ~ReadOriginal(c) /\ ~Refuse(c)
      BY <1>5 DEF ReadOriginal, Refuse
    <3> QED
      BY <1>3, <3>1, <3>2, <3>3, <3>4, <3>5, <3>6, <3>7 DEF Step
  <2> QED
    BY <1>0, <1>1, <2>1, <2>2 DEF PrefixWritten, EndedWell
<1>6. pc[c] \in Steps
  BY DEF TypeOK
<1> QED
  BY <1>0, <1>3, <1>4, <1>5, <1>6 DEF Steps

LEMMA PrefixStep == PrefixInv /\ [Next]_vars => PrefixInv'
<1> SUFFICES ASSUME PrefixInv, [Next]_vars
             PROVE  PrefixInv'
  OBVIOUS
<1>1. IInv /\ TypeOK /\ HistoryOrdered /\ \A c \in Callers : CallerInv(c) /\ PrefixWritten(c)
  BY DEF PrefixInv, IInv
<1>2. IInv'
  BY <1>1, InvStep
<1>3. ASSUME NEW d \in Callers, UnmovedCaller(d) PROVE PrefixWritten(d)'
  <2>1. Changed(d)' = Changed(d)
    BY <1>3, ChangedKept DEF UnmovedCaller
  <2> QED
    BY <1>1, <1>3, <2>1 DEF UnmovedCaller, PrefixWritten, EndedWell
<1>4. ASSUME NEW c \in Callers, Call(c) \/ Step(c) PROVE PrefixWritten(c)'
  BY <1>1, <1>4, PrefixCall, PrefixWrite, PrefixQuiet
<1>5. ASSUME NEW d \in Callers PROVE PrefixWritten(d)'
  <2>1. CASE \E c \in Callers : Call(c) \/ Step(c)
    BY <1>1, <1>3, <1>4, <2>1, OthersUnmoved
  <2>2. CASE (\E k \in Keys : World(k)) \/ UNCHANGED vars
    <3>1. UnmovedCaller(d)
      BY <2>2 DEF World, SawchainVars, vars, UnmovedCaller
    <3> QED
      BY <1>3, <3>1
  <2> QED
    BY <2>1, <2>2 DEF Next
<1> QED
  BY <1>2, <1>5 DEF PrefixInv

(* How a call ended tells which resources it changed: an error in the loop *)
(* over the documents means those before the failing one and none after    *)
(* it, and the failing one only where the client failed, its answer being  *)
(* lost; a call that got through the loop changed all, whether it then     *)
(* waited or saved with success or not.                                    *)
THEOREM WritesArePrefix == Spec => []WrittenIsPrefix
<1>1. Init => PrefixInv
  <2> SUFFICES ASSUME Init PROVE PrefixInv
    OBVIOUS
  <2>1. \A c \in Callers : pc[c] = "idle" /\ result[c] = "none"
    BY DEF Init
  <2> QED
    BY <2>1, InvInit DEF PrefixInv, PrefixWritten
<1>2. PrefixInv => WrittenIsPrefix
  <2> SUFFICES ASSUME PrefixInv, NEW c \in Callers, call[c].verb \in WriteVerbs
               PROVE  /\ result[c] \in {"err", "fail"} => EndedWell(c)
                      /\ result[c] = "ok" \/ pc[c] \in {"await", "poll", "retry", "save"} =>
                            Changed(c) = 1..Len(call[c].docs)
    BY DEF WrittenIsPrefix, WriteVerbs, EndedWell
  <2>1. PrefixWritten(c) /\ CallerInv(c) /\ TypeOK
    BY DEF PrefixInv, IInv
  <2> QED
    BY <2>1, AllChanged DEF PrefixWritten
<1> QED
  BY <1>1, <1>2, PrefixStep, PTL DEF Spec

-----------------------------------------------------------------------------
(* The step of InsufficientMeansStale. *)
InsufficientStep ==
    \A c \in Callers :
        pc[c] = "poll" /\ pc'[c] = "retry" /\ cause'[c] = "insufficient"
        => ~Reflected(c, Key(c))

LEMMA InsufficientHolds ==
    ASSUME IInv, [Next]_vars, OrderAgrees(FirstRevision, revision)
    PROVE  InsufficientStep
<1> SUFFICES ASSUME NEW c \in Callers, pc[c] = "poll", pc'[c] = "retry",
                    cause'[c] = "insufficient"
             PROVE  ~Reflected(c, Key(c))
  BY DEF InsufficientStep
<1>0. TypeOK /\ HistoryOrdered /\ CallerInv(c)
  BY DEF IInv
<1>1. Call(c) \/ Step(c)
  <2>1. ~UnmovedCaller(c)
    BY DEF UnmovedCaller
  <2>2. PICK d \in Callers : Call(d) \/ Step(d)
    BY <2>1 DEF Next, World, SawchainVars, vars, UnmovedCaller
  <2> QED
    BY <1>0, <2>1, <2>2, OthersUnmoved
<1>2. PollMiss(c) /\ Mismatch(c) = "insufficient"
  <2>1. CASE Call(c)
    BY <2>1 DEF Call
  <2>2. CASE PollPass(c)
    <3>1. pc'[c] # "retry"
      BY <1>0, <2>2 DEF PollPass, Finish, Move, Return, TypeOK
    <3> QED
      BY <3>1
  <2>3. CASE PollMiss(c)
    BY <1>0, <2>3 DEF PollMiss, TypeOK
  <2>4. CASE Unavailable(c)
    <3>1. cause'[c] = "fault"
      BY <1>0, <2>4 DEF Unavailable, TypeOK
    <3> QED
      BY <3>1
  <2> QED
    BY <1>1, <2>1, <2>2, <2>3, <2>4
       DEF Step, ReadOriginal, Write, Refuse, Lose, StartWait, Retry, TimeOut, GetOne, Save
<1> DEFINE k == Key(c)
<1>3. k \in Keys /\ k \in DocKeys(call[c]) /\ k = call[c].docs[idx[c]]
      /\ idx[c] \in 1..Len(call[c].docs) /\ view[k] \in State /\ server[k] \in State
  BY <1>0, CallFacts DEF Key
<1>4. /\ view[k].rv \in Nat /\ server[k].rv \in Nat /\ written[c][k] \in Nat
      /\ revision \in Nat /\ FirstRevision \in Nat
  BY <1>0, <1>3, ClusterAssumption DEF State, TypeOK, ClusterTypeOK
<1>5. call[c].verb = "update" /\ view[k].present /\ RvLess(view[k].rv, floor[c][k])
  BY <1>2 DEF Mismatch
<1>6. floor[c][k] = written[c][k]
  BY <1>0, <1>3, <1>5 DEF CallerInv, FloorIsWritten
<1>7. FirstRevision <= written[c][k] /\ written[c][k] <= revision
  BY <1>0, <1>3, <1>5 DEF CallerInv, WritesRecorded, IsWritten, WriteVerbs
<1>8. FirstRevision <= view[k].rv /\ view[k].rv <= server[k].rv /\ server[k].rv <= revision
  BY <1>0, <1>3, <1>5 DEF HistoryOrdered, Ordered, History
<1>9. view[k].rv \in FirstRevision..revision /\ written[c][k] \in FirstRevision..revision
  BY <1>4, <1>7, <1>8
<1>10. view[k].rv < written[c][k]
  BY <1>5, <1>6, <1>9 DEF OrderAgrees
<1> QED
  BY <1>4, <1>10 DEF Reflected

(* While versions have one width, a poll complains of an insufficient      *)
(* version only when the cache is behind the update (checkResourceVersion).*)
THEOREM InsufficientIsStale ==
    Spec /\ [](Width(FirstRevision) = Width(revision)) => InsufficientMeansStale
<1>1. ASSUME IInv, [Next]_vars, Width(FirstRevision) = Width(revision)
      PROVE  InsufficientStep
  <2>1. FirstRevision \in Nat /\ revision \in Nat
    BY <1>1, ClusterAssumption DEF IInv, TypeOK, ClusterTypeOK
  <2> QED
    BY <1>1, <2>1, SameWidthAgrees, InsufficientHolds
<1>2. IInv /\ [Next]_vars /\ Width(FirstRevision) = Width(revision) => [InsufficientStep]_vars
  BY <1>1
<1>3. Spec /\ [](Width(FirstRevision) = Width(revision)) => [][InsufficientStep]_vars
  BY <1>2, Invariance, PTL DEF Spec
<1> QED
  BY <1>3 DEF InsufficientMeansStale, InsufficientStep

-----------------------------------------------------------------------------
(* The step of SaveIsLast. *)
SaveStep ==
    \A c \in Callers :
        /\ pc[c] # "idle" /\ call[c].template
        /\ call[c].verb \in {"create", "update"}
        /\ held'[c]["caller"] # held[c]["caller"]
        => \A k \in DocKeys(call[c]) :
              /\ written[c][k] # 0
              /\ call[c].verb = "update" /\ call[c].wait => Reflected(c, k)

(* Of a call with a template, only Save touches the caller's objects. *)
LEMMA OnlySaveTouches ==
    ASSUME TypeOK, [Next]_vars, NEW c \in Callers, pc[c] # "idle", call[c].template,
           held'[c]["caller"] # held[c]["caller"]
    PROVE  Save(c)
<1>1. Call(c) \/ Step(c)
  <2>1. ~UnmovedCaller(c)
    BY DEF UnmovedCaller
  <2>2. PICK d \in Callers : Call(d) \/ Step(d)
    BY <2>1 DEF Next, World, SawchainVars, vars, UnmovedCaller
  <2> QED
    BY <2>1, <2>2, OthersUnmoved
<1>2. ~Call(c)
  BY DEF Call
<1>3. held' # held
  OBVIOUS
<1>4. ASSUME NEW x, Put(c, x) PROVE FALSE
  <2>1. held' = [held EXCEPT ![c]["template"][Key(c)] = x]
    BY <1>4 DEF Put, Owner
  <2> QED
    BY <2>1 DEF TypeOK
<1>5. ~Observe(c)
  BY <1>3, <1>4 DEF Observe
<1>6. ~ReadOriginal(c)
  BY <1>3, <1>4 DEF ReadOriginal
<1>7. ~Write(c)
  BY <1>3, <1>4 DEF Write, Respond
<1> QED
  BY <1>1, <1>2, <1>3, <1>5, <1>6, <1>7
     DEF Step, Refuse, Lose, StartWait, PollPass, PollMiss, Retry, TimeOut, GetOne, Unavailable

LEMMA SaveStepHolds ==
    ASSUME IInv, [Next]_vars, OrderAgrees(FirstRevision, revision)
    PROVE  SaveStep
<1> SUFFICES ASSUME NEW c \in Callers, pc[c] # "idle", call[c].template,
                    call[c].verb \in {"create", "update"},
                    held'[c]["caller"] # held[c]["caller"],
                    NEW k \in DocKeys(call[c])
             PROVE  /\ written[c][k] # 0
                    /\ call[c].verb = "update" /\ call[c].wait => Reflected(c, k)
  BY DEF SaveStep
<1>1. TypeOK /\ CallerInv(c) /\ PassedReflected(c)
  BY DEF IInv, Comparable
<1>2. pc[c] = "save"
  BY <1>1, OnlySaveTouches DEF Save
<1>3. PICK j \in 1..Len(call[c].docs) : k = call[c].docs[j]
  BY DEF DocKeys
<1>4. FirstRevision <= written[c][k] /\ FirstRevision \in Nat \ {0}
  BY <1>1, <1>2, <1>3, ClusterAssumption DEF CallerInv, WritesRecorded, IsWritten, WriteVerbs
<1>5. call[c].verb = "update" /\ call[c].wait => Reflected(c, k)
  BY <1>1, <1>2, <1>3 DEF PassedReflected, Passed, WriteVerbs
<1> QED
  BY <1>4, <1>5

(* While versions have one width, a call with a template touches the       *)
(* caller's objects only after all its documents are written and, for an   *)
(* update that waits, visible.                                             *)
THEOREM SavesComeLast ==
    Spec /\ [](Width(FirstRevision) = Width(revision)) => SaveIsLast
<1>1. ASSUME IInv, [Next]_vars, Width(FirstRevision) = Width(revision)
      PROVE  SaveStep
  <2>1. FirstRevision \in Nat /\ revision \in Nat
    BY <1>1, ClusterAssumption DEF IInv, TypeOK, ClusterTypeOK
  <2> QED
    BY <1>1, <2>1, SameWidthAgrees, SaveStepHolds
<1>2. IInv /\ [Next]_vars /\ Width(FirstRevision) = Width(revision) => [SaveStep]_vars
  BY <1>1
<1>3. Spec /\ [](Width(FirstRevision) = Width(revision)) => [][SaveStep]_vars
  BY <1>2, Invariance, PTL DEF Spec
<1> QED
  BY <1>3 DEF SaveIsLast, SaveStep

-----------------------------------------------------------------------------
(* The objects of a create or an update carry the versions of its writes   *)
(* until it waits, and no older ones once a poll has passed them; in the   *)
(* end the caller's do.  A create with a template needs DecodeInPlace: it  *)
(* sends a copy.                                                           *)
Owed(c, k) == call[c].verb = "update" \/ synced[c][k]

FreshDoc(c, k, j) ==
    /\ IsWritten(c, j) /\ pc[c] \in {"read", "write", "await"}
          => held[c][Owner(c)][k].rv = written[c][k]
    /\ Passed(c, j) /\ pc[c] # "idle" /\ Owed(c, k)
          => held[c][Owner(c)][k].rv >= written[c][k]
    /\ result[c] = "ok" /\ (call[c].template => call[c].save) /\ Owed(c, k)
          => held[c]["caller"][k].rv >= written[c][k]

FreshInHand(c) ==
    DecodeInPlace /\ call[c].verb \in {"create", "update"} =>
        \A j \in 1..Len(call[c].docs) : FreshDoc(c, call[c].docs[j], j)

(* A call saves only what a template made. *)
SavesTemplate(c) == pc[c] = "save" => call[c].template

FreshInv ==
    /\ IInv
    /\ \A c \in Callers : SavesTemplate(c)
    /\ \A c \in Callers : Comparable(c) => FreshInHand(c)

(* Where nothing is owed: the call failed, or its poll begins. *)
LEMMA FreshVacuous ==
    ASSUME NEW c \in Callers, call'[c] \in Request,
           \/ pc'[c] = "idle" /\ result'[c] \in {"err", "fail"}
           \/ pc'[c] = "retry" /\ result'[c] = "none"
           \/ pc'[c] = "poll" /\ idx'[c] = 1 /\ result'[c] = "none"
           \/ pc'[c] \in {"read", "write"} /\ idx'[c] = 1 /\ result'[c] = "none"
           \/ call'[c].verb \notin {"create", "update"}
    PROVE  FreshInHand(c)'
<1> SUFFICES ASSUME call'[c].verb \in {"create", "update"},
                    NEW j \in 1..Len(call'[c].docs)
             PROVE  FreshDoc(c, call[c].docs[j], j)'
  BY DEF FreshInHand
<1>1. ~(j < 1)
  OBVIOUS
<1> QED
  BY <1>1 DEF FreshDoc, IsWritten, Passed

LEMMA FreshCall ==
    ASSUME TypeOK, TypeOK', NEW c \in Callers, Call(c)
    PROVE  FreshInHand(c)'
<1>1. PICK r \in Requests[c] : call' = [call EXCEPT ![c] = r]
                               /\ pc' = [pc EXCEPT ![c] = FirstStep(r)]
  BY DEF Call
<1>2. /\ call'[c] = r /\ pc'[c] = FirstStep(r) /\ idx'[c] = 1 /\ result'[c] = "none"
      /\ call'[c] \in Request
  BY <1>1 DEF Call, TypeOK
<1>3. r.verb \in {"create", "update"} => pc'[c] \in {"read", "write"}
  BY <1>2 DEF FirstStep
<1> QED
  BY <1>2, <1>3, FreshVacuous

LEMMA FreshRead ==
    ASSUME TypeOK, TypeOK', NEW c \in Callers, CallerInv(c), FreshInHand(c), ReadOriginal(c)
    PROVE  FreshInHand(c)'
<1>0. call' = call /\ written' = written /\ pc[c] = "read" /\ result[c] = "none"
      /\ call'[c] \in Request
  BY DEF ReadOriginal, CallerInv, ControlOK, TypeOK
<1>1. CASE Fail(c, "notfound")
  BY <1>0, <1>1, FailStops, FreshVacuous
<1>2. CASE /\ Put(c, [Seen(view[Key(c)]) EXCEPT !.val = call[c].val])
           /\ Move(c, "write", idx[c])
  <2>1. pc'[c] = "write" /\ idx'[c] = idx[c] /\ result'[c] = "none"
        /\ idx[c] \in Nat /\ Len(call[c].docs) \in Nat
    BY <1>0, <1>2, CallFacts DEF Move, TypeOK
  <2> SUFFICES ASSUME DecodeInPlace, call[c].verb \in {"create", "update"},
                      NEW j \in 1..Len(call[c].docs)
               PROVE  FreshDoc(c, call[c].docs[j], j)'
    BY <1>0 DEF FreshInHand
  <2>2. ASSUME IsWritten(c, j)'
        PROVE  held'[c][Owner(c)'][call[c].docs[j]].rv = written[c][call[c].docs[j]]
    <3>1. j < idx[c] /\ j # idx[c]
      BY <2>1, <2>2 DEF IsWritten
    <3>2. held'[c][Owner(c)][call[c].docs[j]] = held[c][Owner(c)][call[c].docs[j]]
      BY <1>2, <3>1, PutElsewhere
    <3>3. IsWritten(c, j)
      BY <1>0, <3>1 DEF IsWritten
    <3>4. FreshDoc(c, call[c].docs[j], j)
      BY DEF FreshInHand
    <3> QED
      BY <1>0, <3>2, <3>3, <3>4 DEF FreshDoc, Owner
  <2> QED
    BY <1>0, <2>1, <2>2 DEF FreshDoc, Passed
<1> QED
  BY <1>1, <1>2 DEF ReadOriginal

LEMMA FreshWrite ==
    ASSUME TypeOK, TypeOK', NEW c \in Callers, CallerInv(c), FreshInHand(c), Write(c)
    PROVE  FreshInHand(c)'
<1>1. /\ pc[c] = "write" /\ call'[c] = call[c] /\ result[c] = "none"
      /\ written'[c] = [written[c] EXCEPT ![Key(c)] = Desired(c).rv]
      /\ idx[c] \in 1..Len(call[c].docs) /\ Len(call[c].docs) \in Nat
      /\ Key(c) \in Keys /\ Key(c) = call[c].docs[idx[c]]
      /\ Owner(c)' = Owner(c) /\ Owner(c) \in {"template", "caller"}
  BY CallFacts DEF Write, CallerInv, ControlOK, TypeOK, Key, Owner
<1>2. \/ ~AtLast(c) /\ idx'[c] = idx[c] + 1 /\ result'[c] = "none" /\ pc'[c] = FirstStep(call[c])
      \/ AtLast(c) /\ pc'[c] = "await" /\ result'[c] = "none"
      \/ AtLast(c) /\ pc'[c] = "save" /\ result'[c] = "none"
      \/ /\ AtLast(c) /\ pc'[c] = "idle" /\ result'[c] = "ok"
         /\ ~(call[c].template /\ call[c].save) \/ call[c].verb = "delete"
  <2>1. CASE ~AtLast(c) /\ Move(c, FirstStep(call[c]), idx[c] + 1)
    BY <1>1, <2>1 DEF Move, TypeOK
  <2>2. CASE AtLast(c) /\ Move(c, "await", idx[c])
    BY <1>1, <2>2 DEF Move, TypeOK
  <2>3. CASE AtLast(c) /\ Finish(c)
    <3>1. CASE Move(c, "save", idx[c])
      BY <1>1, <2>3, <3>1 DEF Move, TypeOK
    <3>2. CASE Return(c, "ok", "none") /\ ~(call[c].template /\ call[c].save /\ call[c].verb # "delete")
      BY <1>1, <2>3, <3>2 DEF Return, TypeOK
    <3> QED
      BY <2>3, <3>1, <3>2 DEF Finish
  <2> QED
    BY <2>1, <2>2, <2>3 DEF Write
<1> SUFFICES ASSUME DecodeInPlace, call[c].verb \in {"create", "update"},
                    NEW j \in 1..Len(call[c].docs)
             PROVE  FreshDoc(c, call[c].docs[j], j)'
  BY <1>1 DEF FreshInHand
<1>3. pc'[c] \in {"read", "write"} => (j < idx'[c] => j < idx[c] \/ j = idx[c])
  BY <1>1, <1>2
<1>4. FirstStep(call[c]) \in {"read", "write"}
  BY DEF FirstStep
<1>5. j <= idx[c] => held'[c][Owner(c)][call[c].docs[j]].rv = written'[c][call[c].docs[j]]
  <2>0. Put(c, Seen(Desired(c)))
    BY DEF Write, Respond
  <2>1. CASE j = idx[c]
    <3>1. held'[c][Owner(c)][Key(c)] = Seen(Desired(c)) /\ written'[c][Key(c)] = Desired(c).rv
      BY <1>1, <2>0 DEF Put, TypeOK
    <3> QED
      BY <1>1, <2>1, <3>1 DEF Seen
  <2>2. CASE j < idx[c]
    <3>1. j # idx[c]
      BY <1>1, <2>2
    <3>2. call[c].docs[j] # Key(c) /\ call[c].docs[j] \in Keys
      BY <3>1, DistinctDocs
    <3>3. held'[c][Owner(c)][call[c].docs[j]] = held[c][Owner(c)][call[c].docs[j]]
      BY <2>0, <3>1, PutElsewhere
    <3>4. written'[c][call[c].docs[j]] = written[c][call[c].docs[j]]
      BY <1>1, <3>2 DEF TypeOK
    <3>5. FreshDoc(c, call[c].docs[j], j) /\ IsWritten(c, j)
      BY <1>1, <2>2 DEF FreshInHand, IsWritten
    <3> QED
      BY <1>1, <3>3, <3>4, <3>5 DEF FreshDoc
  <2> QED
    BY <1>1, <2>1, <2>2
<1>6. AtLast(c) => j <= idx[c]
  BY <1>1 DEF AtLast
<1>7. written'[c][call[c].docs[j]] \in Nat
  <2>1. call[c].docs[j] \in Keys
    BY CallFacts
  <2> QED
    BY <2>1 DEF TypeOK
<1>8. CASE ~AtLast(c)
  BY <1>1, <1>2, <1>3, <1>4, <1>5, <1>8 DEF FreshDoc, IsWritten, Passed
<1>9. CASE AtLast(c)
  <2>1. held'[c][Owner(c)][call[c].docs[j]].rv >= written'[c][call[c].docs[j]]
    BY <1>5, <1>6, <1>7, <1>9
  <2>2. pc'[c] = "idle" /\ (call[c].template => call[c].save) => Owner(c) = "caller"
    BY <1>2, <1>9 DEF Owner
  <2> QED
    BY <1>1, <1>2, <1>5, <1>6, <1>9, <2>1, <2>2 DEF FreshDoc
<1> QED
  BY <1>8, <1>9

LEMMA FreshPollPass ==
    ASSUME TypeOK, TypeOK', HistoryOrdered, NEW c \in Callers, CallerInv(c),
           Comparable(c), FreshInHand(c), PollPass(c)
    PROVE  FreshInHand(c)'
<1>1. /\ pc[c] = "poll" /\ call'[c] = call[c] /\ result[c] = "none" /\ written' = written
      /\ synced' = synced /\ view' = view
      /\ idx[c] \in 1..Len(call[c].docs) /\ Len(call[c].docs) \in Nat
      /\ Key(c) \in Keys /\ Key(c) = call[c].docs[idx[c]]
      /\ Owner(c)' = Owner(c) /\ Owner(c) \in {"template", "caller"}
  BY CallFacts DEF PollPass, CallerInv, ControlOK, TypeOK, Key, Owner, clusterVars
<1>2. \/ ~AtLast(c) /\ idx'[c] = idx[c] + 1 /\ result'[c] = "none" /\ pc'[c] = "poll"
      \/ AtLast(c) /\ pc'[c] = "save" /\ result'[c] = "none"
      \/ /\ AtLast(c) /\ pc'[c] = "idle" /\ result'[c] = "ok"
         /\ ~(call[c].template /\ call[c].save) \/ call[c].verb = "delete"
  <2>1. CASE ~AtLast(c) /\ Move(c, "poll", idx[c] + 1)
    BY <1>1, <2>1 DEF Move, TypeOK
  <2>2. CASE AtLast(c) /\ Finish(c)
    <3>1. CASE Move(c, "save", idx[c])
      BY <1>1, <2>2, <3>1 DEF Move, TypeOK
    <3>2. CASE Return(c, "ok", "none") /\ ~(call[c].template /\ call[c].save /\ call[c].verb # "delete")
      BY <1>1, <2>2, <3>2 DEF Return, TypeOK
    <3> QED
      BY <2>2, <3>1, <3>2 DEF Finish
  <2> QED
    BY <2>1, <2>2 DEF PollPass
<1> SUFFICES ASSUME DecodeInPlace, call[c].verb \in {"create", "update"},
                    NEW j \in 1..Len(call[c].docs)
             PROVE  FreshDoc(c, call[c].docs[j], j)'
  BY <1>1 DEF FreshInHand
<1> DEFINE k == call[c].docs[j]
<1>3. k \in Keys /\ written[c][k] \in Nat
  <2>1. k \in Keys
    BY CallFacts
  <2> QED
    BY <2>1 DEF TypeOK
<1>4. ASSUME j <= idx[c], Owed(c, k)
      PROVE  held'[c][Owner(c)][k].rv >= written[c][k]
  <2>1. CASE j = idx[c]
    <3>1. view[Key(c)].present
      BY DEF PollPass, Mismatch
    <3>2. held'[c][Owner(c)][Key(c)] = Seen(view[Key(c)])
      BY <1>1, <3>1 DEF PollPass, Observe, Put, TypeOK
    <3>3. Reflected(c, Key(c))
      BY <1>1, <1>4, <2>1, MatchIsReflected DEF PollPass, Owed
    <3> QED
      BY <1>1, <2>1, <3>2, <3>3 DEF Seen, Reflected
  <2>2. CASE j < idx[c]
    <3>1. j # idx[c]
      BY <1>1, <2>2
    <3>2. held'[c][Owner(c)][k] = held[c][Owner(c)][k]
      BY <3>1, PutElsewhere DEF PollPass, Observe
    <3>3. FreshDoc(c, k, j)
      BY DEF FreshInHand
    <3> QED
      BY <1>1, <1>4, <2>2, <3>2, <3>3 DEF FreshDoc, Passed
  <2> QED
    BY <1>1, <1>4, <2>1, <2>2
<1>5. Owed(c, k)' = Owed(c, k)
  BY <1>1 DEF Owed
<1>6. CASE ~AtLast(c)
  <2>1. Passed(c, j)' => j <= idx[c]
    BY <1>1, <1>2, <1>6 DEF Passed
  <2> QED
    BY <1>1, <1>2, <1>4, <1>5, <1>6, <2>1 DEF FreshDoc
<1>7. CASE AtLast(c)
  <2>1. j <= idx[c]
    BY <1>1, <1>7 DEF AtLast
  <2>2. pc'[c] = "idle" /\ (call[c].template => call[c].save) => Owner(c) = "caller"
    BY <1>2, <1>7 DEF Owner
  <2> QED
    BY <1>1, <1>2, <1>4, <1>5, <1>7, <2>1, <2>2 DEF FreshDoc
<1> QED
  BY <1>6, <1>7

LEMMA FreshSave ==
    ASSUME TypeOK, TypeOK', NEW c \in Callers, CallerInv(c), FreshInHand(c), Save(c),
           call[c].template
    PROVE  FreshInHand(c)'
<1>1. /\ pc[c] = "save" /\ call' = call /\ written' = written /\ synced' = synced
      /\ call'[c] \in Request
  BY DEF Save, TypeOK
<1>2. CASE call[c].badSlot # 0
  <2>1. pc'[c] = "idle" /\ result'[c] = "fail"
    BY <1>2 DEF Save, Return, TypeOK
  <2> QED
    BY <1>1, <2>1, FreshVacuous
<1>3. CASE call[c].badSlot = 0
  <2>1. pc'[c] = "idle" /\ result'[c] = "ok"
    BY <1>3 DEF Save, Return, TypeOK
  <2> SUFFICES ASSUME DecodeInPlace, call[c].verb \in {"create", "update"},
                      NEW j \in 1..Len(call[c].docs), Owed(c, call[c].docs[j])
               PROVE  held'[c]["caller"][call[c].docs[j]].rv >= written[c][call[c].docs[j]]
    BY <1>1, <2>1 DEF FreshInHand, FreshDoc, Owed
  <2>2. call[c].docs[j] \in Keys /\ Owner(c) = "template"
    BY CallFacts DEF Owner
  <2>3. held'[c]["caller"][call[c].docs[j]] = held[c]["template"][call[c].docs[j]]
    BY <1>3, <2>2 DEF Save, TypeOK
  <2>4. FreshDoc(c, call[c].docs[j], j)
    BY DEF FreshInHand
  <2> QED
    BY <1>1, <2>2, <2>3, <2>4 DEF FreshDoc, Passed
<1> QED
  BY <1>2, <1>3

LEMMA FreshRest ==
    ASSUME TypeOK, TypeOK', NEW c \in Callers, CallerInv(c), Step(c), ~ReadOriginal(c),
           ~Write(c), ~PollPass(c), ~Save(c)
    PROVE  FreshInHand(c)'
<1>1. call'[c] = call[c] /\ call'[c] \in Request /\ (pc[c] # "idle" => result[c] = "none")
  BY DEF Step, Refuse, Lose, StartWait, PollMiss, Retry, TimeOut, GetOne, Unavailable,
         TypeOK, CallerInv, ControlOK
<1>2. CASE Refuse(c) \/ Lose(c)
  BY <1>1, <1>2, FailStops, FreshVacuous DEF Refuse, Lose
<1>3. CASE StartWait(c) \/ Retry(c)
  <2>1. pc'[c] = "poll" /\ idx'[c] = 1 /\ result'[c] = "none"
    BY <1>1, <1>3 DEF StartWait, Retry, Move, TypeOK
  <2> QED
    BY <1>1, <2>1, FreshVacuous
<1>4. CASE PollMiss(c)
  <2>1. pc'[c] = "retry" /\ result'[c] = "none"
    BY <1>1, <1>4 DEF PollMiss, TypeOK
  <2> QED
    BY <1>1, <2>1, FreshVacuous
<1>5. CASE TimeOut(c)
  <2>1. pc'[c] = "idle" /\ result'[c] = "fail"
    BY <1>5 DEF TimeOut, Return, TypeOK
  <2> QED
    BY <1>1, <2>1, FreshVacuous
<1>6. CASE GetOne(c)
  <2>1. call[c].verb \notin {"create", "update"}
    BY <1>6 DEF GetOne, CallerInv, ControlOK, WriteVerbs
  <2> QED
    BY <1>1, <2>1, FreshVacuous
<1>7. CASE Unavailable(c)
  <2>1. CASE Fail(c, "fault")
    BY <1>1, <2>1, FailStops, FreshVacuous
  <2>2. CASE ~Fail(c, "fault")
    <3>1. pc'[c] = "retry" /\ result'[c] = "none"
      BY <1>1, <1>7, <2>2 DEF Unavailable, TypeOK
    <3> QED
      BY <1>1, <3>1, FreshVacuous
  <2> QED
    BY <2>1, <2>2
<1> QED
  BY <1>2, <1>3, <1>4, <1>5, <1>6, <1>7 DEF Step

LEMMA FreshKept ==
    ASSUME NEW c \in Callers, UnmovedCaller(c), FreshInHand(c)
    PROVE  FreshInHand(c)'
<1>1. call'[c] = call[c]
  BY DEF UnmovedCaller
<1>2. ASSUME NEW j \in 1..Len(call[c].docs), NEW k, FreshDoc(c, k, j)
      PROVE  FreshDoc(c, k, j)'
  BY <1>2 DEF UnmovedCaller, FreshDoc, IsWritten, Passed, Owed, Owner
<1> QED
  BY <1>1, <1>2 DEF FreshInHand

LEMMA TemplateSaved ==
    ASSUME TypeOK, NEW c \in Callers, SavesTemplate(c), Call(c) \/ Step(c)
    PROVE  SavesTemplate(c)'
<1> SUFFICES ASSUME pc'[c] = "save"
             PROVE  call'[c].template
  BY DEF SavesTemplate
<1>1. CASE Call(c)
  <2>1. PICK r \in Requests[c] : pc' = [pc EXCEPT ![c] = FirstStep(r)]
    BY <1>1 DEF Call
  <2> QED
    BY <2>1 DEF FirstStep, TypeOK
<1>2. CASE Write(c) \/ PollPass(c) \/ GetOne(c)
  <2>1. call' = call /\ FirstStep(call[c]) # "save"
    BY <1>2 DEF Write, PollPass, GetOne, FirstStep
  <2>2. Finish(c)
    BY <1>2, <2>1 DEF Write, PollPass, GetOne, Move, Fail, Return, TypeOK
  <2> QED
    BY <2>1, <2>2 DEF Finish, Return, TypeOK
<1>3. CASE Step(c) /\ ~Write(c) /\ ~PollPass(c) /\ ~GetOne(c)
  <2>1. pc'[c] # "save"
    BY <1>3 DEF Step, ReadOriginal, Refuse, Lose, StartWait, PollMiss, Retry, TimeOut,
                Unavailable, Save, Fail, Move, Return, TypeOK
  <2> QED
    BY <2>1
<1> QED
  BY <1>1, <1>2, <1>3

LEMMA FreshInvInit == Init => FreshInv
<1> SUFFICES ASSUME Init PROVE FreshInv
  OBVIOUS
<1>1. \A c \in Callers : pc[c] = "idle" /\ result[c] = "none"
  BY DEF Init
<1> QED
  BY <1>1, InvInit DEF FreshInv, FreshInHand, FreshDoc, IsWritten, SavesTemplate

LEMMA FreshInvStep == FreshInv /\ [Next]_vars => FreshInv'
<1> SUFFICES ASSUME FreshInv, [Next]_vars PROVE FreshInv'
  OBVIOUS
<1>1. IInv /\ IInv'
  BY InvStep DEF FreshInv
<1>2. TypeOK /\ TypeOK' /\ HistoryOrdered /\ \A c \in Callers : CallerInv(c)
  BY <1>1 DEF IInv
<1>3. revision \in Nat /\ revision' \in Nat /\ revision <= revision'
  BY <1>2, NextMoves DEF ClusterMoves, TypeOK, ClusterTypeOK
<1>4. ASSUME NEW c \in Callers, Call(c) \/ Step(c)
      PROVE  /\ SavesTemplate(c)'
             /\ Comparable(c)' => FreshInHand(c)'
  <2>1. SavesTemplate(c)'
    BY <1>2, <1>4, TemplateSaved DEF FreshInv
  <2>2. CASE Call(c)
    BY <1>2, <2>1, <2>2, FreshCall
  <2>3. ASSUME Step(c), Comparable(c)' PROVE FreshInHand(c)'
    <3>1. call'[c] = call[c]
      BY <2>3 DEF Step, ReadOriginal, Write, Refuse, Lose, StartWait, PollPass, PollMiss,
                  Retry, TimeOut, GetOne, Unavailable, Save
    <3>2. Comparable(c)
      BY <1>3, <2>3, <3>1, OrderAgreedBefore DEF Comparable
    <3>3. FreshInHand(c) /\ SavesTemplate(c) /\ CallerInv(c)
      BY <1>2, <3>2 DEF FreshInv
    <3>4. CASE ReadOriginal(c)
      BY <1>2, <3>3, <3>4, FreshRead
    <3>5. CASE Write(c)
      BY <1>2, <3>3, <3>5, FreshWrite
    <3>6. CASE PollPass(c)
      BY <1>2, <3>2, <3>3, <3>6, FreshPollPass
    <3>7. CASE Save(c)
      <4>1. call[c].template
        BY <3>3, <3>7 DEF Save, SavesTemplate
      <4> QED
        BY <1>2, <3>3, <3>7, <4>1, FreshSave
    <3> QED
      BY <1>2, <2>3, <3>3, <3>4, <3>5, <3>6, <3>7, FreshRest
  <2> QED
    BY <1>4, <2>1, <2>2, <2>3
<1>5. ASSUME NEW d \in Callers, UnmovedCaller(d)
      PROVE  /\ SavesTemplate(d)'
             /\ Comparable(d)' => FreshInHand(d)'
  <2>1. SavesTemplate(d)'
    BY <1>5 DEF FreshInv, SavesTemplate, UnmovedCaller
  <2>2. ASSUME Comparable(d)' PROVE Comparable(d)
    BY <1>3, <1>5, <2>2, OrderAgreedBefore DEF Comparable, UnmovedCaller
  <2> QED
    BY <1>5, <2>1, <2>2, FreshKept DEF FreshInv
<1>6. ASSUME NEW d \in Callers
      PROVE  /\ SavesTemplate(d)'
             /\ Comparable(d)' => FreshInHand(d)'
  <2>1. CASE \E c \in Callers : Call(c) \/ Step(c)
    BY <1>2, <1>4, <1>5, <2>1, OthersUnmoved
  <2>2. CASE (\E k \in Keys : World(k)) \/ UNCHANGED vars
    <3>1. UnmovedCaller(d)
      BY <2>2 DEF World, SawchainVars, vars, UnmovedCaller
    <3> QED
      BY <1>5, <3>1
  <2> QED
    BY <2>1, <2>2 DEF Next
<1> QED
  BY <1>1, <1>6 DEF FreshInv

(* With a client that decodes in place, and while versions have one width, *)
(* the objects a create or an update gives back are at least as new as     *)
(* what it wrote, however often its polls overwrote them.                  *)
THEOREM SavedObjectsFresh ==
    Spec => [](DecodeInPlace /\ Width(FirstRevision) = Width(revision) => SavedIsFresh)
<1>1. FreshInv => (DecodeInPlace /\ Width(FirstRevision) = Width(revision) => SavedIsFresh)
  <2> SUFFICES ASSUME FreshInv, DecodeInPlace, Width(FirstRevision) = Width(revision)
               PROVE  SavedIsFresh
    OBVIOUS
  <2>1. FirstRevision \in Nat /\ revision \in Nat
    BY ClusterAssumption DEF FreshInv, IInv, TypeOK, ClusterTypeOK
  <2>2. \A c \in Callers : FreshInHand(c)
    BY <2>1, SameWidthAgrees DEF FreshInv, Comparable
  <2> QED
    BY <2>2 DEF SavedIsFresh, FreshInHand, FreshDoc, Owed, DocKeys
<1> QED
  BY <1>1, FreshInvInit, FreshInvStep, PTL DEF Spec

-----------------------------------------------------------------------------
(***************************************************************************)
(* Why no update loses the change of another party.  An object in hand     *)
(* that has a version is a copy of a state the server once stored, but for *)
(* the field the test owns.  So if the server does not refuse it, its      *)
(* other fields are the server's.                                          *)
(***************************************************************************)
(* What any reader sees is the server's state if it has its version. *)
StateCopied(k) == \A s \in History(k) : s.rv = server[k].rv => s.other = server[k].other

(* ... and so is what an object of a caller holds. *)
CopyOf(x, k) ==
    /\ x.rv <= server[k].rv
    /\ x.rv # 0 /\ x.rv = server[k].rv => x.other = server[k].other

ObjectsCopied(c) == \A o \in {"template", "caller"}, k \in Keys : CopyOf(held[c][o][k], k)

(* An update with a template sends the version it read. *)
SendsVersion(c) ==
    pc[c] = "write" /\ call[c].verb = "update" /\ call[c].template => InHand(c).rv # 0

CopyInv ==
    /\ IInv
    /\ \A k \in Keys : StateCopied(k)
    /\ \A c \in Callers : ObjectsCopied(c) /\ SendsVersion(c)

-----------------------------------------------------------------------------
(* The server's state of a resource stays or gets a new version, and       *)
(* nobody sees anything else than before or that.                          *)
Grows(k) ==
    /\ server'[k] = server[k] \/ revision < server'[k].rv
    /\ History(k)' \subseteq History(k) \cup {server'[k]}

LEMMA CommitGrows ==
    ASSUME ClusterTypeOK, NEW q \in Keys, NEW s, Successor(q, s), Commit(q, s),
           NEW k \in Keys
    PROVE  Grows(k)
<1>1. s.rv = revision + 1 /\ revision \in Nat
  BY DEF Successor, NextRevision, ClusterTypeOK
<1>2. revision < s.rv
  BY <1>1
<1>3. server' = [server EXCEPT ![q] = s]
  BY DEF Commit
<1>4. History(k)' \subseteq History(k) \cup {server'[k]}
  <2>1. CASE Cached
    BY <1>3, <2>1 DEF Commit, History, ClusterTypeOK
  <2>2. CASE ~Cached
    BY <1>3, <2>2 DEF Commit, History, ClusterTypeOK
  <2> QED
    BY <2>1, <2>2
<1> QED
  BY <1>2, <1>3, <1>4 DEF Grows, ClusterTypeOK

LEMMA StillGrows ==
    ASSUME UNCHANGED <<server, view, pending>>, NEW k \in Keys
    PROVE  Grows(k)
BY DEF Grows, History

LEMMA SyncGrows ==
    ASSUME ClusterTypeOK, NEW q \in Keys, Sync(q), NEW k \in Keys
    PROVE  Grows(k)
<1>1. PICK s \in pending[q] : /\ view' = [view EXCEPT ![q] = s]
                              /\ pending' = [pending EXCEPT ![q] = {e \in @ : e.rv > s.rv}]
  BY DEF Sync
<1>2. server' = server
  BY DEF Sync
<1>3. view'[k] \in {view[k]} \cup pending[k] /\ pending'[k] \subseteq pending[k]
  BY <1>1 DEF ClusterTypeOK
<1> QED
  BY <1>2, <1>3 DEF Grows, History

LEMMA NextGrows ==
    ASSUME TypeOK, [Next]_vars, NEW k \in Keys
    PROVE  Grows(k)
<1>0. ClusterTypeOK
  BY DEF TypeOK
<1>1. ASSUME NEW c \in Callers, Write(c) \/ Lose(c) PROVE Grows(k)
  <2>1. Key(c) \in Keys /\ InHand(c) \in Object /\ Store(Key(c), Desired(c))
    BY <1>1, CallFacts DEF Write, Lose
  <2>2. InHand(c).val \in Vals \cup {NoVal} /\ InHand(c).other \in Nat
    BY <2>1 DEF Object
  <2>3. Desired(c) = server[Key(c)] \/ Successor(Key(c), Desired(c))
    BY <1>0, <2>1, <2>2, SuccessorStates DEF Desired
  <2> QED
    BY <1>0, <2>1, <2>3, CommitGrows, StillGrows DEF Store
<1>2. ASSUME NEW q \in Keys, World(q) PROVE Grows(k)
  <2>1. CASE Sync(q)
    BY <1>0, <2>1, SyncGrows
  <2>2. CASE Environment(q)
    <3>0. /\ server[q].val \in Vals \cup {NoVal} /\ server[q].other \in Nat
          /\ server[q].other + 1 \in Nat /\ server[q].other # server[q].other + 1
      BY <1>0 DEF ClusterTypeOK, State
    <3>1. CASE OtherCreate(q)
      BY <1>0, <3>0, <3>1, SuccessorStates, CommitGrows DEF OtherCreate
    <3>2. CASE OtherUpdate(q)
      BY <1>0, <3>0, <3>2, SuccessorStates, CommitGrows DEF OtherUpdate
    <3>3. CASE OtherDelete(q)
      BY <1>0, <3>0, <3>3, SuccessorStates, CommitGrows DEF OtherDelete
    <3>4. CASE FinalizerDone(q)
      BY <1>0, <3>0, <3>4, SuccessorStates, CommitGrows DEF FinalizerDone
    <3> QED
      BY <2>2, <3>1, <3>2, <3>3, <3>4 DEF Environment
  <2> QED
    BY <1>2, <2>1, <2>2 DEF World
<1>3. ASSUME NEW c \in Callers, Call(c) \/ Step(c), ~Write(c), ~Lose(c)
      PROVE  UNCHANGED <<server, view, pending>>
  BY <1>3 DEF Step, clusterVars, Call, ReadOriginal, Refuse, StartWait, PollPass,
              PollMiss, Retry, TimeOut, GetOne, Unavailable, Save
<1>4. UNCHANGED vars => UNCHANGED <<server, view, pending>>
  BY DEF vars
<1> QED
  BY <1>1, <1>2, <1>3, <1>4, StillGrows DEF Next

(* What was a copy of a state stays one. *)
LEMMA CopyKept ==
    ASSUME TypeOK, TypeOK', HistoryOrdered, NEW k \in Keys, Grows(k),
           NEW x, x.rv \in Nat, CopyOf(x, k)
    PROVE  CopyOf(x, k)'
<1>1. server[k].rv <= revision
  BY DEF HistoryOrdered, Ordered
<1>2. server[k].rv \in Nat /\ server'[k].rv \in Nat /\ revision \in Nat
  <2>1. server[k] \in State /\ server'[k] \in State
    BY DEF TypeOK, ClusterTypeOK
  <2> QED
    BY <2>1 DEF State, TypeOK, ClusterTypeOK
<1> QED
  BY <1>1, <1>2 DEF CopyOf, Grows

LEMMA StatesCopied ==
    ASSUME TypeOK, TypeOK', HistoryOrdered, NEW k \in Keys, Grows(k), StateCopied(k)
    PROVE  StateCopied(k)'
<1> SUFFICES ASSUME NEW s \in History(k)', s.rv = server'[k].rv
             PROVE  s.other = server'[k].other
  BY DEF StateCopied
<1>1. server[k].rv <= revision /\ \A t \in History(k) : t.rv <= server[k].rv
  BY DEF HistoryOrdered, Ordered
<1>2. server[k] \in State /\ server'[k] \in State /\ \A t \in History(k) : t \in State
  BY DEF TypeOK, ClusterTypeOK, History
<1>3. /\ server[k].rv \in Nat /\ server'[k].rv \in Nat /\ revision \in Nat
      /\ \A t \in History(k) : t.rv \in Nat
  BY <1>2 DEF State, TypeOK, ClusterTypeOK
<1>4. CASE s \in History(k)
  BY <1>1, <1>3, <1>4 DEF Grows, StateCopied
<1>5. CASE s = server'[k]
  BY <1>5
<1> QED
  BY <1>4, <1>5 DEF Grows

(* What a step of a caller leaves in its objects: the version and other    *)
(* fields of one it had, of what the client shows, of what it wrote, or    *)
(* none.                                                                   *)
Origin(c, x, k) ==
    \/ x.rv = 0
    \/ \E o \in {"template", "caller"} :
          x.rv = held[c][o][k].rv /\ x.other = held[c][o][k].other
    \/ x.rv = view[k].rv /\ x.other = view[k].other
    \/ x.rv = server'[k].rv /\ x.other = server'[k].other

Origins(c) == \A o \in {"template", "caller"}, k \in Keys : Origin(c, held'[c][o][k], k)

LEMMA KeptOrigins ==
    ASSUME NEW c \in Callers, held'[c] = held[c]
    PROVE  Origins(c)
BY DEF Origins, Origin

LEMMA PutOrigins ==
    ASSUME TypeOK, NEW c \in Callers, NEW x, Put(c, x), Origin(c, x, Key(c))
    PROVE  Origins(c)
<1> SUFFICES ASSUME NEW o \in {"template", "caller"}, NEW k \in Keys
             PROVE  Origin(c, held'[c][o][k], k)
  BY DEF Origins
<1>1. held'[c][o][k] = IF o = Owner(c) /\ k = Key(c) THEN x ELSE held[c][o][k]
  BY DEF Put, TypeOK
<1> QED
  BY <1>1 DEF Origin

LEMMA ObserveOrigins ==
    ASSUME TypeOK, NEW c \in Callers, Observe(c)
    PROVE  Origins(c)
<1>1. Origin(c, Seen(view[Key(c)]), Key(c))
  BY DEF Origin, Seen
<1> QED
  BY <1>1, PutOrigins, KeptOrigins DEF Observe

LEMMA StepOrigins ==
    ASSUME TypeOK, NEW c \in Callers, Call(c) \/ Step(c)
    PROVE  Origins(c)
<1>1. CASE Call(c)
  <2> SUFFICES ASSUME NEW o \in {"template", "caller"}, NEW k \in Keys
               PROVE  Origin(c, held'[c][o][k], k)
    BY DEF Origins
  <2>1. PICK r \in Requests[c] : held' = [held EXCEPT ![c] = Prepared(c, r)]
    BY <1>1 DEF Call
  <2>2. held'[c][o][k] = IF o = "template" THEN Blank(r.val) ELSE GivenObject(c, r, k)
    BY <2>1 DEF Prepared, TypeOK
  <2>3. Blank(r.val).rv = 0
    BY DEF Blank
  <2>4. held[c]["caller"][k] \in Object
    BY DEF TypeOK
  <2>5. LET y == [held[c]["caller"][k] EXCEPT !.val = r.val]
        IN  y.rv = held[c]["caller"][k].rv /\ y.other = held[c]["caller"][k].other
    BY <2>4 DEF Object
  <2> QED
    BY <2>2, <2>3, <2>5 DEF GivenObject, Origin
<1>2. CASE ReadOriginal(c)
  <2>1. Origin(c, [Seen(view[Key(c)]) EXCEPT !.val = call[c].val], Key(c))
    BY DEF Origin, Seen
  <2> QED
    BY <1>2, <2>1, PutOrigins, KeptOrigins DEF ReadOriginal
<1>3. CASE Write(c)
  <2>1. Key(c) \in Keys
    BY CallFacts
  <2>2. server'[Key(c)] = Desired(c)
    BY <1>3, <2>1 DEF Write, Store, Commit, TypeOK, ClusterTypeOK
  <2>3. Origin(c, Seen(Desired(c)), Key(c))
    BY <2>2 DEF Origin, Seen
  <2> QED
    BY <1>3, <2>3, PutOrigins, KeptOrigins DEF Write, Respond
<1>4. CASE PollPass(c) \/ PollMiss(c) \/ GetOne(c)
  BY <1>4, ObserveOrigins DEF PollPass, PollMiss, GetOne
<1>5. CASE Save(c)
  <2> SUFFICES ASSUME NEW o \in {"template", "caller"}, NEW k \in Keys
               PROVE  Origin(c, held'[c][o][k], k)
    BY DEF Origins
  <2>1. held'[c][o][k] \in {held[c]["template"][k], held[c][o][k]}
    BY <1>5 DEF Save, TypeOK
  <2> QED
    BY <2>1 DEF Origin
<1>6. CASE held' = held
  BY <1>6, KeptOrigins
<1>7. Refuse(c) \/ Lose(c) \/ StartWait(c) \/ Retry(c) \/ TimeOut(c) \/ Unavailable(c)
      => held' = held
  BY DEF Refuse, Lose, StartWait, Retry, TimeOut, Unavailable
<1> QED
  BY <1>1, <1>2, <1>3, <1>4, <1>5, <1>6, <1>7 DEF Step

(* Whatever its origin, it is a copy. *)
LEMMA OriginCopied ==
    ASSUME TypeOK, TypeOK', HistoryOrdered, NEW c \in Callers, ObjectsCopied(c),
           NEW k \in Keys, Grows(k), StateCopied(k), NEW x, x.rv \in Nat, Origin(c, x, k)
    PROVE  CopyOf(x, k)'
<1>1. server'[k] \in State /\ server[k] \in State /\ view[k] \in State
  BY DEF TypeOK, ClusterTypeOK
<1>2. server'[k].rv \in Nat /\ server[k].rv \in Nat /\ view[k].rv \in Nat
  BY <1>1 DEF State
<1>3. CASE x.rv = 0
  BY <1>2, <1>3 DEF CopyOf
<1>4. CASE \E o \in {"template", "caller"} :
              x.rv = held[c][o][k].rv /\ x.other = held[c][o][k].other
  <2>1. CopyOf(x, k)
    BY <1>4 DEF ObjectsCopied, CopyOf
  <2> QED
    BY <2>1, CopyKept
<1>5. CASE x.rv = view[k].rv /\ x.other = view[k].other
  <2>1. view[k] \in History(k) /\ view[k].rv <= server[k].rv
    BY DEF HistoryOrdered, Ordered, History
  <2>2. CopyOf(x, k)
    BY <1>5, <2>1 DEF CopyOf, StateCopied
  <2> QED
    BY <2>2, CopyKept
<1>6. CASE x.rv = server'[k].rv /\ x.other = server'[k].other
  BY <1>2, <1>6 DEF CopyOf
<1> QED
  BY <1>3, <1>4, <1>5, <1>6 DEF Origin

-----------------------------------------------------------------------------
(* Only ReadOriginal leads an update with a template to its write. *)
LEMMA VersionSent ==
    ASSUME TypeOK, HistoryOrdered, NEW c \in Callers, CallerInv(c), Call(c) \/ Step(c)
    PROVE  SendsVersion(c)'
<1> SUFFICES ASSUME pc'[c] = "write", call'[c].verb = "update", call'[c].template
             PROVE  InHand(c)'.rv # 0
  BY DEF SendsVersion
<1>1. CASE Call(c)
  <2>1. PICK r \in Requests[c] : call' = [call EXCEPT ![c] = r]
                                 /\ pc' = [pc EXCEPT ![c] = FirstStep(r)]
    BY <1>1 DEF Call
  <2>2. call'[c] = r /\ pc'[c] = FirstStep(r)
    BY <2>1 DEF TypeOK
  <2> QED
    BY <2>2 DEF FirstStep
<1>2. CASE ReadOriginal(c)
  <2>1. pc[c] = "read"
    BY <1>2 DEF ReadOriginal
  <2>2. ~Fail(c, "notfound")
    BY DEF Fail, Return, TypeOK
  <2>3. /\ view[Key(c)].present /\ Put(c, [Seen(view[Key(c)]) EXCEPT !.val = call[c].val])
        /\ Move(c, "write", idx[c])
    BY <1>2, <2>2 DEF ReadOriginal
  <2>4. call' = call /\ idx'[c] = idx[c] /\ Key(c) \in Keys /\ Owner(c) \in {"template", "caller"}
    BY <1>2, <2>3, CallFacts DEF ReadOriginal, Move, TypeOK
  <2>5. InHand(c)' = [Seen(view[Key(c)]) EXCEPT !.val = call[c].val]
    BY <2>3, <2>4 DEF InHand, Put, Key, Owner, TypeOK
  <2>6. InHand(c)'.rv = view[Key(c)].rv
    BY <2>5 DEF Seen
  <2>7. FirstRevision <= view[Key(c)].rv /\ FirstRevision \in Nat \ {0}
    BY <2>3, <2>4, ClusterAssumption DEF HistoryOrdered, Ordered, History
  <2> QED
    BY <2>6, <2>7
<1>3. CASE Write(c)
  <2>1. call'[c] = call[c]
    BY <1>3 DEF Write
  <2>2. FirstStep(call[c]) = "read"
    BY <2>1 DEF FirstStep
  <2>3. pc'[c] \in {"read", "await", "save", "idle"}
    BY <1>3, <2>2 DEF Write, Move, Finish, Return, TypeOK
  <2> QED
    BY <2>3
<1>4. CASE Step(c) /\ ~ReadOriginal(c) /\ ~Write(c)
  <2>1. pc'[c] # "write"
    BY <1>4 DEF Step, Refuse, Lose, StartWait, PollPass, PollMiss, Retry, TimeOut, GetOne,
                Unavailable, Save, Fail, Finish, Move, Return, TypeOK
  <2> QED
    BY <2>1
<1> QED
  BY <1>1, <1>2, <1>3, <1>4

LEMMA CopyInvInit == Init => CopyInv
<1> SUFFICES ASSUME Init PROVE CopyInv
  OBVIOUS
<1>1. IInv /\ TypeOK
  BY InvInit DEF IInv
<1>2. ASSUME NEW k \in Keys PROVE StateCopied(k)
  BY DEF StateCopied, History, Init, ClusterInit
<1>3. ASSUME NEW c \in Callers PROVE ObjectsCopied(c) /\ SendsVersion(c)
  <2>1. pc[c] = "idle" /\ \A o \in {"template", "caller"}, k \in Keys : held[c][o][k].rv = 0
    BY DEF Init, Blank
  <2>2. \A k \in Keys : server[k].rv \in Nat
    <3>1. \A k \in Keys : server[k] \in State
      BY <1>1 DEF TypeOK, ClusterTypeOK
    <3> QED
      BY <3>1 DEF State
  <2> QED
    BY <2>1, <2>2 DEF ObjectsCopied, CopyOf, SendsVersion
<1> QED
  BY <1>1, <1>2, <1>3 DEF CopyInv

LEMMA CopyInvStep == CopyInv /\ [Next]_vars => CopyInv'
<1> SUFFICES ASSUME CopyInv, [Next]_vars PROVE CopyInv'
  OBVIOUS
<1>1. IInv /\ IInv'
  BY InvStep DEF CopyInv
<1>2. TypeOK /\ TypeOK' /\ HistoryOrdered /\ \A c \in Callers : CallerInv(c)
  BY <1>1 DEF IInv
<1>3. \A k \in Keys : Grows(k)
  BY <1>2, NextGrows
<1>4. \A k \in Keys : StateCopied(k)'
  BY <1>2, <1>3, StatesCopied DEF CopyInv
<1>5. ASSUME NEW c \in Callers, Origins(c) PROVE ObjectsCopied(c)'
  <2> SUFFICES ASSUME NEW o \in {"template", "caller"}, NEW k \in Keys
               PROVE  CopyOf(held[c][o][k], k)'
    BY DEF ObjectsCopied
  <2>1. held'[c][o][k].rv \in Nat
    <3>1. held'[c][o][k] \in Object
      BY <1>2 DEF TypeOK
    <3> QED
      BY <3>1 DEF Object
  <2>2. Origin(c, held'[c][o][k], k) /\ ObjectsCopied(c) /\ StateCopied(k)
    BY <1>5 DEF Origins, CopyInv
  <2>3. \A x : x.rv \in Nat /\ Origin(c, x, k) => CopyOf(x, k)'
    BY <1>2, <1>3, <2>2, OriginCopied
  <2> QED
    BY <2>1, <2>2, <2>3 DEF CopyOf
<1>6. ASSUME NEW c \in Callers, Call(c) \/ Step(c) PROVE ObjectsCopied(c)' /\ SendsVersion(c)'
  BY <1>2, <1>5, <1>6, StepOrigins, VersionSent
<1>7. ASSUME NEW d \in Callers, UnmovedCaller(d) PROVE ObjectsCopied(d)' /\ SendsVersion(d)'
  <2>1. ObjectsCopied(d)'
    BY <1>5, <1>7, KeptOrigins DEF UnmovedCaller
  <2>2. SendsVersion(d)'
    BY <1>7 DEF UnmovedCaller, CopyInv, SendsVersion, InHand, Owner, Key
  <2> QED
    BY <2>1, <2>2
<1>8. ASSUME NEW d \in Callers PROVE ObjectsCopied(d)' /\ SendsVersion(d)'
  <2>1. CASE \E c \in Callers : Call(c) \/ Step(c)
    BY <1>2, <1>6, <1>7, <2>1, OthersUnmoved
  <2>2. CASE (\E k \in Keys : World(k)) \/ UNCHANGED vars
    <3>1. UnmovedCaller(d)
      BY <2>2 DEF World, SawchainVars, vars, UnmovedCaller
    <3> QED
      BY <1>7, <3>1
  <2> QED
    BY <2>1, <2>2 DEF Next
<1> QED
  BY <1>1, <1>4, <1>8 DEF CopyInv

-----------------------------------------------------------------------------
(* The step of NoLostUpdate. *)
UpdateStep ==
    \A k \in Keys :
        /\ envs' = envs /\ server'[k].present
        /\ server'[k].since = server[k].since
        /\ server'[k].other # server[k].other
        => \E c \in Callers : /\ pc[c] = "write" /\ Key(c) = k
                              /\ ~call[c].template /\ InHand(c).rv = 0

(* The write that changes the other fields of a resource. *)
LEMMA ChangerSentNothing ==
    ASSUME CopyInv, NEW c \in Callers, pc[c] = "write", Refusal(c) = "none",
           Store(Key(c), Desired(c)), server'[Key(c)].present,
           server'[Key(c)].since = server[Key(c)].since,
           server'[Key(c)].other # server[Key(c)].other
    PROVE  ~call[c].template /\ InHand(c).rv = 0
<1> DEFINE k == Key(c)
<1>1. TypeOK /\ HistoryOrdered /\ CallerInv(c)
  BY DEF CopyInv, IInv
<1>2. /\ k \in Keys /\ server[k] \in State /\ InHand(c) \in Object
      /\ Owner(c) \in {"template", "caller"} /\ InHand(c) = held[c][Owner(c)][k]
  BY <1>1, CallFacts DEF InHand
<1>3. server'[k] = Desired(c)
  BY <1>1, <1>2 DEF Store, Commit, TypeOK, ClusterTypeOK
<1>4. call[c].verb \in WriteVerbs
  BY <1>1 DEF CallerInv, ControlOK
<1>5. server[k].since \in Nat /\ server[k].rv \in Nat /\ revision \in Nat
      /\ server[k].since <= server[k].rv /\ server[k].rv <= revision
  BY <1>1, <1>2 DEF State, TypeOK, ClusterTypeOK, HistoryOrdered, Ordered, History
<1>6. call[c].verb # "create"
  <2> SUFFICES ASSUME call[c].verb = "create" PROVE FALSE
    OBVIOUS
  <2>1. server'[k].since = revision + 1
    BY <1>3 DEF Desired, Created, Fresh, NextRevision
  <2> QED
    BY <1>5, <2>1
<1>7. call[c].verb # "delete"
  <2> SUFFICES ASSUME call[c].verb = "delete" PROVE FALSE
    OBVIOUS
  <2>1. server'[k] = Deleted(k)
    BY <1>3 DEF Desired
  <2>2. Deleted(k).other = server[k].other \/ ~Deleted(k).present
    BY <1>2 DEF Deleted, Gone, Never, State
  <2> QED
    BY <2>1, <2>2
<1>8. call[c].verb = "update"
  BY <1>4, <1>6, <1>7 DEF WriteVerbs
<1>9. InHand(c).rv \in {0, server[k].rv}
  BY <1>8 DEF Refusal
<1>10. InHand(c).other # server[k].other
  <2>1. server'[k] = Updated(k, InHand(c).val, InHand(c).other)
    BY <1>3, <1>8 DEF Desired
  <2> QED
    BY <1>2, <2>1 DEF Updated, State
<1>11. CopyOf(InHand(c), k)
  BY <1>2 DEF CopyInv, ObjectsCopied
<1>12. InHand(c).rv = 0
  BY <1>9, <1>10, <1>11 DEF CopyOf
<1>13. SendsVersion(c)
  BY DEF CopyInv
<1> QED
  BY <1>8, <1>12, <1>13 DEF SendsVersion

LEMMA UpdateStepHolds ==
    ASSUME CopyInv, [Next]_vars
    PROVE  UpdateStep
<1> SUFFICES ASSUME NEW k \in Keys, envs' = envs, server'[k].present,
                    server'[k].since = server[k].since,
                    server'[k].other # server[k].other
             PROVE  \E c \in Callers : /\ pc[c] = "write" /\ Key(c) = k
                                       /\ ~call[c].template /\ InHand(c).rv = 0
  BY DEF UpdateStep
<1>1. TypeOK
  BY DEF CopyInv, IInv
<1>2. server' # server
  OBVIOUS
<1>3. ASSUME NEW q \in Keys, World(q) PROVE FALSE
  <2>1. envs \in Nat /\ envs' = envs
    BY <1>1 DEF TypeOK, ClusterTypeOK
  <2>2. CASE Sync(q)
    BY <1>2, <2>2 DEF Sync
  <2>3. CASE Environment(q)
    <3>1. envs' = envs + 1
      BY <2>3 DEF Environment
    <3> QED
      BY <2>1, <3>1
  <2> QED
    BY <1>3, <2>2, <2>3 DEF World
<1>4. PICK c \in Callers : Call(c) \/ Step(c)
  BY <1>2, <1>3 DEF Next, vars
<1>5. Write(c) \/ Lose(c)
  BY <1>2, <1>4 DEF Step, clusterVars, Call, ReadOriginal, Refuse, StartWait, PollPass,
                    PollMiss, Retry, TimeOut, GetOne, Unavailable, Save
<1>6. pc[c] = "write" /\ Refusal(c) = "none" /\ Store(Key(c), Desired(c))
  BY <1>5 DEF Write, Lose
<1>7. Key(c) = k
  BY <1>1, <1>6 DEF Store, Commit, TypeOK, ClusterTypeOK
<1> QED
  BY <1>6, <1>7, ChangerSentNothing

(* No write of a caller undoes what others wrote to fields it does not own,*)
(* unless it sends an object of its own that never had a version (the      *)
(* merge and the version in Update).                                       *)
THEOREM UpdatesLoseNothing == Spec => NoLostUpdate
<1>1. CopyInv /\ [Next]_vars => [UpdateStep]_vars
  BY UpdateStepHolds
<1>2. Spec => [][UpdateStep]_vars
  BY <1>1, CopyInvInit, CopyInvStep, PTL DEF Spec
<1> QED
  BY <1>2 DEF NoLostUpdate, UpdateStep
=============================================================================
