------------------------ MODULE DeviceControlProofs -------------------------
(***************************************************************************)
(* Proofs about DeviceControl for bytes of any size, commands of any type   *)
(* and any arguments: the values of a command arrive.  The weights of the   *)
(* bytes and the value of some bytes are recursive functions, so the proofs *)
(* begin with how these are found by steps from 0 (a set of numbers that    *)
(* holds 0 and every successor holds them all), then show that bytes and    *)
(* values determine each other, and then the invariant of the program.     *)
(***************************************************************************)
EXTENDS DeviceControl, WellFoundedInduction, TLAPS

-----------------------------------------------------------------------------
(* Definitions by recursion over the natural numbers                        *)

Less == OpToRel(<, Nat)

\* The order of the natural numbers.
LEMMA LessDef == Less = {ss \in Nat \X Nat : ss[1] < ss[2]}
BY DEF Less, OpToRel

\* It is well-founded.
LEMMA LessWF == IsWellFoundedOn(Less, Nat)
BY NatLessThanWellFounded DEF Less

\* A set that holds 0 and the successor of each of its numbers holds them all.
LEMMA SetInduction ==
  ASSUME NEW T \in SUBSET Nat, 0 \in T, \A n \in T : n + 1 \in T
  PROVE Nat \subseteq T
<1>1. SUFFICES ASSUME Nat \ T # {} PROVE FALSE
  OBVIOUS
<1>2. PICK x \in Nat \ T : \A y \in Nat \ T : ~ (<<y, x>> \in Less)
  BY <1>1, LessWF, WFMin
<1>3. x # 0 /\ x - 1 \in Nat
  BY <1>2
<1>4. <<x - 1, x>> \in Less
  BY <1>3, LessDef
<1>5. x - 1 \in T
  BY <1>2, <1>3, <1>4
<1>6. (x - 1) + 1 \in T
  BY <1>5
<1> QED BY <1>2, <1>3, <1>6

\* Steps from a first value, as many as one likes.
LEMMA Recursion ==
  ASSUME NEW first \in Nat, NEW step \in [Nat \X Nat -> Nat]
  PROVE  \E f \in [Nat -> Nat] : f[0] = first /\ \A n \in Nat : f[n + 1] = step[<<n, f[n]>>]
<1> DEFINE Good(f, n) == /\ f \in [0 .. n -> Nat] /\ f[0] = first
                         /\ \A i \in 0 .. n - 1 : f[i + 1] = step[<<i, f[i]>>]
<1>1. \A n \in Nat : \E f : Good(f, n)
  <2> DEFINE T == {n \in Nat : \E f : Good(f, n)}
  <2>1. 0 \in T
    <3>1. Good([i \in 0 .. 0 |-> first], 0)
      OBVIOUS
    <3> QED BY <3>1
  <2>2. ASSUME NEW n \in T PROVE n + 1 \in T
    <3>1. n \in Nat /\ \E f : Good(f, n)
      BY <2>2
    <3>2. PICK f : Good(f, n)
      BY <3>1
    <3> DEFINE g == [i \in 0 .. n + 1 |-> IF i = n + 1 THEN step[<<n, f[n]>>] ELSE f[i]]
    <3>3. \A i \in 0 .. n : f[i] \in Nat /\ g[i] = f[i]
      BY <3>1, <3>2
    <3>4. g \in [0 .. n + 1 -> Nat] /\ g[0] = first /\ g[n + 1] = step[<<n, f[n]>>]
      BY <3>1, <3>2, <3>3
    <3>5. ASSUME NEW i \in 0 .. n PROVE g[i + 1] = step[<<i, g[i]>>]
      <4>1. CASE i = n
        BY <4>1, <3>1, <3>3, <3>4
      <4>2. CASE i # n
        <5>1. i \in 0 .. n - 1 /\ i + 1 \in 0 .. n
          BY <4>2, <3>1
        <5>2. f[i + 1] = step[<<i, f[i]>>]
          BY <5>1, <3>2
        <5> QED BY <5>1, <5>2, <3>3
      <4> QED BY <4>1, <4>2
    <3> HIDE DEF g
    <3>6. Good(g, n + 1)
      BY <3>1, <3>4, <3>5
    <3> HIDE DEF Good
    <3> QED BY <3>1, <3>6
  <2> HIDE DEF Good
  <2>3. T \in SUBSET Nat
    OBVIOUS
  <2> HIDE DEF T
  <2>4. Nat \subseteq T
    BY <2>1, <2>2, <2>3, SetInduction
  <2> QED BY <2>4 DEF T
<1>2. ASSUME NEW n \in Nat, NEW m \in Nat, NEW f, NEW g, Good(f, n), Good(g, m), n <= m
      PROVE  f[n] = g[n]
  <2> DEFINE T == {i \in Nat : i <= n => f[i] = g[i]}
  <2>1. 0 \in T
    BY <1>2
  <2>2. ASSUME NEW i \in T PROVE i + 1 \in T
    <3>1. CASE i + 1 <= n
      <4>1. i \in Nat /\ f[i] = g[i] /\ i \in 0 .. n - 1 /\ i \in 0 .. m - 1
        BY <2>2, <3>1, <1>2
      <4>2. f[i + 1] = step[<<i, f[i]>>] /\ g[i + 1] = step[<<i, g[i]>>]
        BY <4>1, <1>2
      <4> QED BY <4>1, <4>2
    <3> QED BY <3>1, <2>2
  <2>3. T \in SUBSET Nat
    OBVIOUS
  <2> HIDE DEF T
  <2>4. Nat \subseteq T
    BY <2>1, <2>2, <2>3, SetInduction
  <2> QED BY <2>4 DEF T
<1> DEFINE G(n) == CHOOSE f : Good(f, n)
           h == [n \in Nat |-> G(n)[n]]
<1>3. \A n \in Nat : Good(G(n), n)
  <2> HIDE DEF Good
  <2> QED BY <1>1
<1>31. \A n \in Nat : G(n) \in [0 .. n -> Nat] /\ G(n)[0] = first
  <2> HIDE DEF G
  <2> QED BY <1>3
<1>4. h \in [Nat -> Nat]
  <2> HIDE DEF Good, G
  <2>1. \A n \in Nat : G(n)[n] \in Nat
    BY <1>31
  <2> QED BY <2>1
<1>5. h[0] = first
  <2> HIDE DEF Good, G
  <2> QED BY <1>31
<1>6. ASSUME NEW n \in Nat PROVE h[n + 1] = step[<<n, h[n]>>]
  <2>1. Good(G(n), n) /\ Good(G(n + 1), n + 1)
    <3> HIDE DEF Good, G
    <3> QED BY <1>3
  <2>2. G(n)[n] = G(n + 1)[n]
    <3> HIDE DEF Good, G
    <3> QED BY <1>2, <2>1
  <2>3. G(n + 1)[n + 1] = step[<<n, G(n + 1)[n]>>]
    <3> HIDE DEF G
    <3> QED BY <2>1
  <2> HIDE DEF Good, G
  <2> QED BY <2>2, <2>3
<1> HIDE DEF h
<1> QED BY <1>4, <1>5, <1>6

-----------------------------------------------------------------------------
(* Quotients, remainders and digits                                         *)

\* Euclid: quotient and remainder.
LEMMA Quotient ==
  ASSUME NEW x \in Int, NEW d \in Nat \ {0}
  PROVE  /\ x \div d \in Int /\ x % d \in 0 .. d - 1
         /\ x = d * (x \div d) + (x % d)
OBVIOUS

\* Euclid: there is one quotient and one remainder.
LEMMA Unique ==
  ASSUME NEW d \in Nat \ {0}, NEW q \in Int, NEW p \in Int, NEW r \in 0 .. d - 1, NEW s \in 0 .. d - 1,
         d * q + r = d * p + s
  PROVE  q = p /\ r = s
<1>1. ~ q < p
  <2> SUFFICES ASSUME q < p PROVE FALSE
    OBVIOUS
  <2>1. PICK k \in Nat : p = q + 1 + k
    <3>1. p - q - 1 \in Nat /\ p = q + 1 + (p - q - 1)
      OBVIOUS
    <3> QED BY <3>1
  <2>2. d * p = d * q + d + d * k
    BY <2>1
  <2>3. d * k \in Nat /\ d * q \in Int
    OBVIOUS
  <2> QED BY <2>2, <2>3
<1>2. ~ p < q
  <2> SUFFICES ASSUME p < q PROVE FALSE
    OBVIOUS
  <2>1. PICK k \in Nat : q = p + 1 + k
    <3>1. q - p - 1 \in Nat /\ q = p + 1 + (q - p - 1)
      OBVIOUS
    <3> QED BY <3>1
  <2>2. d * q = d * p + d + d * k
    BY <2>1
  <2>3. d * k \in Nat /\ d * p \in Int
    OBVIOUS
  <2> QED BY <2>2, <2>3
<1>3. q = p
  BY <1>1, <1>2
<1>4. d * q = d * p /\ d * q \in Int
  BY <1>3
<1> QED BY <1>3, <1>4

\* A quotient and a remainder that fit are the ones.
LEMMA DivMod ==
  ASSUME NEW d \in Nat \ {0}, NEW q \in Int, NEW r \in 0 .. d - 1, NEW x \in Int, x = d * q + r
  PROVE  x \div d = q /\ x % d = r
<1>1. /\ x \div d \in Int /\ x % d \in 0 .. d - 1
      /\ d * (x \div d) + (x % d) = d * q + r
  BY Quotient
<1> DEFINE p == x \div d
           s == x % d
<1>2. p \in Int /\ s \in 0 .. d - 1 /\ d * p + s = d * q + r
  BY <1>1
<1> HIDE DEF p, s
<1>3. p = q /\ s = r
  BY <1>2, Unique
<1> QED BY <1>3 DEF p, s

\* The remainder by a product: one digit and the remainder by the lower weight.
LEMMA ModSplit ==
  ASSUME NEW v \in Int, NEW d \in Nat \ {0}, NEW width \in Nat \ {0}
  PROVE  /\ v % (width * d) = (v % d) + ((v \div d) % width) * d
         /\ width * d \in Nat \ {0}
<1>1. PICK q \in Int, r \in 0 .. d - 1 : q = v \div d /\ r = v % d /\ v = d * q + r
  BY Quotient
<1>2. PICK p \in Int, s \in 0 .. width - 1 : p = q \div width /\ s = q % width /\ q = width * p + s
  BY Quotient
<1>3. width * d \in Nat \ {0}
  OBVIOUS
<1>4. v = (width * d) * p + (s * d + r)
  <2>1. v = d * (width * p + s) + r
    BY <1>1, <1>2
  <2>2. d * (width * p + s) = d * (width * p) + d * s
    OBVIOUS
  <2>3. d * (width * p) = (width * d) * p /\ d * s = s * d
    OBVIOUS
  <2> QED BY <2>1, <2>2, <2>3
<1>5. s * d + r \in 0 .. width * d - 1
  <2>1. s * d >= 0
    BY <1>1, <1>2
  <2>2. PICK k \in Nat : width = s + 1 + k
    <3>1. width - s - 1 \in Nat /\ width = s + 1 + (width - s - 1)
      BY <1>2
    <3> QED BY <3>1
  <2>3. width * d = s * d + d + k * d
    BY <2>2
  <2>4. k * d \in Nat /\ s * d \in Nat
    BY <2>2
  <2> QED BY <1>1, <2>1, <2>3, <2>4
<1>6. v % (width * d) = s * d + r
  <2> DEFINE m == width * d
             t == s * d + r
  <2>1. m \in Nat \ {0} /\ t \in 0 .. m - 1 /\ v = m * p + t
    BY <1>3, <1>4, <1>5
  <2> HIDE DEF m, t
  <2>2. v % m = t
    BY <2>1, DivMod
  <2> QED BY <2>2 DEF m, t
<1>7. v % d = r /\ (v \div d) % width = s
  BY <1>1, <1>2
<1>8. s * d \in Nat
  OBVIOUS
<1> QED BY <1>3, <1>6, <1>7, <1>8

\* A multiple of the next weight leaves a digit alone.
LEMMA DigitShift ==
  ASSUME NEW v \in Int, NEW m \in Int, NEW d \in Nat \ {0}, NEW width \in Nat \ {0}
  PROVE  ((v + m * (width * d)) \div d) % width = (v \div d) % width
<1>1. PICK q \in Int, r \in 0 .. d - 1 : q = v \div d /\ v = d * q + r
  BY Quotient
<1>2. PICK p \in Int, s \in 0 .. width - 1 : s = q % width /\ q = width * p + s
  BY Quotient
<1> DEFINE w == v + m * (width * d)
           u == q + m * width
<1>3. w \in Int /\ u \in Int /\ w = d * u + r
  <2>1. d * (q + m * width) = d * q + d * (m * width)
    OBVIOUS
  <2>2. d * (m * width) = m * (width * d)
    OBVIOUS
  <2>3. m * (width * d) \in Int /\ m * width \in Int
    OBVIOUS
  <2> QED BY <1>1, <2>1, <2>2, <2>3
<1>4. u = width * (p + m) + s
  BY <1>2
<1>5. p + m \in Int
  OBVIOUS
<1> HIDE DEF w, u
<1>6. w \div d = u
  BY <1>3, DivMod
<1>7. u % width = s
  BY <1>3, <1>4, <1>5, DivMod
<1>8. (w \div d) % width = (v \div d) % width
  BY <1>1, <1>2, <1>6, <1>7
<1> QED BY <1>8 DEF w

\* The definition of the weights.
LEMMA PowerDef ==
  /\ Power \in [Nat -> Nat] /\ Power[0] = 1
  /\ \A n \in Nat : Power[n + 1] = ByteBase * Power[n]
<1> DEFINE step == [p \in Nat \X Nat |-> ByteBase * p[2]]
           Eq(f) == f = [k \in Nat |-> IF k = 0 THEN 1 ELSE ByteBase * f[k - 1]]
<1>1. step \in [Nat \X Nat -> Nat]
  BY ControlAssumption
<1>2. PICK f \in [Nat -> Nat] : f[0] = 1 /\ \A n \in Nat : f[n + 1] = step[<<n, f[n]>>]
  <2> HIDE DEF step
  <2>1. 1 \in Nat
    OBVIOUS
  <2> QED BY <1>1, <2>1, Recursion
<1>3. ASSUME NEW n \in Nat PROVE f[n + 1] = ByteBase * f[n]
  BY <1>2
<1>4. ASSUME NEW k \in Nat PROVE f[k] = IF k = 0 THEN 1 ELSE ByteBase * f[k - 1]
  <2>1. CASE k = 0
    BY <1>2, <2>1
  <2>2. CASE k # 0
    <3>1. k - 1 \in Nat /\ (k - 1) + 1 = k
      BY <2>2
    <3>2. f[(k - 1) + 1] = ByteBase * f[k - 1]
      BY <1>3, <3>1
    <3> QED BY <2>2, <3>1, <3>2
  <2> QED BY <2>1, <2>2
<1>5. Eq(f)
  BY <1>2, <1>4
<1>6. Eq(Power)
  <2>1. Power = CHOOSE g : Eq(g)
    BY DEF Power
  <2> HIDE DEF Eq
  <2> QED BY <1>5, <2>1
<1> DEFINE In(f_, n) == f_[n] \in Nat
<1>7. Power[0] = 1
  BY <1>6
<1>8. ASSUME NEW n \in Nat PROVE Power[n + 1] = ByteBase * Power[n]
  <2>1. Power[n + 1] = ByteBase * Power[n + 1 - 1]
    BY <1>6
  <2>2. n + 1 - 1 = n
    OBVIOUS
  <2> QED BY <2>1, <2>2
<1>9. \A n \in Nat : Power[n] \in Nat
  <2> DEFINE T == {n \in Nat : Power[n] \in Nat}
  <2>1. 0 \in T
    BY <1>7
  <2>2. \A n \in T : n + 1 \in T
    BY <1>8, ControlAssumption
  <2>3. T \in SUBSET Nat
    OBVIOUS
  <2> HIDE DEF T
  <2>4. Nat \subseteq T
    BY <2>1, <2>2, <2>3, SetInduction
  <2> QED BY <2>4 DEF T
<1>10. Power \in [Nat -> Nat]
  BY <1>6, <1>9
<1> QED BY <1>7, <1>8, <1>10

\* A weight is a positive number.
LEMMA PowerPositive == \A n \in Nat : Power[n] \in Nat \ {0}
<1> DEFINE T == {n \in Nat : Power[n] \in Nat \ {0}}
<1>1. 0 \in T
  BY PowerDef
<1>2. ASSUME NEW n \in T PROVE n + 1 \in T
  <2>1. n \in Nat /\ Power[n] \in Nat \ {0} /\ Power[n + 1] = ByteBase * Power[n]
    BY <1>2, PowerDef
  <2>2. ByteBase \in Nat \ {0}
    BY ControlAssumption
  <2>3. ByteBase * Power[n] \in Nat \ {0}
    BY <2>1, <2>2
  <2> QED BY <2>1, <2>3
<1>3. T \in SUBSET Nat
  OBVIOUS
<1> HIDE DEF T
<1>4. Nat \subseteq T
  BY <1>1, <1>2, <1>3, SetInduction
<1> QED BY <1>4 DEF T

\* A higher weight is a multiple of each lower one.
LEMMA PowerDivides ==
  ASSUME NEW i \in Nat, NEW k \in Nat
  PROVE  \E m \in Nat : Power[i + k] = m * Power[i]
<1> DEFINE T == {n \in Nat : \E m \in Nat : Power[i + n] = m * Power[i]}
<1>1. 0 \in T
  <2>1. Power[i + 0] = 1 * Power[i]
    BY PowerPositive
  <2> QED BY <2>1
<1>2. ASSUME NEW n \in T PROVE n + 1 \in T
  <2>1. PICK m \in Nat : Power[i + n] = m * Power[i]
    BY <1>2
  <2>2. n \in Nat /\ i + n \in Nat /\ i + (n + 1) = (i + n) + 1
    BY <1>2
  <2>3. Power[(i + n) + 1] = ByteBase * Power[i + n]
    BY <2>2, PowerDef
  <2>4. ByteBase \in Nat /\ Power[i] \in Nat
    BY ControlAssumption, PowerPositive
  <2>5. ByteBase * (m * Power[i]) = (ByteBase * m) * Power[i] /\ ByteBase * m \in Nat
    BY <2>4
  <2>6. Power[i + (n + 1)] = (ByteBase * m) * Power[i]
    BY <2>1, <2>2, <2>3, <2>5
  <2> QED BY <2>2, <2>5, <2>6
<1>3. T \in SUBSET Nat
  OBVIOUS
<1> HIDE DEF T
<1>4. Nat \subseteq T
  BY <1>1, <1>2, <1>3, SetInduction
<1> QED BY <1>4 DEF T

\* The value of the first i of some bytes.
Bytes == 0 .. ByteBase - 1
IsSum(f, a, n) == f = [i \in 0 .. n |-> IF i = 0 THEN 0 ELSE f[i - 1] + a[i] * Power[i - 1]]

\* The sums of the first bytes exist.
LEMMA SumExists ==
  ASSUME NEW n \in Nat, NEW a \in [1 .. n -> Bytes]
  PROVE  \E f : IsSum(f, a, n)
<1> DEFINE step == [p \in Nat \X Nat |-> p[2] + (IF p[1] < n THEN a[p[1] + 1] * Power[p[1]] ELSE 0)]
<1>1. step \in [Nat \X Nat -> Nat]
  <2>1. ASSUME NEW p \in Nat \X Nat
        PROVE  p[2] + (IF p[1] < n THEN a[p[1] + 1] * Power[p[1]] ELSE 0) \in Nat
    <3>1. CASE p[1] < n
      <4>1. p[1] + 1 \in 1 .. n /\ p[1] \in Nat
        BY <3>1
      <4>2. a[p[1] + 1] \in Nat /\ Power[p[1]] \in Nat
        BY <4>1, PowerPositive, ControlAssumption DEF Bytes
      <4>3. a[p[1] + 1] * Power[p[1]] \in Nat
        BY <4>2
      <4> QED BY <4>3, <3>1
    <3>2. CASE ~ p[1] < n
      BY <3>2
    <3> QED BY <3>1, <3>2
  <2> QED BY <2>1
<1>2. PICK f \in [Nat -> Nat] : f[0] = 0 /\ \A i \in Nat : f[i + 1] = step[<<i, f[i]>>]
  <2> HIDE DEF step
  <2>1. 0 \in Nat
    OBVIOUS
  <2> QED BY <1>1, <2>1, Recursion
<1> DEFINE g == [i \in 0 .. n |-> f[i]]
<1>3. ASSUME NEW i \in 0 .. n PROVE g[i] = IF i = 0 THEN 0 ELSE g[i - 1] + a[i] * Power[i - 1]
  <2>1. CASE i = 0
    BY <1>2, <2>1
  <2>2. CASE i # 0
    <3>1. i - 1 \in Nat /\ i - 1 \in 0 .. n /\ i - 1 < n /\ (i - 1) + 1 = i
      BY <2>2
    <3>2. f[(i - 1) + 1] = step[<<i - 1, f[i - 1]>>]
      BY <1>2, <3>1
    <3>3. f[i - 1] \in Nat
      BY <1>2, <3>1
    <3>4. <<i - 1, f[i - 1]>> \in Nat \X Nat
      BY <3>1, <3>3
    <3>5. step[<<i - 1, f[i - 1]>>] = f[i - 1] + (IF i - 1 < n THEN a[(i - 1) + 1] * Power[i - 1] ELSE 0)
      BY <3>4
    <3> HIDE DEF step
    <3>6. f[i] = f[i - 1] + a[i] * Power[i - 1]
      BY <3>1, <3>2, <3>5
    <3>7. g[i] = f[i] /\ g[i - 1] = f[i - 1]
      BY <3>1
    <3> QED BY <2>2, <3>6, <3>7
  <2> QED BY <2>1, <2>2
<1>4. g = [i \in 0 .. n |-> IF i = 0 THEN 0 ELSE g[i - 1] + a[i] * Power[i - 1]]
  <2>1. \A i \in 0 .. n : g[i] = IF i = 0 THEN 0 ELSE g[i - 1] + a[i] * Power[i - 1]
    BY <1>3
  <2>2. g = [i \in 0 .. n |-> g[i]]
    OBVIOUS
  <2> HIDE DEF g
  <2> QED BY <2>1, <2>2
<1> HIDE DEF g
<1> QED BY <1>4 DEF IsSum

\* Each adds one byte with its weight.
LEMMA SumSteps ==
  ASSUME NEW n \in Nat, NEW a \in [1 .. n -> Bytes], NEW f, IsSum(f, a, n)
  PROVE  /\ f[0] = 0
         /\ \A i \in Nat : i < n => /\ a[i + 1] \in Bytes /\ f[i + 1] = f[i] + a[i + 1] * Power[i]
<1>1. f[0] = 0
  BY DEF IsSum
<1>2. ASSUME NEW i \in Nat, i < n PROVE a[i + 1] \in Bytes /\ f[i + 1] = f[i] + a[i + 1] * Power[i]
  <2>1. i + 1 \in 0 .. n /\ i + 1 \in 1 .. n /\ i + 1 # 0 /\ (i + 1) - 1 = i
    BY <1>2
  <2>2. \A j \in 0 .. n : f[j] = IF j = 0 THEN 0 ELSE f[j - 1] + a[j] * Power[j - 1]
    BY DEF IsSum
  <2>3. f[i + 1] = f[(i + 1) - 1] + a[i + 1] * Power[(i + 1) - 1]
    BY <2>1, <2>2
  <2> QED BY <2>1, <2>3
<1> QED BY <1>1, <1>2

\* The value of i bytes is below the weight of the next.
LEMMA SumBounded ==
  ASSUME NEW n \in Nat, NEW a \in [1 .. n -> Bytes], NEW f, IsSum(f, a, n)
  PROVE  \A i \in 0 .. n : f[i] \in 0 .. Power[i] - 1
<1> DEFINE T == {i \in Nat : i <= n => f[i] \in 0 .. Power[i] - 1}
<1>1. 0 \in T
  <2>1. f[0] = 0 /\ Power[0] = 1
    BY SumSteps, PowerDef
  <2>2. f[0] \in 0 .. Power[0] - 1
    BY <2>1
  <2> QED BY <2>2
<1>2. ASSUME NEW i \in T PROVE i + 1 \in T
  <2>1. SUFFICES ASSUME i + 1 <= n PROVE f[i + 1] \in 0 .. Power[i + 1] - 1
    BY <1>2
  <2>2. i \in Nat /\ i < n /\ f[i] \in 0 .. Power[i] - 1
    BY <1>2, <2>1
  <2>3. a[i + 1] \in Bytes /\ f[i + 1] = f[i] + a[i + 1] * Power[i]
    BY <2>2, SumSteps
  <2>4. Power[i] \in Nat \ {0} /\ Power[i + 1] = ByteBase * Power[i]
    BY <2>2, PowerDef, PowerPositive
  <2>5. PICK k \in Nat : ByteBase = a[i + 1] + 1 + k
    <3>1. ByteBase - a[i + 1] - 1 \in Nat /\ ByteBase = a[i + 1] + 1 + (ByteBase - a[i + 1] - 1)
      BY <2>3, ControlAssumption DEF Bytes
    <3> QED BY <3>1
  <2>6. a[i + 1] \in Nat
    BY <2>3, ControlAssumption DEF Bytes
  <2>7. Power[i + 1] = a[i + 1] * Power[i] + Power[i] + k * Power[i]
    BY <2>4, <2>5, <2>6
  <2>8. a[i + 1] * Power[i] \in Nat /\ k * Power[i] \in Nat
    BY <2>4, <2>6
  <2> QED BY <2>2, <2>3, <2>4, <2>7, <2>8
<1>3. T \in SUBSET Nat
  OBVIOUS
<1> HIDE DEF T
<1>4. Nat \subseteq T
  BY <1>1, <1>2, <1>3, SetInduction
<1> QED BY <1>4 DEF T

\* A byte of a value.
ByteAt(v, k) == (v \div Power[k]) % ByteBase

\* The bytes of a value are found again in it, and in what differs from it by a multiple
\* of the weight beyond the last.
LEMMA BytesFound ==
  ASSUME NEW n \in Nat, NEW a \in [1 .. n -> Bytes], NEW f, IsSum(f, a, n), NEW m \in Int,
         NEW x, x = f[n] + m * Power[n], NEW k \in Nat, k < n
  PROVE  ByteAt(x, k) = a[k + 1]
<1> DEFINE Found(y) == (y \div Power[k]) % ByteBase = a[k + 1]
<1>1. Power[k] \in Nat \ {0} /\ ByteBase \in Nat \ {0}
  BY PowerPositive, ControlAssumption
<1>2. \A i \in 0 .. n : f[i] \in Int
  <2>1. \A i \in 0 .. n : f[i] \in 0 .. Power[i] - 1
    BY SumBounded
  <2> QED BY <2>1
<1>3. ASSUME NEW j \in Nat, NEW y \in Int, NEW z \in Int, k + 1 <= j, Found(y)
      PROVE  Found(y + z * Power[j])
  <2>1. j - (k + 1) \in Nat /\ (k + 1) + (j - (k + 1)) = j /\ k + 1 \in Nat
    BY <1>3
  <2>2. PICK q \in Nat : Power[(k + 1) + (j - (k + 1))] = q * Power[k + 1]
    BY <2>1, PowerDivides
  <2>3. Power[k + 1] = ByteBase * Power[k]
    BY PowerDef
  <2>4. Power[j] = q * (ByteBase * Power[k])
    BY <2>1, <2>2, <2>3
  <2>5. z * (q * (ByteBase * Power[k])) = (z * q) * (ByteBase * Power[k]) /\ z * q \in Int
    BY <1>1
  <2>6. ((y + (z * q) * (ByteBase * Power[k])) \div Power[k]) % ByteBase = (y \div Power[k]) % ByteBase
    BY <1>1, <2>5, DigitShift
  <2>7. y + z * Power[j] = y + (z * q) * (ByteBase * Power[k])
    BY <2>4, <2>5
  <2> QED BY <1>3, <2>6, <2>7
<1>4. Found(f[k + 1])
  <2>1. a[k + 1] \in Bytes /\ f[k + 1] = f[k] + a[k + 1] * Power[k]
    BY SumSteps
  <2>2. f[k] \in 0 .. Power[k] - 1
    BY SumBounded
  <2>3. a[k + 1] \in Int /\ a[k + 1] \in 0 .. ByteBase - 1
    BY <2>1 DEF Bytes
  <2>4. f[k + 1] = Power[k] * a[k + 1] + f[k] /\ f[k + 1] \in Int
    BY <1>1, <1>2, <2>1, <2>2, <2>3
  <2>5. f[k + 1] \div Power[k] = a[k + 1]
    <3> DEFINE d == Power[k]
               y == f[k + 1]
               q == a[k + 1]
               r == f[k]
    <3>1. d \in Nat \ {0} /\ q \in Int /\ r \in 0 .. d - 1 /\ y \in Int /\ y = d * q + r
      BY <1>1, <2>2, <2>3, <2>4
    <3> HIDE DEF d, y, q, r
    <3>2. y \div d = q
      BY <3>1, DivMod
    <3> QED BY <3>2 DEF d, y, q
  <2>6. a[k + 1] % ByteBase = a[k + 1]
    BY <1>1, <2>3
  <2> QED BY <2>5, <2>6
<1> DEFINE T == {j \in Nat : k + 1 + j <= n => Found(f[k + 1 + j])}
<1>5. 0 \in T
  BY <1>4
<1>6. ASSUME NEW j \in T PROVE j + 1 \in T
  <2>1. SUFFICES ASSUME k + 1 + (j + 1) <= n PROVE Found(f[k + 1 + (j + 1)])
    BY <1>6
  <2> DEFINE i == k + 1 + j
  <2>2. i \in Nat /\ i < n /\ k + 1 <= i /\ Found(f[i]) /\ k + 1 + (j + 1) = i + 1 /\ i \in 0 .. n
    BY <1>6, <2>1
  <2> HIDE DEF i
  <2>3. a[i + 1] \in Int /\ f[i + 1] = f[i] + a[i + 1] * Power[i] /\ f[i] \in Int
    <3>1. a[i + 1] \in Bytes /\ f[i + 1] = f[i] + a[i + 1] * Power[i]
      BY <2>2, SumSteps
    <3>2. a[i + 1] \in Int
      BY <3>1 DEF Bytes
    <3> QED BY <3>1, <3>2, <1>2, <2>2
  <2>4. Found(f[i] + a[i + 1] * Power[i])
    <3> HIDE DEF Found
    <3> QED BY <1>3, <2>2, <2>3
  <2> HIDE DEF Found
  <2> QED BY <2>2, <2>3, <2>4
<1>7. T \in SUBSET Nat
  OBVIOUS
<1> HIDE DEF T
<1>8. Nat \subseteq T
  BY <1>5, <1>6, <1>7, SetInduction
<1>9. n - (k + 1) \in Nat /\ k + 1 + (n - (k + 1)) = n
  OBVIOUS
<1>10. n - (k + 1) \in T
  BY <1>8, <1>9
<1>11. Found(f[n])
  <2> HIDE DEF Found
  <2> QED BY <1>9, <1>10 DEF T
<1>12. Found(f[n] + m * Power[n])
  <2>1. f[n] \in Int /\ k + 1 <= n
    BY <1>2
  <2> HIDE DEF Found
  <2> QED BY <1>3, <1>11, <2>1
<1> QED BY <1>12 DEF ByteAt

\* The value of a number's first bytes is its remainder.
LEMMA SumOfBytes ==
  ASSUME NEW n \in Nat, NEW a \in [1 .. n -> Bytes], NEW f, IsSum(f, a, n), NEW v \in Int,
         \A i \in Nat : i < n => a[i + 1] = (v \div Power[i]) % ByteBase
  PROVE  f[n] = v % Power[n]
<1> DEFINE T == {i \in Nat : i <= n => f[i] = v % Power[i]}
<1>1. 0 \in T
  <2>1. v % 1 = 0
    OBVIOUS
  <2> QED BY <2>1, SumSteps, PowerDef
<1>2. ASSUME NEW i \in T PROVE i + 1 \in T
  <2>1. SUFFICES ASSUME i + 1 <= n PROVE f[i + 1] = v % Power[i + 1]
    BY <1>2
  <2>2. i \in Nat /\ i < n /\ f[i] = v % Power[i]
    BY <1>2, <2>1
  <2>3. f[i + 1] = f[i] + a[i + 1] * Power[i] /\ a[i + 1] = (v \div Power[i]) % ByteBase
    BY <2>2, SumSteps
  <2>4. Power[i] \in Nat \ {0} /\ Power[i + 1] = ByteBase * Power[i] /\ ByteBase \in Nat \ {0}
    BY <2>2, PowerDef, PowerPositive, ControlAssumption
  <2>5. v % (ByteBase * Power[i]) = (v % Power[i]) + ((v \div Power[i]) % ByteBase) * Power[i]
    BY <2>4, ModSplit
  <2> QED BY <2>2, <2>3, <2>4, <2>5, Zenon
<1>3. T \in SUBSET Nat
  OBVIOUS
<1> HIDE DEF T
<1>4. Nat \subseteq T
  BY <1>1, <1>2, <1>3, SetInduction
<1>5. n \in T
  BY <1>4
<1> QED BY <1>5 DEF T

\* What is assumed of a command's type.
IsTyped(c) == c.bytes \in Nat \ {0} /\ c.signed \in BOOLEAN

\* A type's range holds 0, and no two of its values differ by the weight beyond it.
LEMMA TypeRange ==
  ASSUME NEW c, IsTyped(c)
  PROVE  /\ Power[c.bytes] \in Nat \ {0} /\ Lowest(c) \in Int /\ Highest(c) \in Int
         /\ Lowest(c) <= 0 /\ 0 <= Highest(c) /\ Highest(c) < Power[c.bytes]
         /\ Highest(c) - Lowest(c) < Power[c.bytes]
<1>1. c.bytes \in Nat /\ c.bytes - 1 \in Nat /\ c.signed \in BOOLEAN /\ (c.bytes - 1) + 1 = c.bytes
  BY DEF IsTyped
<1>2. Power[c.bytes] = ByteBase * Power[c.bytes - 1]
  BY <1>1, PowerDef
<1>3. Power[c.bytes - 1] \in Nat \ {0} /\ ByteBase \in Nat \ {0, 1}
  BY <1>1, PowerPositive, ControlAssumption
<1>4. PICK k \in Nat : ByteBase = 2 + k
  <2>1. ByteBase - 2 \in Nat /\ ByteBase = 2 + (ByteBase - 2)
    BY <1>3
  <2> QED BY <2>1
<1>5. Power[c.bytes] = 2 * Power[c.bytes - 1] + k * Power[c.bytes - 1] /\ k * Power[c.bytes - 1] \in Nat
  BY <1>2, <1>3, <1>4
<1>6. PICK p \in Nat : p = Power[c.bytes] /\ p >= 2
  BY <1>3, <1>5
<1>7. p \div 2 \in Nat /\ p \div 2 >= 1 /\ 2 * (p \div 2) <= p
  BY <1>6
<1> QED BY <1>1, <1>6, <1>7 DEF Lowest, Highest

\* A value of the type is found again from its remainder by the weight beyond.
LEMMA ValueBack ==
  ASSUME NEW c, IsTyped(c), NEW v \in Lowest(c) .. Highest(c)
  PROVE  v = IF v % Power[c.bytes] > Highest(c) THEN (v % Power[c.bytes]) - Power[c.bytes]
             ELSE v % Power[c.bytes]
<1>1. PICK p \in Nat \ {0} : p = Power[c.bytes]
  BY TypeRange
<1>2. PICK l \in Int, h \in Int : l = Lowest(c) /\ h = Highest(c)
  BY TypeRange
<1>3. l <= 0 /\ 0 <= h /\ h < p /\ h - l < p /\ v \in l .. h
  BY <1>1, <1>2, TypeRange
<1>4. v = IF v % p > h THEN (v % p) - p ELSE v % p
  <2>1. CASE v >= 0
    <3>1. v = p * 0 + v /\ v \in 0 .. p - 1
      BY <2>1, <1>3
    <3>2. v % p = v
      BY <3>1, DivMod
    <3> QED BY <3>2, <1>3
  <2>2. CASE v < 0
    <3>1. v = p * (-1) + (v + p) /\ v + p \in 0 .. p - 1 /\ -1 \in Int
      BY <2>2, <1>3
    <3>2. v % p = v + p
      BY <3>1, DivMod
    <3> QED BY <3>2, <1>3
  <2> QED BY <2>1, <2>2, <1>3
<1> QED BY <1>1, <1>2, <1>4

\* The value that is read is the sum, with its sign.
ReadsSum(c, data, index, f) ==
  command_bytes_to_value(c, data, index) =
    IF f[c.bytes] > Highest(c) THEN f[c.bytes] - Power[c.bytes] ELSE f[c.bytes]

\* The value read at an index is the sum of its bytes, with its sign.
LEMMA ValueOfBytes ==
  ASSUME NEW c, IsTyped(c), NEW data, NEW index, NEW a \in [1 .. c.bytes -> Bytes],
         \A i \in 1 .. c.bytes : a[i] = data[(index - 1) * c.bytes + i]
  PROVE  \E f : IsSum(f, a, c.bytes) /\ ReadsSum(c, data, index, f)
<1> DEFINE Rec(g) == g = [i \in 0 .. c.bytes |->
                            IF i = 0 THEN 0 ELSE g[i - 1] + data[(index - 1) * c.bytes + i] * Power[i - 1]]
<1>1. c.bytes \in Nat
  BY DEF IsTyped
<1>2. ASSUME NEW g PROVE Rec(g) <=> IsSum(g, a, c.bytes)
  <2>1. ASSUME NEW i \in 0 .. c.bytes
        PROVE  (IF i = 0 THEN 0 ELSE g[i - 1] + data[(index - 1) * c.bytes + i] * Power[i - 1])
                 = (IF i = 0 THEN 0 ELSE g[i - 1] + a[i] * Power[i - 1])
    <3>1. i # 0 => i \in 1 .. c.bytes
      BY <1>1
    <3>2. i # 0 => a[i] = data[(index - 1) * c.bytes + i]
      BY <3>1
    <3> QED BY <3>2, Zenon
  <2>2. [i \in 0 .. c.bytes |->
           IF i = 0 THEN 0 ELSE g[i - 1] + data[(index - 1) * c.bytes + i] * Power[i - 1]]
          = [i \in 0 .. c.bytes |-> IF i = 0 THEN 0 ELSE g[i - 1] + a[i] * Power[i - 1]]
    BY <2>1, Zenon
  <2> QED BY <2>2, Zenon DEF IsSum
<1>3. \E g : Rec(g)
  <2>1. PICK g : IsSum(g, a, c.bytes)
    BY <1>1, SumExists
  <2> HIDE DEF Rec
  <2> QED BY <1>2, <2>1
<1> DEFINE f == CHOOSE g : Rec(g)
<1>4. Rec(f)
  <2> HIDE DEF Rec
  <2> QED BY <1>3
<1>5. IsSum(f, a, c.bytes)
  <2> HIDE DEF Rec, f
  <2> QED BY <1>2, <1>4
<1>6. ReadsSum(c, data, index, f)
  BY Zenon DEF command_bytes_to_value, ReadsSum
<1> HIDE DEF f
<1> QED BY <1>5, <1>6

\* The place of byte k of a value.
LEMMA ByteOfValue ==
  ASSUME NEW c, IsTyped(c), NEW values, Len(values) \in Nat, NEW index \in 1 .. Len(values),
         NEW k \in Nat, k < c.bytes
  PROVE  /\ (index - 1) * c.bytes + (k + 1) \in 1 .. c.bytes * Len(values)
         /\ command_bytes_from_value(c, values)[(index - 1) * c.bytes + (k + 1)]
              = (values[index] \div Power[k]) % ByteBase
<1>1. PICK width \in Nat \ {0} : width = c.bytes
  BY DEF IsTyped
<1>2. PICK j \in Nat, m \in Nat, n \in Nat : n = Len(values) /\ index = j + 1 /\ n = j + 1 + m
  <2>1. PICK n \in Nat : n = Len(values)
    OBVIOUS
  <2>2. index \in 1 .. n
    BY <2>1
  <2>3. index - 1 \in Nat /\ n - index \in Nat /\ index = (index - 1) + 1 /\ n = (index - 1) + 1 + (n - index)
    BY <2>1, <2>2
  <2> QED BY <2>1, <2>3
<1> DEFINE i == width * j + (k + 1)
<1>3. width * j \in Nat /\ width * m \in Nat /\ k < width
  BY <1>1
<1>4. i = (index - 1) * c.bytes + (k + 1)
  <2>1. index - 1 = j
    BY <1>2
  <2>2. (index - 1) * c.bytes = j * width
    BY <1>1, <2>1, Zenon
  <2>3. j * width = width * j
    OBVIOUS
  <2> QED BY <2>2, <2>3, Zenon
<1>5. i \in 1 .. width * n
  <2>1. width * n = width * j + width + width * m
    BY <1>2
  <2> QED BY <1>3, <2>1
<1>6. (i - 1) \div width = j /\ (i - 1) % width = k
  <2> DEFINE p == width * j
  <2>1. p \in Nat
    BY <1>3
  <2>2. i - 1 = p + k
    <3>1. i = p + (k + 1)
      OBVIOUS
    <3> HIDE DEF i, p
    <3> QED BY <2>1, <3>1
  <2>3. i - 1 = width * j + k
    BY <2>2
  <2>4. i - 1 \in Int /\ k \in 0 .. width - 1
    BY <1>3
  <2> HIDE DEF i, p
  <2>5. j \in Int
    OBVIOUS
  <2> QED BY <2>3, <2>4, <2>5, DivMod
<1> HIDE DEF i
<1>7. i \in 1 .. c.bytes * Len(values)
  BY <1>1, <1>2, <1>5, Zenon
<1>8. command_bytes_from_value(c, values)[i]
        = (values[((i - 1) \div c.bytes) + 1] \div Power[(i - 1) % c.bytes]) % ByteBase
  BY <1>7, Zenon DEF command_bytes_from_value
<1>9. command_bytes_from_value(c, values)[i] = (values[index] \div Power[k]) % ByteBase
  BY <1>1, <1>2, <1>6, <1>8, Zenon
<1> QED BY <1>4, <1>7, <1>9, Zenon

\* Each byte of some values belongs to one of them.
LEMMA PlaceOfByte ==
  ASSUME NEW width \in Nat \ {0}, NEW num \in Nat, NEW i \in 1 .. width * num
  PROVE  \E j \in 0 .. num - 1, k \in 0 .. width - 1 : i - 1 = width * j + k
<1>1. PICK j \in Int, k \in 0 .. width - 1 : i - 1 = width * j + k
  <2>1. i - 1 \in Int
    OBVIOUS
  <2> QED BY <2>1, Quotient
<1>2. j >= 0
  <2> SUFFICES ASSUME j < 0 PROVE FALSE
    OBVIOUS
  <2>1. PICK m \in Nat : j = -1 - m
    <3>1. -1 - j \in Nat /\ j = -1 - (-1 - j)
      OBVIOUS
    <3> QED BY <3>1
  <2>2. width * j = -width - width * m /\ width * m \in Nat
    BY <2>1
  <2> QED BY <1>1, <2>2
<1>3. j < num
  <2> SUFFICES ASSUME j >= num PROVE FALSE
    OBVIOUS
  <2>1. PICK m \in Nat : j = num + m
    <3>1. j - num \in Nat /\ j = num + (j - num)
      OBVIOUS
    <3> QED BY <3>1
  <2>2. width * j = width * num + width * m /\ width * m \in Nat /\ width * num \in Nat
    BY <2>1
  <2> QED BY <1>1, <2>2
<1> QED BY <1>1, <1>2, <1>3

\* The bytes of values of the type read back as the values.
LEMMA ValuesReadBack ==
  ASSUME NEW c, IsTyped(c), NEW values, Len(values) \in Nat, NEW index \in 1 .. Len(values),
         values[index] \in Lowest(c) .. Highest(c)
  PROVE  command_bytes_to_value(c, command_bytes_from_value(c, values), index) = values[index]
<1> DEFINE data == command_bytes_from_value(c, values)
           v == values[index]
           a == [i \in 1 .. c.bytes |-> data[(index - 1) * c.bytes + i]]
<1>1. c.bytes \in Nat /\ v \in Int
  BY TypeRange DEF IsTyped
<1>2. ASSUME NEW k \in Nat, k < c.bytes
      PROVE  a[k + 1] = (v \div Power[k]) % ByteBase /\ a[k + 1] \in Bytes
  <2>1. k + 1 \in 1 .. c.bytes
    BY <1>1, <1>2
  <2>2. data[(index - 1) * c.bytes + (k + 1)] = (v \div Power[k]) % ByteBase
    BY <1>2, ByteOfValue
  <2>3. a[k + 1] = (v \div Power[k]) % ByteBase
    BY <2>1, <2>2, Zenon
  <2>4. Power[k] \in Nat \ {0} /\ ByteBase \in Nat \ {0}
    BY <1>2, PowerPositive, ControlAssumption
  <2>5. v \div Power[k] \in Int
    BY <1>1, <2>4
  <2>6. (v \div Power[k]) % ByteBase \in 0 .. ByteBase - 1
    BY <2>4, <2>5
  <2> QED BY <2>3, <2>6, Zenon DEF Bytes
<1>3. a \in [1 .. c.bytes -> Bytes]
  <2>1. ASSUME NEW i \in 1 .. c.bytes PROVE a[i] \in Bytes
    <3>1. i - 1 \in Nat /\ i - 1 < c.bytes /\ (i - 1) + 1 = i
      BY <1>1, <2>1
    <3> HIDE DEF a
    <3>2. a[(i - 1) + 1] \in Bytes
      BY <1>2, <3>1
    <3> QED BY <3>1, <3>2, Zenon
  <2>2. a = [i \in 1 .. c.bytes |-> a[i]]
    BY Zenon
  <2> HIDE DEF a
  <2> QED BY <2>1, <2>2, Zenon
<1>4. \A i \in 1 .. c.bytes : a[i] = data[(index - 1) * c.bytes + i]
  BY Zenon
<1> HIDE DEF a, data, v
<1>5. PICK f : IsSum(f, a, c.bytes) /\ ReadsSum(c, data, index, f)
  BY <1>3, <1>4, ValueOfBytes
<1>6. f[c.bytes] = v % Power[c.bytes]
  <2>1. \A i \in Nat : i < c.bytes => a[i + 1] = (v \div Power[i]) % ByteBase
    BY <1>2
  <2> QED BY <1>1, <1>3, <1>5, <2>1, SumOfBytes
<1>7. v \in Lowest(c) .. Highest(c)
  BY DEF v
<1>8. v = IF v % Power[c.bytes] > Highest(c) THEN (v % Power[c.bytes]) - Power[c.bytes]
          ELSE v % Power[c.bytes]
  BY <1>7, ValueBack, Zenon
<1>9. command_bytes_to_value(c, data, index) = v
  BY <1>5, <1>6, <1>8, Zenon DEF ReadsSum
<1> QED BY <1>9 DEF data, v

\* The values of some bytes have these bytes.
LEMMA BytesReadBack ==
  ASSUME NEW c, IsTyped(c), NEW num \in Nat, NEW data \in [1 .. c.bytes * num -> Bytes]
  PROVE  command_bytes_from_value(c, [i \in 1 .. num |-> command_bytes_to_value(c, data, i)]) = data
<1> DEFINE values == [i \in 1 .. num |-> command_bytes_to_value(c, data, i)]
<1>1. PICK width \in Nat \ {0} : width = c.bytes
  BY DEF IsTyped
<1>2. Len(values) = num
  <2> DEFINE S == {command_bytes_to_value(c, data, i) : i \in 1 .. num}
  <2>1. values \in [1 .. num -> S]
    BY Zenon
  <2>2. values \in Seq(S) /\ DOMAIN values = 1 .. num
    <3> HIDE DEF values, S
    <3> QED BY <2>1
  <2> HIDE DEF S
  <2> HIDE DEF values
  <2> QED BY <2>2
<1>3. ASSUME NEW j \in Nat, j < num, NEW k \in Nat, k < width
      PROVE  (command_bytes_to_value(c, data, j + 1) \div Power[k]) % ByteBase = data[((j + 1) - 1) * c.bytes + (k + 1)]
  <2> DEFINE a == [i \in 1 .. c.bytes |-> data[((j + 1) - 1) * c.bytes + i]]
  <2>1. a \in [1 .. c.bytes -> Bytes]
    <3>1. ASSUME NEW i \in 1 .. width PROVE ((j + 1) - 1) * width + i \in 1 .. width * num
      <4>1. PICK m \in Nat : num = j + 1 + m
        <5>1. num - j - 1 \in Nat /\ num = j + 1 + (num - j - 1)
          BY <1>3
        <5> QED BY <5>1
      <4>2. width * num = width * j + width + width * m
        BY <4>1
      <4>3. width * j \in Nat /\ width * m \in Nat
        OBVIOUS
      <4>4. (j + 1) - 1 = j /\ j * width = width * j
        OBVIOUS
      <4>5. ((j + 1) - 1) * width = width * j
        BY <4>4, Zenon
      <4>6. width * j + i \in 1 .. width * num
        BY <3>1, <4>2, <4>3
      <4> QED BY <4>5, <4>6, Zenon
    <3>2. ASSUME NEW i \in 1 .. c.bytes PROVE data[((j + 1) - 1) * c.bytes + i] \in Bytes
      <4>1. ((j + 1) - 1) * c.bytes + i \in 1 .. c.bytes * num
        BY <1>1, <3>1, <3>2, Zenon
      <4> QED BY <4>1, Zenon
    <3> QED BY <3>2, Zenon
  <2>2. \A i \in 1 .. c.bytes : a[i] = data[((j + 1) - 1) * c.bytes + i]
    BY Zenon
  <2> HIDE DEF a
  <2>3. PICK f : IsSum(f, a, c.bytes) /\ ReadsSum(c, data, j + 1, f)
    BY <2>1, <2>2, ValueOfBytes
  <2>4. f[c.bytes] \in Int /\ Power[c.bytes] \in Nat \ {0}
    <3>1. c.bytes \in Nat /\ c.bytes \in 0 .. c.bytes
      BY DEF IsTyped
    <3>2. Power[c.bytes] \in Nat \ {0}
      BY <3>1, PowerPositive
    <3>3. f[c.bytes] \in 0 .. Power[c.bytes] - 1
      BY <2>1, <2>3, <3>1, SumBounded
    <3> QED BY <3>2, <3>3
  <2>5. PICK m \in Int : command_bytes_to_value(c, data, j + 1) = f[c.bytes] + m * Power[c.bytes]
    <3>1. CASE f[c.bytes] > Highest(c)
      <4>1. command_bytes_to_value(c, data, j + 1) = f[c.bytes] - Power[c.bytes]
        BY <2>3, <3>1, Zenon DEF ReadsSum
      <4>2. f[c.bytes] - Power[c.bytes] = f[c.bytes] + (-1) * Power[c.bytes] /\ -1 \in Int
        BY <2>4
      <4> QED BY <4>1, <4>2, Zenon
    <3>2. CASE ~ f[c.bytes] > Highest(c)
      <4>1. command_bytes_to_value(c, data, j + 1) = f[c.bytes]
        BY <2>3, <3>2, Zenon DEF ReadsSum
      <4>2. f[c.bytes] = f[c.bytes] + 0 * Power[c.bytes] /\ 0 \in Int
        BY <2>4
      <4> QED BY <4>1, <4>2, Zenon
    <3> QED BY <3>1, <3>2
  <2>6. ByteAt(command_bytes_to_value(c, data, j + 1), k) = a[k + 1]
    <3> DEFINE x == command_bytes_to_value(c, data, j + 1)
    <3>1. /\ width \in Nat /\ a \in [1 .. width -> Bytes] /\ IsSum(f, a, width) /\ m \in Int
          /\ x = f[width] + m * Power[width] /\ k \in Nat /\ k < width
      BY <1>1, <1>3, <2>1, <2>3, <2>5, Zenon
    <3> HIDE DEF x
    <3>2. ByteAt(x, k) = a[k + 1]
      BY <3>1, BytesFound
    <3> QED BY <3>2 DEF x
  <2>7. k + 1 \in 1 .. c.bytes
    BY <1>1, <1>3
  <2> QED BY <2>2, <2>5, <2>6, <2>7, Zenon DEF ByteAt
<1>4. ASSUME NEW i \in 1 .. width * num PROVE command_bytes_from_value(c, values)[i] = data[i]
  <2>1. PICK j \in 0 .. num - 1, k \in 0 .. width - 1 : i - 1 = width * j + k
    BY <1>4, PlaceOfByte
  <2>4. j \in Nat /\ j < num /\ k \in Nat /\ k < width /\ j + 1 \in 1 .. num
    BY <2>1
  <2>5. ((j + 1) - 1) * c.bytes + (k + 1) = i
    <3>1. (j + 1) - 1 = j /\ j * width = width * j /\ width * j \in Int
      OBVIOUS
    <3>2. ((j + 1) - 1) * width = width * j
      BY <3>1, Zenon
    <3>3. width * j + (k + 1) = i
      BY <2>1, <3>1
    <3> QED BY <1>1, <3>2, <3>3, Zenon
  <2>6. values[j + 1] = command_bytes_to_value(c, data, j + 1)
    BY <2>4, Zenon
  <2> HIDE DEF values
  <2>7. command_bytes_from_value(c, values)[((j + 1) - 1) * c.bytes + (k + 1)]
          = (values[j + 1] \div Power[k]) % ByteBase
    <3>1. Len(values) \in Nat /\ j + 1 \in 1 .. Len(values) /\ k < c.bytes
      BY <1>1, <1>2, <2>4
    <3> QED BY <2>4, <3>1, ByteOfValue
  <2>8. (command_bytes_to_value(c, data, j + 1) \div Power[k]) % ByteBase
          = data[((j + 1) - 1) * c.bytes + (k + 1)]
    BY <1>3, <2>4
  <2> QED BY <2>5, <2>6, <2>7, <2>8, Zenon
<1>5. command_bytes_from_value(c, values)
        = [i \in 1 .. c.bytes * num |-> command_bytes_from_value(c, values)[i]]
  <2> HIDE DEF values
  <2> QED BY <1>2, Zenon DEF command_bytes_from_value
<1>6. data = [i \in 1 .. c.bytes * num |-> data[i]]
  BY Zenon
<1> HIDE DEF values
<1>7. \A i \in 1 .. c.bytes * num : command_bytes_from_value(c, values)[i] = data[i]
  BY <1>1, <1>4, Zenon
<1>8. command_bytes_from_value(c, values) = data
  BY <1>5, <1>6, <1>7, Zenon
<1> QED BY <1>8 DEF values

\* A clamped argument is the value of the type that is nearest to it.
LEMMA ClampIsNearest ==
  ASSUME NEW c, IsTyped(c), NEW arg \in Int, ~ IsUint64(c)
  PROVE  Nearest(c, arg, command_arg_string_to_value(c, arg))
<1>1. PICK l \in Int, h \in Int : l = Lowest(c) /\ h = Highest(c) /\ l <= 0 /\ 0 <= h
  BY TypeRange
<1> DEFINE v == IF arg < l THEN l ELSE IF arg > h THEN h ELSE arg
<1>2. v \in l .. h
  BY <1>1
<1>3. ASSUME NEW w \in l .. h PROVE (arg - v) * (arg - v) <= (arg - w) * (arg - w)
  <2>1. \A x \in Nat, y \in Nat : x <= y => x * x <= y * y
    <3> SUFFICES ASSUME NEW x \in Nat, NEW y \in Nat, x <= y PROVE x * x <= y * y
      OBVIOUS
    <3>1. PICK d \in Nat : y = x + d
      <4>1. y - x \in Nat /\ y = x + (y - x)
        OBVIOUS
      <4> QED BY <4>1
    <3>2. y * y = x * x + 2 * (x * d) + d * d
      BY <3>1
    <3>3. x * x \in Nat /\ x * d \in Nat /\ d * d \in Nat
      OBVIOUS
    <3> QED BY <3>2, <3>3
  <2>2. CASE arg < l
    <3>1. l - arg \in Nat /\ w - arg \in Nat /\ l - arg <= w - arg /\ v = l
      BY <2>2, <1>1, <1>3
    <3>2. (l - arg) * (l - arg) <= (w - arg) * (w - arg)
      BY <2>1, <3>1
    <3>3. (arg - l) * (arg - l) = (l - arg) * (l - arg) /\ (arg - w) * (arg - w) = (w - arg) * (w - arg)
      BY <1>1, <1>3
    <3> QED BY <3>1, <3>2, <3>3
  <2>3. CASE arg > h
    <3>1. arg - h \in Nat /\ arg - w \in Nat /\ arg - h <= arg - w /\ v = h
      BY <2>3, <1>1, <1>3
    <3>2. (arg - h) * (arg - h) <= (arg - w) * (arg - w)
      BY <2>1, <3>1
    <3> QED BY <3>1, <3>2
  <2>4. CASE ~ arg < l /\ ~ arg > h
    <3>1. v = arg /\ arg - v = 0
      BY <2>4
    <3>2. 0 * 0 = 0 /\ (arg - w) * (arg - w) >= 0
      BY <1>3
    <3> QED BY <3>1, <3>2
  <2> QED BY <2>2, <2>3, <2>4
<1>4. v = command_arg_string_to_value(c, arg)
  BY <1>1, Zenon DEF command_arg_string_to_value
<1> HIDE DEF v
<1> QED BY <1>1, <1>2, <1>3, <1>4 DEF Nearest

\* An argument of the widest unsigned type is counted from the other end when it is negative.
LEMMA WideArrives ==
  ASSUME NEW c, IsTyped(c), NEW arg \in Int, IsUint64(c)
  PROVE  /\ Arrived(c, arg, command_arg_string_to_value(c, arg))
         /\ command_arg_string_to_value(c, arg) \in Lowest(c) .. Highest(c)
<1>1. PICK h \in Int, p \in Nat \ {0} :
        h = Highest(c) /\ p = Power[c.bytes] /\ Lowest(c) = 0 /\ 0 <= h /\ h = p - 1
  BY TypeRange DEF IsUint64, Lowest, Highest
<1>2. command_arg_string_to_value(c, arg) = IF arg \in -h .. h THEN arg % p ELSE h
  BY <1>1 DEF command_arg_string_to_value, strtoull
<1>3. PICK v : v = command_arg_string_to_value(c, arg)
  OBVIOUS
<1>4. ASSUME arg \in 0 .. h PROVE v = arg
  <2>1. arg = p * 0 + arg /\ arg \in 0 .. p - 1
    BY <1>1, <1>4
  <2>2. arg % p = arg
    BY <2>1, DivMod
  <2> QED BY <1>1, <1>2, <1>3, <1>4, <2>2
<1>5. ASSUME arg < 0, ~ arg < -h PROVE v = p + arg
  <2>1. arg = p * (-1) + (p + arg) /\ p + arg \in 0 .. p - 1 /\ -1 \in Int
    BY <1>1, <1>5
  <2>2. arg % p = p + arg
    BY <2>1, DivMod
  <2>3. arg \in -h .. h
    BY <1>1, <1>5
  <2> QED BY <1>2, <1>3, <2>2, <2>3
<1>6. ASSUME arg \notin -h .. h PROVE v = h
  BY <1>2, <1>3, <1>6
<1>7. v \in 0 .. h
  BY <1>1, <1>4, <1>5, <1>6
<1>8. CASE arg < 0
  <2>1. v = IF arg < -h THEN h ELSE p + arg
    BY <1>1, <1>5, <1>6, <1>8
  <2>2. Arrived(c, arg, v)
    BY <1>1, <1>8, <2>1 DEF Arrived
  <2> QED BY <1>1, <1>3, <1>7, <2>2
<1>9. CASE ~ arg < 0
  <2>1. v = IF arg > h THEN h ELSE arg
    BY <1>1, <1>4, <1>6, <1>9
  <2>2. ASSUME NEW w \in 0 .. h PROVE (arg - v) * (arg - v) <= (arg - w) * (arg - w)
    <3>1. CASE arg > h
      <4>1. PICK a \in Nat, b \in Nat : arg - h = a /\ h - w = b
        <5>1. arg - h \in Nat /\ h - w \in Nat
          BY <1>1, <2>2, <3>1
        <5> QED BY <5>1
      <4>2. arg - w = a + b /\ v = h
        BY <1>1, <2>1, <2>2, <3>1, <4>1
      <4>3. (a + b) * (a + b) = a * a + 2 * (a * b) + b * b /\ a * b \in Nat /\ b * b \in Nat /\ a * a \in Nat
        OBVIOUS
      <4> QED BY <4>1, <4>2, <4>3
    <3>2. CASE ~ arg > h
      <4>1. arg - v = 0
        BY <1>1, <2>1, <3>2
      <4>2. (arg - w) * (arg - w) >= 0 /\ 0 * 0 = 0
        BY <2>2
      <4> QED BY <4>1, <4>2
    <3> QED BY <3>1, <3>2
  <2>3. Nearest(c, arg, v)
    BY <1>1, <1>7, <2>2, Zenon DEF Nearest
  <2>4. Arrived(c, arg, v)
    BY <1>9, <2>3 DEF Arrived
  <2> QED BY <1>1, <1>3, <1>7, <2>4
<1> QED BY <1>8, <1>9

\* Of any type, an argument becomes the value that is to arrive.
LEMMA ArgArrives ==
  ASSUME NEW c, IsTyped(c), NEW arg \in Int
  PROVE  /\ Arrived(c, arg, command_arg_string_to_value(c, arg))
         /\ command_arg_string_to_value(c, arg) \in Lowest(c) .. Highest(c)
<1>1. CASE IsUint64(c)
  BY <1>1, WideArrives
<1>2. CASE ~ IsUint64(c)
  <2>1. Nearest(c, arg, command_arg_string_to_value(c, arg))
    BY <1>2, ClampIsNearest
  <2> QED BY <1>2, <2>1 DEF Arrived, Nearest
<1> QED BY <1>1, <1>2

\* The bytes of some values are bytes, so many for each.
LEMMA BytesOfValues ==
  ASSUME NEW c, IsTyped(c), NEW num \in Nat, NEW values \in [1 .. num -> Int], Len(values) = num
  PROVE  command_bytes_from_value(c, values) \in [1 .. c.bytes * num -> Bytes]
<1>1. PICK width \in Nat \ {0} : width = c.bytes
  BY DEF IsTyped
<1>2. ASSUME NEW i \in 1 .. width * num
      PROVE  (values[((i - 1) \div width) + 1] \div Power[(i - 1) % width]) % ByteBase \in Bytes
  <2>1. PICK j \in 0 .. num - 1, k \in 0 .. width - 1 : i - 1 = width * j + k
    BY PlaceOfByte
  <2>2. (i - 1) \div width = j /\ (i - 1) % width = k
    <3> DEFINE x == i - 1
    <3>1. x \in Int /\ j \in Int /\ x = width * j + k
      BY <2>1
    <3> HIDE DEF x
    <3>2. x \div width = j /\ x % width = k
      BY <3>1, DivMod
    <3> QED BY <3>2 DEF x
  <2>3. values[j + 1] \in Int /\ Power[k] \in Nat \ {0} /\ ByteBase \in Nat \ {0}
    <3>1. j + 1 \in 1 .. num /\ k \in Nat
      OBVIOUS
    <3> QED BY <3>1, PowerPositive, ControlAssumption
  <2>4. values[j + 1] \div Power[k] \in Int
    BY <2>3
  <2>5. (values[j + 1] \div Power[k]) % ByteBase \in 0 .. ByteBase - 1
    BY <2>3, <2>4
  <2> QED BY <2>2, <2>5, Zenon DEF Bytes
<1>3. command_bytes_from_value(c, values)
        = [i \in 1 .. width * num |-> (values[((i - 1) \div width) + 1] \div Power[(i - 1) % width]) % ByteBase]
  BY <1>1, Zenon DEF command_bytes_from_value
<1>4. command_bytes_from_value(c, values) \in [1 .. width * num -> Bytes]
  BY <1>2, <1>3, Zenon
<1> QED BY <1>1, <1>4, Zenon

-----------------------------------------------------------------------------
(* Device control: every value arrives                                       *)

\* The bytes of the arguments of command n, each a value of its type.
Given(n) ==
  command_bytes_from_value(commands[n],
    [i \in DOMAIN program.call.args |-> command_arg_string_to_value(commands[n], program.call.args[i])])
BytePlaces(n) == 1 .. commands[n].bytes * commands[n].num_values

ControlCallInv ==
  /\ program \in [at : {"ended", "connect", "sent", "answered"},
                  call : [get : Names, set : Names, args : Seq(Args)]]
  /\ request \in [dir : {"none", "read", "write"}, resid : Nat, cmd : Nat, data : Seq(Bytes)]
  /\ noted \in Seq(Bytes)
  /\ program.at \in {"connect", "sent"} => ret = "CONTROL_ERROR"
  /\ program.at # "sent" => request.dir = "none"
  /\ program.at = "sent" => \A n \in DOMAIN commands :
       /\ Gets(n) => request.dir = "read" /\ request.data \in [BytePlaces(n) -> Bytes]
       /\ Sets(n) => request.dir = "write" /\ request.data = Given(n)

\* An answer holds what the servicer has noted, and that is what was asked for.
ControlAnswerInv ==
  program.at = "answered" /\ ret = "CONTROL_SUCCESS" => \A n \in DOMAIN commands :
    /\ Gets(n) => request.data = noted /\ noted \in [BytePlaces(n) -> Bytes]
    /\ Sets(n) => noted = Given(n)

ControlInv == ControlTypeOK /\ ControlCallInv /\ ControlAnswerInv /\ ValuesArrive

\* A command has a type, and is none of the two names that are not commands.
LEMMA CommandTyped ==
  ASSUME NEW n \in DOMAIN commands
  PROVE  /\ IsTyped(commands[n]) /\ commands[n].num_values \in Nat
         /\ commands[n].resid \in Nat /\ commands[n].cmd \in Nat
         /\ n # "none" /\ n # "unknown"
<1>1. /\ commands[n].bytes \in Nat \ {0} /\ commands[n].signed \in BOOLEAN
      /\ commands[n].num_values \in Nat /\ commands[n].resid \in Nat /\ commands[n].cmd \in 0 .. 127
  BY ControlAssumption
<1>2. n # "none" /\ n # "unknown"
  BY ControlAssumption
<1> QED BY <1>1, <1>2 DEF IsTyped

\* A call that reads a command reads no other and writes none.
LEMMA OneCommand ==
  ASSUME NEW n \in DOMAIN commands, NEW m \in DOMAIN commands, Gets(n)
  PROVE  ~ Sets(m) /\ (Gets(m) => m = n)
BY CommandTyped DEF Gets, Sets

\* The bytes of the arguments of a command are as many as its values have.
LEMMA GivenBytes ==
  ASSUME NEW n \in DOMAIN commands, ControlCallInv, Sets(n)
  PROVE  Given(n) \in [BytePlaces(n) -> Bytes]
<1> DEFINE args == program.call.args
           values == [i \in DOMAIN args |-> command_arg_string_to_value(commands[n], args[i])]
           num == commands[n].num_values
<1>1. num \in Nat /\ args \in Seq(Args) /\ Len(args) = num
  BY CommandTyped DEF ControlCallInv, Sets
<1>2. DOMAIN args = 1 .. num /\ \A i \in DOMAIN args : args[i] \in Int
  <2> HIDE DEF args, num
  <2>1. Args \subseteq Int
    BY ControlAssumption
  <2>2. DOMAIN args = 1 .. num /\ \A i \in DOMAIN args : args[i] \in Args
    BY <1>1
  <2> QED BY <2>1, <2>2, Zenon
<1>3. \A i \in 1 .. num : command_arg_string_to_value(commands[n], args[i]) \in Int
  <2>1. Lowest(commands[n]) \in Int /\ Highest(commands[n]) \in Int /\ IsTyped(commands[n])
    BY CommandTyped, TypeRange
  <2> HIDE DEF args, num
  <2>2. ASSUME NEW k \in 1 .. num PROVE command_arg_string_to_value(commands[n], args[k]) \in Int
    <3>1. args[k] \in Int
      BY <1>2
    <3>2. command_arg_string_to_value(commands[n], args[k]) \in Lowest(commands[n]) .. Highest(commands[n])
      BY <2>1, <3>1, ArgArrives
    <3> QED BY <2>1, <3>2
  <2> QED BY <2>2
<1>4. values \in [1 .. num -> Int]
  BY <1>2, <1>3, Zenon
<1>5. Len(values) = num
  <2> HIDE DEF values, num, args
  <2> QED BY <1>1, <1>4
<1>6. Given(n) = command_bytes_from_value(commands[n], values)
  BY Zenon DEF Given
<1>7. command_bytes_from_value(commands[n], values) \in [1 .. commands[n].bytes * num -> Bytes]
  <2> HIDE DEF values, num
  <2> QED BY <1>1, <1>4, <1>5, CommandTyped, BytesOfValues
<1> QED BY <1>6, <1>7, Zenon DEF BytePlaces

\* They read back as the values that are to arrive.
LEMMA GivenArrives ==
  ASSUME NEW n \in DOMAIN commands, ControlCallInv, Sets(n), NEW i \in 1 .. commands[n].num_values
  PROVE  Arrived(commands[n], program.call.args[i], command_bytes_to_value(commands[n], Given(n), i))
<1> DEFINE args == program.call.args
           values == [j \in DOMAIN args |-> command_arg_string_to_value(commands[n], args[j])]
           num == commands[n].num_values
<1>1. num \in Nat /\ args \in Seq(Args) /\ Len(args) = num
  BY CommandTyped DEF ControlCallInv, Sets
<1>2. DOMAIN args = 1 .. num /\ args[i] \in Int
  <2>1. i \in 1 .. num
    OBVIOUS
  <2> HIDE DEF args, num
  <2>2. Args \subseteq Int
    BY ControlAssumption
  <2>3. DOMAIN args = 1 .. num /\ args[i] \in Args
    BY <1>1, <2>1
  <2> QED BY <2>2, <2>3, Zenon
<1>3. values[i] = command_arg_string_to_value(commands[n], args[i])
  BY <1>2, Zenon
<1>4. Arrived(commands[n], args[i], values[i]) /\ values[i] \in Lowest(commands[n]) .. Highest(commands[n])
  <2> HIDE DEF values
  <2> QED BY <1>2, <1>3, CommandTyped, ArgArrives
<1>5. values[i] \in Lowest(commands[n]) .. Highest(commands[n])
  BY <1>4
<1>6. Len(values) = num
  <2> DEFINE S == {command_arg_string_to_value(commands[n], args[j]) : j \in 1 .. num}
  <2>1. values \in [1 .. num -> S]
    BY <1>2, Zenon
  <2> HIDE DEF values, S, num
  <2>2. values \in Seq(S) /\ DOMAIN values = 1 .. num
    BY <1>1, <2>1
  <2> QED BY <1>1, <2>2
<1>7. command_bytes_to_value(commands[n], command_bytes_from_value(commands[n], values), i) = values[i]
  <2>1. Len(values) \in Nat /\ i \in 1 .. Len(values)
    BY <1>1, <1>6
  <2> HIDE DEF values
  <2> QED BY <1>5, <2>1, CommandTyped, ValuesReadBack
<1>8. Given(n) = command_bytes_from_value(commands[n], values)
  BY Zenon DEF Given
<1> QED BY <1>4, <1>7, <1>8, Zenon

\* A number of some bytes of the data that has just been asked for, given or noted.
LEMMA BytesAreSeq ==
  ASSUME NEW k \in Nat, NEW data \in [1 .. k -> Bytes]
  PROVE  data \in Seq(Bytes)
OBVIOUS

\* The number of bytes of a command is a number.
LEMMA PlacesCount ==
  ASSUME NEW n \in DOMAIN commands
  PROVE  commands[n].bytes * commands[n].num_values \in Nat
<1>1. PICK width \in Nat, k \in Nat : width = commands[n].bytes /\ k = commands[n].num_values
  BY CommandTyped DEF IsTyped
<1>2. width * k \in Nat
  OBVIOUS
<1> QED BY <1>1, <1>2

\* Sequences of bytes hold bytes.
LEMMA BytesInType ==
  ASSUME NEW p \in Seq(Bytes), NEW q \in Seq(Bytes)
  PROVE  \A bytes \in {p, q} : \A i \in DOMAIN bytes : bytes[i] \in 0 .. ByteBase - 1
<1>1. \A bytes \in Seq(Bytes) : \A i \in DOMAIN bytes : bytes[i] \in Bytes
  OBVIOUS
<1> QED BY <1>1 DEF Bytes

\* The device's own steps leave the program and its request alone.
LEMMA DeviceSteps ==
  ASSUME ControlInv, NEW t \in Tiles, app_control_init(t) \/ startup_task(t)
  PROVE  ControlInv'
<1>1. /\ UNCHANGED <<program, request, shown, ret, noted, programs>>
      /\ usbUp' \in BOOLEAN /\ sync' \in BOOLEAN
      /\ tileAt' \in [Tiles -> {"init", "asserted", "start", "send", "register", "serve"}]
  <2>1. /\ usbUp \in BOOLEAN /\ sync \in BOOLEAN
        /\ tileAt \in [Tiles -> {"init", "asserted", "start", "send", "register", "serve"}]
    BY DEF ControlInv, ControlTypeOK
  <2> QED BY <2>1 DEF app_control_init, startup_task, app_control_servicer_register
<1>2. ControlTypeOK'
  BY <1>1 DEF ControlInv, ControlTypeOK
<1>3. ControlCallInv'
  <2>1. \A n : Gets(n)' = Gets(n) /\ Sets(n)' = Sets(n) /\ Given(n)' = Given(n)
    BY <1>1, Zenon DEF Gets, Sets, Given
  <2> QED BY <1>1, <2>1, Zenon DEF ControlInv, ControlCallInv
<1>4. ControlAnswerInv' /\ ValuesArrive'
  BY <1>1, Zenon DEF ControlInv, ControlAnswerInv, ValuesArrive, Gets, Sets, Given
<1> QED BY <1>2, <1>3, <1>4 DEF ControlInv

\* An answer: no request is left, and if it is a success it holds the bytes noted.
LEMMA AnswerSteps ==
  ASSUME ControlInv, request.dir # "none",
         NEW result \in {"CONTROL_SUCCESS", "CONTROL_ERROR"}, NEW data \in Seq(Bytes),
         Answer(result, data), noted' \in Seq(Bytes),
         result = "CONTROL_SUCCESS" => \A n \in DOMAIN commands :
           /\ Gets(n) => data = noted' /\ noted' \in [BytePlaces(n) -> Bytes]
           /\ Sets(n) => noted' = Given(n)
  PROVE  ControlInv'
<1>1. /\ request' = [NoRequest EXCEPT !.data = data] /\ program' = [program EXCEPT !.at = "answered"]
      /\ ret' = result /\ UNCHANGED <<device, shown, programs>>
  BY DEF Answer
<1>2. /\ program'.call = program.call /\ program'.at = "answered"
      /\ program' \in [at : {"ended", "connect", "sent", "answered"},
                       call : [get : Names, set : Names, args : Seq(Args)]]
  BY <1>1 DEF ControlInv, ControlCallInv
<1>3. request'.dir = "none" /\ request'.data = data
      /\ request' \in [dir : {"none", "read", "write"}, resid : Nat, cmd : Nat, data : Seq(Bytes)]
  BY <1>1 DEF NoRequest
<1>4. \A n : Gets(n)' = Gets(n) /\ Sets(n)' = Sets(n) /\ Given(n)' = Given(n)
  BY <1>2, Zenon DEF Gets, Sets, Given
<1>5. ControlCallInv'
  BY <1>2, <1>3 DEF ControlCallInv
<1>6. ControlAnswerInv'
  BY <1>1, <1>3, <1>4, Zenon DEF ControlAnswerInv, BytePlaces
<1>7. ValuesArrive'
  BY <1>2 DEF ValuesArrive
<1>8. ControlTypeOK'
  <2>1. \A bytes \in {request'.data, noted'} : \A i \in DOMAIN bytes : bytes[i] \in 0 .. ByteBase - 1
    BY <1>3, BytesInType
  <2>2. /\ program'.at \in {"ended", "connect", "sent", "answered"}
        /\ request'.dir \in {"none", "read", "write"}
        /\ ret' \in {"CONTROL_SUCCESS", "CONTROL_ERROR", "CONTROL_BAD_COMMAND"}
    BY <1>1, <1>2, <1>3
  <2> QED BY <1>1, <2>1, <2>2 DEF ControlInv, ControlTypeOK, device
<1> QED BY <1>5, <1>6, <1>7, <1>8 DEF ControlInv

\* A read notes the bytes it answers with, as many as were asked for.
LEMMA ServicerReads == ASSUME ControlInv, NEW t \in Tiles, read_cmd(t) PROVE ControlInv'
<1>1. /\ request.dir = "read" /\ Answer("CONTROL_SUCCESS", noted')
      /\ noted' = [i \in DOMAIN request.data |-> ((request.cmd % 128) + i - 1) % ByteBase]
  BY DEF read_cmd
<1>2. request.data \in Seq(Bytes) /\ request.cmd \in Nat /\ program.at = "sent"
  BY <1>1 DEF ControlInv, ControlCallInv
<1>3. PICK k \in Nat : DOMAIN request.data = 1 .. k
  BY <1>2
<1>4. noted' \in [1 .. k -> Bytes]
  <2>1. ASSUME NEW i \in 1 .. k PROVE ((request.cmd % 128) + i - 1) % ByteBase \in Bytes
    <3>1. request.cmd % 128 \in Int
      BY <1>2
    <3>2. (request.cmd % 128) + i - 1 \in Int /\ ByteBase \in Nat \ {0}
      BY <3>1, ControlAssumption
    <3> QED BY <3>2 DEF Bytes
  <2> QED BY <1>1, <1>3, <2>1, Zenon
<1>5. noted' \in Seq(Bytes)
  BY <1>4, BytesAreSeq
<1>6. ASSUME NEW n \in DOMAIN commands
      PROVE  (Gets(n) => noted' \in [BytePlaces(n) -> Bytes]) /\ ~ Sets(n)
  <2>1. Sets(n) => request.dir = "write"
    BY <1>2 DEF ControlInv, ControlCallInv
  <2>2. Gets(n) => request.data \in [BytePlaces(n) -> Bytes]
    BY <1>2 DEF ControlInv, ControlCallInv
  <2>3. Gets(n) => BytePlaces(n) = 1 .. k
    BY <1>3, <2>2
  <2> QED BY <1>1, <1>4, <2>1, <2>3
<1> QED BY <1>1, <1>5, <1>6, AnswerSteps

\* A write notes the bytes it is given.
LEMMA ServicerWrites == ASSUME ControlInv, NEW t \in Tiles, write_cmd(t) PROVE ControlInv'
<1>1. request.dir = "write" /\ Answer("CONTROL_SUCCESS", << >>) /\ noted' = request.data
  BY DEF write_cmd
<1>2. request.data \in Seq(Bytes) /\ program.at = "sent" /\ << >> \in Seq(Bytes)
  BY <1>1 DEF ControlInv, ControlCallInv
<1>3. ASSUME NEW n \in DOMAIN commands PROVE ~ Gets(n) /\ (Sets(n) => noted' = Given(n))
  BY <1>1, <1>2 DEF ControlInv, ControlCallInv
<1> QED BY <1>1, <1>2, <1>3, AnswerSteps

\* A refused request ends in an error.
LEMMA RefuseStep == ControlInv /\ Refuse => ControlInv'
<1> SUFFICES ASSUME ControlInv, Refuse PROVE ControlInv'
  OBVIOUS
<1>1. request.dir # "none" /\ noted' = noted /\ Answer("CONTROL_ERROR", << >>)
  BY DEF Refuse
<1>2. noted \in Seq(Bytes) /\ << >> \in Seq(Bytes)
  BY DEF ControlInv, ControlCallInv
<1> QED BY <1>1, <1>2, AnswerSteps

\* A call starts with nothing noted and nothing asked.
LEMMA CallProgramStep == ControlInv /\ Call => ControlInv'
<1> SUFFICES ASSUME ControlInv, Call PROVE ControlInv'
  OBVIOUS
<1>1. /\ program.at = "ended" /\ programs' \in 0 .. MaxPrograms
      /\ ret' = "CONTROL_ERROR" /\ shown' = << >> /\ noted' = << >> /\ UNCHANGED <<device, request>>
  BY ControlAssumption DEF Call, ControlInv, ControlTypeOK
<1>2. PICK get \in Names, set \in Names, n \in 0 .. 2 : \E args \in [1 .. n -> Args] :
        program' = [at |-> "connect", call |-> Called(get, set, args)]
  BY DEF Call
<1>3. PICK args \in [1 .. n -> Args] : program' = [at |-> "connect", call |-> Called(get, set, args)]
  BY <1>2
<1>4. args \in Seq(Args)
  <2>1. n \in Nat
    OBVIOUS
  <2> QED BY <1>3, <2>1
<1>5. /\ program'.at = "connect"
      /\ program' \in [at : {"ended", "connect", "sent", "answered"},
                       call : [get : Names, set : Names, args : Seq(Args)]]
  BY <1>3, <1>4 DEF Called
<1>6. /\ request \in [dir : {"none", "read", "write"}, resid : Nat, cmd : Nat, data : Seq(Bytes)]
      /\ request.dir = "none" /\ << >> \in Seq(Bytes)
  BY <1>1 DEF ControlInv, ControlCallInv
<1>7. ControlCallInv'
  BY <1>1, <1>5, <1>6 DEF ControlCallInv
<1>8. ControlAnswerInv' /\ ValuesArrive'
  BY <1>5 DEF ControlAnswerInv, ValuesArrive
<1>9. ControlTypeOK'
  <2>1. \A bytes \in {request'.data, noted'} : \A i \in DOMAIN bytes : bytes[i] \in 0 .. ByteBase - 1
    <3>1. request'.data \in Seq(Bytes) /\ noted' \in Seq(Bytes)
      BY <1>1, <1>6
    <3> QED BY <3>1, BytesInType
  <2> QED BY <1>1, <1>5, <2>1 DEF ControlInv, ControlTypeOK, device
<1> QED BY <1>7, <1>8, <1>9 DEF ControlInv

\* A command is sent, or refused as one of the wrong direction.
LEMMA XferSteps ==
  ASSUME ControlInv, program.at = "connect", NEW n \in DOMAIN commands,
         NEW dir \in {"read", "write"}, NEW data \in Seq(Bytes),
         command_xfer(dir, commands[n], data), UNCHANGED <<device, shown, noted, programs>>,
         dir = "read" => Gets(n) /\ data \in [BytePlaces(n) -> Bytes],
         dir = "write" => Sets(n) /\ data = Given(n)
  PROVE  ControlInv'
<1>1. \/ /\ request' = [dir |-> dir, resid |-> commands[n].resid, cmd |-> commands[n].cmd, data |-> data]
         /\ program' = [program EXCEPT !.at = "sent"] /\ ret' = ret
      \/ /\ ret' = "CONTROL_BAD_COMMAND" /\ program' = [program EXCEPT !.at = "answered"]
         /\ request' = request
  BY DEF command_xfer
<1>2. /\ program'.call = program.call /\ program'.at \in {"sent", "answered"}
      /\ program' \in [at : {"ended", "connect", "sent", "answered"},
                       call : [get : Names, set : Names, args : Seq(Args)]]
      /\ program'.at = "sent" => /\ ret' = ret /\ request'.dir = dir /\ request'.data = data
      /\ program'.at = "answered" => ret' = "CONTROL_BAD_COMMAND" /\ request' = request
  BY <1>1 DEF ControlInv, ControlCallInv
<1>3. /\ request \in [dir : {"none", "read", "write"}, resid : Nat, cmd : Nat, data : Seq(Bytes)]
      /\ request.dir = "none" /\ noted \in Seq(Bytes) /\ ret = "CONTROL_ERROR"
  BY DEF ControlInv, ControlCallInv
<1>4. request' \in [dir : {"none", "read", "write"}, resid : Nat, cmd : Nat, data : Seq(Bytes)]
  BY <1>1, <1>3, CommandTyped
<1>5. \A m : Gets(m)' = Gets(m) /\ Sets(m)' = Sets(m) /\ Given(m)' = Given(m)
  BY <1>2, Zenon DEF Gets, Sets, Given
<1>6. ASSUME NEW m \in DOMAIN commands
      PROVE  /\ Gets(m) => dir = "read" /\ data \in [BytePlaces(m) -> Bytes]
             /\ Sets(m) => dir = "write" /\ data = Given(m)
  <2>1. CASE dir = "read"
    BY <2>1, OneCommand
  <2>2. CASE dir = "write"
    <3>1. Sets(n) /\ data = Given(n)
      BY <2>2
    <3>2. ~ Gets(m)
      BY <3>1, OneCommand
    <3>3. Sets(m) => m = n
      BY <3>1 DEF Sets
    <3> QED BY <2>2, <3>1, <3>2, <3>3
  <2> QED BY <2>1, <2>2
<1>7. ControlCallInv'
  <2>1. (program.at = "sent" => \A m \in DOMAIN commands :
           /\ Gets(m) => request.dir = "read" /\ request.data \in [BytePlaces(m) -> Bytes]
           /\ Sets(m) => request.dir = "write" /\ request.data = Given(m))'
    BY <1>2, <1>5, <1>6, Zenon DEF BytePlaces
  <2>2. noted' = noted
    OBVIOUS
  <2> QED BY <1>2, <1>3, <1>4, <2>1, <2>2 DEF ControlCallInv
<1>8. ControlAnswerInv' /\ ValuesArrive'
  BY <1>2 DEF ControlAnswerInv, ValuesArrive
<1>9. ControlTypeOK'
  <2>1. \A bytes \in {request'.data, noted'} : \A i \in DOMAIN bytes : bytes[i] \in 0 .. ByteBase - 1
    <3>1. request'.data \in Seq(Bytes) /\ noted' \in Seq(Bytes)
      BY <1>3, <1>4
    <3> QED BY <3>1, BytesInType
  <2>2. ret' \in {"CONTROL_SUCCESS", "CONTROL_ERROR", "CONTROL_BAD_COMMAND"}
        /\ request'.dir \in {"none", "read", "write"}
    BY <1>2, <1>3, <1>4
  <2> QED BY <1>2, <2>1, <2>2 DEF ControlInv, ControlTypeOK, device
<1> QED BY <1>7, <1>8, <1>9 DEF ControlInv

\* main sends what the call asks for.
LEMMA SendCommandStep == ControlInv /\ SendCommand => ControlInv'
<1> SUFFICES ASSUME ControlInv, SendCommand PROVE ControlInv'
  OBVIOUS
<1>1. program.at = "connect" /\ UNCHANGED <<device, shown, noted, programs>>
  BY DEF SendCommand
<1>2. ASSUME NEW n \in DOMAIN commands, Gets(n),
             command_xfer("read", commands[n],
                          [i \in 1 .. commands[n].bytes * commands[n].num_values |-> 0])
      PROVE  ControlInv'
  <2> DEFINE zeros == [i \in BytePlaces(n) |-> 0]
  <2>1. zeros \in [BytePlaces(n) -> Bytes]
    <3>1. 0 \in Bytes
      BY ControlAssumption DEF Bytes
    <3> QED BY <3>1
  <2>2. zeros \in Seq(Bytes)
    BY <2>1, PlacesCount, BytesAreSeq DEF BytePlaces
  <2>3. command_xfer("read", commands[n], zeros)
    BY <1>2, Zenon DEF BytePlaces
  <2> HIDE DEF zeros
  <2> QED BY <1>1, <1>2, <2>1, <2>2, <2>3, XferSteps
<1>3. ASSUME NEW n \in DOMAIN commands, Sets(n), command_xfer("write", commands[n], Given(n))
      PROVE  ControlInv'
  <2>1. Given(n) \in [BytePlaces(n) -> Bytes]
    BY <1>3, GivenBytes DEF ControlInv
  <2>2. Given(n) \in Seq(Bytes)
    BY <2>1, PlacesCount, BytesAreSeq DEF BytePlaces
  <2> QED BY <1>1, <1>3, <2>1, <2>2, XferSteps
<1>4. CASE program' = [program EXCEPT !.at = "ended"] /\ UNCHANGED <<request, ret>>
  <2>1. /\ program'.at = "ended"
        /\ program' \in [at : {"ended", "connect", "sent", "answered"},
                         call : [get : Names, set : Names, args : Seq(Args)]]
    BY <1>4 DEF ControlInv, ControlCallInv
  <2>2. ret = "CONTROL_ERROR" /\ request.dir = "none"
    BY <1>1 DEF ControlInv, ControlCallInv
  <2>3. ControlCallInv'
    BY <1>1, <1>4, <2>1, <2>2 DEF ControlInv, ControlCallInv
  <2>4. ControlAnswerInv' /\ ValuesArrive'
    BY <1>4, <2>1, <2>2 DEF ControlAnswerInv, ValuesArrive
  <2>5. ControlTypeOK'
    BY <1>1, <1>4, <2>1 DEF ControlInv, ControlTypeOK, device
  <2> QED BY <2>3, <2>4, <2>5 DEF ControlInv
<1> QED BY <1>2, <1>3, <1>4 DEF SendCommand, Given

\* The program prints the values of the bytes noted.
LEMMA PrintStep == ControlInv /\ PrintValues => ControlInv'
<1> SUFFICES ASSUME ControlInv, PrintValues PROVE ControlInv'
  OBVIOUS
<1>1. /\ program.at = "answered" /\ program' = [program EXCEPT !.at = "ended"]
      /\ request' = NoRequest /\ UNCHANGED <<device, ret, noted, programs>>
  BY DEF PrintValues
<1>2. /\ program'.call = program.call /\ program'.at = "ended"
      /\ program' \in [at : {"ended", "connect", "sent", "answered"},
                       call : [get : Names, set : Names, args : Seq(Args)]]
  BY <1>1 DEF ControlInv, ControlCallInv
<1>3. /\ request' \in [dir : {"none", "read", "write"}, resid : Nat, cmd : Nat, data : Seq(Bytes)]
      /\ request'.dir = "none" /\ request'.data = << >> /\ noted \in Seq(Bytes)
  BY <1>1 DEF NoRequest, ControlInv, ControlCallInv
<1>4. \A n : Gets(n)' = Gets(n) /\ Sets(n)' = Sets(n)
  BY <1>2, Zenon DEF Gets, Sets
<1>5. ControlCallInv'
  BY <1>1, <1>2, <1>3 DEF ControlCallInv
<1>6. ControlAnswerInv'
  BY <1>2 DEF ControlAnswerInv
<1>7. ASSUME ret = "CONTROL_SUCCESS", NEW n \in DOMAIN commands, Gets(n)
      PROVE  noted = command_bytes_from_value(commands[n], shown')
  <2>1. request.data = noted /\ noted \in [BytePlaces(n) -> Bytes]
    BY <1>1, <1>7 DEF ControlInv, ControlAnswerInv
  <2>2. PICK m \in DOMAIN commands :
          \/ /\ Gets(m)
             /\ shown' = [i \in 1 .. commands[m].num_values |->
                            IF ret = "CONTROL_SUCCESS"
                            THEN command_bytes_to_value(commands[m], request.data, i) ELSE 0]
          \/ Sets(m) /\ UNCHANGED shown
    BY DEF PrintValues
  <2>3. m = n /\ ~ Sets(m)
    BY <1>7, <2>2, OneCommand
  <2>4. shown' = [i \in 1 .. commands[n].num_values |-> command_bytes_to_value(commands[n], noted, i)]
    BY <1>7, <2>1, <2>2, <2>3, Zenon
  <2>5. IsTyped(commands[n]) /\ commands[n].num_values \in Nat
        /\ noted \in [1 .. commands[n].bytes * commands[n].num_values -> Bytes]
    BY <2>1, CommandTyped DEF BytePlaces
  <2>6. command_bytes_from_value(commands[n],
          [i \in 1 .. commands[n].num_values |-> command_bytes_to_value(commands[n], noted, i)]) = noted
    BY <2>5, BytesReadBack, Zenon
  <2> QED BY <2>4, <2>6, Zenon
<1>8. ASSUME ret = "CONTROL_SUCCESS", NEW n \in DOMAIN commands, Sets(n)
      PROVE  /\ Len(noted) = commands[n].bytes * commands[n].num_values
             /\ \A i \in 1 .. commands[n].num_values :
                  Arrived(commands[n], program.call.args[i], command_bytes_to_value(commands[n], noted, i))
  <2>1. noted = Given(n)
    BY <1>1, <1>8 DEF ControlInv, ControlAnswerInv
  <2>2. noted \in [1 .. commands[n].bytes * commands[n].num_values -> Bytes]
    BY <1>8, <2>1, GivenBytes DEF ControlInv, BytePlaces
  <2>3. PICK k \in Nat : k = commands[n].bytes * commands[n].num_values
    BY PlacesCount
  <2>4. Len(noted) = k
    <3>1. noted \in [1 .. k -> Bytes] /\ noted \in Seq(Bytes)
      BY <2>2, <2>3, BytesAreSeq
    <3>2. DOMAIN noted = 1 .. k
      BY <3>1
    <3> QED BY <3>1, <3>2
  <2>5. \A i \in 1 .. commands[n].num_values :
          Arrived(commands[n], program.call.args[i], command_bytes_to_value(commands[n], noted, i))
    BY <1>8, <2>1, GivenArrives DEF ControlInv
  <2> QED BY <2>3, <2>4, <2>5
<1>9. ValuesArrive'
  <2>1. SUFFICES ASSUME ret' = "CONTROL_SUCCESS", NEW n \in DOMAIN commands
                 PROVE  /\ Gets(n)' => noted' = command_bytes_from_value(commands[n], shown')
                        /\ Sets(n)' =>
                             /\ Len(noted') = commands[n].bytes * commands[n].num_values
                             /\ \A i \in 1 .. commands[n].num_values :
                                  Arrived(commands[n], program'.call.args[i],
                                          command_bytes_to_value(commands[n], noted', i))
    BY Zenon DEF ValuesArrive
  <2>2. ret = "CONTROL_SUCCESS" /\ noted' = noted
    BY <1>1, <2>1
  <2> QED BY <1>2, <1>4, <1>7, <1>8, <2>2, Zenon
<1>10. ControlTypeOK'
  <2>1. \A bytes \in {request'.data, noted'} : \A i \in DOMAIN bytes : bytes[i] \in 0 .. ByteBase - 1
    <3>1. request'.data \in Seq(Bytes) /\ noted' \in Seq(Bytes)
      BY <1>1, <1>3
    <3> QED BY <3>1, BytesInType
  <2> QED BY <1>1, <1>2, <1>3, <2>1 DEF ControlInv, ControlTypeOK, device
<1> QED BY <1>5, <1>6, <1>9, <1>10 DEF ControlInv

\* Every step keeps the invariant.
LEMMA ControlStep == ControlInv /\ [ControlNext]_controlVars => ControlInv'
<1> SUFFICES ASSUME ControlInv, [ControlNext]_controlVars PROVE ControlInv'
  OBVIOUS
<1>1. CASE UNCHANGED controlVars
  <2>1. UNCHANGED <<tileAt, usbUp, sync, program, request, shown, ret, noted, programs>>
    BY <1>1 DEF controlVars
  <2>2. ControlTypeOK'
    BY <2>1 DEF ControlInv, ControlTypeOK
  <2>4. ControlCallInv'
    <3>1. \A n : Gets(n)' = Gets(n) /\ Sets(n)' = Sets(n) /\ Given(n)' = Given(n)
      BY <2>1, Zenon DEF Gets, Sets, Given
    <3> QED BY <2>1, <3>1, Zenon DEF ControlInv, ControlCallInv
  <2>3. ControlAnswerInv' /\ ValuesArrive'
    BY <2>1, Zenon DEF ControlInv, ControlAnswerInv, ValuesArrive, Gets, Sets, Given
  <2> QED BY <2>2, <2>3, <2>4 DEF ControlInv
<1>2. CASE \E t \in Tiles : app_control_init(t) \/ startup_task(t) \/ read_cmd(t) \/ write_cmd(t)
  BY <1>2, DeviceSteps, ServicerReads, ServicerWrites
<1>3. CASE Refuse \/ Call \/ SendCommand \/ PrintValues
  BY <1>3, RefuseStep, CallProgramStep, SendCommandStep, PrintStep
<1> QED BY <1>1, <1>2, <1>3 DEF ControlNext

\* It holds at first.
LEMMA ControlInitInv == ControlInit => ControlInv
<1> SUFFICES ASSUME ControlInit PROVE ControlInv
  OBVIOUS
<1>1. /\ program = [at |-> "ended", call |-> [get |-> "none", set |-> "none", args |-> << >>]]
      /\ request = [dir |-> "none", resid |-> 0, cmd |-> 0, data |-> << >>]
      /\ ret = "CONTROL_ERROR" /\ noted = << >> /\ programs = 0
      /\ tileAt = [t \in Tiles |-> "init"] /\ usbUp = FALSE /\ sync = FALSE
  BY DEF ControlInit, Called, NoRequest
<1>2. ControlTypeOK
  <2>1. request.data \in Seq(Bytes) /\ noted \in Seq(Bytes)
    BY <1>1
  <2>2. \A bytes \in {request.data, noted} : \A i \in DOMAIN bytes : bytes[i] \in 0 .. ByteBase - 1
    BY <2>1, BytesInType
  <2>3. program.at = "ended" /\ request.dir = "none"
    BY <1>1
  <2>4. programs \in 0 .. MaxPrograms
    BY <1>1, ControlAssumption
  <2>5. tileAt \in [Tiles -> {"init", "asserted", "start", "send", "register", "serve"}]
    BY <1>1
  <2> QED BY <1>1, <2>2, <2>3, <2>4, <2>5 DEF ControlTypeOK
<1>3. ControlCallInv
  <2>1. << >> \in Seq(Args) /\ << >> \in Seq(Bytes) /\ "none" \in Names
    BY DEF Names
  <2> QED BY <1>1, <2>1 DEF ControlCallInv
<1>4. ControlAnswerInv /\ ValuesArrive
  BY <1>1 DEF ControlAnswerInv, ValuesArrive
<1> QED BY <1>2, <1>3, <1>4 DEF ControlInv

\* A command's values arrive whole, each the nearest value of its type or, of the widest unsigned type, its
\* complement, for every byte and every type.
THEOREM CommandValuesArrive == ControlSpec => [](ControlTypeOK /\ ValuesArrive)
<1>1. ControlInit => ControlInv
  BY ControlInitInv
<1>2. ControlInv /\ [ControlNext]_controlVars => ControlInv'
  BY ControlStep
<1>3. ControlInv => ControlTypeOK /\ ValuesArrive
  BY DEF ControlInv
<1> QED BY <1>1, <1>2, <1>3, PTL DEF ControlSpec
=============================================================================
