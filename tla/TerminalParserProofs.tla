------------------------ MODULE TerminalParserProofs -------------------------
(***************************************************************************)
(* Proofs about TerminalParser, for every limit on arguments and strings   *)
(* and for ints of every width.  The byte-level functions keep a type, the *)
(* relation between the string and what was sent, and the one between each *)
(* argument and its digits; what the decoder's buffers still spoil never   *)
(* exceeds what the last exception explains.                               *)
(***************************************************************************)
EXTENDS TerminalParser, SequenceTheorems, FiniteSetTheorems, WellFoundedInduction, TLAPS

(* The bytes the parser tells apart.                                       *)
Byte == Digits \cup Intermediates \cup Finals \cup {"BEL", "CAN", "ESC"}

ArgBytes == Digits \cup {";"}

ParserType ==
  [state : States, args : [0..(MaxArgs - 1) -> Ints], index : 0..MaxArgs,
   params : Seq(ArgBytes), osc : Seq(Byte), sent : Seq(Byte)]

(* The string is what was sent, place by place.                            *)
StringOK(p) ==
  /\ Len(p.osc) = MinOf(Len(p.sent), MaxOSC)
  /\ \A k \in 1..Len(p.osc) : p.osc[k] = p.sent[k]

ParserOK(p) == p \in ParserType /\ StringOK(p) /\ ArgsMatch(p)

-----------------------------------------------------------------------------
LEMMA ToIntType ==
  ASSUME NEW n \in Int
  PROVE  ToInt(n) \in Ints
<1> DEFINE M == 2 * (IntMax + 1)
           r == n % M
<1>1. M \in Nat /\ M > 0 /\ M = 2 * IntMax + 2 /\ IntMax \in Nat
  BY ParserAssumption
<1>2. ToInt(n) = IF r > IntMax THEN r - M ELSE r
  BY DEF ToInt
<1> HIDE DEF M
<1>3. r \in Int /\ 0 <= r /\ r < M
  BY <1>1
<1> HIDE DEF r
<1>4. QED BY <1>1, <1>2, <1>3 DEF Ints

LEMMA DigitType == \A d \in Digits : DigitValue[d] \in 0..9
BY DEF DigitValue, Digits

LEMMA DigitNat == \A d \in Digits : DigitValue[d] \in Nat
<1>1. 0..9 \subseteq Nat
  OBVIOUS
<1> QED BY <1>1, DigitType

LEMMA WithDigitType ==
  ASSUME NEW old \in Ints, NEW d \in Digits
  PROVE  WithDigit(old, d) \in Ints
<1>1. DigitValue[d] \in 0..9 /\ 0..9 \subseteq Ints /\ old \in Int
  BY DigitType, ParserAssumption DEF Ints
<1>2. ToInt(old * 10 + DigitValue[d]) \in Ints
  BY <1>1, ToIntType
<1>3. QED BY <1>1, <1>2 DEF WithDigit
-----------------------------------------------------------------------------
(* Numbers: recursion and induction over the natural numbers.              *)

LEMMA NatSetInduction ==
  ASSUME NEW S, 0 \in S, \A n \in Nat : n \in S => n + 1 \in S
  PROVE  Nat \subseteq S
<1> SUFFICES ASSUME Nat \ S # {} PROVE FALSE
  OBVIOUS
<1>1. \E d \in Nat \ S : \A e \in Nat \ S : ~(<<e, d>> \in OpToRel(<, Nat))
  <2> DEFINE D == Nat \ S
  <2>1. D \subseteq Nat /\ D # {}
    OBVIOUS
  <2> HIDE DEF D
  <2>2. \E d \in D : \A e \in D : ~(<<e, d>> \in OpToRel(<, Nat))
    BY <2>1, NatLessThanWellFounded, WFMin
  <2> QED BY <2>2 DEF D
<1>2. PICK d \in Nat \ S : \A e \in Nat \ S : ~(<<e, d>> \in OpToRel(<, Nat))
  BY <1>1
<1>3. d \in Nat /\ d \notin S /\ d # 0 /\ d - 1 \in Nat
  OBVIOUS
<1>4. d - 1 \notin S
  BY <1>3
<1>5. <<d - 1, d>> \in OpToRel(<, Nat)
  BY <1>2, <1>3 DEF OpToRel
<1> QED BY <1>2, <1>3, <1>4, <1>5

(* A function on the natural numbers may be defined by its first value and *)
(* the step h[n] from the value at n to the next.                          *)
LEMMA Recursion ==
  ASSUME NEW h \in [Nat -> [Nat -> Nat]], NEW c \in Nat
  PROVE  \E f \in [Nat -> Nat] : f[0] = c /\ \A n \in Nat : f[n + 1] = h[n][f[n]]
<1> DEFINE Part(f, n) == /\ f \in [Nat -> Nat] /\ f[0] = c
                         /\ \A k \in Nat : k < n => f[k + 1] = h[k][f[k]]
           Good == {n \in Nat : \E f : Part(f, n)}
<1>1. 0 \in Good
  <2>1. Part([k \in Nat |-> c], 0)
    OBVIOUS
  <2> QED BY <2>1
<1>2. ASSUME NEW n \in Nat, n \in Good PROVE n + 1 \in Good
  <2>1. PICK f : Part(f, n)
    BY <1>2
  <2> DEFINE g == [k \in Nat |-> IF k <= n THEN f[k] ELSE h[n][f[n]]]
  <2>0. f \in [Nat -> Nat] /\ f[0] = c /\ n \in Nat /\ h[n] \in [Nat -> Nat]
    BY <2>1
  <2>2. g \in [Nat -> Nat] /\ g[0] = c
    <3> HIDE DEF Part, Good
    <3>1. h[n][f[n]] \in Nat /\ \A k \in Nat : f[k] \in Nat
      BY <2>0
    <3>2. g \in [Nat -> Nat]
      BY <3>1
    <3>3. 0 \in Nat /\ 0 <= n
      OBVIOUS
    <3>4. g[0] = f[0]
      BY <3>3
    <3> QED BY <2>0, <3>2, <3>4
  <2>3. ASSUME NEW k \in 0..n PROVE g[k + 1] = h[k][g[k]]
    <3>1. CASE k = n
      <4>1. g[k + 1] = h[n][f[n]] /\ g[k] = f[n]
        BY <3>1
      <4> QED BY <3>1, <4>1
    <3>2. CASE k # n
      <4>1. k \in Nat /\ k < n /\ g[k + 1] = f[k + 1] /\ g[k] = f[k]
        BY <3>2
      <4> QED BY <2>1, <4>1
    <3> QED BY <3>1, <3>2
  <2> HIDE DEF g
  <2>4. PICK e \in [Nat -> Nat] : e[0] = c /\ \A k \in 0..n : e[k + 1] = h[k][e[k]]
    <3> HIDE DEF Part, Good
    <3> QED BY <2>2, <2>3
  <2>5. n + 1 \in Nat /\ \A k \in Nat : k < n + 1 => k \in 0..n
    OBVIOUS
  <2>6. e \in [Nat -> Nat] /\ \A k \in Nat : k < n + 1 => e[k + 1] = h[k][e[k]]
    <3> HIDE DEF Part, Good
    <3> QED BY <2>4, <2>5
  <2>7. Part(e, n + 1)
    <3> HIDE DEF Good
    <3> QED BY <2>4, <2>6
  <2> HIDE DEF Part
  <2> QED BY <2>5, <2>7
<1>3. \A n \in Nat : \E f : Part(f, n)
  <2>1. Nat \subseteq Good
    <3> HIDE DEF Good
    <3> QED BY <1>1, <1>2, NatSetInduction
  <2> QED BY <2>1
<1> DEFINE F == [n \in Nat |-> CHOOSE f : Part(f, n)]
<1>4. ASSUME NEW n \in Nat PROVE Part(F[n], n)
  <2>1. \E f : Part(f, n)
    BY <1>3
  <2> HIDE DEF Part
  <2> QED BY <2>1
<1> HIDE DEF F, Good
<1>5. ASSUME NEW n \in Nat, NEW k \in 0..n PROVE F[n + 1][k] = F[n][k]
  <2> DEFINE Same == {i \in Nat : i <= n => F[n + 1][i] = F[n][i]}
  <2>1. Part(F[n], n) /\ Part(F[n + 1], n + 1)
    <3>1. n + 1 \in Nat
      OBVIOUS
    <3> HIDE DEF Part
    <3> QED BY <1>4, <3>1
  <2>2. 0 \in Same
    BY <2>1
  <2>3. ASSUME NEW i \in Nat, i \in Same PROVE i + 1 \in Same
    <3>1. CASE i + 1 <= n
      <4>1. i < n /\ i < n + 1 /\ F[n + 1][i] = F[n][i]
        <5> HIDE DEF Part
        <5>1. i <= n => F[n + 1][i] = F[n][i]
          BY <2>3
        <5>2. i < n /\ i < n + 1
          BY <3>1
        <5> QED BY <5>1, <5>2
      <4>2. F[n][i + 1] = h[i][F[n][i]] /\ F[n + 1][i + 1] = h[i][F[n + 1][i]]
        <5>1. \A m \in Nat : m < n => F[n][m + 1] = h[m][F[n][m]]
          BY <2>1
        <5>2. \A m \in Nat : m < n + 1 => F[n + 1][m + 1] = h[m][F[n + 1][m]]
          BY <2>1
        <5> HIDE DEF Part
        <5> QED BY <4>1, <5>1, <5>2
      <4>3. F[n + 1][i + 1] = F[n][i + 1]
        BY <4>1, <4>2, Zenon
      <4>4. i + 1 \in Nat
        OBVIOUS
      <4> HIDE DEF Part
      <4> QED BY <4>3, <4>4, Zenon
    <3>2. CASE ~(i + 1 <= n)
      BY <3>2
    <3> QED BY <3>1, <3>2
  <2>4. Nat \subseteq Same
    <3> HIDE DEF Same
    <3> QED BY <2>2, <2>3, NatSetInduction
  <2>5. k \in Nat /\ k <= n
    OBVIOUS
  <2> HIDE DEF Part
  <2> QED BY <2>4, <2>5
<1> DEFINE r == [n \in Nat |-> F[n][n]]
<1>6. r \in [Nat -> Nat] /\ r[0] = c
  BY <1>4
<1>7. ASSUME NEW n \in Nat PROVE r[n + 1] = h[n][r[n]]
  <2>1. F[n + 1][n + 1] = h[n][F[n + 1][n]]
    <3>1. n + 1 \in Nat /\ n < n + 1
      OBVIOUS
    <3>2. Part(F[n + 1], n + 1)
      <4> HIDE DEF Part
      <4> QED BY <1>4, <3>1
    <3>3. \A k \in Nat : k < n + 1 => F[n + 1][k + 1] = h[k][F[n + 1][k]]
      BY <3>2
    <3> HIDE DEF Part
    <3> QED BY <3>1, <3>3
  <2>2. F[n + 1][n] = F[n][n]
    <3>1. n \in 0..n
      OBVIOUS
    <3> HIDE DEF Part
    <3> QED BY <1>5, <3>1
  <2> QED BY <2>1, <2>2
<1> HIDE DEF r
<1> QED BY <1>6, <1>7

LEMMA Pow10Facts ==
  /\ Pow10 \in [Nat -> Nat] /\ Pow10[0] = 1
  /\ \A n \in Nat : Pow10[n + 1] = 10 * Pow10[n]
<1> DEFINE Body(f) == [n \in Nat |-> IF n = 0 THEN 1 ELSE 10 * f[n - 1]]
           h == [n \in Nat |-> [x \in Nat |-> 10 * x]]
<1>1. PICK f \in [Nat -> Nat] : f[0] = 1 /\ \A n \in Nat : f[n + 1] = h[n][f[n]]
  <2>1. h \in [Nat -> [Nat -> Nat]]
    OBVIOUS
  <2>2. 1 \in Nat
    OBVIOUS
  <2> HIDE DEF h
  <2> QED BY <2>1, <2>2, Recursion
<1>2. f = Body(f)
  <2>1. ASSUME NEW n \in Nat PROVE f[n] = IF n = 0 THEN 1 ELSE 10 * f[n - 1]
    <3>1. CASE n = 0
      BY <1>1, <3>1
    <3>2. CASE n # 0
      <4>1. n - 1 \in Nat /\ n - 1 + 1 = n
        BY <3>2
      <4>2. f[n - 1 + 1] = h[n - 1][f[n - 1]]
        BY <1>1, <4>1
      <4> QED BY <3>2, <4>1, <4>2
    <3> QED BY <3>1, <3>2
  <2> QED BY <2>1
<1>3. Pow10 = Body(Pow10)
  BY <1>2 DEF Pow10
<1>4. \A n \in Nat : Pow10[n] = IF n = 0 THEN 1 ELSE 10 * Pow10[n - 1]
  BY <1>3
<1>5. Pow10[0] = 1 /\ \A n \in Nat : Pow10[n + 1] = 10 * Pow10[n]
  BY <1>4
<1> DEFINE S == {n \in Nat : Pow10[n] \in Nat}
<1>6. Nat \subseteq S
  <2>1. 0 \in S
    BY <1>5
  <2>2. \A n \in Nat : n \in S => n + 1 \in S
    BY <1>5
  <2> HIDE DEF S
  <2> QED BY <2>1, <2>2, NatSetInduction
<1>7. Pow10 \in [Nat -> Nat]
  BY <1>3, <1>6
<1> QED BY <1>5, <1>7

LEMMA SumFacts ==
  ASSUME NEW t \in [Nat -> Nat]
  PROVE  /\ Sum(t) \in [Nat -> Nat] /\ Sum(t)[0] = 0
         /\ \A n \in Nat : Sum(t)[n + 1] = Sum(t)[n] + t[n + 1]
<1> DEFINE Body(f) == [k \in Nat |-> IF k = 0 THEN 0 ELSE f[k - 1] + t[k]]
           h == [n \in Nat |-> [x \in Nat |-> x + t[n + 1]]]
<1>1. PICK f \in [Nat -> Nat] : f[0] = 0 /\ \A n \in Nat : f[n + 1] = h[n][f[n]]
  <2>1. h \in [Nat -> [Nat -> Nat]]
    OBVIOUS
  <2> HIDE DEF h
  <2> QED BY <2>1, Recursion
<1>2. f = Body(f)
  <2>1. ASSUME NEW n \in Nat PROVE f[n] = IF n = 0 THEN 0 ELSE f[n - 1] + t[n]
    <3>1. CASE n = 0
      BY <1>1, <3>1
    <3>2. CASE n # 0
      <4>1. n - 1 \in Nat /\ n - 1 + 1 = n
        BY <3>2
      <4>2. f[n - 1 + 1] = h[n - 1][f[n - 1]]
        BY <1>1, <4>1
      <4> QED BY <3>2, <4>1, <4>2
    <3> QED BY <3>1, <3>2
  <2> QED BY <2>1
<1>3. Sum(t) = Body(Sum(t))
  BY <1>2 DEF Sum
<1> DEFINE s == Sum(t)
<1>4. \A n \in Nat : s[n] = IF n = 0 THEN 0 ELSE s[n - 1] + t[n]
  BY <1>3
<1>5. s = Body(s)
  BY <1>3
<1> HIDE DEF s
<1>6. s[0] = 0 /\ \A n \in Nat : s[n + 1] = s[n] + t[n + 1]
  BY <1>4
<1> DEFINE S == {n \in Nat : s[n] \in Nat}
<1>7. Nat \subseteq S
  <2>1. 0 \in S
    BY <1>6
  <2>2. \A n \in Nat : n \in S => n + 1 \in S
    BY <1>6
  <2> HIDE DEF S
  <2> QED BY <2>1, <2>2, NatSetInduction
<1>8. s \in [Nat -> Nat]
  BY <1>5, <1>7
<1> QED BY <1>6, <1>8 DEF s

LEMMA SumSame ==
  ASSUME NEW t \in [Nat -> Nat], NEW u \in [Nat -> Nat], NEW n \in Nat,
         \A k \in 1..n : u[k] = t[k]
  PROVE  Sum(u)[n] = Sum(t)[n]
<1> DEFINE a == Sum(t)
           b == Sum(u)
           S == {m \in Nat : m <= n => b[m] = a[m]}
<1>1. /\ a[0] = 0 /\ \A m \in Nat : a[m + 1] = a[m] + t[m + 1]
      /\ b[0] = 0 /\ \A m \in Nat : b[m + 1] = b[m] + u[m + 1]
  BY SumFacts
<1> HIDE DEF a, b
<1>2. 0 \in S
  BY <1>1
<1>3. ASSUME NEW m \in Nat, m \in S PROVE m + 1 \in S
  <2>1. CASE m + 1 <= n
    <3>1. b[m] = a[m] /\ m + 1 \in 1..n
      BY <1>3, <2>1
    <3>2. b[m + 1] = a[m + 1]
      BY <1>1, <3>1
    <3> QED BY <3>2
  <2>2. CASE ~(m + 1 <= n)
    BY <2>2
  <2> QED BY <2>1, <2>2
<1>4. Nat \subseteq S
  <2> HIDE DEF S
  <2> QED BY <1>2, <1>3, NatSetInduction
<1>5. b[n] = a[n]
  BY <1>4
<1> QED BY <1>5 DEF a, b

LEMMA SumTimes ==
  ASSUME NEW t \in [Nat -> Nat], NEW u \in [Nat -> Nat], NEW n \in Nat,
         \A k \in 1..n : u[k] = 10 * t[k]
  PROVE  Sum(u)[n] = 10 * Sum(t)[n]
<1> DEFINE a == Sum(t)
           b == Sum(u)
           S == {m \in Nat : m <= n => b[m] = 10 * a[m]}
<1>1. /\ a[0] = 0 /\ \A m \in Nat : a[m + 1] = a[m] + t[m + 1]
      /\ b[0] = 0 /\ \A m \in Nat : b[m + 1] = b[m] + u[m + 1]
      /\ a \in [Nat -> Nat] /\ b \in [Nat -> Nat]
  BY SumFacts
<1> HIDE DEF a, b
<1>2. 0 \in S
  BY <1>1
<1>3. ASSUME NEW m \in Nat, m \in S PROVE m + 1 \in S
  <2>1. CASE m + 1 <= n
    <3>1. b[m] = 10 * a[m] /\ m + 1 \in 1..n
      BY <1>3, <2>1
    <3>2. a[m] \in Nat /\ t[m + 1] \in Nat
      BY <1>1, SMTT(40)
    <3>3. b[m + 1] = 10 * a[m + 1]
      BY <1>1, <3>1, <3>2
    <3> QED BY <3>3
  <2>2. CASE ~(m + 1 <= n)
    BY <2>2
  <2> QED BY <2>1, <2>2
<1>4. Nat \subseteq S
  <2> HIDE DEF S
  <2> QED BY <1>2, <1>3, NatSetInduction
<1>5. b[n] = 10 * a[n]
  BY <1>4
<1> QED BY <1>5 DEF a, b

LEMMA SumZero ==
  ASSUME NEW t \in [Nat -> Nat], NEW n \in Nat, \A k \in 1..n : t[k] = 0
  PROVE  Sum(t)[n] = 0
<1>1. Sum(t)[n] = 10 * Sum(t)[n]
  <2>1. \A k \in 1..n : t[k] = 10 * t[k]
    OBVIOUS
  <2> QED BY <2>1, SumTimes
<1>2. Sum(t)[n] \in Nat
  BY SumFacts
<1> QED BY <1>1, <1>2
-----------------------------------------------------------------------------
(* The fields of the arguments, as bytes are appended.                     *)

LEMMA Biggest ==
  ASSUME NEW n \in Nat, NEW K \in SUBSET (1..n), K # {}
  PROVE  LastPlace(K) \in K /\ \A j \in K : j <= LastPlace(K)
<1> DEFINE S == {m \in Nat : (\E j \in K : j <= m) =>
                   \E k \in K : k <= m /\ \A j \in K : j <= m => j <= k}
<1>1. 0 \in S
  OBVIOUS
<1>2. ASSUME NEW m \in Nat, m \in S PROVE m + 1 \in S
  <2>1. CASE m + 1 \in K
    <3>1. \A j \in K : j <= m + 1 => j <= m + 1
      OBVIOUS
    <3> QED BY <2>1, <3>1
  <2>2. CASE m + 1 \notin K
    <3>1. \A j \in K : (j <= m + 1) <=> (j <= m)
      BY <2>2
    <3> QED BY <1>2, <3>1
  <2> QED BY <2>1, <2>2
<1>3. n \in S
  <2> HIDE DEF S
  <2> QED BY <1>1, <1>2, NatSetInduction
<1>4. \A j \in K : j <= n
  OBVIOUS
<1>5. \E k \in K : \A j \in K : j <= k
  BY <1>3, <1>4
<1> QED BY <1>5 DEF LastPlace

LEMMA PlacesType ==
  ASSUME NEW q \in Seq(ArgBytes), NEW K \in SUBSET (1..Len(q)),
         \A k \in K : q[k] \in Digits
  PROVE  Places(q, K) \in [Nat -> Nat]
<1>1. Len(q) \in Nat
  OBVIOUS
<1>2. ASSUME NEW k \in Nat
      PROVE  (IF k \in K THEN DigitValue[q[k]] * Pow10[LastPlace(K) - k] ELSE 0) \in Nat
  <2>1. CASE k \in K
    <3>1. LastPlace(K) \in K /\ k <= LastPlace(K)
      BY <1>1, <2>1, Biggest
    <3>2. LastPlace(K) - k \in Nat
      <4>1. K \subseteq Nat
        BY <1>1
      <4>2. LastPlace(K) \in Nat
        BY <3>1, <4>1
      <4> QED BY <3>1, <4>2
    <3>3. Pow10[LastPlace(K) - k] \in Nat
      BY <3>2, Pow10Facts
    <3>4. DigitValue[q[k]] \in Nat
      BY <2>1, DigitType
    <3> QED BY <2>1, <3>3, <3>4
  <2>2. CASE k \notin K
    BY <2>2
  <2> QED BY <2>1, <2>2
<1> QED BY <1>2 DEF Places

LEMMA FieldFacts ==
  ASSUME NEW q \in Seq(ArgBytes), NEW i
  PROVE  /\ Semicolons(q) \in SUBSET (1..Len(q)) /\ IsFiniteSet(Semicolons(q))
         /\ Cardinality(Semicolons(q)) \in Nat
         /\ FieldDigits(q, i) \in SUBSET (1..Len(q))
         /\ \A k \in FieldDigits(q, i) : q[k] \in Digits
         /\ Places(q, FieldDigits(q, i)) \in [Nat -> Nat]
         /\ FieldValue(q, i) \in Nat
<1>1. Semicolons(q) \in SUBSET (1..Len(q)) /\ FieldDigits(q, i) \in SUBSET (1..Len(q))
  BY DEF Semicolons, FieldDigits
<1>2. IsFiniteSet(1..Len(q)) /\ Len(q) \in Nat
  <2>1. Len(q) \in Nat /\ 1 \in Int
    OBVIOUS
  <2> QED BY <2>1, FS_Interval
<1>3. IsFiniteSet(Semicolons(q)) /\ Cardinality(Semicolons(q)) \in Nat
  BY <1>1, <1>2, FS_Subset, FS_CardinalityType
<1>4. \A k \in FieldDigits(q, i) : q[k] \in Digits
  <2>1. \A k \in 1..Len(q) : q[k] \in ArgBytes
    OBVIOUS
  <2>2. \A k \in FieldDigits(q, i) : k \in 1..Len(q) /\ q[k] # ";"
    BY DEF FieldDigits, Semicolons
  <2> QED BY <2>1, <2>2 DEF ArgBytes
<1>5. Places(q, FieldDigits(q, i)) \in [Nat -> Nat]
  BY <1>1, <1>4, PlacesType
<1>6. FieldValue(q, i) \in Nat
  BY <1>2, <1>5, SumFacts DEF FieldValue
<1> QED BY <1>1, <1>3, <1>4, <1>5, <1>6

LEMMA NextPlace ==
  ASSUME NEW n \in Nat
  PROVE  /\ n + 1 \in Nat /\ n + 1 \notin 1..n /\ 1..n \subseteq Nat
         /\ 1..(n + 1) = (1..n) \cup {n + 1}
OBVIOUS

(* A field after one more byte: the digits before a place are the same.    *)
LEMMA FieldAppend ==
  ASSUME NEW q \in Seq(ArgBytes), NEW b \in ArgBytes
  PROVE  LET n == Len(q)
             r == Append(q, b)
         IN  /\ n \in Nat /\ r \in Seq(ArgBytes) /\ Len(r) = n + 1 /\ r[n + 1] = b
             /\ \A k \in 1..n : r[k] = q[k]
             /\ Semicolons(r) = Semicolons(q) \cup (IF b = ";" THEN {n + 1} ELSE {})
             /\ \A k \in 1..(n + 1) :
                  {j \in Semicolons(r) : j < k} = {j \in Semicolons(q) : j < k}
<1> DEFINE n == Len(q)
           r == Append(q, b)
<1>1. n \in Nat /\ r \in Seq(ArgBytes) /\ Len(r) = n + 1 /\ r[n + 1] = b
  OBVIOUS
<1>2. \A k \in 1..n : r[k] = q[k]
  OBVIOUS
<1> HIDE DEF r
<1>3. Semicolons(r) = Semicolons(q) \cup (IF b = ";" THEN {n + 1} ELSE {})
  <2>1. ASSUME NEW k \in 1..(n + 1)
        PROVE  (r[k] = ";") <=> ((k \in 1..n /\ q[k] = ";") \/ (k = n + 1 /\ b = ";"))
    <3>1. CASE k = n + 1
      <4>1. k \notin 1..n
        BY <1>1, <3>1
      <4> QED BY <1>1, <3>1, <4>1
    <3>2. CASE k # n + 1
      <4>1. k \in 1..n
        BY <1>1, <3>2
      <4> QED BY <1>2, <3>2, <4>1
    <3> QED BY <3>1, <3>2
  <2>2. Semicolons(r) = {k \in 1..(n + 1) : r[k] = ";"}
    BY <1>1 DEF Semicolons
  <2>3. Semicolons(q) = {k \in 1..n : q[k] = ";"}
    BY DEF Semicolons
  <2>4. 1..n \subseteq 1..(n + 1) /\ n + 1 \in 1..(n + 1)
    BY <1>1
  <2> HIDE DEF n
  <2> QED BY <2>1, <2>2, <2>3, <2>4, Zenon
<1>4. ASSUME NEW k \in 1..(n + 1)
      PROVE  {j \in Semicolons(r) : j < k} = {j \in Semicolons(q) : j < k}
  <2>1. ~(n + 1 < k)
    BY <1>1
  <2> HIDE DEF n
  <2> QED BY <1>3, <2>1
<1> QED BY <1>1, <1>2, <1>3, <1>4 DEF r

LEMMA SamePlaces ==
  ASSUME NEW n \in Nat, NEW q, NEW r, NEW K \in SUBSET (1..n),
         \A k \in 1..n : r[k] = q[k]
  PROVE  (\A k \in 1..n : Places(r, K)[k] = Places(q, K)[k]) /\ Places(r, K)[n + 1] = 0
<1>1. /\ n + 1 \in Nat /\ n + 1 \notin 1..n /\ 1..n \subseteq Nat
  BY NextPlace
<1>2. ASSUME NEW k \in 1..n PROVE Places(r, K)[k] = Places(q, K)[k]
  <2>1. k \in Nat /\ r[k] = q[k]
    BY <1>1
  <2>2. Places(r, K)[k] = IF k \in K THEN DigitValue[r[k]] * Pow10[LastPlace(K) - k] ELSE 0
    BY <2>1 DEF Places
  <2>3. Places(q, K)[k] = IF k \in K THEN DigitValue[q[k]] * Pow10[LastPlace(K) - k] ELSE 0
    BY <2>1 DEF Places
  <2> QED BY <2>1, <2>2, <2>3, Zenon
<1>3. n + 1 \notin K
  BY <1>1, Zenon
<1>4. Places(r, K)[n + 1] = IF n + 1 \in K THEN DigitValue[r[n + 1]] * Pow10[LastPlace(K) - (n + 1)] ELSE 0
  BY <1>1 DEF Places
<1>5. Places(r, K)[n + 1] = 0
  BY <1>3, <1>4, Zenon
<1> QED BY <1>2, <1>5

(* A field that a byte does not add to keeps its value.                    *)
LEMMA OtherField ==
  ASSUME NEW q \in Seq(ArgBytes), NEW b \in ArgBytes, NEW i,
         FieldDigits(Append(q, b), i) = FieldDigits(q, i)
  PROVE  FieldValue(Append(q, b), i) = FieldValue(q, i)
<1> DEFINE n == Len(q)
           r == Append(q, b)
           K == FieldDigits(q, i)
<1>1. /\ n \in Nat /\ r \in Seq(ArgBytes) /\ Len(r) = n + 1
      /\ \A k \in 1..n : r[k] = q[k]
  BY FieldAppend
<1>2. /\ K \in SUBSET (1..n) /\ Places(q, K) \in [Nat -> Nat]
      /\ Places(r, FieldDigits(r, i)) \in [Nat -> Nat]
  BY <1>1, FieldFacts
<1>3. FieldDigits(r, i) = K
  OBVIOUS
<1> HIDE DEF K, r
<1>4. Places(r, K) \in [Nat -> Nat]
  BY <1>2, <1>3
<1>5. FieldValue(r, i) = Sum(Places(r, K))[n + 1] /\ FieldValue(q, i) = Sum(Places(q, K))[n]
  BY <1>1, <1>3 DEF FieldValue, K
<1> HIDE DEF n
<1>6. (\A k \in 1..n : Places(r, K)[k] = Places(q, K)[k]) /\ Places(r, K)[n + 1] = 0
  BY <1>1, <1>2, SamePlaces, ZenonT(40)
<1>7. Sum(Places(r, K))[n] = Sum(Places(q, K))[n]
  BY <1>1, <1>2, <1>4, <1>6, SumSame
<1>8. /\ Sum(Places(r, K))[n + 1] = Sum(Places(r, K))[n] + Places(r, K)[n + 1]
      /\ Sum(Places(r, K))[n] \in Nat
  BY <1>1, <1>4, SumFacts
<1>9. Sum(Places(r, K))[n + 1] = Sum(Places(q, K))[n]
  BY <1>6, <1>7, <1>8
<1> QED BY <1>5, <1>9 DEF r

LEMMA FieldAfterSemicolon ==
  ASSUME NEW q \in Seq(ArgBytes), NEW i
  PROVE  LET r == Append(q, ";")
         IN  /\ Cardinality(Semicolons(r)) = Cardinality(Semicolons(q)) + 1
             /\ FieldDigits(r, i) = FieldDigits(q, i)
             /\ FieldValue(r, i) = FieldValue(q, i)
<1> DEFINE n == Len(q)
           r == Append(q, ";")
           K == FieldDigits(q, i)
<1>0. ";" \in ArgBytes
  BY DEF ArgBytes
<1>1. /\ n \in Nat /\ r \in Seq(ArgBytes) /\ Len(r) = n + 1 /\ r[n + 1] = ";"
      /\ \A k \in 1..n : r[k] = q[k]
      /\ Semicolons(r) = Semicolons(q) \cup {n + 1}
      /\ \A k \in 1..(n + 1) :
           {j \in Semicolons(r) : j < k} = {j \in Semicolons(q) : j < k}
  BY <1>0, FieldAppend
<1>2. /\ Semicolons(q) \in SUBSET (1..n) /\ IsFiniteSet(Semicolons(q))
      /\ K \in SUBSET (1..n)
      /\ Places(q, K) \in [Nat -> Nat]
      /\ Places(r, FieldDigits(r, i)) \in [Nat -> Nat]
  BY <1>1, FieldFacts
<1>3. /\ n + 1 \in Nat /\ n + 1 \notin 1..n /\ 1..n \subseteq Nat
      /\ 1..(n + 1) = (1..n) \cup {n + 1}
  <2> HIDE DEF n, r, K
  <2> QED BY <1>1, NextPlace
<1>4. Cardinality(Semicolons(r)) = Cardinality(Semicolons(q)) + 1
  <2>1. n + 1 \notin Semicolons(q)
    BY <1>2, <1>3
  <2> QED BY <1>1, <1>2, <2>1, FS_AddElement
<1>5. FieldDigits(r, i) = K
  <2>1. (1..(n + 1)) \ Semicolons(r) = (1..n) \ Semicolons(q)
    <3> HIDE DEF n, r, K
    <3> QED BY <1>1, <1>2, <1>3, Zenon
  <2>2. FieldDigits(r, i) = {k \in (1..(n + 1)) \ Semicolons(r) :
                               Cardinality({j \in Semicolons(r) : j < k}) = i}
    BY <1>1 DEF FieldDigits
  <2>3. K = {k \in (1..n) \ Semicolons(q) :
               Cardinality({j \in Semicolons(q) : j < k}) = i}
    BY DEF FieldDigits
  <2>4. \A k \in (1..n) \ Semicolons(q) :
          {j \in Semicolons(r) : j < k} = {j \in Semicolons(q) : j < k}
    <3> HIDE DEF n, r, K
    <3> QED BY <1>1, <1>3
  <2> HIDE DEF K, n, r
  <2> QED BY <2>1, <2>2, <2>3, <2>4, Zenon
<1>6. FieldValue(r, i) = FieldValue(q, i)
  BY <1>0, <1>5, OtherField
<1> QED BY <1>4, <1>5, <1>6

(* One more digit belongs to the last field and to no other.               *)
LEMMA DigitJoins ==
  ASSUME NEW q \in Seq(ArgBytes), NEW d \in Digits, NEW i
  PROVE  LET r == Append(q, d)
         IN  /\ Semicolons(r) = Semicolons(q)
             /\ FieldDigits(r, i) = FieldDigits(q, i) \cup
                  (IF Cardinality(Semicolons(q)) = i THEN {Len(q) + 1} ELSE {})
<1> DEFINE n == Len(q)
           r == Append(q, d)
           S == Semicolons(q)
           Before(k) == {j \in S : j < k}
<1>0. d \in ArgBytes /\ d # ";"
  BY DEF ArgBytes, Digits
<1>1. /\ n \in Nat /\ Len(r) = n + 1 /\ Semicolons(r) = S
  <2>1. /\ n \in Nat /\ Len(r) = n + 1
        /\ Semicolons(r) = S \cup (IF d = ";" THEN {n + 1} ELSE {})
    BY <1>0, FieldAppend
  <2> QED BY <1>0, <2>1
<1>2. S \in SUBSET (1..n)
  BY FieldFacts
<1>3. /\ n + 1 \in Nat /\ n + 1 \notin 1..n /\ 1..n \subseteq Nat
      /\ 1..(n + 1) = (1..n) \cup {n + 1}
  <2> HIDE DEF n, r
  <2> QED BY <1>1, NextPlace
<1>4. FieldDigits(r, i) = {k \in (1..(n + 1)) \ S : Cardinality(Before(k)) = i}
  BY <1>1 DEF FieldDigits
<1>5. FieldDigits(q, i) = {k \in (1..n) \ S : Cardinality(Before(k)) = i}
  BY DEF FieldDigits
<1>6. Before(n + 1) = S
  <2>1. \A j \in 1..n : j < n + 1
    BY <1>1
  <2> HIDE DEF n, S
  <2> QED BY <1>2, <2>1
<1>7. (1..(n + 1)) \ S = ((1..n) \ S) \cup {n + 1}
  <2> HIDE DEF n, S
  <2> QED BY <1>2, <1>3, Zenon
<1> HIDE DEF Before, n, S, r
<1>8. FieldDigits(r, i) = FieldDigits(q, i) \cup (IF Cardinality(S) = i THEN {n + 1} ELSE {})
  BY <1>4, <1>5, <1>6, <1>7, Zenon
<1> QED BY <1>1, <1>8 DEF n, S, r

(* A last field that is not empty ends the arguments.                      *)
LEMMA LastField ==
  ASSUME NEW q \in Seq(ArgBytes), FieldDigits(q, Cardinality(Semicolons(q))) # {}
  PROVE  LET K == FieldDigits(q, Cardinality(Semicolons(q)))
         IN  Len(q) \in K /\ LastPlace(K) = Len(q)
<1> DEFINE n == Len(q)
           S == Semicolons(q)
           K == FieldDigits(q, Cardinality(S))
<1>1. PICK k \in K : TRUE
  OBVIOUS
<1>2. /\ S \in SUBSET (1..n) /\ IsFiniteSet(S) /\ K \in SUBSET (1..n) /\ n \in Nat
  <2>1. n \in Nat
    OBVIOUS
  <2> QED BY <2>1, FieldFacts
<1>3. k \in 1..n /\ k \notin S /\ Cardinality({j \in S : j < k}) = Cardinality(S)
  BY <1>1 DEF FieldDigits
<1>4. {j \in S : j < k} = S
  <2> HIDE DEF S
  <2>1. {j \in S : j < k} \subseteq S
    OBVIOUS
  <2> QED BY <1>2, <1>3, <2>1, FS_Subset
<1>5. \A j \in S : j < n
  <2> HIDE DEF S, n
  <2>1. \A j \in S : j < k /\ j \in 1..n
    BY <1>2, <1>4
  <2> QED BY <1>2, <1>3, <2>1
<1>6. n \in 1..n /\ n \notin S /\ {j \in S : j < n} = S
  <2> HIDE DEF S, n, K
  <2>1. n \in 1..n
    BY <1>2, <1>3
  <2>2. n \notin S
    BY <1>2, <1>5
  <2>3. {j \in S : j < n} = S
    BY <1>5
  <2> QED BY <2>1, <2>2, <2>3
<1>7. n \in K
  BY <1>6 DEF FieldDigits
<1>8. LastPlace(K) = n
  <2> HIDE DEF K, n, S
  <2>1. LastPlace(K) \in K /\ \A j \in K : j <= LastPlace(K)
    BY <1>1, <1>2, Biggest
  <2>2. LastPlace(K) \in 1..n /\ n <= LastPlace(K)
    BY <1>2, <1>7, <2>1
  <2> QED BY <1>2, <2>2
<1> QED BY <1>7, <1>8

LEMMA Regroup ==
  ASSUME NEW a \in Nat, NEW b \in Nat
  PROVE  a * (10 * b) = 10 * (a * b)
OBVIOUS

(* What a digit makes of the number it is written to: it takes the last    *)
(* place, and the digits before it move up by one.                         *)
LEMMA FieldAfterDigit ==
  ASSUME NEW q \in Seq(ArgBytes), NEW d \in Digits
  PROVE  LET i == Cardinality(Semicolons(q))
             r == Append(q, d)
         IN  /\ FieldDigits(r, i) # {}
             /\ FieldValue(r, i) = (IF FieldDigits(q, i) = {} THEN 0
                                    ELSE 10 * FieldValue(q, i)) + DigitValue[d]
<1> DEFINE n == Len(q)
           i == Cardinality(Semicolons(q))
           r == Append(q, d)
           K == FieldDigits(q, i)
           L == FieldDigits(r, i)
           t == Places(q, K)
           u == Places(r, L)
<1>0. d \in ArgBytes
  BY DEF ArgBytes
<1>1. /\ n \in Nat /\ r \in Seq(ArgBytes) /\ Len(r) = n + 1 /\ r[n + 1] = d
      /\ \A k \in 1..n : r[k] = q[k]
  BY <1>0, FieldAppend
<1>2. /\ K \in SUBSET (1..n) /\ t \in [Nat -> Nat]
      /\ \A k \in K : q[k] \in Digits
  BY FieldFacts
<1>3. L = K \cup {n + 1}
  BY DigitJoins
<1>4. u \in [Nat -> Nat] /\ L \in SUBSET (1..(n + 1))
  BY <1>1, FieldFacts
<1>5. K # {} => LastPlace(K) = n
  BY LastField
<1>6. FieldValue(r, i) = Sum(u)[n + 1] /\ FieldValue(q, i) = Sum(t)[n]
  BY <1>1 DEF FieldValue
<1>7. \A k \in Nat : u[k] = IF k \in L THEN DigitValue[r[k]] * Pow10[LastPlace(L) - k] ELSE 0
  <2> HIDE DEF L, r
  <2> QED BY DEF Places
<1>8. \A k \in Nat : t[k] = IF k \in K THEN DigitValue[q[k]] * Pow10[LastPlace(K) - k] ELSE 0
  <2> HIDE DEF K
  <2> QED BY DEF Places
<1> HIDE DEF n, r, i, K, L, t, u
<1>9. n + 1 \in Nat /\ n + 1 \notin 1..n /\ 1..n \subseteq Nat
  BY <1>1, NextPlace
<1>10. LastPlace(L) = n + 1
  <2>1. LastPlace(L) \in L /\ \A j \in L : j <= LastPlace(L)
    BY <1>3, <1>4, <1>9, Biggest
  <2>2. LastPlace(L) \in 1..(n + 1) /\ n + 1 <= LastPlace(L)
    BY <1>3, <1>4, <2>1
  <2> QED BY <1>1, <2>2
<1>11. u[n + 1] = DigitValue[d]
  <2>1. u[n + 1] = DigitValue[r[n + 1]] * Pow10[LastPlace(L) - (n + 1)]
    BY <1>3, <1>7, <1>9
  <2>2. LastPlace(L) - (n + 1) = 0
    BY <1>1, <1>10
  <2>3. DigitValue[d] \in Nat /\ Pow10[0] = 1
    BY DigitNat, Pow10Facts
  <2> QED BY <1>1, <2>1, <2>2, <2>3
<1>12. Sum(u)[n + 1] = Sum(u)[n] + DigitValue[d]
  BY <1>1, <1>4, <1>11, SumFacts
<1>13. Sum(u)[n] = IF K = {} THEN 0 ELSE 10 * Sum(t)[n]
  <2>1. CASE K = {}
    <3>1. \A k \in 1..n : k \in Nat /\ k \notin L
      BY <1>3, <1>9, <2>1
    <3>2. \A k \in 1..n : u[k] = 0
      BY <1>7, <3>1
    <3> QED BY <1>1, <1>4, <2>1, <3>2, SumZero
  <2>2. CASE K # {}
    <3>1. ASSUME NEW k \in 1..n PROVE u[k] = 10 * t[k]
      <4>1. k \in Nat /\ n - k \in Nat /\ n + 1 - k = n - k + 1
        BY <1>1
      <4>2. k \in L <=> k \in K
        BY <1>3, <1>9
      <4>3. CASE k \in K
        <5>1. u[k] = DigitValue[q[k]] * Pow10[n + 1 - k]
          BY <1>1, <1>7, <1>10, <4>1, <4>2, <4>3
        <5>2. t[k] = DigitValue[q[k]] * Pow10[n - k]
          BY <1>5, <1>8, <2>2, <4>1, <4>3
        <5>3. Pow10[n + 1 - k] = 10 * Pow10[n - k] /\ Pow10[n - k] \in Nat
          BY <4>1, Pow10Facts
        <5>4. DigitValue[q[k]] \in Nat
          BY <1>2, <4>3, DigitNat
        <5> QED BY <5>1, <5>2, <5>3, <5>4, Regroup
      <4>4. CASE k \notin K
        <5>1. u[k] = 0 /\ t[k] = 0
          BY <1>7, <1>8, <4>1, <4>2, <4>4
        <5> QED BY <5>1
      <4> QED BY <4>3, <4>4
    <3>2. Sum(u)[n] = 10 * Sum(t)[n]
      BY <1>1, <1>2, <1>4, <3>1, SumTimes
    <3> QED BY <2>2, <3>2
  <2> QED BY <2>1, <2>2
<1>14. L # {}
  BY <1>3
<1>15. FieldValue(r, i) = (IF K = {} THEN 0 ELSE 10 * FieldValue(q, i)) + DigitValue[d]
  BY <1>6, <1>12, <1>13
<1> QED BY <1>14, <1>15 DEF r, i, K, L

LEMMA ToIntSmall ==
  ASSUME NEW n \in Nat, n <= IntMax
  PROVE  ToInt(n) = n
<1>1. IntMax \in Nat /\ 2 * (IntMax + 1) \in Nat /\ n < 2 * (IntMax + 1)
  BY ParserAssumption
<1>2. n % (2 * (IntMax + 1)) = n
  <2> DEFINE M == 2 * (IntMax + 1)
  <2>1. M \in Nat /\ 0 <= n /\ n < M
    BY <1>1
  <2> HIDE DEF M
  <2>2. n % M = n
    BY <2>1
  <2> QED BY <2>2 DEF M
<1> QED BY <1>1, <1>2 DEF ToInt

(* An argument and the field it stands for.                                *)
ArgMatches(q, i, a) ==
  \/ FieldDigits(q, i) = {} /\ a = -1
  \/ FieldDigits(q, i) # {} /\ a = FieldValue(q, i)
  \/ FieldDigits(q, i) # {} /\ FieldValue(q, i) > IntMax

LEMMA ArgAfterDigit ==
  ASSUME NEW q \in Seq(ArgBytes), NEW d \in Digits, NEW a \in Ints,
         ArgMatches(q, Cardinality(Semicolons(q)), a)
  PROVE  ArgMatches(Append(q, d), Cardinality(Semicolons(q)), WithDigit(a, d))
<1> DEFINE i == Cardinality(Semicolons(q))
           r == Append(q, d)
           v == FieldValue(q, i)
           w == FieldValue(r, i)
           e == DigitValue[d]
<1>1. e \in Nat /\ v \in Nat /\ a \in Int /\ IntMax \in Nat
  BY DigitNat, FieldFacts, ParserAssumption DEF Ints
<1>2. FieldDigits(r, i) # {}
  BY FieldAfterDigit
<1>3. w = (IF FieldDigits(q, i) = {} THEN 0 ELSE 10 * v) + e
  BY FieldAfterDigit
<1>4. \/ FieldDigits(q, i) = {} /\ a = -1
      \/ FieldDigits(q, i) # {} /\ a = v
      \/ FieldDigits(q, i) # {} /\ v > IntMax
  BY DEF ArgMatches
<1>5. WithDigit(a, d) = IF a >= 0 THEN ToInt(a * 10 + e) ELSE e
  BY DEF WithDigit
<1> HIDE DEF i, r, v, w, e
<1>6. CASE FieldDigits(q, i) = {} /\ a = -1
  <2>1. WithDigit(a, d) = w
    BY <1>1, <1>3, <1>5, <1>6
  <2> QED BY <1>2, <2>1 DEF ArgMatches, w, r, i
<1>7. CASE FieldDigits(q, i) # {} /\ a = v
  <2>1. w = a * 10 + e /\ w \in Nat /\ WithDigit(a, d) = ToInt(w)
    <3>1. w = a * 10 + e /\ w \in Nat /\ a >= 0
      BY <1>1, <1>3, <1>7
    <3> QED BY <1>5, <3>1
  <2>2. CASE w <= IntMax
    <3>1. WithDigit(a, d) = w
      BY <2>1, <2>2, ToIntSmall
    <3> QED BY <1>2, <3>1 DEF ArgMatches, w, r, i
  <2>3. CASE w > IntMax
    BY <1>2, <2>3 DEF ArgMatches, w, r, i
  <2> QED BY <1>1, <2>1, <2>2, <2>3
<1>8. CASE FieldDigits(q, i) # {} /\ v > IntMax
  <2>1. w > IntMax
    BY <1>1, <1>3, <1>8
  <2> QED BY <1>2, <2>1 DEF ArgMatches, w, r, i
<1> QED BY <1>4, <1>6, <1>7, <1>8

(* The same holds of every argument after every byte.                      *)
LEMMA ArgsAfterDigit ==
  ASSUME NEW q \in Seq(ArgBytes), NEW d \in Digits, NEW c, c = Cardinality(Semicolons(q)),
         NEW args \in [0..(MaxArgs - 1) -> Ints],
         \A i \in 0..(MaxArgs - 1) : ArgMatches(q, i, args[i])
  PROVE  /\ Cardinality(Semicolons(Append(q, d))) = c
         /\ \A i \in 0..(MaxArgs - 1) :
              ArgMatches(Append(q, d), i, IF i = c THEN WithDigit(args[i], d) ELSE args[i])
<1>1. Cardinality(Semicolons(Append(q, d))) = c
  BY DigitJoins
<1>2. ASSUME NEW i \in 0..(MaxArgs - 1)
      PROVE  ArgMatches(Append(q, d), i, IF i = c THEN WithDigit(args[i], d) ELSE args[i])
  <2>1. ArgMatches(q, i, args[i]) /\ args[i] \in Ints
    OBVIOUS
  <2>2. CASE i = c
    BY <2>1, <2>2, ArgAfterDigit
  <2>3. CASE i # c
    <3>1. FieldDigits(Append(q, d), i) = FieldDigits(q, i)
      <4>1. FieldDigits(Append(q, d), i) = FieldDigits(q, i) \cup
              (IF Cardinality(Semicolons(q)) = i THEN {Len(q) + 1} ELSE {})
        BY DigitJoins
      <4>2. Cardinality(Semicolons(q)) # i
        BY <2>3
      <4> QED BY <4>1, <4>2, Zenon
    <3>2. d \in ArgBytes
      BY DEF ArgBytes
    <3>3. FieldValue(Append(q, d), i) = FieldValue(q, i)
      BY <3>1, <3>2, OtherField
    <3>4. ArgMatches(Append(q, d), i, args[i])
      BY <2>1, <3>1, <3>3 DEF ArgMatches
    <3> QED BY <2>3, <3>4
  <2> QED BY <2>2, <2>3
<1> QED BY <1>1, <1>2

LEMMA ArgsAfterSemicolon ==
  ASSUME NEW q \in Seq(ArgBytes), NEW i, NEW a, ArgMatches(q, i, a)
  PROVE  ArgMatches(Append(q, ";"), i, a)
BY FieldAfterSemicolon DEF ArgMatches
-----------------------------------------------------------------------------
(* The functions of the parser.                                            *)
LEMMA GroundOK == ParserOK(Ground)
<1>1. /\ MaxArgs \in Nat /\ -1 \in Ints /\ 0 \in 0..MaxArgs
  BY ParserAssumption DEF Ints
<1>2. Ground \in ParserType
  BY <1>1 DEF Ground, ParserType, States
<1>3. Ground.osc = <<>> /\ Ground.sent = <<>>
  BY DEF Ground
<1>4. StringOK(Ground)
  BY <1>3, ParserAssumption DEF StringOK, MinOf
<1>5. ArgsMatch(Ground)
  <2>1. Ground.params = <<>> /\ Ground.index = 0 /\ Ground.args = [i \in 0..(MaxArgs - 1) |-> -1]
    BY DEF Ground
  <2>2. Semicolons(<<>>) = {} /\ \A i : FieldDigits(<<>>, i) = {}
    <3>1. 1..Len(<<>>) = {}
      OBVIOUS
    <3> QED BY <3>1 DEF Semicolons, FieldDigits
  <2>3. Cardinality(Semicolons(<<>>)) = 0
    BY <2>2, FS_EmptySet
  <2>4. MinOf(0, MaxArgs) = 0
    BY <1>1, ParserAssumption DEF MinOf
  <2> QED BY <2>1, <2>2, <2>3, <2>4 DEF ArgsMatch
<1>6. QED BY <1>2, <1>4, <1>5 DEF ParserOK

(* A new state alone.                                                      *)
LEMMA StateOK ==
  ASSUME NEW p, ParserOK(p), NEW s \in States
  PROVE  ParserOK([p EXCEPT !.state = s])
<1>1. [p EXCEPT !.state = s] \in ParserType
  BY DEF ParserOK, ParserType
<1>2. StringOK([p EXCEPT !.state = s])
  BY DEF ParserOK, ParserType, StringOK
<1>3. ArgsMatch([p EXCEPT !.state = s])
  BY DEF ParserOK, ParserType, ArgsMatch
<1>4. QED BY <1>1, <1>2, <1>3 DEF ParserOK

LEMMA IndexFacts ==
  ASSUME NEW i \in 0..MaxArgs, i < MaxArgs
  PROVE  i \in 0..(MaxArgs - 1) /\ i + 1 \in 0..MaxArgs
BY ParserAssumption

LEMMA AppendType ==
  ASSUME NEW s \in Seq(ArgBytes), NEW b \in ArgBytes
  PROVE  Append(s, b) \in Seq(ArgBytes)
OBVIOUS

LEMMA ParseArgOK ==
  ASSUME NEW p, ParserOK(p), NEW b \in ArgBytes
  PROVE  ParserOK(parseArg(p, b))
<1> DEFINE more == p.index < MaxArgs
           args == IF more /\ b # ";"
                   THEN [p.args EXCEPT ![p.index] = WithDigit(p.args[p.index], b)]
                   ELSE p.args
           index == IF more /\ b = ";" THEN p.index + 1 ELSE p.index
           params == Append(p.params, b)
           q == [p EXCEPT !.params = params, !.args = args, !.index = index]
<1>1. parseArg(p, b) = q
  BY DEF parseArg, ParserOK, ParserType
<1>2. /\ p \in ParserType /\ p.index \in 0..MaxArgs /\ MaxArgs \in Nat
      /\ p.args \in [0..(MaxArgs - 1) -> Ints] /\ p.params \in Seq(ArgBytes)
  BY ParserAssumption DEF ParserOK, ParserType
<1>3. args \in [0..(MaxArgs - 1) -> Ints]
  <2>1. CASE more /\ b # ";"
    <3>1. p.index \in 0..(MaxArgs - 1)
      BY <1>2, <2>1, IndexFacts, Zenon
    <3>2. b \in Digits
      BY <2>1 DEF ArgBytes
    <3>3. p.args[p.index] \in Ints
      BY <1>2, <3>1
    <3>4. WithDigit(p.args[p.index], b) \in Ints
      BY <3>2, <3>3, WithDigitType
    <3> DEFINE new == WithDigit(p.args[p.index], b)
    <3>5. args = [p.args EXCEPT ![p.index] = new]
      BY <2>1
    <3> HIDE DEF new
    <3>6. [p.args EXCEPT ![p.index] = new] \in [0..(MaxArgs - 1) -> Ints]
      BY <1>2, <3>4 DEF new
    <3>7. QED BY <3>5, <3>6
  <2>2. CASE ~(more /\ b # ";")
    BY <1>2, <2>2
  <2>3. QED BY <2>1, <2>2
<1>4. index \in 0..MaxArgs
  <2>1. CASE more /\ b = ";"
    <3>1. index = p.index + 1
      BY <2>1
    <3>2. p.index + 1 \in 0..MaxArgs
      BY <1>2, <2>1, IndexFacts, Zenon
    <3>3. QED BY <3>1, <3>2, Zenon
  <2>2. CASE ~(more /\ b = ";")
    BY <1>2, <2>2
  <2>3. QED BY <2>1, <2>2
<1>5. params \in Seq(ArgBytes)
  BY <1>2, AppendType, Zenon
<1>6. ArgsMatch(q)
  <2> DEFINE c == Cardinality(Semicolons(p.params))
  <2>1. /\ c \in Nat /\ p.index = MinOf(c, MaxArgs)
        /\ \A i \in 0..(MaxArgs - 1) : ArgMatches(p.params, i, p.args[i])
    BY <1>2, FieldFacts DEF ParserOK, ArgsMatch, ArgMatches
  <2>2. q.params = params /\ q.args = args /\ q.index = index
    <3> HIDE DEF args, index, params
    <3> QED BY <1>2 DEF ParserType
  <2>3. SUFFICES /\ index = MinOf(Cardinality(Semicolons(params)), MaxArgs)
                 /\ \A i \in 0..(MaxArgs - 1) : ArgMatches(params, i, args[i])
    <3> HIDE DEF args, index, params, q
    <3> QED BY <2>2 DEF ArgsMatch, ArgMatches
  <2>4. CASE b = ";"
    <3>1. args = p.args
      BY <2>4
    <3>2. \A i \in 0..(MaxArgs - 1) : ArgMatches(params, i, args[i])
      BY <1>2, <2>1, <2>4, <3>1, ArgsAfterSemicolon
    <3>3. Cardinality(Semicolons(params)) = c + 1
      BY <1>2, <2>4, FieldAfterSemicolon
    <3>4. index = IF p.index < MaxArgs THEN p.index + 1 ELSE p.index
      BY <2>4
    <3> HIDE DEF index, c, params
    <3>5. index = MinOf(c + 1, MaxArgs)
      BY <1>2, <2>1, <3>4 DEF MinOf
    <3> QED BY <3>2, <3>3, <3>5
  <2>5. CASE b # ";"
    <3>1. b \in Digits
      BY <2>5 DEF ArgBytes
    <3>2. index = p.index
      BY <2>5
    <3>3. /\ Cardinality(Semicolons(params)) = c
          /\ \A i \in 0..(MaxArgs - 1) :
               ArgMatches(params, i, IF i = c THEN WithDigit(p.args[i], b) ELSE p.args[i])
      BY <1>2, <2>1, <3>1, ArgsAfterDigit
    <3>4. ASSUME NEW i \in 0..(MaxArgs - 1)
          PROVE  args[i] = IF i = c THEN WithDigit(p.args[i], b) ELSE p.args[i]
      <4>1. args = IF more THEN [p.args EXCEPT ![p.index] = WithDigit(p.args[p.index], b)]
                   ELSE p.args
        BY <2>5
      <4>2. CASE more
        <5>1. p.index = c
          <6> HIDE DEF c
          <6> QED BY <1>2, <2>1, <4>2 DEF MinOf
        <5> HIDE DEF c
        <5> QED BY <1>2, <4>1, <4>2, <5>1
      <4>3. CASE ~more
        <5>1. i # c
          <6> HIDE DEF c
          <6> QED BY <1>2, <2>1, <4>3 DEF MinOf
        <5> QED BY <4>1, <4>3, <5>1
      <4> QED BY <4>2, <4>3
    <3> HIDE DEF index, args, params, c
    <3> QED BY <2>1, <3>2, <3>3, <3>4
  <2> QED BY <2>4, <2>5
<1> HIDE DEF args, index, params
<1>7. q \in ParserType
  BY <1>2, <1>3, <1>4, <1>5 DEF ParserType
<1>8. StringOK(q)
  BY DEF ParserOK, ParserType, StringOK
<1>9. QED BY <1>1, <1>6, <1>7, <1>8 DEF ParserOK

LEMMA CollectOK ==
  ASSUME NEW p, ParserOK(p), NEW b \in Byte
  PROVE  ParserOK(Collect(p, b)) /\ Collect(p, b).sent = Append(p.sent, b)
<1> DEFINE osc == IF Len(p.osc) < MaxOSC THEN Append(p.osc, b) ELSE p.osc
           told == Append(p.sent, b)
           q == [p EXCEPT !.osc = osc, !.sent = told]
<1>1. /\ p \in ParserType /\ p.osc \in Seq(Byte) /\ p.sent \in Seq(Byte)
      /\ MaxOSC \in Nat
      /\ Len(p.osc) = MinOf(Len(p.sent), MaxOSC)
      /\ \A k \in 1..Len(p.osc) : p.osc[k] = p.sent[k]
  BY ParserAssumption DEF ParserOK, ParserType, StringOK
<1>2. Collect(p, b) = q
  BY <1>1 DEF Collect, ParserType
<1>3. osc \in Seq(Byte) /\ told \in Seq(Byte)
  BY <1>1
<1>4. Len(osc) = MinOf(Len(told), MaxOSC)
  BY <1>1 DEF MinOf
<1>5. \A k \in 1..Len(osc) : osc[k] = told[k]
  <2>1. CASE Len(p.osc) < MaxOSC
    <3>1. Len(p.osc) = Len(p.sent)
      BY <1>1, <2>1 DEF MinOf
    <3>2. QED BY <1>1, <2>1, <3>1
  <2>2. CASE ~(Len(p.osc) < MaxOSC)
    BY <1>1, <2>2 DEF MinOf
  <2>3. QED BY <2>1, <2>2
<1> HIDE DEF osc, told
<1>6. q \in ParserType /\ q.osc = osc /\ q.sent = told
  BY <1>1, <1>3 DEF ParserType
<1>7. StringOK(q)
  BY <1>4, <1>5, <1>6 DEF StringOK
<1>8. ArgsMatch(q)
  BY <1>1 DEF ParserOK, ParserType, ArgsMatch
<1>9. QED BY <1>2, <1>6, <1>7, <1>8 DEF ParserOK, told

LEMMA TerminatorOK ==
  ASSUME NEW p, ParserOK(p), NEW b \in Byte
  PROVE  ParserOK(doEscRightSquareBracketEsc(p, b))
<1> DEFINE c == Collect(p, "ESC")
           d == Collect(c, b)
<1>1. "ESC" \in Byte
  BY DEF Byte
<1>2. ParserOK(c) /\ c.sent = Append(p.sent, "ESC")
  BY <1>1, CollectOK
<1>3. ParserOK(d) /\ d.sent = Append(c.sent, b)
  BY <1>2, CollectOK
<1>4. p.sent \in Seq(Byte)
  BY DEF ParserOK, ParserType
<1>5. Append(Append(p.sent, "ESC"), b) = p.sent \o <<"ESC", b>>
  BY <1>1, <1>4
<1> HIDE DEF c, d
<1>6. [d EXCEPT !.state = "OSC", !.sent = p.sent \o <<"ESC", b>>]
        = [d EXCEPT !.state = "OSC"]
  BY <1>2, <1>3, <1>5 DEF ParserOK, ParserType
<1>7. "OSC" \in States
  BY DEF States
<1>8. ParserOK([d EXCEPT !.state = "OSC"])
  BY <1>3, <1>7, StateOK
<1>9. QED
  BY <1>6, <1>8, GroundOK DEF doEscRightSquareBracketEsc, finishSequence, KeepEsc, c, d

LEMMA ProcessOK ==
  ASSUME NEW p, ParserOK(p), NEW b \in Byte, NEW fails
  PROVE  ParserOK(process(p, b, fails))
<1>1. ParserOK(finishSequence(p))
  BY GroundOK DEF finishSequence
<1>2. \A s \in States : ParserOK([p EXCEPT !.state = s])
  BY StateOK
<1>3. ParserOK(startEscapeSequence(p))
  <2>1. "ESC" \in States
    BY DEF States
  <2>2. QED BY <2>1, GroundOK, StateOK DEF startEscapeSequence
<1>4. ParserOK(doEsc(p, b))
  BY <1>1, <1>2 DEF doEsc, States
<1>5. b \in Digits \cup {";"} => ParserOK(parseArg(p, b))
  BY ParseArgOK DEF ArgBytes
<1>6. ParserOK(doEscLeftSquareBracket(p, b))
  BY <1>1, <1>2, <1>5 DEF doEscLeftSquareBracket, States
<1>7. ParserOK(doEscLSBQuest(p, b))
  BY <1>1, <1>5 DEF doEscLSBQuest
<1>8. ParserOK(doEscRightSquareBracket(p, b))
  BY <1>1, CollectOK DEF doEscRightSquareBracket
<1>9. ParserOK(doEscRightSquareBracketEsc(p, b))
  BY TerminatorOK
<1>10. p.state \in States
  BY DEF ParserOK, ParserType
<1>11. ParserOK([p EXCEPT !.state = "OSC ESC"])
  BY <1>2 DEF States
<1>12. QED
  BY <1>1, <1>3, <1>4, <1>6, <1>7, <1>8, <1>9, <1>10, <1>11 DEF process, States

LEMMA ProcessC1OK ==
  ASSUME NEW p, ParserOK(p), NEW x \in C1, NEW fails
  PROVE  ParserOK(processC1(p, x, fails))
<1>1. "ESC" \in Byte /\ x \in Byte
  BY DEF C1, Byte, Intermediates, Finals
<1>2. QED BY <1>1, ProcessOK DEF processC1
-----------------------------------------------------------------------------
(* The decoder: at most four bytes and two characters.                     *)
DecoderType ==
  /\ mUTF8ToFollow \in 0..3 /\ mUTF8Bytes \in 0..4
  /\ mInputChars \in {0, 2} /\ mInputChar \in Chars
  /\ sending \in 0..3 /\ credit \in 0..Spoiled

(* The bytes still to come of a character find room.                       *)
Fits == mUTF8Bytes + mUTF8ToFollow <= 4

(* The decoder waits for what is sent, unless it has no room for it.       *)
InStep ==
  /\ mUTF8ToFollow > 0 /\ mUTF8Bytes < 4 => sending = mUTF8ToFollow
  /\ mUTF8ToFollow > 0 => sending <= mUTF8ToFollow
  /\ mUTF8ToFollow = 0 /\ mUTF8Bytes > 0 => sending = 0
  /\ ~Stale => IF mUTF8ToFollow = 0 THEN mUTF8Bytes = 0 ELSE Fits

(* The characters that will still be lost: the one being sent, the one     *)
(* that is swallowed, and the one in whose place the stale one is shown.   *)
ToLose ==
  (IF Stale THEN 1 ELSE 0) +
  (IF mUTF8ToFollow = 0
   THEN IF mUTF8Bytes > 0 THEN 2 ELSE IF sending > 0 THEN 1 ELSE 0
   ELSE IF Fits THEN 0 ELSE IF sending > 0 THEN 2 ELSE 1)

DecoderOK == DecoderType /\ (mUTF8Mode => InStep /\ ToLose <= credit)

IInv == ParserOK(parser) /\ mUTF8Mode \in BOOLEAN /\ DecoderOK

LEMMA InitInvariant == Init => IInv
<1> SUFFICES ASSUME Init PROVE IInv
  OBVIOUS
<1>1. DecoderOK
  BY DEF Init, DecoderOK, DecoderType, InStep, ToLose, Stale, Fits, Chars, Spoiled
<1>2. QED BY <1>1, GroundOK DEF Init, IInv

(* A byte that begins a character where the decoder expects one.           *)
LEMMA StartsOK ==
  ASSUME DecoderOK, mUTF8Mode => mUTF8ToFollow = 0, Starts(0), UNCHANGED <<mUTF8Mode, utf8>>
  PROVE  DecoderOK'
<1>1. UNCHANGED <<mUTF8Mode, mUTF8ToFollow, mUTF8Bytes, mInputChars, mInputChar>>
  BY DEF utf8
<1>2. sending' = 0 /\ credit' = (IF sending > 0 THEN Spoiled ELSE credit)
  BY DEF Starts
<1>3. DecoderType'
  BY <1>1, <1>2 DEF DecoderOK, DecoderType, Spoiled
<1>4. ASSUME mUTF8Mode' PROVE InStep' /\ (ToLose <= credit)'
  BY <1>1, <1>2, <1>4
     DEF DecoderOK, DecoderType, InStep, ToLose, Stale, Fits, Spoiled
<1>5. QED BY <1>3, <1>4 DEF DecoderOK

LEMMA ReplacedOK ==
  ASSUME DecoderOK, UTF8Replaced
  PROVE  DecoderOK'
<1>1. mUTF8Mode /\ mUTF8ToFollow = 0 /\ UNCHANGED <<mUTF8Mode, utf8>>
  BY DEF UTF8Replaced
<1>2. CASE Starts(0)
  BY <1>1, <1>2, StartsOK
<1>3. CASE Continues
  <2>1. UNCHANGED <<mUTF8Mode, mUTF8ToFollow, mUTF8Bytes, mInputChars, mInputChar>>
    BY <1>1 DEF utf8
  <2>2. /\ sending' = (IF sending > 0 THEN sending - 1 ELSE 0)
        /\ credit' = (IF sending = 1 THEN credit - 1 ELSE credit)
    BY <1>3 DEF Continues
  <2>3. DecoderType' /\ InStep' /\ (ToLose <= credit)'
    BY <1>1, <2>1, <2>2 DEF DecoderOK, DecoderType, InStep, ToLose, Stale, Fits, Spoiled
  <2>4. QED BY <2>3 DEF DecoderOK
<1>4. QED BY <1>2, <1>3 DEF UTF8Replaced

LEMMA LeadOK ==
  ASSUME DecoderOK, UTF8Lead
  PROVE  DecoderOK'
<1>1. PICK follow \in 1..3 :
        /\ mUTF8Mode /\ mUTF8ToFollow = 0
        /\ mUTF8ToFollow' = follow
        /\ mUTF8Bytes' = IF mUTF8Bytes < 4 THEN mUTF8Bytes + 1 ELSE mUTF8Bytes
        /\ Starts(follow)
        /\ UNCHANGED <<parser, mUTF8Mode, mInputChars, mInputChar>>
  BY DEF UTF8Lead
<1>2. sending' = follow /\ credit' = (IF sending > 0 THEN Spoiled ELSE credit)
  BY <1>1 DEF Starts
<1>3. DecoderType'
  BY <1>1, <1>2 DEF DecoderOK, DecoderType, Spoiled
<1>4. InStep'
  BY <1>1, <1>2 DEF DecoderOK, DecoderType, InStep, Stale, Fits
<1>5. (ToLose <= credit)'
  BY <1>1, <1>2 DEF DecoderOK, DecoderType, InStep, ToLose, Stale, Fits, Spoiled
<1>6. QED BY <1>3, <1>4, <1>5 DEF DecoderOK

LEMMA BrokenOK ==
  ASSUME DecoderOK, UTF8Broken
  PROVE  DecoderOK'
<1>1. PICK follow \in 0..3 :
        /\ mUTF8Mode /\ mUTF8ToFollow > 0
        /\ mUTF8ToFollow' = 0 /\ mUTF8Bytes' = 0
        /\ Swallows(follow)
        /\ UNCHANGED <<parser, mUTF8Mode, mInputChars, mInputChar>>
  BY DEF UTF8Broken
<1>2. /\ sending' = follow
      /\ credit' = IF sending > 0 THEN Spoiled
                   ELSE IF follow = 0 THEN credit - 1 ELSE credit
  BY <1>1 DEF Swallows
<1>3. sending = 0 => ~Fits
  BY <1>1 DEF DecoderOK, DecoderType, InStep, Fits
<1>4. DecoderType'
  BY <1>1, <1>2, <1>3 DEF DecoderOK, DecoderType, ToLose, Stale, Spoiled
<1>5. InStep' /\ (ToLose <= credit)'
  BY <1>1, <1>2, <1>3 DEF DecoderOK, DecoderType, InStep, ToLose, Stale, Fits, Spoiled
<1>6. QED BY <1>4, <1>5 DEF DecoderOK

LEMMA ContinueOK ==
  ASSUME DecoderOK, UTF8Continue
  PROVE  DecoderOK'
<1>1. /\ mUTF8Mode /\ mUTF8ToFollow > 0
      /\ UNCHANGED <<mUTF8Mode, mInputChars, mInputChar>>
      /\ sending' = (IF sending > 0 THEN sending - 1 ELSE 0)
      /\ credit' = (IF sending = 1 THEN credit - 1 ELSE credit)
  BY DEF UTF8Continue, Continues, utf8
<1>2. CASE mUTF8Bytes = 4
  <2>1. UNCHANGED <<mUTF8ToFollow, mUTF8Bytes>>
    BY <1>2 DEF UTF8Continue, utf8
  <2>2. DecoderType' /\ InStep' /\ (ToLose <= credit)'
    BY <1>1, <1>2, <2>1
       DEF DecoderOK, DecoderType, InStep, ToLose, Stale, Fits, Spoiled
  <2>3. QED BY <2>2 DEF DecoderOK
<1>3. CASE mUTF8Bytes # 4
  <2>1. mUTF8ToFollow > 1 /\ mUTF8ToFollow' = mUTF8ToFollow - 1
        /\ mUTF8Bytes' = mUTF8Bytes + 1
    BY <1>3 DEF UTF8Continue
  <2>2. DecoderType' /\ InStep' /\ (ToLose <= credit)'
    BY <1>1, <1>3, <2>1
       DEF DecoderOK, DecoderType, InStep, ToLose, Stale, Fits, Spoiled
  <2>3. QED BY <2>2 DEF DecoderOK
<1>4. QED BY <1>2, <1>3

LEMMA LastOK ==
  ASSUME ParserOK(parser), DecoderOK, UTF8Last
  PROVE  ParserOK(parser)' /\ DecoderOK' /\ UNCHANGED mUTF8Mode
<1>1. PICK c \in Chars, fails \in BOOLEAN :
        LET shown == Decoded(c)
            threw == IF shown \in C1
                     THEN Throws(process(parser, "ESC", FALSE), shown, fails) ELSE fails
        IN  /\ mUTF8Mode /\ mUTF8ToFollow = 1 /\ mUTF8Bytes < 4
            /\ mUTF8ToFollow' = 0
            /\ mInputChar' = shown
            /\ parser' = IF shown \in C1 THEN processC1(parser, shown, fails) ELSE parser
            /\ IF threw THEN mUTF8Bytes' \in Consumed /\ mInputChars' = 2
                        ELSE mUTF8Bytes' = 0 /\ ClearChars
            /\ sending' = 0
            /\ credit' = IF Stale THEN (IF threw THEN credit ELSE credit - 1)
                                  ELSE (IF threw THEN Spoiled ELSE 0)
            /\ UNCHANGED mUTF8Mode
  BY DEF UTF8Last
<1> DEFINE shown == Decoded(c)
           threw == IF shown \in C1
                    THEN Throws(process(parser, "ESC", FALSE), shown, fails) ELSE fails
<1>2. /\ parser' = IF shown \in C1 THEN processC1(parser, shown, fails) ELSE parser
      /\ mInputChar' = shown /\ UNCHANGED mUTF8Mode
  BY <1>1
<1>3. ParserOK(parser)'
  BY <1>2, ProcessC1OK
<1>4. shown \in Chars
  BY DEF DecoderOK, DecoderType, Decoded
<1>5. /\ mUTF8Mode /\ mUTF8ToFollow = 1 /\ mUTF8Bytes < 4 /\ mUTF8ToFollow' = 0
      /\ sending' = 0
      /\ IF threw THEN mUTF8Bytes' \in Consumed /\ mInputChars' = 2
                  ELSE mUTF8Bytes' = 0 /\ ClearChars
      /\ credit' = IF Stale THEN (IF threw THEN credit ELSE credit - 1)
                            ELSE (IF threw THEN Spoiled ELSE 0)
  BY <1>1
<1> HIDE DEF shown, threw
<1>6. \/ /\ Stale /\ mUTF8Bytes' = 0 /\ mInputChars' = 2 /\ credit' = credit
      \/ /\ Stale /\ mUTF8Bytes' = 0 /\ mInputChars' = 0 /\ credit' = credit - 1
      \/ /\ ~Stale /\ mUTF8Bytes' \in 2..4 /\ mInputChars' = 2 /\ credit' = Spoiled
      \/ /\ ~Stale /\ mUTF8Bytes' = 0 /\ mInputChars' = 0 /\ credit' = 0
  BY <1>5 DEF Consumed, ClearChars
<1>7. /\ credit \in 0..3 /\ (Stale => 1 <= credit)
  BY <1>5 DEF DecoderOK, DecoderType, ToLose, Spoiled
<1>8. /\ mUTF8Bytes' \in 0..4 /\ mInputChars' \in {0, 2} /\ credit' \in 0..3
      /\ InStep' /\ (ToLose <= credit)'
  BY <1>5, <1>6, <1>7 DEF InStep, ToLose, Stale, Fits, Spoiled
<1>9. DecoderType'
  BY <1>2, <1>4, <1>5, <1>8 DEF DecoderType, Spoiled
<1>10. QED BY <1>2, <1>3, <1>8, <1>9 DEF DecoderOK

(* setUTF8Mode() and reset() start afresh.                                 *)
LEMMA FreshOK ==
  ASSUME DecoderOK, mUTF8ToFollow' = 0, mUTF8Bytes' = 0, mInputChars' = 0,
         UNCHANGED mInputChar, sending' = 0, credit' = 0
  PROVE  DecoderOK'
BY DEF DecoderOK, DecoderType, InStep, ToLose, Stale, Fits, Spoiled

LEMMA StepInvariant == IInv /\ [Next]_vars => IInv'
<1> SUFFICES ASSUME IInv, [Next]_vars PROVE IInv'
  OBVIOUS
<1>0. ParserOK(parser) /\ mUTF8Mode \in BOOLEAN /\ DecoderOK
  BY DEF IInv
<1>1. CASE AsciiByte
  <2>1. PICK b \in Bytes \cup {"BEL", "CAN", "ESC"}, fails \in BOOLEAN :
          parser' = process(parser, b, fails)
    BY <1>1 DEF AsciiByte
  <2>2. b \in Byte
    BY ParserAssumption DEF Byte
  <2>3. ParserOK(parser)'
    BY <1>0, <2>1, <2>2, ProcessOK
  <2>4. (mUTF8Mode => mUTF8ToFollow = 0) /\ Starts(0) /\ UNCHANGED <<mUTF8Mode, utf8>>
    BY <1>1 DEF AsciiByte
  <2>5. DecoderOK' /\ mUTF8Mode' = mUTF8Mode
    BY <1>0, <2>4, StartsOK
  <2>6. QED BY <1>0, <2>3, <2>5 DEF IInv
<1>2. CASE HighByte
  <2>1. "other" \in Byte
    BY DEF Byte, Finals
  <2>2. ParserOK(parser)'
    BY <1>0, <1>2, <2>1, ProcessOK, ProcessC1OK DEF HighByte
  <2>3. UNCHANGED <<mUTF8Mode, utf8, sent>>
    BY <1>2 DEF HighByte
  <2>4. DecoderOK'
    BY <1>0, <2>3
       DEF utf8, sent, DecoderOK, DecoderType, InStep, ToLose, Stale, Fits
  <2>5. QED BY <1>0, <2>2, <2>3, <2>4 DEF IInv
<1>3. ASSUME UTF8Replaced \/ UTF8Lead \/ UTF8Broken \/ UTF8Continue
      PROVE  parser' = parser /\ mUTF8Mode' = mUTF8Mode
  BY <1>3 DEF UTF8Replaced, UTF8Lead, UTF8Broken, UTF8Continue
<1>4. CASE UTF8Replaced \/ UTF8Lead \/ UTF8Broken \/ UTF8Continue
  <2>1. DecoderOK'
    BY <1>0, <1>4, ReplacedOK, LeadOK, BrokenOK, ContinueOK
  <2>2. QED BY <1>0, <1>3, <1>4, <2>1 DEF IInv
<1>5. CASE UTF8Last
  BY <1>0, <1>5, LastOK DEF IInv
<1>6. CASE setUTF8Mode
  <2>1. parser' = parser /\ mUTF8Mode' = ~mUTF8Mode
    BY <1>6 DEF setUTF8Mode
  <2>2. CASE mUTF8Mode'
    <3>1. DecoderOK'
      BY <1>0, <1>6, <2>2, FreshOK DEF setUTF8Mode
    <3>2. QED BY <1>0, <2>1, <2>2, <3>1 DEF IInv
  <2>3. CASE ~mUTF8Mode'
    <3>1. UNCHANGED <<utf8, credit>> /\ sending' = 0
      BY <1>6, <2>3 DEF setUTF8Mode
    <3>2. DecoderType'
      BY <1>0, <3>1 DEF utf8, DecoderOK, DecoderType
    <3>3. mUTF8Mode' \in BOOLEAN
      BY <2>1, Zenon
    <3>4. QED BY <1>0, <2>1, <2>3, <3>2, <3>3 DEF IInv, DecoderOK
  <2>4. QED BY <2>2, <2>3
<1>7. CASE reset
  <2>1. parser' = Ground /\ mUTF8Mode' \in BOOLEAN
    BY <1>7 DEF reset
  <2>2. DecoderOK'
    BY <1>0, <1>7, FreshOK DEF reset
  <2>3. QED BY <2>1, <2>2, GroundOK DEF IInv
<1>8. CASE UNCHANGED vars
  BY <1>8 DEF vars, utf8, sent, IInv, DecoderOK, DecoderType, InStep, ToLose, Stale, Fits
<1>9. QED
  BY <1>1, <1>2, <1>4, <1>5, <1>6, <1>7, <1>8 DEF Next

(* IInv is inductive: the byte-level functions and the decoder, every      *)
(* exception included, keep their fields in bounds and consistent.         *)
THEOREM InductiveInvariant == Spec => []IInv
<1>1. QED BY InitInvariant, StepInvariant, PTL DEF Spec

(* Every field keeps its type, whatever bytes the process writes and       *)
(* wherever an exception ends a function: mOSCArg and the decoder's        *)
(* buffers are never overrun, mArgs by one place at most (CSI m).          *)
THEOREM TypeCorrect == Spec => []TypeOK
<1>1. IInv => TypeOK
  <2> SUFFICES ASSUME IInv PROVE TypeOK
    OBVIOUS
  <2>1. parser \in ParserType /\ StringOK(parser)
    BY DEF IInv, ParserOK
  <2>2. /\ parser.state \in States /\ parser.args \in [0..(MaxArgs - 1) -> Ints]
        /\ parser.index \in 0..MaxArgs /\ parser.sent \in Seq(Byte)
    BY <2>1 DEF ParserType
  <2>3. Len(parser.osc) <= MaxOSC
    BY <2>1, <2>2, ParserAssumption DEF StringOK, MinOf
  <2>4. QED BY <2>2, <2>3 DEF TypeOK, IInv, DecoderOK, DecoderType
<1>2. QED BY <1>1, InductiveInvariant, PTL

(* The string of an OSC sequence is the beginning of what was sent.        *)
THEOREM StringsAreKept == Spec => []StringIsWhatWasSent
<1>1. IInv => StringIsWhatWasSent
  <2> SUFFICES ASSUME IInv
               PROVE  parser.osc = SubSeq(parser.sent, 1, MinOf(Len(parser.sent), MaxOSC))
    BY DEF StringIsWhatWasSent
  <2> DEFINE n == MinOf(Len(parser.sent), MaxOSC)
  <2>1. parser.osc \in Seq(Byte) /\ parser.sent \in Seq(Byte) /\ MaxOSC \in Nat
    BY ParserAssumption DEF IInv, ParserOK, ParserType
  <2>2. Len(parser.osc) = n /\ \A k \in 1..Len(parser.osc) : parser.osc[k] = parser.sent[k]
    BY DEF IInv, ParserOK, StringOK
  <2>3. n \in Nat /\ n <= Len(parser.sent)
    BY <2>1 DEF MinOf
  <2> DEFINE s == SubSeq(parser.sent, 1, n)
  <2>4. \A k \in 1..n : parser.sent[k] \in Byte
    BY <2>1, <2>3
  <2> HIDE DEF n
  <2>5. /\ s \in Seq(Byte)
        /\ Len(s) = IF 1 <= n THEN n - 1 + 1 ELSE 0
        /\ \A k \in 1..(n - 1 + 1) : s[k] = parser.sent[1 + k - 1]
    BY <2>3, <2>4, SubSeqProperties
  <2> HIDE DEF s
  <2>6. Len(s) = n /\ \A k \in 1..n : s[k] = parser.osc[k]
    BY <2>1, <2>2, <2>3, <2>5
  <2>7. parser.osc = s
    BY <2>1, <2>2, <2>3, <2>5, <2>6, SeqEqual
  <2>8. QED BY <2>7 DEF n, s
<1>2. QED BY <1>1, InductiveInvariant, PTL

(* An exception spoils at most three later characters, and every further   *)
(* one of the stale character one more.                                    *)
THEOREM DamageStaysBounded == Spec => []DamageIsBounded
<1>1. IInv => DamageIsBounded
  BY DEF IInv, DecoderOK, DecoderType, DamageIsBounded
<1>2. QED BY <1>1, InductiveInvariant, PTL

(* Every argument is the number written for it, for arguments of any       *)
(* length and ints of any width: parseArg() builds it digit by digit, and  *)
(* FieldAfterDigit shows that to be the decimal value of the whole field.  *)
(* A number beyond the int is the only one that may be changed.            *)
THEOREM ArgumentsAreTheFields == Spec => []ArgsAreTheFields
<1>1. IInv => ArgsAreTheFields
  BY DEF IInv, ParserOK, ArgsAreTheFields
<1>2. QED BY <1>1, InductiveInvariant, PTL
=============================================================================
