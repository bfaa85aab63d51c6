-------------------------- MODULE TermWindowsProofs --------------------------
(***************************************************************************)
(* The views of Term and the sessions of TermService correspond, the       *)
(* screen is not empty and the service is not stopped under a session, for *)
(* any number of sessions and of intents on their way.                     *)
(***************************************************************************)
EXTENDS TermWindows, FiniteSetTheorems, SequenceTheorems, WellFoundedInduction, TLAPS

(* Induction over the natural numbers, for a set of them.                  *)
LEMMA NatInduction1 ==
  ASSUME NEW S, 0 \in S, \A n \in Nat : n \in S => n + 1 \in S
  PROVE  Nat \subseteq S
<1> SUFFICES ASSUME Nat \ S # {} PROVE FALSE
  OBVIOUS
<1>1. \E d \in Nat \ S : \A e \in Nat \ S : ~(<<e, d>> \in OpToRel(<, Nat))
  <2> DEFINE D == Nat \ S
  <2>1. D \subseteq Nat /\ D # {}
    OBVIOUS
  <2> HIDE DEF D
  <2>2. \E d \in D : \A e \in D : ~(<<e, d>> \in OpToRel(<, Nat))
    BY <2>1, NatLessThanWellFounded, WFMin
  <2> QED BY <2>2 DEF D
<1>2. PICK d \in Nat \ S : \A e \in Nat \ S : ~(<<e, d>> \in OpToRel(<, Nat))
  BY <1>1
<1>3. d \in Nat /\ d \notin S /\ d # 0 /\ d - 1 \in Nat
  OBVIOUS
<1>4. d - 1 \notin S
  BY <1>3
<1>5. <<d - 1, d>> \in OpToRel(<, Nat)
  BY <1>2, <1>3 DEF OpToRel
<1> QED BY <1>2, <1>3, <1>4, <1>5

(* Induction up to a bound.                                                *)
LEMMA UpTo ==
  ASSUME NEW m \in Nat, NEW S, 0 \in S, \A n \in 0..(m-1) : n \in S => n + 1 \in S
  PROVE  0..m \subseteq S
<1> DEFINE T == {n \in Nat : n <= m => n \in S}
<1>1. 0 \in T
  OBVIOUS
<1>2. \A n \in Nat : n \in T => n + 1 \in T
  OBVIOUS
<1>3. Nat \subseteq T
  <2> HIDE DEF T
  <2> QED BY <1>1, <1>2, NatInduction1
<1> QED BY <1>3
-----------------------------------------------------------------------------
(* Sequences of sessions.                                                  *)

Increasing(q) == \A i, j \in 1..Len(q) : i < j => q[i] < q[j]
NoDuplicates(q) == \A i, j \in 1..Len(q) : i # j => q[i] # q[j]

LEMMA RemoveAtFacts ==
  ASSUME NEW S, NEW q \in Seq(S), NEW k \in 1..Len(q)
  PROVE  /\ RemoveAt(q, k) \in Seq(S)
         /\ Len(RemoveAt(q, k)) = Len(q) - 1
         /\ \A i \in 1..(Len(q) - 1) :
              RemoveAt(q, k)[i] = IF i < k THEN q[i] ELSE q[i + 1]
<1> DEFINE a == SubSeq(q, 1, k - 1)
           b == SubSeq(q, k + 1, Len(q))
<1>0. Len(q) \in Nat /\ k \in Nat
  OBVIOUS
<1>1. a \in Seq(S) /\ Len(a) = k - 1 /\ \A i \in 1..(k - 1) : a[i] = q[i]
  BY <1>0
<1>2. b \in Seq(S) /\ Len(b) = Len(q) - k /\ \A i \in 1..(Len(q) - k) : b[i] = q[k + i]
  BY <1>0
<1>3. RemoveAt(q, k) = a \o b
  BY DEF RemoveAt
<1> HIDE DEF a, b
<1>4. a \o b \in Seq(S) /\ Len(a \o b) = Len(q) - 1
  <2>1. a \o b \in Seq(S) /\ Len(a \o b) = Len(a) + Len(b)
    BY <1>1, <1>2, ConcatProperties
  <2> QED BY <2>1, <1>0, <1>1, <1>2
<1>5. ASSUME NEW i \in 1..(Len(q) - 1)
      PROVE  (a \o b)[i] = IF i < k THEN q[i] ELSE q[i + 1]
  <2>1. CASE i < k
    BY <2>1, <1>0, <1>1, <1>2
  <2>2. CASE ~(i < k)
    <3>1. (a \o b)[i] = b[i - (k - 1)] /\ i - (k - 1) \in 1..(Len(q) - k)
      BY <2>2, <1>0, <1>1, <1>2
    <3>2. k + (i - (k - 1)) = i + 1
      BY <1>0
    <3> QED BY <3>1, <3>2, <1>2, <2>2, <1>0
  <2> QED BY <2>1, <2>2
<1> QED BY <1>3, <1>4, <1>5

LEMMA RemoveAtElements ==
  ASSUME NEW S, NEW q \in Seq(S), NEW k \in 1..Len(q)
  PROVE  Elements(RemoveAt(q, k)) \subseteq Elements(q)
<1> DEFINE r == RemoveAt(q, k)
<1>1. /\ Len(r) = Len(q) - 1 /\ Len(q) \in Nat
      /\ \A i \in 1..(Len(q) - 1) : r[i] = IF i < k THEN q[i] ELSE q[i + 1]
  BY RemoveAtFacts
<1> HIDE DEF r
<1>2. \A i \in 1..Len(r) : r[i] \in Elements(q)
  BY <1>1 DEF Elements
<1>3. Elements(r) \subseteq Elements(q)
  BY <1>2 DEF Elements
<1> QED BY <1>3 DEF r

LEMMA IncreasingNoDuplicates ==
  ASSUME NEW q \in Seq(Int), Increasing(q)
  PROVE  NoDuplicates(q)
BY DEF Increasing, NoDuplicates

(* What a sequence without duplicates counts.                              *)
LEMMA ElementsCount ==
  ASSUME NEW S, NEW q \in Seq(S)
  PROVE  /\ IsFiniteSet(Elements(q)) /\ Cardinality(Elements(q)) <= Len(q)
         /\ NoDuplicates(q) => Cardinality(Elements(q)) = Len(q)
<1>1. IsFiniteSet(1..Len(q)) /\ Cardinality(1..Len(q)) = Len(q) /\ Len(q) \in Nat
  <2>1. Len(q) \in Nat
    OBVIOUS
  <2> QED BY <2>1, FS_Interval
<1>2. q \in Surjection(1..Len(q), Elements(q))
  BY DEF Surjection, Elements
<1>3. NoDuplicates(q) => q \in Injection(1..Len(q), Elements(q))
  BY DEF Injection, IsInjective, Elements, NoDuplicates
<1> QED BY <1>1, <1>2, <1>3, FS_Surjection

(* A sequence without duplicates is no longer than one that has all its    *)
(* elements, and has the same ones if it is not shorter.                   *)
LEMMA Counting ==
  ASSUME NEW S, NEW q \in Seq(S), NEW r \in Seq(S), NoDuplicates(q),
         Elements(q) \subseteq Elements(r)
  PROVE  /\ Len(q) <= Len(r)
         /\ Len(q) = Len(r) => Elements(q) = Elements(r)
<1>1. /\ IsFiniteSet(Elements(q)) /\ Cardinality(Elements(q)) = Len(q)
      /\ IsFiniteSet(Elements(r)) /\ Cardinality(Elements(r)) <= Len(r)
      /\ Len(q) \in Nat /\ Len(r) \in Nat
  BY ElementsCount
<1>2. /\ Cardinality(Elements(q)) <= Cardinality(Elements(r))
      /\ Cardinality(Elements(r)) = Cardinality(Elements(q)) => Elements(r) = Elements(q)
  BY <1>1, FS_Subset
<1>3. Cardinality(Elements(r)) \in Nat
  BY <1>1, FS_CardinalityType
<1> QED BY <1>1, <1>2, <1>3

(* An increasing sequence is determined by its elements.                   *)
LEMMA IncreasingEqual ==
  ASSUME NEW q \in Seq(Int), NEW r \in Seq(Int), Increasing(q), Increasing(r),
         Elements(q) = Elements(r)
  PROVE  q = r
<1>1. Len(q) = Len(r) /\ Len(q) \in Nat
  <2>1. Len(q) <= Len(r) /\ Len(r) <= Len(q)
    BY IncreasingNoDuplicates, Counting
  <2> QED BY <2>1
<1> DEFINE Same == {n \in 0..Len(q) : \A i \in 1..n : q[i] = r[i]}
<1>2. ASSUME NEW n \in 0..(Len(q) - 1), n \in Same PROVE n + 1 \in Same
  <2>1. n + 1 \in 1..Len(q) /\ n + 1 \in 0..Len(q) /\ n \in Nat
    BY <1>1
  <2>2. \A i \in 1..n : q[i] = r[i]
    BY <1>2
  <2>3. q[n+1] \in Int /\ r[n+1] \in Int
    BY <2>1, <1>1
  <2>4. ASSUME q[n+1] < r[n+1] PROVE FALSE
    <3>1. PICK j \in 1..Len(r) : r[j] = q[n+1]
      BY <2>1, <1>1 DEF Elements
    <3>2. CASE j <= n
      BY <3>1, <3>2, <2>1, <2>2, <2>3, <1>1 DEF Increasing
    <3>3. CASE j > n
      BY <3>1, <3>3, <2>1, <2>3, <2>4, <1>1 DEF Increasing
    <3> QED BY <3>2, <3>3, <2>1
  <2>5. ASSUME r[n+1] < q[n+1] PROVE FALSE
    <3>1. PICK j \in 1..Len(q) : q[j] = r[n+1]
      BY <2>1, <1>1 DEF Elements
    <3>2. CASE j <= n
      BY <3>1, <3>2, <2>1, <2>2, <2>3, <1>1 DEF Increasing
    <3>3. CASE j > n
      BY <3>1, <3>3, <2>1, <2>3, <2>5, <1>1 DEF Increasing
    <3> QED BY <3>2, <3>3, <2>1
  <2>6. q[n+1] = r[n+1]
    BY <2>3, <2>4, <2>5
  <2>7. \A i \in 1..(n+1) : q[i] = r[i]
    BY <2>1, <2>2, <2>6
  <2> QED BY <2>1, <2>7
<1>3. 0 \in Same
  BY <1>1
<1>4. 0..Len(q) \subseteq Same
  <2> HIDE DEF Same
  <2> QED BY <1>1, <1>2, <1>3, UpTo
<1>5. \A i \in 1..Len(q) : q[i] = r[i]
  BY <1>1, <1>4
<1> QED BY <1>1, <1>5, SeqEqual
-----------------------------------------------------------------------------
(* The loop of onUpdate() and onResume().                                  *)

Step(vs, ss, f, k) == IF vs[k] \in Elements(ss) THEN Append(f, vs[k]) ELSE f

(* LiveUpTo is defined: the equation of its recursion has a solution.      *)
LEMMA LiveUpToDef ==
  ASSUME NEW vs, NEW ss, Len(vs) \in Nat
  PROVE  /\ LiveUpTo(vs, ss)[0] = <<>>
         /\ \A k \in 1..Len(vs) :
              LiveUpTo(vs, ss)[k] = Step(vs, ss, LiveUpTo(vs, ss)[k-1], k)
<1> DEFINE Body(f, n) == [k \in 0..n |-> IF k = 0 THEN <<>>
                          ELSE IF vs[k] \in Elements(ss) THEN Append(f[k-1], vs[k]) ELSE f[k-1]]
           Good == {n \in Nat : \E f : f = Body(f, n)}
<1>1. 0 \in Good
  <2>1. [k \in 0..0 |-> <<>>] = Body([k \in 0..0 |-> <<>>], 0)
    OBVIOUS
  <2> QED BY <2>1
<1>2. ASSUME NEW n \in Nat, n \in Good PROVE n + 1 \in Good
  <2>1. PICK f : f = Body(f, n)
    BY <1>2
  <2> DEFINE g == [k \in 0..(n+1) |->
                     IF k = n + 1 THEN Step(vs, ss, f[n], n + 1) ELSE f[k]]
  <2>2. ASSUME NEW k \in 0..(n+1)
        PROVE  g[k] = IF k = 0 THEN <<>>
                      ELSE IF vs[k] \in Elements(ss) THEN Append(g[k-1], vs[k]) ELSE g[k-1]
    <3>1. CASE k = n + 1
      <4>1. g[k] = Step(vs, ss, f[n], n + 1) /\ k # 0 /\ g[k-1] = f[n]
        BY <3>1
      <4> HIDE DEF g
      <4> QED BY <4>1, <3>1 DEF Step
    <3>2. CASE k # n + 1
      <4>1. k \in 0..n /\ g[k] = f[k] /\ (k # 0 => g[k-1] = f[k-1])
        BY <3>2
      <4> HIDE DEF g
      <4> QED BY <4>1, <2>1
    <3> QED BY <3>1, <3>2
  <2>3. g = Body(g, n + 1)
    BY <2>2
  <2>4. \E h : h = Body(h, n + 1)
    <3> HIDE DEF g, Body
    <3> QED BY <2>3
  <2>5. n + 1 \in Nat
    OBVIOUS
  <2> HIDE DEF Body
  <2> QED BY <2>4, <2>5
<1>3. Len(vs) \in Good
  <2> HIDE DEF Good
  <2> QED BY <1>1, <1>2, NatInduction1
<1>4. \E f : f = Body(f, Len(vs))
  BY <1>3
<1>5. LiveUpTo(vs, ss) = Body(LiveUpTo(vs, ss), Len(vs))
  BY <1>4 DEF LiveUpTo
<1> DEFINE K == LiveUpTo(vs, ss)
<1>6. K = Body(K, Len(vs))
  BY <1>5
<1> HIDE DEF K
<1>7. \A k \in 0..Len(vs) : K[k] = IF k = 0 THEN <<>>
                          ELSE IF vs[k] \in Elements(ss) THEN Append(K[k-1], vs[k]) ELSE K[k-1]
  BY <1>6
<1>8. K[0] = <<>> /\ \A k \in 1..Len(vs) : K[k] = Step(vs, ss, K[k-1], k)
  BY <1>7 DEF Step
<1> QED BY <1>8 DEF K

LEMMA AppendFacts ==
  ASSUME NEW S, NEW q \in Seq(S), NEW x \in S
  PROVE  /\ Append(q, x) \in Seq(S) /\ Len(Append(q, x)) = Len(q) + 1
         /\ \A i \in 1..Len(q) : Append(q, x)[i] = q[i]
         /\ Append(q, x)[Len(q) + 1] = x
         /\ Elements(Append(q, x)) = Elements(q) \cup {x}
<1> DEFINE a == Append(q, x)
<1>1. /\ a \in Seq(S) /\ Len(a) = Len(q) + 1 /\ Len(q) \in Nat
      /\ \A i \in 1..Len(q) : a[i] = q[i]
      /\ a[Len(q) + 1] = x
  BY AppendProperties
<1> HIDE DEF a
<1>2. Elements(a) = Elements(q) \cup {x}
  BY <1>1 DEF Elements
<1> QED BY <1>1, <1>2 DEF a

LEMMA AppendIncreasing ==
  ASSUME NEW q \in Seq(Int), NEW x \in Int, Increasing(q), \A y \in Elements(q) : y < x
  PROVE  Increasing(Append(q, x))
<1> DEFINE a == Append(q, x)
<1>1. /\ a \in Seq(Int) /\ Len(a) = Len(q) + 1 /\ Len(q) \in Nat
      /\ \A i \in 1..Len(q) : a[i] = q[i]
      /\ a[Len(q) + 1] = x
  BY AppendFacts
<1> HIDE DEF a
<1>2. ASSUME NEW i \in 1..Len(a), NEW j \in 1..Len(a), i < j PROVE a[i] < a[j]
  <2>1. i \in 1..Len(q) /\ a[i] = q[i] /\ q[i] \in Elements(q)
    BY <1>1, <1>2 DEF Elements
  <2>2. CASE j = Len(q) + 1
    BY <2>1, <2>2, <1>1
  <2>3. CASE j # Len(q) + 1
    <3>1. j \in 1..Len(q) /\ a[j] = q[j]
      BY <2>3, <1>1
    <3> QED BY <3>1, <2>1, <1>2 DEF Increasing
  <2> QED BY <2>2, <2>3
<1> QED BY <1>2 DEF Increasing, a

First(vs, k) == {vs[i] : i \in 1..k}

(* What is left of the first k views: those of sessions in the list.       *)
LEMMA LiveElements ==
  ASSUME NEW S, NEW vs \in Seq(S), NEW ss
  PROVE  \A k \in 0..Len(vs) :
           /\ LiveUpTo(vs, ss)[k] \in Seq(S)
           /\ Elements(LiveUpTo(vs, ss)[k]) = First(vs, k) \cap Elements(ss)
<1> DEFINE K == LiveUpTo(vs, ss)
           Good == {k \in 0..Len(vs) : K[k] \in Seq(S) /\ Elements(K[k]) = First(vs, k) \cap Elements(ss)}
<1>0. Len(vs) \in Nat
  OBVIOUS
<1>1. K[0] = <<>> /\ \A k \in 1..Len(vs) : K[k] = Step(vs, ss, K[k-1], k)
  BY <1>0, LiveUpToDef
<1> HIDE DEF K
<1>2. 0 \in Good
  <2>1. Elements(<<>>) = {} /\ First(vs, 0) = {} /\ <<>> \in Seq(S)
    BY DEF Elements, First
  <2>2. K[0] \in Seq(S) /\ Elements(K[0]) = First(vs, 0) \cap Elements(ss)
    BY <1>1, <2>1
  <2> QED BY <1>0, <2>2
<1>3. ASSUME NEW n \in 0..(Len(vs) - 1), n \in Good PROVE n + 1 \in Good
  <2>1. /\ K[n] \in Seq(S) /\ Elements(K[n]) = First(vs, n) \cap Elements(ss)
        /\ n + 1 \in 1..Len(vs) /\ n + 1 \in 0..Len(vs) /\ vs[n+1] \in S
    BY <1>0, <1>3
  <2>2. K[n+1] = Step(vs, ss, K[n], n + 1)
    BY <1>0, <1>1, <2>1
  <2>3. First(vs, n + 1) = First(vs, n) \cup {vs[n+1]}
    BY <1>0 DEF First
  <2>4. CASE vs[n+1] \in Elements(ss)
    <3>1. K[n+1] = Append(K[n], vs[n+1])
      BY <2>2, <2>4 DEF Step
    <3>2. K[n+1] \in Seq(S) /\ Elements(K[n+1]) = Elements(K[n]) \cup {vs[n+1]}
      BY <3>1, <2>1, AppendFacts
    <3> QED BY <3>2, <2>1, <2>3, <2>4
  <2>5. CASE vs[n+1] \notin Elements(ss)
    <3>1. K[n+1] = K[n]
      BY <2>2, <2>5 DEF Step
    <3> QED BY <3>1, <2>1, <2>3, <2>5
  <2> QED BY <2>4, <2>5
<1>4. 0..Len(vs) \subseteq Good
  <2> HIDE DEF Good
  <2> QED BY <1>0, <1>2, <1>3, UpTo
<1> QED BY <1>4 DEF K

(* The loop only adds to what it has kept.                                 *)
LEMMA LiveLength ==
  ASSUME NEW S, NEW vs \in Seq(S), NEW ss, NEW k \in 0..Len(vs)
  PROVE  Len(LiveUpTo(vs, ss)[k]) <= Len(LiveViews(vs, ss))
<1> DEFINE K == LiveUpTo(vs, ss)
           Good == {n \in 0..Len(vs) : \A j \in 0..n : Len(K[j]) <= Len(K[n])}
<1>0. Len(vs) \in Nat
  OBVIOUS
<1>1. \A n \in 1..Len(vs) : K[n] = Step(vs, ss, K[n-1], n)
  BY <1>0, LiveUpToDef
<1>2. \A n \in 0..Len(vs) : K[n] \in Seq(S) /\ Len(K[n]) \in Nat
  BY LiveElements
<1> HIDE DEF K
<1>3. 0 \in Good
  BY <1>0, <1>2
<1>4. ASSUME NEW n \in 0..(Len(vs) - 1), n \in Good PROVE n + 1 \in Good
  <2>1. n + 1 \in 1..Len(vs) /\ n + 1 \in 0..Len(vs) /\ n \in 0..Len(vs) /\ vs[n+1] \in S
    BY <1>0
  <2>2. K[n+1] = Step(vs, ss, K[n], n + 1)
    BY <1>0, <1>1, <2>1
  <2>3. Len(K[n+1]) >= Len(K[n])
    <3>1. Len(Append(K[n], vs[n+1])) = Len(K[n]) + 1
      BY <2>1, <1>2, AppendFacts
    <3> QED BY <3>1, <2>1, <2>2, <1>2 DEF Step
  <2>4. ASSUME NEW j \in 0..(n+1) PROVE Len(K[j]) <= Len(K[n+1])
    <3>1. CASE j = n + 1
      BY <3>1, <2>1, <1>2
    <3>2. CASE j # n + 1
      <4>1. j \in 0..n /\ Len(K[j]) <= Len(K[n])
        BY <3>2, <1>4
      <4> QED BY <4>1, <2>1, <2>3, <1>2, <1>0
    <3> QED BY <3>1, <3>2
  <2> QED BY <2>1, <2>4
<1>5. 0..Len(vs) \subseteq Good
  <2> HIDE DEF Good
  <2> QED BY <1>0, <1>3, <1>4, UpTo
<1>6. Len(K[k]) <= Len(K[Len(vs)])
  BY <1>0, <1>5
<1> QED BY <1>6 DEF K, LiveViews

(* The views of sessions in the list come in the order of the list.        *)
Ordered(vs, ss) ==
  \A i, j \in 1..Len(vs) :
    i < j /\ vs[i] \in Elements(ss) /\ vs[j] \in Elements(ss) => vs[i] < vs[j]

LEMMA LiveIncreasing ==
  ASSUME NEW vs \in Seq(Int), NEW ss, Ordered(vs, ss)
  PROVE  Increasing(LiveViews(vs, ss))
<1> DEFINE K == LiveUpTo(vs, ss)
           Good == {n \in 0..Len(vs) : Increasing(K[n])}
<1>0. Len(vs) \in Nat
  OBVIOUS
<1>1. K[0] = <<>> /\ \A n \in 1..Len(vs) : K[n] = Step(vs, ss, K[n-1], n)
  BY <1>0, LiveUpToDef
<1>2. \A n \in 0..Len(vs) : /\ K[n] \in Seq(Int)
                            /\ Elements(K[n]) = First(vs, n) \cap Elements(ss)
  BY LiveElements
<1> HIDE DEF K
<1>3. 0 \in Good
  BY <1>0, <1>1 DEF Increasing
<1>4. ASSUME NEW n \in 0..(Len(vs) - 1), n \in Good PROVE n + 1 \in Good
  <2>1. n + 1 \in 1..Len(vs) /\ n + 1 \in 0..Len(vs) /\ n \in 0..Len(vs) /\ vs[n+1] \in Int
    BY <1>0
  <2>2. K[n+1] = Step(vs, ss, K[n], n + 1) /\ Increasing(K[n])
    BY <1>0, <1>1, <1>4, <2>1
  <2>3. CASE vs[n+1] \in Elements(ss)
    <3>1. ASSUME NEW y \in Elements(K[n]) PROVE y < vs[n+1]
      <4>1. PICK i \in 1..n : y = vs[i] /\ vs[i] \in Elements(ss)
        <5>1. y \in First(vs, n) /\ y \in Elements(ss)
          BY <1>2, <2>1, <3>1
        <5> QED BY <5>1 DEF First
      <4>2. i \in 1..Len(vs) /\ i < n + 1
        BY <1>0, <2>1
      <4> QED BY <4>1, <4>2, <2>1, <2>3 DEF Ordered
    <3>2. Increasing(Append(K[n], vs[n+1]))
      BY <3>1, <1>2, <2>1, <2>2, AppendIncreasing
    <3>3. K[n+1] = Append(K[n], vs[n+1])
      BY <2>2, <2>3 DEF Step
    <3> QED BY <2>1, <3>2, <3>3
  <2>4. CASE vs[n+1] \notin Elements(ss)
    <3>1. K[n+1] = K[n]
      BY <2>2, <2>4 DEF Step
    <3> QED BY <2>1, <2>2, <3>1
  <2> QED BY <2>3, <2>4
<1>5. 0..Len(vs) \subseteq Good
  <2> HIDE DEF Good
  <2> QED BY <1>0, <1>3, <1>4, UpTo
<1>6. Increasing(K[Len(vs)])
  BY <1>0, <1>5
<1> QED BY <1>6 DEF K, LiveViews

LEMMA LiveFacts ==
  ASSUME NEW S, NEW vs \in Seq(S), NEW ss
  PROVE  /\ LiveViews(vs, ss) \in Seq(S)
         /\ Elements(LiveViews(vs, ss)) = Elements(vs) \cap Elements(ss)
<1>1. Len(vs) \in Nat /\ First(vs, Len(vs)) = Elements(vs)
  BY DEF First, Elements
<1>2. Len(vs) \in 0..Len(vs)
  BY <1>1
<1> QED BY <1>1, <1>2, LiveElements DEF LiveViews

LEMMA PurgedElements ==
  ASSUME NEW S, NEW vs \in Seq(S), NEW ss
  PROVE  /\ Purged(vs, ss) \in Seq(S)
         /\ Elements(Purged(vs, ss)) \subseteq Elements(vs)
         /\ Elements(vs) \cap Elements(ss) \subseteq Elements(Purged(vs, ss))
BY LiveFacts DEF Purged

(* The loop leaves views that are all of different sessions, in the order  *)
(* of the list, and no more of them than there are sessions.               *)
LEMMA PurgedFacts ==
  ASSUME NEW vs \in Seq(Int), NEW ss \in Seq(Int), NoDuplicates(vs), Ordered(vs, ss)
  PROVE  /\ NoDuplicates(Purged(vs, ss))
         /\ Ordered(Purged(vs, ss), ss)
         /\ Len(Purged(vs, ss)) <= Len(ss)
<1>1. CASE Len(ss) < Len(vs)
  <2> DEFINE live == LiveViews(vs, ss)
  <2>1. live \in Seq(Int) /\ Increasing(live) /\ Elements(live) \subseteq Elements(ss)
    BY LiveFacts, LiveIncreasing
  <2>2. NoDuplicates(live)
    BY <2>1, IncreasingNoDuplicates
  <2>3. Len(live) <= Len(ss)
    BY <2>1, <2>2, Counting
  <2>4. Ordered(live, ss)
    BY <2>1 DEF Ordered, Increasing
  <2>5. Purged(vs, ss) = live
    BY <1>1 DEF Purged
  <2> QED BY <2>2, <2>3, <2>4, <2>5
<1>2. CASE ~(Len(ss) < Len(vs))
  <2>1. Purged(vs, ss) = vs
    BY <1>2 DEF Purged
  <2>2. Len(vs) <= Len(ss)
    BY <1>2
  <2> QED BY <2>1, <2>2
<1> QED BY <1>1, <1>2
-----------------------------------------------------------------------------
(* The inductive invariant, in parts.                                      *)

(* Sessions are numbered as they are created, and stay in that order.      *)
ListOK(q, m) ==
  /\ q \in Seq(1..MaxSessions) /\ m \in 0..MaxSessions
  /\ Increasing(q)
  /\ \A i \in 1..Len(q) : i <= q[i] /\ q[i] <= m

SessionsOK == ListOK(sessions, made)

ShownOK(w, vs) ==
  /\ w \in Nat
  /\ vs = <<>> => w = 0
  /\ vs # <<>> => w < Len(vs)

ViewsOK ==
  /\ views \in Seq(1..MaxSessions) /\ Elements(views) \subseteq 1..made
  /\ ShownOK(mWhichChild, views)

(* How often the activity is registered follows from where it is.          *)
CallbacksOK ==
  /\ activity \in {"none", "paused", "resumed"} /\ connected \in BOOLEAN
  /\ activity = "none" => ~connected
  /\ ~connected => listening = 0 /\ views = <<>>
  /\ connected /\ activity = "resumed" => listening \in {1, 2}
  /\ connected /\ activity = "paused" => listening \in {0, 1}

Intents == {Main} \cup {OpenWindow(s) : s \in 1..MaxSessions}
                  \cup {SwitchWindow(k) : k \in 0..(MaxSessions - 1)}

IntentsOK ==
  /\ intents \in Seq(Intents) /\ Len(intents) <= MaxIntents
  /\ launch \in Intents
  /\ onResumeSelectWindow \in -1..(MaxSessions - 1)

FlagsOK ==
  /\ finishing \in BOOLEAN /\ mStopServiceOnFinish \in BOOLEAN
  /\ chooser \in BOOLEAN /\ crashed \in BOOLEAN
  /\ reason \in {"none", "empty", "asked", "early"}
  /\ odd \subseteq {"overtaken", "unseen", "astray"}

Seen == connected /\ ~finishing /\ sessions = <<>> => "unseen" \in odd

Stopping ==
  /\ stoppedAt \in 0..made
  /\ mStopServiceOnFinish /\ reason \notin {"asked", "early"} =>
        \A s \in Elements(sessions) : s > stoppedAt

Clean == odd \cap {"overtaken", "astray"} = {}

(* A session has a view, or an intent is on its way that will add one.     *)
Awaited(q, s) == \E k \in 1..Len(q) : q[k] = OpenWindow(s)
Covered == \A s \in Elements(sessions) : s \in Elements(views) \/ Awaited(intents, s)

(* The views and the list at any time: views may be of sessions that are   *)
(* gone, and those that are not are in the order of the list.              *)
Matching ==
  /\ NoDuplicates(views) /\ Ordered(views, sessions) /\ Covered
  /\ activity = "resumed" /\ ~finishing => Len(views) <= Len(sessions)

Loose == connected /\ Clean => Matching

IInv == /\ SessionsOK /\ ViewsOK /\ CallbacksOK /\ IntentsOK /\ FlagsOK
        /\ Seen /\ Stopping /\ Loose
-----------------------------------------------------------------------------
(* The list of sessions.                                                   *)

LEMMA ListRemove ==
  ASSUME NEW q, NEW m, ListOK(q, m), NEW k \in 1..Len(q)
  PROVE  /\ ListOK(RemoveAt(q, k), m)
         /\ Len(RemoveAt(q, k)) = Len(q) - 1
         /\ Elements(RemoveAt(q, k)) = Elements(q) \ {q[k]}
<1> DEFINE r == RemoveAt(q, k)
<1>1. q \in Seq(1..MaxSessions) /\ m \in 0..MaxSessions /\ MaxSessions \in Nat
  BY WindowsAssumption DEF ListOK
<1>2. /\ r \in Seq(1..MaxSessions) /\ Len(r) = Len(q) - 1 /\ Len(q) \in Nat
      /\ \A i \in 1..(Len(q) - 1) : r[i] = IF i < k THEN q[i] ELSE q[i + 1]
  BY <1>1, RemoveAtFacts
<1> HIDE DEF r
<1>3. ASSUME NEW i \in 1..Len(r)
      PROVE  \E p \in 1..Len(q) : r[i] = q[p] /\ ((p = i /\ i < k) \/ (p = i + 1 /\ k <= i))
  <2>1. i \in 1..(Len(q) - 1) /\ i \in 1..Len(q) /\ i + 1 \in 1..Len(q)
    BY <1>2
  <2>2. CASE i < k
    BY <2>1, <2>2, <1>2
  <2>3. CASE ~(i < k)
    <3>1. r[i] = q[i + 1] /\ k <= i
      BY <2>1, <2>3, <1>2
    <3> QED BY <2>1, <3>1
  <2> QED BY <2>2, <2>3
<1>4. \A i \in 1..Len(q) : q[i] \in Int /\ i <= q[i] /\ q[i] <= m
  BY <1>1 DEF ListOK
<1>5. Increasing(r)
  <2> SUFFICES ASSUME NEW i \in 1..Len(r), NEW j \in 1..Len(r), i < j PROVE r[i] < r[j]
    BY DEF Increasing
  <2>1. PICK p \in 1..Len(q) : r[i] = q[p] /\ ((p = i /\ i < k) \/ (p = i + 1 /\ k <= i))
    BY <1>3
  <2>2. PICK o \in 1..Len(q) : r[j] = q[o] /\ ((o = j /\ j < k) \/ (o = j + 1 /\ k <= j))
    BY <1>3
  <2>3. p < o
    BY <2>1, <2>2, <1>2
  <2> QED BY <2>1, <2>2, <2>3 DEF ListOK, Increasing
<1>6. \A i \in 1..Len(r) : i <= r[i] /\ r[i] <= m
  <2> SUFFICES ASSUME NEW i \in 1..Len(r) PROVE i <= r[i] /\ r[i] <= m
    OBVIOUS
  <2>1. PICK p \in 1..Len(q) : r[i] = q[p] /\ (p = i \/ p = i + 1)
    BY <1>3
  <2>2. q[p] \in Int /\ p <= q[p] /\ q[p] <= m
    BY <1>4
  <2>3. i <= p /\ i \in Int /\ p \in Int
    BY <2>1, <1>2
  <2> QED BY <2>1, <2>2, <2>3
<1>7. Elements(r) = Elements(q) \ {q[k]}
  <2>1. ASSUME NEW i \in 1..Len(r) PROVE r[i] \in Elements(q) \ {q[k]}
    <3>1. PICK p \in 1..Len(q) : r[i] = q[p] /\ ((p = i /\ i < k) \/ (p = i + 1 /\ k <= i))
      BY <1>3
    <3>2. q[p] # q[k]
      BY <3>1, <1>4, <1>2 DEF ListOK, Increasing
    <3> QED BY <3>1, <3>2 DEF Elements
  <2>2. ASSUME NEW p \in 1..Len(q), p # k PROVE q[p] \in Elements(r)
    <3>1. CASE p < k
      <4>1. p \in 1..Len(r) /\ r[p] = q[p]
        BY <3>1, <1>2
      <4> QED BY <4>1 DEF Elements
    <3>2. CASE p > k
      <4>1. p - 1 \in 1..Len(r) /\ r[p - 1] = q[p]
        BY <3>2, <1>2
      <4> QED BY <4>1 DEF Elements
    <3> QED BY <3>1, <3>2, <2>2, <1>2
  <2>3. Elements(r) \subseteq Elements(q) \ {q[k]}
    BY <2>1 DEF Elements
  <2>4. Elements(q) \ {q[k]} \subseteq Elements(r)
    BY <2>2 DEF Elements
  <2> QED BY <2>3, <2>4
<1>8. ListOK(r, m)
  BY <1>1, <1>2, <1>5, <1>6 DEF ListOK
<1> QED BY <1>2, <1>7, <1>8 DEF r

LEMMA ListLength ==
  ASSUME NEW q, NEW m, ListOK(q, m)
  PROVE  Len(q) \in 0..m
<1>1. q \in Seq(1..MaxSessions) /\ m \in Nat /\ Len(q) \in Nat
  BY WindowsAssumption DEF ListOK
<1>2. CASE Len(q) = 0
  BY <1>1, <1>2
<1>3. CASE Len(q) # 0
  <2>1. Len(q) \in 1..Len(q)
    BY <1>1, <1>3
  <2>2. q[Len(q)] \in Int /\ Len(q) <= q[Len(q)] /\ q[Len(q)] <= m
    BY <2>1, <1>1, WindowsAssumption DEF ListOK
  <2> QED BY <1>1, <2>2
<1> QED BY <1>2, <1>3

LEMMA ListAppend ==
  ASSUME NEW q, NEW m, ListOK(q, m), m < MaxSessions
  PROVE  /\ ListOK(Append(q, m + 1), m + 1)
         /\ Len(Append(q, m + 1)) = Len(q) + 1
         /\ Elements(Append(q, m + 1)) = Elements(q) \cup {m + 1}
         /\ \A s \in Elements(q) : s < m + 1
<1> DEFINE r == Append(q, m + 1)
<1>1. q \in Seq(1..MaxSessions) /\ m \in 0..MaxSessions /\ MaxSessions \in Nat /\ m + 1 \in 1..MaxSessions
  BY WindowsAssumption DEF ListOK
<1>2. /\ r \in Seq(1..MaxSessions) /\ Len(r) = Len(q) + 1
      /\ \A i \in 1..Len(q) : r[i] = q[i]
      /\ r[Len(q) + 1] = m + 1
      /\ Elements(r) = Elements(q) \cup {m + 1}
  BY <1>1, AppendFacts
<1>3. \A i \in 1..Len(q) : q[i] \in Int /\ i <= q[i] /\ q[i] <= m
  BY <1>1 DEF ListOK
<1>4. \A s \in Elements(q) : s < m + 1
  BY <1>1, <1>3 DEF Elements
<1>5. q \in Seq(Int) /\ m + 1 \in Int
  BY <1>1
<1>6. Increasing(r)
  BY <1>4, <1>5, AppendIncreasing DEF ListOK
<1>7. Len(q) \in 0..m
  BY ListLength
<1> HIDE DEF r
<1>8. \A i \in 1..Len(r) : i <= r[i] /\ r[i] <= m + 1
  <2> SUFFICES ASSUME NEW i \in 1..Len(r) PROVE i <= r[i] /\ r[i] <= m + 1
    OBVIOUS
  <2>1. CASE i = Len(q) + 1
    BY <2>1, <1>1, <1>2, <1>7
  <2>2. CASE i # Len(q) + 1
    <3>1. i \in 1..Len(q) /\ r[i] = q[i]
      BY <2>2, <1>2, <1>7
    <3> QED BY <3>1, <1>1, <1>3
  <2> QED BY <2>1, <2>2
<1>9. ListOK(r, m + 1)
  BY <1>1, <1>2, <1>6, <1>8 DEF ListOK
<1> QED BY <1>2, <1>4, <1>9 DEF r

LEMMA ListEmpty ==
  ASSUME NEW m \in 0..MaxSessions
  PROVE  ListOK(<<>>, m)
BY DEF ListOK, Increasing

LEMMA SessionsInv ==
  ASSUME SessionsOK, ViewsOK, Next
  PROVE  SessionsOK'
<1> USE DEF SessionsOK
<1>0. made \in 0..MaxSessions /\ sessions \in Seq(1..MaxSessions) /\ ListOK(<<>>, made)
  BY ListEmpty DEF ListOK
<1>1. CASE UNCHANGED service
  BY <1>1 DEF service
<1>2. CASE onServiceConnected
  <2>1. CASE sessions = <<>>
    <3>1. made < MaxSessions /\ sessions' = sessions \o <<made + 1>> /\ made' = made + 1
      BY <1>2, <2>1, <1>0, WindowsAssumption DEF onServiceConnected
    <3>2. sessions' = Append(sessions, made + 1)
      BY <3>1, <2>1
    <3> QED BY <3>1, <3>2, ListAppend
  <2>2. CASE sessions # <<>>
    <3>1. sessions' = sessions /\ made' = made
      BY <1>2, <2>2, <1>0, WindowsAssumption DEF onServiceConnected
    <3> QED BY <3>1
  <2> QED BY <2>1, <2>2
<1>3. CASE onDestroy
  BY <1>3, <1>0 DEF onDestroy
<1>4. CASE CreateWindow \/ ResultCreate
  <2>1. made < MaxSessions /\ made' = made + 1 /\ sessions' = Append(sessions, made')
    BY <1>4 DEF CreateWindow, ResultCreate, doCreateNewWindow
  <2> QED BY <2>1, ListAppend
<1>5. CASE openNewWindow
  <2>1. made < MaxSessions /\ made' = made + 1 /\ sessions' = Append(sessions, made')
    BY <1>5 DEF openNewWindow, onUpdate
  <2> QED BY <2>1, ListAppend
<1>6. CASE SessionFinishes \/ ChooserCloses
  <2>1. PICK k \in 1..Len(sessions) : sessions' = RemoveAt(sessions, k) /\ made' = made
    BY <1>6 DEF SessionFinishes, ChooserCloses, onUpdate
  <2> QED BY <2>1, ListRemove
<1>7. CASE doCloseWindow
  <2>1. /\ sessions' = RemoveAt(sessions, mWhichChild + 1) /\ made' = made
        /\ mWhichChild < Len(sessions) /\ mWhichChild \in Nat
    BY <1>7 DEF doCloseWindow, ViewsOK, ShownOK
  <2>2. mWhichChild + 1 \in 1..Len(sessions)
    BY <2>1, <1>0
  <2> QED BY <2>1, <2>2, ListRemove
<1>8. CASE onCreate \/ onResume \/ onPause \/ onNewIntent \/ SwitchTo \/ doCloseWindowThrows
           \/ OpenChooser \/ ResultSelect \/ ResultCreateThrows \/ ResultCancelled
           \/ appendToWindow \/ BackKey
  BY <1>1, <1>8 DEF BackKey, onCreate, onResume, onPause, onNewIntent, SwitchTo, doCloseWindowThrows,
     OpenChooser, ResultSelect, ResultCreateThrows, ResultCancelled, appendToWindow, Crash
<1> QED BY <1>2, <1>3, <1>4, <1>5, <1>6, <1>7, <1>8 DEF Next, System, User, Chooser, Others
-----------------------------------------------------------------------------
(* The flipper.                                                            *)

LEMMA ShownFacts ==
  ASSUME NEW S, NEW vs \in Seq(S), NEW k \in Nat
  PROVE  ShownOK(ShownAfter(k, Len(vs)), vs) /\ ShownOK(ShownLeft(k, Len(vs)), vs)
<1>1. Len(vs) \in Nat /\ (vs = <<>> <=> Len(vs) = 0)
  BY EmptySeq
<1> QED BY <1>1 DEF ShownOK, ShownAfter, ShownLeft, MinOf

(* The view doCloseWindow() removes is there: onUpdate() has removed it    *)
(* already or has left it at its place.                                    *)
LEMMA CloseViewsFacts ==
  ASSUME ViewsOK, views # <<>>, NEW ss
  PROVE  /\ CloseViews(ss) \in Seq(1..MaxSessions)
         /\ Elements(CloseViews(ss)) \subseteq Elements(views)
<1> DEFINE kept == IF listening > 0 /\ ss # <<>> THEN Purged(views, ss) ELSE views
           gone == kept # views /\ views[mWhichChild + 1] \notin Elements(ss)
           place == IF kept # views THEN PlaceAfter(mWhichChild, ss) + 1 ELSE mWhichChild + 1
<1>1. CloseViews(ss) = IF gone THEN kept ELSE RemoveAt(kept, place)
  BY DEF CloseViews
<1>2. /\ views \in Seq(1..MaxSessions) /\ mWhichChild \in Nat /\ Len(views) \in Nat
      /\ mWhichChild < Len(views)
  BY DEF ViewsOK, ShownOK
<1>3. kept \in Seq(1..MaxSessions) /\ Elements(kept) \subseteq Elements(views)
  BY <1>2, PurgedElements
<1>4. ASSUME ~gone PROVE place \in 1..Len(kept)
  <2>1. CASE kept = views
    BY <2>1, <1>2
  <2>2. CASE kept # views
    <3> DEFINE K == LiveUpTo(views, ss)
               w == mWhichChild
    <3>1. kept = LiveViews(views, ss) /\ views[w + 1] \in Elements(ss)
      BY <2>2, <1>4 DEF Purged
    <3>2. w \in 0..Len(views) /\ w + 1 \in 1..Len(views) /\ w + 1 \in 0..Len(views) /\ w + 1 - 1 = w
      BY <1>2
    <3>3. K[w + 1] = Append(K[w], views[w + 1])
      <4>1. K[w + 1] = Step(views, ss, K[w + 1 - 1], w + 1)
        BY <3>2, <1>2, LiveUpToDef
      <4> HIDE DEF K
      <4> QED BY <3>1, <3>2, <4>1 DEF Step
    <3>4. K[w] \in Seq(1..MaxSessions) /\ K[w + 1] \in Seq(1..MaxSessions)
      BY <3>2, <1>2, LiveElements
    <3>5. views[w + 1] \in 1..MaxSessions
      BY <3>2, <1>2, ElementOfSeq
    <3>6. Len(K[w + 1]) = Len(K[w]) + 1
      BY <3>3, <3>4, <3>5, AppendFacts
    <3>7. Len(K[w + 1]) <= Len(kept)
      BY <3>1, <3>2, <1>2, LiveLength
    <3>8. place = Len(K[w]) + 1
      BY <2>2 DEF PlaceAfter
    <3> HIDE DEF K, kept, place
    <3> QED BY <3>4, <3>6, <3>7, <3>8, <1>3
  <2> QED BY <2>1, <2>2
<1> HIDE DEF kept, gone, place
<1>5. ASSUME ~gone
      PROVE  /\ RemoveAt(kept, place) \in Seq(1..MaxSessions)
             /\ Elements(RemoveAt(kept, place)) \subseteq Elements(kept)
  BY <1>3, <1>4, <1>5, RemoveAtFacts, RemoveAtElements
<1> QED BY <1>1, <1>3, <1>5

LEMMA ViewsUpdate ==
  ASSUME ViewsOK, NEW ss, onUpdate(ss), made \in Nat, made' \in Nat, made <= made'
  PROVE  ViewsOK'
<1>1. views \in Seq(1..MaxSessions) /\ Elements(views) \subseteq 1..made /\ mWhichChild \in Nat
  BY DEF ViewsOK, ShownOK
<1>2. views' \in Seq(1..MaxSessions) /\ Elements(views') \subseteq Elements(views)
  BY <1>1, PurgedElements DEF onUpdate
<1>3. mWhichChild' = ShownLeft(mWhichChild, Len(views'))
  BY DEF onUpdate
<1>4. ShownOK(mWhichChild', views')
  BY <1>1, <1>2, <1>3, ShownFacts
<1>5. 1..made \subseteq 1..made'
  OBVIOUS
<1>6. Elements(views)' = Elements(views')
  BY DEF Elements
<1> QED BY <1>1, <1>2, <1>4, <1>5, <1>6 DEF ViewsOK

LEMMA ViewsCreate ==
  ASSUME ViewsOK, SessionsOK, doCreateNewWindow
  PROVE  ViewsOK'
<1> DEFINE kept == IF listening > 0 THEN Purged(views, sessions') ELSE views
<1>1. /\ views \in Seq(1..MaxSessions) /\ Elements(views) \subseteq 1..made /\ mWhichChild \in Nat
      /\ made \in Nat /\ made' = made + 1 /\ made' \in 1..MaxSessions
  BY WindowsAssumption DEF ViewsOK, ShownOK, SessionsOK, ListOK, doCreateNewWindow
<1>2. kept \in Seq(1..MaxSessions) /\ Elements(kept) \subseteq Elements(views)
  BY <1>1, PurgedElements
<1>3. views' = Append(kept, made') /\ mWhichChild' = Len(views') - 1
  BY DEF doCreateNewWindow
<1> HIDE DEF kept
<1>4. /\ views' \in Seq(1..MaxSessions) /\ Len(views') = Len(kept) + 1
      /\ Elements(views') = Elements(kept) \cup {made'}
  <2>1. PICK q : q = kept
    OBVIOUS
  <2>2. PICK m : m = made'
    OBVIOUS
  <2>3. q \in Seq(1..MaxSessions) /\ m \in 1..MaxSessions /\ views' = Append(q, m)
    BY <1>1, <1>2, <1>3, <2>1, <2>2
  <2>4. /\ Append(q, m) \in Seq(1..MaxSessions)
        /\ Len(Append(q, m)) = Len(q) + 1
        /\ Elements(Append(q, m)) = Elements(q) \cup {m}
    <3>1. m \in Nat /\ MaxSessions \in Nat
      BY <2>3, WindowsAssumption
    <3> QED BY <2>3, <3>1, AppendFacts
  <2> QED BY <2>1, <2>2, <2>3, <2>4
<1>5. Elements(views') \subseteq 1..made'
  BY <1>1, <1>2, <1>4
<1>6. views' # <<>> /\ mWhichChild' \in Nat /\ mWhichChild' < Len(views')
  BY <1>2, <1>3, <1>4
<1>7. Elements(views)' = Elements(views')
  BY DEF Elements
<1> QED BY <1>4, <1>5, <1>6, <1>7 DEF ViewsOK, ShownOK

LEMMA LastSession ==
  ASSUME SessionsOK, sessions # <<>>
  PROVE  /\ Last(sessions) \in Elements(sessions) /\ Last(sessions) \in 1..made
         /\ \A s \in Elements(sessions) : s <= Last(sessions)
<1>1. /\ sessions \in Seq(1..MaxSessions) /\ Len(sessions) \in Nat /\ Len(sessions) # 0
      /\ made \in Nat /\ MaxSessions \in Nat
  BY EmptySeq, WindowsAssumption DEF SessionsOK, ListOK
<1>2. Len(sessions) \in 1..Len(sessions)
  BY <1>1
<1>3. Last(sessions) = sessions[Len(sessions)]
  BY DEF Last
<1>4. Last(sessions) \in 1..made
  BY <1>1, <1>2, <1>3 DEF SessionsOK, ListOK
<1>5. \A i \in 1..Len(sessions) : sessions[i] <= sessions[Len(sessions)]
  <2> SUFFICES ASSUME NEW i \in 1..Len(sessions) PROVE sessions[i] <= sessions[Len(sessions)]
    OBVIOUS
  <2>1. CASE i = Len(sessions)
    BY <2>1, <1>1, <1>2, <1>3, <1>4
  <2>2. CASE i # Len(sessions)
    BY <2>2, <1>1, <1>2 DEF SessionsOK, ListOK, Increasing
  <2> QED BY <2>1, <2>2
<1> QED BY <1>2, <1>3, <1>4, <1>5 DEF Elements

(* onNewIntent() adds a view, or crashes, or only remembers the window.    *)
LEMMA NewIntentCases ==
  ASSUME onNewIntent
  PROVE  \/ UNCHANGED views
         \/ /\ connected /\ sessions # <<>> /\ Head(intents).action = "open"
            /\ views' = Append(views, Last(sessions))
            /\ odd' = odd \cup (IF \/ Last(sessions) # Head(intents).session
                                   \/ Head(intents).session \in Elements(views)
                                THEN {"overtaken"} ELSE {})
BY DEF onNewIntent, NewWindow, flipper, Crash, term

LEMMA IntentFields ==
  ASSUME NEW r \in Intents
  PROVE  /\ r.action = "switch" => r.target \in Nat /\ r.target \in -1..(MaxSessions - 1)
         /\ r.action = "open" => r.session \in 1..MaxSessions /\ r = OpenWindow(r.session)
<1>1. CASE r = Main
  BY <1>1 DEF Main
<1>2. CASE \E s \in 1..MaxSessions : r = OpenWindow(s)
  BY <1>2 DEF OpenWindow
<1>3. CASE \E k \in 0..(MaxSessions - 1) : r = SwitchWindow(k)
  <2>1. PICK k \in 0..(MaxSessions - 1) : r = SwitchWindow(k)
    BY <1>3
  <2>2. r.action = "switch" /\ r.target = k
    BY <2>1 DEF SwitchWindow
  <2>3. k \in Nat /\ k \in -1..(MaxSessions - 1)
    BY WindowsAssumption
  <2> QED BY <2>2, <2>3
<1> QED BY <1>1, <1>2, <1>3 DEF Intents

LEMMA ListElements ==
  ASSUME NEW q, NEW m, ListOK(q, m)
  PROVE  /\ Elements(q) \subseteq 1..m /\ q \in Seq(Int) /\ NoDuplicates(q) /\ Increasing(q)
<1>1. q \in Seq(1..MaxSessions) /\ m \in Nat /\ q \in Seq(Int) /\ Increasing(q)
  BY WindowsAssumption DEF ListOK
<1>2. \A i \in 1..Len(q) : q[i] \in 1..m
  BY <1>1, WindowsAssumption DEF ListOK
<1>3. Elements(q) \subseteq 1..m
  BY <1>2 DEF Elements
<1> QED BY <1>1, <1>3, IncreasingNoDuplicates

(* populateViewFlipper() gives every session its view.                     *)
LEMMA Populated ==
  ASSUME SessionsOK, ViewsOK, CallbacksOK, IntentsOK, onServiceConnected
  PROVE  /\ views' = sessions' /\ sessions' # <<>> /\ ListOK(sessions', made')
         /\ ShownOK(mWhichChild', views')
<1>1. views = <<>> /\ mWhichChild = 0 /\ sessions \in Seq(1..MaxSessions) /\ made \in 0..MaxSessions
  BY DEF onServiceConnected, CallbacksOK, ViewsOK, ShownOK, SessionsOK, ListOK
<1>2. views' = sessions' /\ sessions' # <<>> /\ ListOK(sessions', made')
  <2>1. CASE sessions = <<>>
    <3>1. made < MaxSessions /\ sessions' = sessions \o <<made + 1>> /\ made' = made + 1
      BY <2>1, <1>1, WindowsAssumption DEF onServiceConnected
    <3>2. sessions' = Append(sessions, made + 1) /\ sessions' # <<>>
      BY <3>1, <2>1
    <3>3. views' = <<>> \o sessions' /\ sessions' = <<made + 1>>
      BY <1>1, <2>1, <3>1 DEF onServiceConnected
    <3>4. <<made + 1>> \in Seq(Int)
      BY <1>1, WindowsAssumption
    <3>5. views' = sessions'
      BY <3>3, <3>4, ConcatEmptySeq
    <3>6. ListOK(sessions', made')
      BY <3>1, <3>2, ListAppend DEF SessionsOK
    <3> QED BY <3>2, <3>5, <3>6
  <2>2. CASE sessions # <<>>
    <3>1. sessions' = sessions /\ made' = made /\ views' = <<>> \o sessions
      BY <1>1, <2>2, WindowsAssumption DEF onServiceConnected
    <3>2. views' = sessions
      BY <1>1, <3>1, ConcatEmptySeq
    <3> QED BY <2>2, <3>1, <3>2 DEF SessionsOK
  <2> QED BY <2>1, <2>2
<1>3. views' \in Seq(1..MaxSessions) /\ Len(views') \in Nat /\ Len(views') # 0
  BY <1>2, EmptySeq DEF ListOK
<1>4. mWhichChild' = CASE launch.action = "open" -> Len(views') - 1
                          [] launch.action = "switch" -> ShownAfter(launch.target, Len(views'))
                          [] OTHER -> mWhichChild
  BY <1>2 DEF onServiceConnected
<1>5. ShownOK(mWhichChild', views')
  <2>1. CASE launch.action = "open"
    BY <1>3, <1>4, <2>1 DEF ShownOK
  <2>2. CASE launch.action = "switch"
    <3>1. mWhichChild' = ShownAfter(launch.target, Len(views')) /\ launch.target \in Nat
      BY <1>4, <2>2, IntentFields DEF IntentsOK
    <3> QED BY <3>1, <1>3, ShownFacts
  <2>3. CASE launch.action # "open" /\ launch.action # "switch"
    <3>1. mWhichChild' = 0
      BY <1>1, <1>4, <2>3
    <3> QED BY <3>1, <1>3 DEF ShownOK
  <2> QED BY <2>1, <2>2, <2>3
<1> QED BY <1>2, <1>5

LEMMA ViewsInv ==
  ASSUME SessionsOK, ViewsOK, CallbacksOK, IntentsOK, Next
  PROVE  ViewsOK'
<1>0. /\ views \in Seq(1..MaxSessions) /\ Elements(views) \subseteq 1..made
      /\ ShownOK(mWhichChild, views) /\ mWhichChild \in Nat
      /\ made \in Nat /\ MaxSessions \in Nat /\ made \in 0..MaxSessions
  BY WindowsAssumption DEF ViewsOK, ShownOK, SessionsOK, ListOK
<1>1. CASE UNCHANGED <<views, mWhichChild, made>>
  BY <1>1 DEF ViewsOK, ShownOK, Elements
<1>2. ASSUME views' = <<>>, mWhichChild' = 0 PROVE ViewsOK'
  BY <1>2 DEF ViewsOK, ShownOK, Elements
<1>a. Elements(views)' = Elements(views')
  BY DEF Elements
<1>3. CASE onServiceConnected
  <2>1. /\ views' = sessions' /\ ListOK(sessions', made')
        /\ ShownOK(mWhichChild', views')
    BY <1>3, Populated
  <2>2. views' \in Seq(1..MaxSessions) /\ Elements(views') \subseteq 1..made'
    BY <2>1, ListElements DEF ListOK
  <2> QED BY <2>1, <2>2, <1>a DEF ViewsOK
<1>4. CASE onCreate \/ onDestroy
  BY <1>2, <1>4 DEF onCreate, onDestroy
<1>5. CASE onResume
  <2>1. views' = ResumeViews /\ made' = made
    BY <1>5 DEF onResume, service
  <2>2. views' \in Seq(1..MaxSessions) /\ Elements(views') \subseteq Elements(views)
    BY <2>1, <1>0, PurgedElements DEF ResumeViews
  <2>3. ShownOK(mWhichChild', views')
    <3>1. CASE onResumeSelectWindow >= 0
      <4>1. onResumeSelectWindow \in Nat
        BY <3>1, <1>0 DEF IntentsOK
      <4>2. mWhichChild' = ShownAfter(onResumeSelectWindow, Len(views'))
        BY <3>1, <1>5 DEF onResume
      <4> QED BY <4>1, <4>2, <2>2, ShownFacts
    <3>2. CASE ~(onResumeSelectWindow >= 0)
      <4>2. mWhichChild' = ShownLeft(mWhichChild, Len(views'))
        BY <3>2, <1>5 DEF onResume
      <4> QED BY <4>2, <2>2, <1>0, ShownFacts
    <3> QED BY <3>1, <3>2
  <2> QED BY <2>1, <2>2, <2>3, <1>0, <1>a DEF ViewsOK
<1>6. CASE onNewIntent
  <2>1. mWhichChild' = mWhichChild /\ made' = made
    BY <1>6 DEF onNewIntent, NewWindow, flipper, Crash, term, service
  <2>2. CASE UNCHANGED views
    BY <2>1, <2>2, <1>1
  <2>3. CASE sessions # <<>> /\ views' = Append(views, Last(sessions))
    <3>1. Last(sessions) \in 1..made /\ Last(sessions) \in 1..MaxSessions
      BY <2>3, <1>0, LastSession
    <3>2. /\ views' \in Seq(1..MaxSessions) /\ Len(views') = Len(views) + 1
          /\ Elements(views') = Elements(views) \cup {Last(sessions)}
      BY <2>3, <3>1, <1>0, AppendFacts
    <3>3. views' # <<>> /\ mWhichChild < Len(views')
      BY <3>2, <1>0 DEF ShownOK
    <3> QED BY <2>1, <3>1, <3>2, <3>3, <1>0, <1>a DEF ViewsOK, ShownOK
  <2> QED BY <2>2, <2>3, <1>6, NewIntentCases
<1>7. CASE CreateWindow \/ ResultCreate
  BY <1>7, ViewsCreate DEF CreateWindow, ResultCreate
<1>8. CASE SwitchTo
  BY <1>8, <1>0, <1>a DEF SwitchTo, ViewsOK, ShownOK, service
<1>9. CASE doCloseWindow
  <2> DEFINE ss == RemoveAt(sessions, mWhichChild + 1)
  <2>1. views' = CloseViews(ss) /\ views # <<>> /\ made' = made
    BY <1>9 DEF doCloseWindow
  <2>2. views' \in Seq(1..MaxSessions) /\ Elements(views') \subseteq Elements(views)
    <3> HIDE DEF ss
    <3> QED BY <2>1, CloseViewsFacts
  <2>3. ShownLeft(mWhichChild, Len(views')) \in Nat /\ ShownLeft(mWhichChild, Len(views')) + 1 \in Nat
    <3>1. ShownOK(ShownLeft(mWhichChild, Len(views')), views')
      BY <2>2, <1>0, ShownFacts
    <3> QED BY <3>1 DEF ShownOK
  <2>4. \/ mWhichChild' = ShownLeft(mWhichChild, Len(views'))
        \/ mWhichChild' = ShownAfter(ShownLeft(mWhichChild, Len(views')) + 1, Len(views'))
    BY <1>9 DEF doCloseWindow
  <2>5. ShownOK(mWhichChild', views')
    BY <2>2, <2>3, <2>4, <1>0, ShownFacts
  <2> QED BY <2>1, <2>2, <2>5, <1>0, <1>a DEF ViewsOK
<1>10. CASE SessionFinishes \/ ChooserCloses
  <2>1. PICK k \in 1..Len(sessions) : onUpdate(RemoveAt(sessions, k)) /\ made' = made
    BY <1>10 DEF SessionFinishes, ChooserCloses
  <2> QED BY <2>1, <1>0, ViewsUpdate
<1>11. CASE openNewWindow
  <2>1. onUpdate(Append(sessions, made')) /\ made' = made + 1
    BY <1>11 DEF openNewWindow
  <2> QED BY <2>1, <1>0, ViewsUpdate
<1>12. CASE onPause \/ doCloseWindowThrows \/ OpenChooser \/ ResultSelect \/ ResultCreateThrows
           \/ ResultCancelled \/ appendToWindow \/ BackKey
  BY <1>1, <1>12 DEF BackKey, onPause, doCloseWindowThrows, OpenChooser, ResultSelect, ResultCreateThrows,
     ResultCancelled, appendToWindow, Crash, term, flipper, service
<1> QED BY <1>3, <1>4, <1>5, <1>6, <1>7, <1>8, <1>9, <1>10, <1>11, <1>12
        DEF Next, System, User, Chooser, Others
-----------------------------------------------------------------------------
(* The callbacks, the intents and the flags.                               *)

LEMMA CallbacksInv ==
  ASSUME CallbacksOK, Next
  PROVE  CallbacksOK'
<1>1. CASE UNCHANGED <<activity, connected, listening>> /\ (connected \/ UNCHANGED views)
  BY <1>1 DEF CallbacksOK
<1>2. CASE onCreate \/ onDestroy
  BY <1>2 DEF onCreate, onDestroy, CallbacksOK
<1>3. CASE onServiceConnected
  <2>1. /\ activity' = activity /\ activity # "none" /\ connected' = TRUE /\ listening = 0
        /\ listening' = listening + 1
    BY <1>3 DEF onServiceConnected, CallbacksOK
  <2>2. listening' = 1
    BY <2>1
  <2> QED BY <2>1, <2>2 DEF CallbacksOK
<1>4. CASE onResume
  <2>1. CASE connected
    <3>1. listening \in {0, 1} /\ listening' = listening + 1 /\ activity' = "resumed" /\ connected' = connected
      BY <1>4, <2>1 DEF onResume, CallbacksOK
    <3>2. listening' \in {1, 2}
      BY <3>1
    <3> QED BY <2>1, <3>1, <3>2 DEF CallbacksOK
  <2>2. CASE ~connected
    BY <1>4, <2>2 DEF onResume, ResumeViews, CallbacksOK
  <2> QED BY <2>1, <2>2
<1>5. CASE onPause
  <2>1. CASE connected
    <3>1. listening \in {1, 2} /\ listening' = PausedListening /\ activity' = "paused" /\ connected' = connected
      BY <1>5, <2>1 DEF onPause, CallbacksOK
    <3>2. listening' \in {0, 1}
      BY <3>1 DEF PausedListening
    <3> QED BY <2>1, <3>1, <3>2 DEF CallbacksOK
  <2>2. CASE ~connected
    <3>1. listening = 0 /\ listening' = PausedListening /\ activity' = "paused"
          /\ connected' = connected /\ views' = views /\ views = <<>>
      BY <1>5, <2>2 DEF onPause, CallbacksOK, flipper
    <3>2. listening' = 0
      BY <3>1 DEF PausedListening
    <3> QED BY <2>2, <3>1, <3>2 DEF CallbacksOK
  <2> QED BY <2>1, <2>2
<1>6. CASE onNewIntent
  <2>1. UNCHANGED <<activity, connected, listening>> /\ (connected \/ UNCHANGED views)
    BY <1>6 DEF onNewIntent, NewWindow, flipper, Crash, term
  <2> QED BY <2>1, <1>1
<1>7. ASSUME NEW ss, onUpdate(ss), ~connected PROVE UNCHANGED views
  <2>1. ~(listening > 0)
    BY <1>7 DEF CallbacksOK
  <2> QED BY <1>7, <2>1 DEF onUpdate
<1>8. CASE SessionFinishes
  BY <1>1, <1>7, <1>8 DEF SessionFinishes
<1>9. CASE ChooserCloses
  BY <1>1, <1>7, <1>9 DEF ChooserCloses
<1>10. CASE openNewWindow
  BY <1>1, <1>7, <1>10 DEF openNewWindow
<1>11. CASE CreateWindow \/ SwitchTo \/ doCloseWindow \/ ResultCreate
  BY <1>1, <1>11 DEF CreateWindow, SwitchTo, doCloseWindow, ResultCreate
<1>12. CASE doCloseWindowThrows \/ OpenChooser \/ ResultSelect \/ ResultCreateThrows
           \/ ResultCancelled \/ appendToWindow \/ BackKey
  BY <1>1, <1>12 DEF BackKey, doCloseWindowThrows, OpenChooser, ResultSelect, ResultCreateThrows,
     ResultCancelled, appendToWindow, Crash, term, flipper
<1> QED BY <1>2, <1>3, <1>4, <1>5, <1>6, <1>8, <1>9, <1>10, <1>11, <1>12
        DEF Next, System, User, Chooser, Others

LEMMA IntentsInv ==
  ASSUME SessionsOK, IntentsOK, Next
  PROVE  IntentsOK'
<1>0. /\ intents \in Seq(Intents) /\ Len(intents) \in Nat /\ Len(intents) <= MaxIntents
      /\ launch \in Intents /\ onResumeSelectWindow \in -1..(MaxSessions - 1)
      /\ MaxSessions \in Nat /\ MaxIntents \in Nat /\ -1 \in -1..(MaxSessions - 1)
  BY WindowsAssumption DEF IntentsOK
<1>1. CASE UNCHANGED <<intents, launch, onResumeSelectWindow>>
  BY <1>1 DEF IntentsOK
<1>2. ASSUME intents # <<>>
      PROVE  /\ Head(intents) \in Intents /\ Tail(intents) \in Seq(Intents)
             /\ Len(Tail(intents)) <= MaxIntents
  <2>1. /\ Head(intents) \in Intents /\ Tail(intents) \in Seq(Intents)
        /\ Len(Tail(intents)) = Len(intents) - 1
    BY <1>0, <1>2, HeadTailProperties
  <2> QED BY <2>1, <1>0
<1>3. ASSUME NEW r \in Intents, Len(intents) < MaxIntents
      PROVE  Append(intents, r) \in Seq(Intents) /\ Len(Append(intents, r)) <= MaxIntents
  <2>1. Append(intents, r) \in Seq(Intents) /\ Len(Append(intents, r)) = Len(intents) + 1
    BY <1>0, AppendProperties
  <2> QED BY <2>1, <1>0, <1>3
<1>4. Len(sessions) \in 0..made /\ made \in 0..MaxSessions
  BY ListLength DEF SessionsOK, ListOK
<1>5. \A k \in 1..Len(sessions) : k - 1 \in -1..(MaxSessions - 1) /\ k - 1 \in 0..(MaxSessions - 1)
  BY <1>0, <1>4
<1>6. CASE onCreate
  BY <1>0, <1>2, <1>6 DEF onCreate, Intents, IntentsOK
<1>7. CASE onServiceConnected
  BY <1>1, <1>7 DEF onServiceConnected
<1>8. CASE onResume
  BY <1>0, <1>8 DEF onResume, IntentsOK
<1>9. CASE onPause \/ onDestroy
  BY <1>1, <1>9 DEF onPause, onDestroy
<1>10. CASE onNewIntent
  <2>1. intents # <<>> /\ intents' = Tail(intents) /\ launch' = launch
    BY <1>10 DEF onNewIntent, Crash, term
  <2>2. \/ onResumeSelectWindow' = onResumeSelectWindow
        \/ sessions # <<>> /\ onResumeSelectWindow' = Len(sessions) - 1
        \/ Head(intents).action = "switch" /\ onResumeSelectWindow' = Head(intents).target
    BY <1>10 DEF onNewIntent, NewWindow, Crash, term
  <2>3. onResumeSelectWindow' \in -1..(MaxSessions - 1)
    <3>1. CASE onResumeSelectWindow' = onResumeSelectWindow
      BY <3>1, <1>0
    <3>2. CASE onResumeSelectWindow' = Len(sessions) - 1
      BY <3>2, <1>0, <1>4
    <3>3. CASE Head(intents).action = "switch" /\ onResumeSelectWindow' = Head(intents).target
      BY <3>3, <2>1, <1>2, IntentFields
    <3> QED BY <2>2, <3>1, <3>2, <3>3
  <2> QED BY <2>1, <2>3, <1>0, <1>2 DEF IntentsOK
<1>11. CASE CreateWindow \/ SwitchTo \/ doCloseWindow \/ doCloseWindowThrows
  BY <1>1, <1>11 DEF CreateWindow, SwitchTo, doCloseWindow, doCloseWindowThrows, Crash, term
<1>12. CASE OpenChooser \/ ChooserCloses \/ ResultCreateThrows \/ ResultCancelled \/ SessionFinishes
            \/ BackKey
  BY <1>1, <1>12 DEF BackKey, OpenChooser, ChooserCloses, ResultCreateThrows, ResultCancelled,
     SessionFinishes, Crash, term
<1>13. CASE ResultSelect
  BY <1>0, <1>5, <1>13 DEF ResultSelect, IntentsOK
<1>14. CASE ResultCreate
  <2>1. /\ sessions' = Append(sessions, made + 1) /\ made < MaxSessions
        /\ onResumeSelectWindow' = Len(sessions') - 1 /\ UNCHANGED <<intents, launch>>
    BY <1>14 DEF ResultCreate, doCreateNewWindow
  <2>2. Len(sessions') = Len(sessions) + 1
    BY <2>1, ListAppend DEF SessionsOK
  <2>3. onResumeSelectWindow' \in -1..(MaxSessions - 1)
    BY <2>1, <2>2, <1>0, <1>4
  <2> QED BY <2>1, <2>3, <1>0 DEF IntentsOK
<1>15. CASE openNewWindow
  <2>1. /\ Len(intents) < MaxIntents /\ made < MaxSessions /\ made' = made + 1
        /\ intents' = Append(intents, OpenWindow(made')) /\ UNCHANGED <<launch, onResumeSelectWindow>>
    BY <1>15 DEF openNewWindow
  <2>2. made' \in 1..MaxSessions
    BY <2>1, <1>0, <1>4
  <2>3. OpenWindow(made') \in Intents
    BY <2>2 DEF Intents
  <2> QED BY <2>1, <2>3, <1>0, <1>3 DEF IntentsOK
<1>16. CASE appendToWindow
  <2>1. PICK k \in 1..Len(sessions) :
          /\ Len(intents) < MaxIntents
          /\ intents' = Append(intents, SwitchWindow(k - 1)) /\ UNCHANGED <<launch, onResumeSelectWindow>>
    BY <1>16 DEF appendToWindow, term
  <2>2. SwitchWindow(k - 1) \in Intents
    BY <1>5 DEF Intents
  <2> QED BY <2>1, <2>2, <1>0, <1>3 DEF IntentsOK
<1> QED BY <1>6, <1>7, <1>8, <1>9, <1>10, <1>11, <1>12, <1>13, <1>14, <1>15, <1>16
        DEF Next, System, User, Chooser, Others

LEMMA FlagsInv ==
  ASSUME FlagsOK, Next
  PROVE  FlagsOK'
<1> USE DEF Stop, NotStopping, closing, stopping
<1>1. \A ss : onUpdate(ss) =>
        /\ finishing' \in BOOLEAN /\ mStopServiceOnFinish' \in BOOLEAN
        /\ reason' \in {"none", "empty", "asked", "early"}
        /\ odd' \subseteq odd \cup {"unseen"}
  BY DEF onUpdate, FlagsOK
<1>2. CASE onCreate \/ onServiceConnected \/ onResume \/ onPause \/ onDestroy
  BY <1>2 DEF onCreate, onServiceConnected, onResume, onPause, onDestroy, FlagsOK
<1>3. CASE onNewIntent
  BY <1>3 DEF onNewIntent, NewWindow, Crash, term, FlagsOK
<1>4. CASE CreateWindow \/ SwitchTo \/ BackKey
  BY <1>4 DEF CreateWindow, SwitchTo, BackKey, FlagsOK
<1>5. CASE doCloseWindow
  BY <1>5 DEF doCloseWindow, Astray, FlagsOK
<1>6. CASE doCloseWindowThrows \/ OpenChooser \/ appendToWindow \/ ResultCreateThrows
  BY <1>6 DEF doCloseWindowThrows, OpenChooser, appendToWindow, ResultCreateThrows, Crash, term,
     FlagsOK
<1>7. CASE ResultSelect \/ ResultCreate \/ ResultCancelled
  BY <1>7 DEF ResultSelect, ResultCreate, ResultCancelled, FlagsOK
<1>8. CASE ChooserCloses \/ SessionFinishes \/ openNewWindow
  <2>1. UNCHANGED <<chooser, crashed>> /\ \E ss : onUpdate(ss)
    BY <1>8 DEF ChooserCloses, SessionFinishes, openNewWindow
  <2> QED BY <2>1, <1>1 DEF FlagsOK
<1> QED BY <1>2, <1>3, <1>4, <1>5, <1>6, <1>7, <1>8 DEF Next, System, User, Chooser, Others

(* The activity that is connected and does not finish has seen the last    *)
(* session end, or the history says that it has not.                       *)
LEMMA SeenInv ==
  ASSUME SessionsOK, ViewsOK, CallbacksOK, IntentsOK, Seen, Next
  PROVE  Seen'
<1> USE DEF Stop, NotStopping
<1>1. CASE UNCHANGED <<connected, finishing, sessions>> /\ odd \subseteq odd'
  BY <1>1 DEF Seen
<1>2. \A ss : onUpdate(ss) => Seen'
  <2> SUFFICES ASSUME NEW ss, onUpdate(ss) PROVE Seen'
    OBVIOUS
  <2>1. CASE ss # <<>>
    BY <2>1 DEF onUpdate, Seen
  <2>2. CASE ss = <<>> /\ listening = 0
    BY <2>2 DEF onUpdate, Seen
  <2>3. CASE ss = <<>> /\ listening # 0
    <3>1. listening > 0
      BY <2>3 DEF CallbacksOK
    <3> QED BY <2>3, <3>1 DEF onUpdate, LastGone, Seen
  <2> QED BY <2>1, <2>2, <2>3
<1>3. CASE onCreate \/ onDestroy
  BY <1>3 DEF onCreate, onDestroy, Seen
<1>4. CASE onServiceConnected
  BY <1>4, Populated DEF Seen
<1>5. CASE onResume \/ onPause \/ onNewIntent \/ SwitchTo
  BY <1>1, <1>5 DEF onResume, onPause, onNewIntent, NewWindow, SwitchTo, Crash, term, closing, stopping, service
<1>6. CASE CreateWindow \/ ResultCreate
  <2>1. made < MaxSessions /\ made' = made + 1 /\ sessions' = Append(sessions, made')
    BY <1>6 DEF CreateWindow, ResultCreate, doCreateNewWindow
  <2>2. sessions' # <<>>
    BY <2>1 DEF SessionsOK, ListOK
  <2> QED BY <2>2 DEF Seen
<1>7. CASE doCloseWindow \/ BackKey
  BY <1>7 DEF doCloseWindow, BackKey, Seen
<1>8. CASE doCloseWindowThrows \/ OpenChooser \/ ResultSelect \/ ResultCreateThrows \/ appendToWindow
  BY <1>1, <1>8 DEF doCloseWindowThrows, OpenChooser, ResultSelect, ResultCreateThrows,
     appendToWindow, Crash, term, closing, stopping, service
<1>9. CASE ResultCancelled
  BY <1>9 DEF ResultCancelled, closing, stopping, service, Seen
<1>10. CASE ChooserCloses \/ SessionFinishes \/ openNewWindow
  BY <1>2, <1>10 DEF ChooserCloses, SessionFinishes, openNewWindow
<1> QED BY <1>3, <1>4, <1>5, <1>6, <1>7, <1>8, <1>9, <1>10 DEF Next, System, User, Chooser, Others

LEMMA Types ==
  ASSUME SessionsOK, ViewsOK
  PROVE  /\ sessions \in Seq(Int) /\ views \in Seq(Int)
         /\ Len(sessions) \in Nat /\ Len(views) \in Nat
         /\ made \in Nat /\ MaxSessions \in Nat
         /\ \A v \in Elements(views) : v \in Int /\ v <= made
<1>1. /\ sessions \in Seq(1..MaxSessions) /\ views \in Seq(1..MaxSessions)
      /\ Elements(views) \subseteq 1..made /\ made \in Nat /\ MaxSessions \in Nat
  BY WindowsAssumption DEF SessionsOK, ListOK, ViewsOK
<1> QED BY <1>1

LEMMA StoppingInv ==
  ASSUME SessionsOK, ViewsOK, CallbacksOK, IntentsOK, FlagsOK, Stopping, Next
  PROVE  Stopping'
<1> USE DEF Stop, NotStopping, closing, stopping
<1> DEFINE Newer(q) == mStopServiceOnFinish /\ reason \notin {"asked", "early"} =>
                          \A s \in Elements(q) : s > stoppedAt
<1>0. /\ sessions \in Seq(1..MaxSessions) /\ stoppedAt \in 0..made /\ made \in Nat
      /\ Newer(sessions)
  BY DEF SessionsOK, ListOK, Stopping
<1>e. Elements(<<>>) = {}
  BY DEF Elements
<1>a. ASSUME sessions' = <<>>, stoppedAt' \in 0..made' PROVE Stopping'
  BY <1>a, <1>e DEF Stopping, Elements
<1>b. ASSUME UNCHANGED stopping, Newer(sessions'), made' \in {made, made + 1}
      PROVE  Stopping'
  BY <1>0, <1>b DEF Stopping, Elements
<1>c. Newer(Append(sessions, made + 1))
  <2>1. Elements(Append(sessions, made + 1)) = Elements(sessions) \cup {made + 1}
    <3>1. sessions \in Seq(Int) /\ made + 1 \in Int
      BY <1>0, Types
    <3> QED BY <3>1, AppendFacts
  <2>2. made + 1 > stoppedAt
    BY <1>0
  <2> QED BY <1>0, <2>1, <2>2
<1>d. \A k \in 1..Len(sessions) : Newer(RemoveAt(sessions, k))
  BY <1>0, RemoveAtElements
<1> HIDE DEF Newer
<1>1. CASE UNCHANGED <<stopping, sessions, made>>
  <2>1. UNCHANGED stopping /\ Newer(sessions') /\ made' = made
    BY <1>1, <1>0
  <2> QED BY <2>1, <1>b
<1>3. CASE onCreate \/ onDestroy
  <2>1. mStopServiceOnFinish' = FALSE /\ stoppedAt' = 0 /\ made' = made
    BY <1>3 DEF onCreate, onDestroy, service
  <2> QED BY <2>1, <1>0 DEF Stopping
<1>4. CASE onServiceConnected
  <2>1. UNCHANGED stopping
    BY <1>4 DEF onServiceConnected
  <2>2. CASE sessions = <<>>
    <3>1. sessions' = sessions \o <<made + 1>> /\ made' = made + 1
      BY <1>4, <2>2, <1>0 DEF onServiceConnected
    <3>2. sessions' = Append(sessions, made + 1)
      BY <3>1, <2>2
    <3> QED BY <2>1, <3>1, <3>2, <1>b, <1>c
  <2>3. CASE sessions # <<>>
    <3>1. sessions' = sessions /\ made' = made
      BY <1>4, <2>3, <1>0 DEF onServiceConnected
    <3> QED BY <2>1, <3>1, <1>1
  <2> QED BY <2>2, <2>3
<1>5. CASE onResume \/ onPause \/ onNewIntent \/ SwitchTo
  BY <1>1, <1>5 DEF onResume, onPause, onNewIntent, NewWindow, SwitchTo, Crash, term, service
<1>6. CASE CreateWindow \/ ResultCreate
  <2>1. /\ UNCHANGED stopping /\ made' = made + 1 /\ sessions' = Append(sessions, made + 1)
    BY <1>6 DEF CreateWindow, ResultCreate, doCreateNewWindow
  <2> QED BY <2>1, <1>b, <1>c
<1>7. CASE doCloseWindow
  <2>1. made' = made /\ mWhichChild + 1 \in 1..Len(sessions)
    BY <1>7, <1>0 DEF doCloseWindow, ViewsOK, ShownOK
  <2>2. CASE sessions' = <<>>
    <3>1. stoppedAt' = made
      BY <1>7, <2>2 DEF doCloseWindow
    <3> QED BY <2>1, <2>2, <3>1, <1>0, <1>a
  <2>3. CASE sessions' # <<>>
    <3>1. UNCHANGED stopping /\ sessions' = RemoveAt(sessions, mWhichChild + 1)
      BY <1>7, <2>3 DEF doCloseWindow
    <3> QED BY <2>1, <3>1, <1>b, <1>d
  <2> QED BY <2>2, <2>3
<1>8. CASE doCloseWindowThrows \/ OpenChooser \/ ResultSelect \/ ResultCreateThrows \/ appendToWindow
  BY <1>1, <1>8 DEF doCloseWindowThrows, OpenChooser, ResultSelect, ResultCreateThrows,
     appendToWindow, Crash, term, service
<1>9. CASE ResultCancelled
  <2>1. CASE ~MustStop
    BY <1>1, <1>9, <2>1 DEF ResultCancelled, service
  <2>2. CASE MustStop /\ connected
    <3>1. sessions' = <<>> /\ stoppedAt' = made /\ made' = made
      BY <1>9, <2>2 DEF ResultCancelled, MustStop, service
    <3> QED BY <3>1, <1>0, <1>a
  <2>3. CASE MustStop /\ ~connected
    <3>1. reason' = "early" /\ stoppedAt' = made /\ made' = made
      BY <1>9, <2>3 DEF ResultCancelled, service
    <3> QED BY <3>1, <1>0 DEF Stopping
  <2> QED BY <2>1, <2>2, <2>3
<1>10. CASE ChooserCloses \/ SessionFinishes
  <2>1. PICK k \in 1..Len(sessions) : onUpdate(RemoveAt(sessions, k)) /\ made' = made
    BY <1>10 DEF ChooserCloses, SessionFinishes
  <2>2. sessions' = RemoveAt(sessions, k)
    BY <2>1 DEF onUpdate
  <2>3. CASE LastGone(RemoveAt(sessions, k))
    <3>1. sessions' = <<>> /\ stoppedAt' = made
      BY <2>1, <2>2, <2>3 DEF onUpdate, LastGone
    <3> QED BY <2>1, <3>1, <1>0, <1>a
  <2>4. CASE ~LastGone(RemoveAt(sessions, k))
    <3>1. UNCHANGED stopping
      BY <2>1, <2>4 DEF onUpdate
    <3> QED BY <2>1, <2>2, <3>1, <1>b, <1>d
  <2> QED BY <2>3, <2>4
<1>11. CASE openNewWindow
  <2>1. onUpdate(Append(sessions, made + 1)) /\ made' = made + 1
    BY <1>11 DEF openNewWindow
  <2>2. Append(sessions, made + 1) # <<>>
    BY <1>0
  <2>3. UNCHANGED stopping /\ sessions' = Append(sessions, made + 1)
    BY <2>1, <2>2 DEF onUpdate, LastGone
  <2> QED BY <2>1, <2>3, <1>b, <1>c
<1>12. CASE BackKey
  <2>1. UNCHANGED <<sessions, made>>
    BY <1>12 DEF BackKey, service
  <2>2. CASE UNCHANGED stopping
    BY <2>1, <2>2, <1>1
  <2>3. CASE Stop("asked")
    BY <2>1, <2>3, <1>0 DEF Stopping
  <2> QED BY <2>2, <2>3, <1>12 DEF BackKey
<1> QED BY <1>3, <1>4, <1>5, <1>6, <1>7, <1>8, <1>9, <1>10, <1>11, <1>12
        DEF Next, System, User, Chooser, Others
-----------------------------------------------------------------------------
(* Views and sessions.                                                     *)

(* RemoveAt() keeps the other elements, in their order.                    *)
LEMMA RemoveAtOrder ==
  ASSUME NEW S, NEW q \in Seq(S), NEW k \in 1..Len(q)
  PROVE  /\ Elements(q) \ {q[k]} \subseteq Elements(RemoveAt(q, k))
         /\ \A i, j \in 1..Len(RemoveAt(q, k)) : i < j =>
              \E p, o \in 1..Len(q) : /\ p < o /\ RemoveAt(q, k)[i] = q[p]
                                      /\ RemoveAt(q, k)[j] = q[o]
<1> DEFINE r == RemoveAt(q, k)
<1>1. /\ Len(r) = Len(q) - 1 /\ Len(q) \in Nat
      /\ \A i \in 1..(Len(q) - 1) : r[i] = IF i < k THEN q[i] ELSE q[i + 1]
  BY RemoveAtFacts
<1> HIDE DEF r
<1>2. ASSUME NEW p \in 1..Len(q), p # k PROVE q[p] \in Elements(r)
  <2>1. CASE p < k
    <3>1. p \in 1..Len(r) /\ r[p] = q[p]
      BY <2>1, <1>1
    <3> QED BY <3>1 DEF Elements
  <2>2. CASE p > k
    <3>1. p - 1 \in 1..Len(r) /\ r[p - 1] = q[p]
      BY <2>2, <1>1
    <3> QED BY <3>1 DEF Elements
  <2> QED BY <2>1, <2>2, <1>1, <1>2
<1>3. Elements(q) \ {q[k]} \subseteq Elements(r)
  BY <1>2 DEF Elements
<1>4. ASSUME NEW i \in 1..Len(r), NEW j \in 1..Len(r), i < j
      PROVE  \E p, o \in 1..Len(q) : p < o /\ r[i] = q[p] /\ r[j] = q[o]
  <2> DEFINE At(n) == IF n < k THEN n ELSE n + 1
  <2>1. At(i) \in 1..Len(q) /\ At(j) \in 1..Len(q) /\ At(i) < At(j)
    BY <1>1, <1>4
  <2>2. r[i] = q[At(i)] /\ r[j] = q[At(j)]
    BY <1>1
  <2> HIDE DEF At
  <2> QED BY <2>1, <2>2
<1> QED BY <1>3, <1>4 DEF r

Match(vs, ss) == NoDuplicates(vs) /\ Ordered(vs, ss)

LEMMA MatchRemove ==
  ASSUME NEW vs \in Seq(Int), NEW ss, NEW k \in 1..Len(vs), Match(vs, ss)
  PROVE  Match(RemoveAt(vs, k), ss)
<1> DEFINE r == RemoveAt(vs, k)
<1>1. r \in Seq(Int) /\ \A i \in 1..Len(r) : r[i] \in Int
  BY RemoveAtFacts
<1>2. \A i, j \in 1..Len(r) : i < j => \E p, o \in 1..Len(vs) : p < o /\ r[i] = vs[p] /\ r[j] = vs[o]
  BY RemoveAtOrder
<1> HIDE DEF r
<1>3. \A i, j \in 1..Len(r) : i < j => r[i] # r[j]
  <2> SUFFICES ASSUME NEW i \in 1..Len(r), NEW j \in 1..Len(r), i < j PROVE r[i] # r[j]
    OBVIOUS
  <2>1. PICK p \in 1..Len(vs), o \in 1..Len(vs) : p < o /\ r[i] = vs[p] /\ r[j] = vs[o]
    BY <1>2
  <2> QED BY <2>1 DEF Match, NoDuplicates
<1>4. NoDuplicates(r)
  BY <1>1, <1>3 DEF NoDuplicates
<1>5. Ordered(r, ss)
  <2> SUFFICES ASSUME NEW i \in 1..Len(r), NEW j \in 1..Len(r), i < j,
                      r[i] \in Elements(ss), r[j] \in Elements(ss)
               PROVE  r[i] < r[j]
    BY DEF Ordered
  <2>1. PICK p \in 1..Len(vs), o \in 1..Len(vs) : p < o /\ r[i] = vs[p] /\ r[j] = vs[o]
    BY <1>2
  <2> QED BY <2>1 DEF Match, Ordered
<1> QED BY <1>4, <1>5 DEF Match, r

(* A list with fewer sessions, or with new ones that have no view yet.     *)
LEMMA MatchOther ==
  ASSUME NEW vs, NEW ss, NEW tt, Match(vs, ss),
         Elements(vs) \cap Elements(tt) \subseteq Elements(ss)
  PROVE  Match(vs, tt)
<1>1. \A i \in 1..Len(vs) : vs[i] \in Elements(vs)
  BY DEF Elements
<1>2. \A i \in 1..Len(vs) : vs[i] \in Elements(tt) => vs[i] \in Elements(ss)
  BY <1>1
<1> QED BY <1>2 DEF Match, Ordered

(* The view of a session younger than those with a view is added.          *)
LEMMA MatchAppend ==
  ASSUME NEW vs \in Seq(Int), NEW ss, NEW x \in Int, Match(vs, ss), x \notin Elements(vs),
         \A v \in Elements(vs) \cap Elements(ss) : v < x
  PROVE  Match(Append(vs, x), ss)
<1> DEFINE a == Append(vs, x)
<1>1. /\ Len(a) = Len(vs) + 1 /\ Len(vs) \in Nat
      /\ \A i \in 1..Len(vs) : a[i] = vs[i]
      /\ a[Len(vs) + 1] = x
  BY AppendFacts
<1>2. \A i \in 1..Len(vs) : vs[i] \in Elements(vs)
  BY DEF Elements
<1> HIDE DEF a
<1>3. ASSUME NEW i \in 1..Len(a), NEW j \in 1..Len(a), i < j
      PROVE  /\ a[i] # a[j]
             /\ a[i] \in Elements(ss) /\ a[j] \in Elements(ss) => a[i] < a[j]
  <2>1. i \in 1..Len(vs) /\ a[i] = vs[i]
    BY <1>1, <1>3
  <2>2. CASE j = Len(vs) + 1
    BY <2>1, <2>2, <1>1, <1>2
  <2>3. CASE j # Len(vs) + 1
    <3>1. j \in 1..Len(vs) /\ a[j] = vs[j] /\ i # j
      BY <2>3, <1>1, <1>3
    <3> QED BY <2>1, <3>1, <1>3 DEF Match, NoDuplicates, Ordered
  <2> QED BY <2>2, <2>3
<1>4. NoDuplicates(a)
  BY <1>1, <1>3 DEF NoDuplicates
<1>5. Ordered(a, ss)
  BY <1>3 DEF Ordered
<1> QED BY <1>4, <1>5 DEF Match, a

LEMMA MatchPurged ==
  ASSUME NEW vs \in Seq(Int), NEW ss \in Seq(Int), Match(vs, ss)
  PROVE  /\ Match(Purged(vs, ss), ss) /\ Len(Purged(vs, ss)) <= Len(ss)
         /\ Elements(vs) \cap Elements(ss) \subseteq Elements(Purged(vs, ss))
BY PurgedFacts, PurgedElements DEF Match

LEMMA MatchSame ==
  ASSUME NEW q, NEW m, ListOK(q, m)
  PROVE  Match(q, q)
BY ListElements DEF Match, Ordered, Increasing

(* The history only grows.                                                 *)
LEMMA HistoryGrows ==
  ASSUME Next
  PROVE  odd \subseteq odd'
<1>1. \A ss : onUpdate(ss) => odd \subseteq odd'
  BY DEF onUpdate
<1>2. CASE System
  BY <1>2 DEF System, onCreate, onServiceConnected, onResume, onPause, onDestroy, onNewIntent,
     NewWindow
<1>3. CASE User
  BY <1>3 DEF User, CreateWindow, doCreateNewWindow, SwitchTo, doCloseWindow, Astray,
     doCloseWindowThrows, BackKey
<1>4. CASE Chooser
  BY <1>1, <1>4 DEF Chooser, OpenChooser, ChooserCloses, ResultSelect, ResultCreate,
     doCreateNewWindow, ResultCreateThrows, ResultCancelled
<1>5. CASE Others
  BY <1>1, <1>5 DEF Others, SessionFinishes, openNewWindow, appendToWindow
<1> QED BY <1>2, <1>3, <1>4, <1>5 DEF Next

(* notifyChange() keeps the match with the list as it is then.             *)
LEMMA MatchUpdate ==
  ASSUME SessionsOK, ViewsOK, CallbacksOK, connected, NEW ss \in Seq(Int),
         Match(views, ss), onUpdate(ss)
  PROVE  /\ Match(views', ss) /\ sessions' = ss
         /\ Elements(views) \cap Elements(ss) \subseteq Elements(views')
         /\ activity = "resumed" /\ ~finishing' => Len(views') <= Len(ss)
<1>1. views \in Seq(Int)
  BY Types
<1>2. sessions' = ss
  BY DEF onUpdate
<1>3. /\ Match(Purged(views, ss), ss) /\ Len(Purged(views, ss)) <= Len(ss)
      /\ Elements(views) \cap Elements(ss) \subseteq Elements(Purged(views, ss))
  BY <1>1, MatchPurged
<1>4. CASE listening > 0 /\ ss # <<>>
  <2>1. views' = Purged(views, ss)
    BY <1>4 DEF onUpdate
  <2> QED BY <1>2, <1>3, <2>1
<1>5. CASE ~(listening > 0)
  <2>1. views' = views
    BY <1>5 DEF onUpdate
  <2>2. activity # "resumed"
    BY <1>5 DEF CallbacksOK
  <2> QED BY <1>2, <2>1, <2>2
<1>6. CASE listening > 0 /\ ss = <<>>
  <2>1. views' = views /\ finishing'
    BY <1>6 DEF onUpdate, LastGone, Stop
  <2> QED BY <1>2, <2>1
<1> QED BY <1>4, <1>5, <1>6

(* What Loose says once the step is known to be expected.                  *)
LEMMA LooseFrame ==
  ASSUME Loose, UNCHANGED <<views, sessions, intents, connected>>, odd \subseteq odd',
         activity' = "resumed" /\ ~finishing' => activity = "resumed" /\ ~finishing
  PROVE  Loose'
<1>1. CASE connected /\ Clean
  <2>1. Matching
    BY <1>1 DEF Loose
  <2>2. (NoDuplicates(views) /\ Ordered(views, sessions))'
    BY <2>1 DEF Matching, NoDuplicates, Ordered, Elements
  <2>3. Covered'
    BY <2>1 DEF Matching, Covered, Elements, Awaited
  <2>4. (activity = "resumed" /\ ~finishing => Len(views) <= Len(sessions))'
    BY <2>1 DEF Matching
  <2> QED BY <2>2, <2>3, <2>4 DEF Loose, Matching
<1>2. CASE ~(connected /\ Clean)
  BY <1>2 DEF Loose, Clean
<1> QED BY <1>1, <1>2

LEMMA LooseNext ==
  ASSUME connected' /\ Clean' => /\ Match(views', sessions')
                                 /\ \A s \in Elements(sessions') : s \in Elements(views') \/ Awaited(intents', s)
                                 /\ activity' = "resumed" /\ ~finishing' => Len(views') <= Len(sessions')
  PROVE  Loose'
BY DEF Loose, Matching, Covered, Match, NoDuplicates, Ordered, Elements

LEMMA LooseNow ==
  ASSUME Loose, Next, connected, Clean'
  PROVE  /\ Match(views, sessions)
         /\ \A s \in Elements(sessions) : s \in Elements(views) \/ Awaited(intents, s)
         /\ activity = "resumed" /\ ~finishing => Len(views) <= Len(sessions)
<1>1. Clean
  BY HistoryGrows DEF Clean
<1> QED BY <1>1 DEF Loose, Matching, Covered, Match

(* Sessions that end, by themselves or in the window list.                 *)
LEMMA LooseEnds ==
  ASSUME SessionsOK, ViewsOK, CallbacksOK, Loose, Next, NEW k \in 1..Len(sessions),
         onUpdate(RemoveAt(sessions, k)), UNCHANGED <<connected, activity, intents>>
  PROVE  Loose'
<1> DEFINE ss == RemoveAt(sessions, k)
<1> SUFFICES ASSUME connected, Clean'
             PROVE  /\ Match(views', sessions')
                    /\ \A s \in Elements(sessions') : s \in Elements(views') \/ Awaited(intents', s)
                    /\ activity' = "resumed" /\ ~finishing' => Len(views') <= Len(sessions')
  BY LooseNext
<1>1. /\ Match(views, sessions)
      /\ \A s \in Elements(sessions) : s \in Elements(views) \/ Awaited(intents, s)
  BY LooseNow
<1>2. ss \in Seq(Int) /\ Elements(ss) \subseteq Elements(sessions)
  BY Types, RemoveAtFacts, RemoveAtElements
<1>3. Match(views, ss)
  BY <1>1, <1>2, MatchOther
<1>4. onUpdate(ss)
  OBVIOUS
<1> HIDE DEF ss
<1>5. /\ Match(views', ss) /\ sessions' = ss
      /\ Elements(views) \cap Elements(ss) \subseteq Elements(views')
      /\ activity = "resumed" /\ ~finishing' => Len(views') <= Len(ss)
  BY <1>2, <1>3, <1>4, MatchUpdate
<1>6. \A s \in Elements(ss) : s \in Elements(views') \/ Awaited(intents, s)
  BY <1>1, <1>2, <1>5
<1> QED BY <1>5, <1>6 DEF Awaited

(* A window opened by another program: its view comes with the intent.     *)
LEMMA LooseOpen ==
  ASSUME SessionsOK, ViewsOK, CallbacksOK, IntentsOK, Loose, Next, openNewWindow
  PROVE  Loose'
<1> DEFINE ss == Append(sessions, made + 1)
<1>0. /\ made < MaxSessions /\ onUpdate(ss) /\ UNCHANGED <<connected, activity>>
      /\ intents' = Append(intents, OpenWindow(made + 1))
  BY DEF openNewWindow
<1> SUFFICES ASSUME connected, Clean'
             PROVE  /\ Match(views', sessions')
                    /\ \A s \in Elements(sessions') : s \in Elements(views') \/ Awaited(intents', s)
                    /\ activity' = "resumed" /\ ~finishing' => Len(views') <= Len(sessions')
  BY <1>0, LooseNext
<1>1. /\ Match(views, sessions)
      /\ \A s \in Elements(sessions) : s \in Elements(views) \/ Awaited(intents, s)
  BY LooseNow
<1>2. ListOK(ss, made + 1) /\ Elements(ss) = Elements(sessions) \cup {made + 1}
  BY <1>0, ListAppend DEF SessionsOK
<1>3. ss \in Seq(Int)
  BY <1>2, ListElements
<1> HIDE DEF ss
<1>4. made + 1 \notin Elements(views)
  BY Types
<1>5. Match(views, ss)
  BY <1>1, <1>2, <1>4, MatchOther
<1>6. /\ Match(views', ss) /\ sessions' = ss
      /\ Elements(views) \cap Elements(ss) \subseteq Elements(views')
      /\ activity = "resumed" /\ ~finishing' => Len(views') <= Len(ss)
  BY <1>0, <1>3, <1>5, MatchUpdate
<1>7. /\ Len(intents') = Len(intents) + 1 /\ Len(intents) \in Nat
      /\ intents'[Len(intents) + 1] = OpenWindow(made + 1)
      /\ \A i \in 1..Len(intents) : intents'[i] = intents[i]
  <2>1. intents \in Seq(Intents)
    BY DEF IntentsOK
  <2>2. made + 1 \in 1..MaxSessions
    BY <1>0, Types
  <2>3. OpenWindow(made + 1) \in Intents
    BY <2>2 DEF Intents
  <2> QED BY <1>0, <2>1, <2>3, AppendProperties
<1>8. \A s \in Elements(sessions) : Awaited(intents, s) => Awaited(intents', s)
  BY <1>7 DEF Awaited
<1>9. Len(intents) + 1 \in 1..Len(intents') /\ Awaited(intents', made + 1)
  BY <1>7 DEF Awaited
<1>10. ASSUME NEW s \in Elements(ss) PROVE s \in Elements(views') \/ Awaited(intents', s)
  BY <1>1, <1>2, <1>6, <1>8, <1>9
<1> QED BY <1>0, <1>6, <1>10

(* A window opened by the user: onUpdate() comes before the view is added. *)
LEMMA LooseCreate ==
  ASSUME SessionsOK, ViewsOK, CallbacksOK, Loose, Next, doCreateNewWindow, connected,
         UNCHANGED <<connected, activity, finishing, intents>>
  PROVE  Loose'
<1> DEFINE ss == Append(sessions, made + 1)
           kept == IF listening > 0 THEN Purged(views, ss) ELSE views
<1>0. /\ made < MaxSessions /\ sessions' = ss /\ made' = made + 1
      /\ views' = Append(kept, made + 1)
  BY DEF doCreateNewWindow
<1> SUFFICES ASSUME Clean'
             PROVE  /\ Match(views', sessions')
                    /\ \A s \in Elements(sessions') : s \in Elements(views') \/ Awaited(intents', s)
                    /\ activity' = "resumed" /\ ~finishing' => Len(views') <= Len(sessions')
  BY LooseNext
<1>1. /\ Match(views, sessions)
      /\ \A s \in Elements(sessions) : s \in Elements(views) \/ Awaited(intents, s)
      /\ activity = "resumed" /\ ~finishing => Len(views) <= Len(sessions)
  BY LooseNow
<1>2. /\ ListOK(ss, made + 1) /\ Elements(ss) = Elements(sessions) \cup {made + 1}
      /\ Len(ss) = Len(sessions) + 1
  BY <1>0, ListAppend DEF SessionsOK
<1>3. ss \in Seq(Int) /\ made + 1 \notin Elements(views) /\ views \in Seq(Int) /\ made + 1 \in Int
  BY <1>2, ListElements, Types
<1> HIDE DEF ss
<1>4. Match(views, ss)
  BY <1>1, <1>2, <1>3, MatchOther
<1>5. /\ kept \in Seq(Int) /\ Match(kept, ss) /\ Elements(kept) \subseteq Elements(views)
      /\ Elements(views) \cap Elements(ss) \subseteq Elements(kept)
  BY <1>3, <1>4, MatchPurged, PurgedElements
<1>6. activity = "resumed" /\ ~finishing => kept = views
  <2> SUFFICES ASSUME activity = "resumed", ~finishing PROVE kept = views
    OBVIOUS
  <2>1. ~(Len(ss) < Len(views))
    BY <1>1, <1>2, Types
  <2> QED BY <2>1 DEF Purged
<1> HIDE DEF kept
<1>7. \A v \in Elements(kept) \cap Elements(ss) : v < made + 1
  BY <1>5, Types
<1>8. Match(Append(kept, made + 1), ss)
  BY <1>3, <1>5, <1>7, MatchAppend
<1>9. Elements(views') = Elements(kept) \cup {made + 1} /\ Len(views') = Len(kept) + 1
  BY <1>0, <1>3, <1>5, AppendFacts
<1>10. \A s \in Elements(ss) : s \in Elements(views') \/ Awaited(intents, s)
  BY <1>1, <1>2, <1>5, <1>9
<1>11. activity = "resumed" /\ ~finishing => Len(views') <= Len(ss)
  BY <1>1, <1>2, <1>6, <1>9, Types
<1> QED BY <1>0, <1>8, <1>10, <1>11

(* The window shown is closed: its view and its session go together.       *)
LEMMA LooseClose ==
  ASSUME SessionsOK, ViewsOK, CallbacksOK, Loose, Next, doCloseWindow
  PROVE  Loose'
<1> DEFINE w == mWhichChild + 1
           ss == RemoveAt(sessions, w)
           kept == IF listening > 0 /\ ss # <<>> THEN Purged(views, ss) ELSE views
           gone == kept # views /\ views[w] \notin Elements(ss)
           place == IF kept # views THEN PlaceAfter(mWhichChild, ss) + 1 ELSE w
<1>0. /\ connected /\ views # <<>> /\ mWhichChild < Len(sessions) /\ sessions' = ss
      /\ views' = CloseViews(ss) /\ UNCHANGED <<connected, activity, intents>>
      /\ odd' = Astray /\ (ss = <<>> => finishing')
  BY DEF doCloseWindow, Stop
<1> SUFFICES ASSUME Clean'
             PROVE  /\ Match(views', sessions')
                    /\ \A s \in Elements(sessions') : s \in Elements(views') \/ Awaited(intents', s)
                    /\ activity' = "resumed" /\ ~finishing' => Len(views') <= Len(sessions')
  BY <1>0, LooseNext
<1>1. /\ Match(views, sessions)
      /\ \A s \in Elements(sessions) : s \in Elements(views) \/ Awaited(intents, s)
  BY <1>0, LooseNow
<1>2. w \in 1..Len(sessions) /\ w \in 1..Len(views)
  BY <1>0, Types DEF ViewsOK, ShownOK
<1>3. sessions[w] = views[w]
  BY <1>0 DEF Clean, Astray
<1>4. ss \in Seq(Int) /\ Elements(ss) = Elements(sessions) \ {views[w]}
  <2>1. ListOK(ss, made) /\ Elements(ss) = Elements(sessions) \ {sessions[w]}
    BY <1>2, ListRemove DEF SessionsOK
  <2> QED BY <2>1, <1>3, ListElements
<1>5. views' = IF gone THEN kept ELSE RemoveAt(kept, place)
  BY <1>0 DEF CloseViews
<1>6. gone \/ kept = views
  BY <1>4
<1>7. views' = kept \/ (kept = views /\ views' = RemoveAt(views, w))
  BY <1>5, <1>6
<1>8. activity = "resumed" /\ ss # <<>> => kept = Purged(views, ss)
  BY <1>0 DEF CallbacksOK
<1> HIDE DEF ss, w
<1>9. Match(views, ss) /\ views \in Seq(Int)
  BY <1>1, <1>4, Types, MatchOther
<1>10. /\ Match(kept, ss) /\ kept \in Seq(Int)
       /\ Elements(views) \cap Elements(ss) \subseteq Elements(kept)
       /\ activity = "resumed" /\ ss # <<>> => Len(kept) <= Len(ss)
  BY <1>4, <1>8, <1>9, MatchPurged, PurgedElements
<1> HIDE DEF kept, gone, place
<1>11. /\ Match(views', ss) /\ Elements(views) \cap Elements(ss) \subseteq Elements(views')
       /\ activity = "resumed" /\ ss # <<>> => Len(views') <= Len(ss)
  <2>1. CASE views' = kept
    BY <2>1, <1>10
  <2>2. CASE kept = views /\ views' = RemoveAt(views, w)
    <3>1. Match(views', ss)
      BY <2>2, <1>2, <1>9, MatchRemove
    <3>2. Elements(views) \ {views[w]} \subseteq Elements(views') /\ Len(views') = Len(views) - 1
      BY <2>2, <1>2, <1>9, RemoveAtOrder, RemoveAtFacts
    <3>3. Len(views) \in Nat /\ Len(ss) \in Nat
      BY <1>4, <1>9
    <3>4. activity = "resumed" /\ ss # <<>> => Len(views') <= Len(ss)
      BY <2>2, <3>2, <3>3, <1>10
    <3> QED BY <3>1, <3>2, <3>4, <1>4
  <2> QED BY <1>7, <2>1, <2>2
<1>12. \A s \in Elements(ss) : s \in Elements(views') \/ Awaited(intents, s)
  BY <1>1, <1>4, <1>11
<1> QED BY <1>0, <1>11, <1>12

(* An intent is dealt with: the view of its session is added, if it is the *)
(* last of the list and has none.                                          *)
LEMMA LooseIntent ==
  ASSUME SessionsOK, ViewsOK, CallbacksOK, IntentsOK, Loose, Next, onNewIntent
  PROVE  Loose'
<1> DEFINE r == Head(intents)
<1>0. /\ intents # <<>> /\ intents' = Tail(intents) /\ activity = "paused"
      /\ UNCHANGED <<connected, activity, sessions>>
  BY DEF onNewIntent, Crash, term, service
<1> SUFFICES ASSUME connected, Clean'
             PROVE  /\ Match(views', sessions')
                    /\ \A s \in Elements(sessions') : s \in Elements(views') \/ Awaited(intents', s)
                    /\ activity' = "resumed" /\ ~finishing' => Len(views') <= Len(sessions')
  BY <1>0, LooseNext
<1>1. /\ Match(views, sessions)
      /\ \A s \in Elements(sessions) : s \in Elements(views) \/ Awaited(intents, s)
  BY LooseNow
<1>2. /\ intents \in Seq(Intents) /\ r \in Intents
      /\ Len(intents') = Len(intents) - 1 /\ Len(intents) \in Nat
      /\ \A i \in 1..Len(intents') : intents'[i] = intents[i + 1]
      /\ r = intents[1]
  <2>1. intents \in Seq(Intents)
    BY DEF IntentsOK
  <2>2. /\ r \in Intents /\ Len(Tail(intents)) = Len(intents) - 1
        /\ \A i \in 1..Len(Tail(intents)) : Tail(intents)[i] = intents[i + 1]
    BY <2>1, <1>0, HeadTailProperties
  <2> QED BY <2>1, <2>2, <1>0
<1> HIDE DEF r
<1>3. ASSUME NEW s, Awaited(intents, s), r # OpenWindow(s) PROVE Awaited(intents', s)
  <2>1. PICK k \in 1..Len(intents) : intents[k] = OpenWindow(s)
    BY <1>3 DEF Awaited
  <2>2. k # 1
    BY <2>1, <1>2, <1>3
  <2>3. k - 1 \in 1..Len(intents') /\ k - 1 + 1 = k
    BY <2>2, <1>2
  <2>4. intents'[k - 1] = OpenWindow(s)
    BY <2>1, <2>3, <1>2
  <2> QED BY <2>3, <2>4 DEF Awaited
<1>4. CASE r.action = "switch" /\ UNCHANGED views
  <2>1. \A s : r # OpenWindow(s)
    BY <1>4 DEF OpenWindow
  <2> QED BY <2>1, <1>0, <1>1, <1>3, <1>4
<1>5. CASE /\ sessions # <<>> /\ r.action = "open"
           /\ views' = Append(views, Last(sessions))
           /\ Last(sessions) = r.session /\ r.session \notin Elements(views)
  <2> DEFINE x == Last(sessions)
  <2>1. /\ x \in Elements(sessions) /\ x \in Int /\ \A s \in Elements(sessions) : s <= x /\ s \in Int
    <3>1. Elements(sessions) \subseteq 1..made
      BY ListElements DEF SessionsOK
    <3> QED BY <1>5, <3>1, LastSession, Types
  <2>2. r = OpenWindow(x)
    BY <1>2, <1>5, IntentFields
  <2>3. x \notin Elements(views) /\ views' = Append(views, x)
    BY <1>5
  <2> HIDE DEF x
  <2>4. \A v \in Elements(views) \cap Elements(sessions) : v < x
    BY <2>1, <2>3
  <2>5. Match(views', sessions)
    BY <1>1, <2>1, <2>3, <2>4, Types, MatchAppend
  <2>6. Elements(views') = Elements(views) \cup {x}
    BY <2>1, <2>3, Types, AppendFacts
  <2>7. ASSUME NEW s \in Elements(sessions) PROVE s \in Elements(views') \/ Awaited(intents', s)
    <3>1. CASE s = x
      BY <3>1, <2>6
    <3>2. CASE s # x
      <4>1. r # OpenWindow(s)
        BY <3>2, <2>2 DEF OpenWindow
      <4> QED BY <4>1, <1>1, <1>3, <2>6
    <3> QED BY <3>1, <3>2
  <2> QED BY <1>0, <2>5, <2>7
<1>6. \/ r.action = "switch" /\ UNCHANGED views
      \/ /\ sessions # <<>> /\ r.action = "open"
         /\ views' = Append(views, Last(sessions))
         /\ Last(sessions) = r.session /\ r.session \notin Elements(views)
  BY DEF onNewIntent, NewWindow, flipper, Clean, r
<1> QED BY <1>4, <1>5, <1>6

LEMMA LooseInv ==
  ASSUME SessionsOK, ViewsOK, CallbacksOK, IntentsOK, Loose, Next
  PROVE  Loose'
<1>1. odd \subseteq odd'
  BY HistoryGrows
<1>2. CASE onCreate \/ onDestroy
  BY <1>2 DEF onCreate, onDestroy, Loose
<1>3. CASE onServiceConnected
  <2>1. views' = sessions' /\ ListOK(sessions', made')
    BY <1>3, Populated
  <2>2. Match(sessions', sessions') /\ Len(sessions') \in Nat
    BY <2>1, MatchSame DEF ListOK
  <2> QED BY <2>1, <2>2, LooseNext
<1>4. CASE onResume
  <2>1. UNCHANGED <<sessions, connected, intents>> /\ views' = ResumeViews
    BY <1>4 DEF onResume, service
  <2>2. ASSUME connected, Clean'
        PROVE  /\ Match(views', sessions) /\ Len(views') <= Len(sessions)
               /\ \A s \in Elements(sessions) : s \in Elements(views') \/ Awaited(intents, s)
    <3>1. /\ Match(views, sessions)
          /\ \A s \in Elements(sessions) : s \in Elements(views) \/ Awaited(intents, s)
      BY <2>2, LooseNow
    <3>2. /\ Match(Purged(views, sessions), sessions) /\ Len(Purged(views, sessions)) <= Len(sessions)
          /\ Elements(views) \cap Elements(sessions) \subseteq Elements(Purged(views, sessions))
      BY <3>1, Types, MatchPurged
    <3>3. views' = Purged(views, sessions)
      BY <2>1, <2>2 DEF ResumeViews
    <3> QED BY <3>1, <3>2, <3>3
  <2> QED BY <2>1, <2>2, LooseNext
<1>5. CASE onPause
  BY <1>1, <1>5, LooseFrame DEF onPause, flipper, service
<1>6. CASE onNewIntent
  BY <1>6, LooseIntent
<1>7. CASE CreateWindow \/ ResultCreate
  BY <1>7, LooseCreate DEF CreateWindow, ResultCreate, closing, stopping
<1>8. CASE doCloseWindow
  BY <1>8, LooseClose
<1>9. CASE SessionFinishes \/ ChooserCloses
  <2>1. PICK k \in 1..Len(sessions) :
          onUpdate(RemoveAt(sessions, k)) /\ UNCHANGED <<connected, activity, intents>>
    BY <1>9 DEF SessionFinishes, ChooserCloses
  <2> QED BY <2>1, LooseEnds
<1>10. CASE openNewWindow
  BY <1>10, LooseOpen
<1>11. CASE appendToWindow
  <2>1. /\ UNCHANGED <<views, sessions, connected, activity, finishing>>
        /\ \E k \in 1..Len(sessions) : intents' = Append(intents, SwitchWindow(k - 1))
    BY <1>11 DEF appendToWindow, term, flipper, closing, stopping, service
  <2>2. PICK k \in 1..Len(sessions) : intents' = Append(intents, SwitchWindow(k - 1))
    BY <2>1
  <2>3. /\ Len(intents') = Len(intents) + 1 /\ Len(intents) \in Nat
        /\ \A i \in 1..Len(intents) : intents'[i] = intents[i]
    <3>1. intents \in Seq(Intents \cup {SwitchWindow(k - 1)})
      BY DEF IntentsOK
    <3> QED BY <2>2, <3>1, AppendProperties
  <2>4. \A s : Awaited(intents, s) => Awaited(intents', s)
    BY <2>3 DEF Awaited
  <2>5. ASSUME connected, Clean'
        PROVE  /\ Match(views, sessions)
               /\ \A s \in Elements(sessions) : s \in Elements(views) \/ Awaited(intents, s)
               /\ activity = "resumed" /\ ~finishing => Len(views) <= Len(sessions)
    BY <2>5, LooseNow
  <2> QED BY <2>1, <2>4, <2>5, LooseNext
<1>12. CASE SwitchTo \/ doCloseWindowThrows \/ OpenChooser \/ ResultSelect \/ ResultCreateThrows
            \/ ResultCancelled \/ BackKey
  <2>1. /\ UNCHANGED <<views, sessions, intents, connected, activity>>
        /\ finishing' = finishing \/ finishing' = TRUE
    BY <1>12 DEF BackKey, Stop, SwitchTo, doCloseWindowThrows, OpenChooser, ResultSelect, ResultCreateThrows,
       ResultCancelled, Crash, term, flipper, closing, stopping, service
  <2> QED BY <1>1, <2>1, LooseFrame
<1> QED BY <1>2, <1>3, <1>4, <1>5, <1>6, <1>7, <1>8, <1>9, <1>10, <1>11, <1>12
        DEF Next, System, User, Chooser, Others
-----------------------------------------------------------------------------
LEMMA InitInv == Init => IInv
<1> SUFFICES ASSUME Init PROVE IInv
  OBVIOUS
<1>1. SessionsOK
  BY ListEmpty, WindowsAssumption DEF Init, SessionsOK
<1>2. ViewsOK
  BY DEF Init, ViewsOK, ShownOK, Elements
<1>4. CallbacksOK /\ FlagsOK /\ Seen /\ Stopping /\ Loose
  <2>1. CallbacksOK /\ FlagsOK /\ Seen /\ Loose
    BY DEF Init, CallbacksOK, FlagsOK, Seen, Loose
  <2>2. Stopping
    BY DEF Init, Stopping
  <2> QED BY <2>1, <2>2
<1>3. IntentsOK
  <2>1. -1 \in -1..(MaxSessions - 1) /\ 0 <= MaxIntents
    BY WindowsAssumption
  <2> QED BY <2>1 DEF Init, IntentsOK, Intents
<1> QED BY <1>1, <1>2, <1>3, <1>4 DEF IInv

LEMMA StepInv == IInv /\ [Next]_vars => IInv'
<1> SUFFICES ASSUME IInv, [Next]_vars PROVE IInv'
  OBVIOUS
<1>1. CASE Next
  BY <1>1, SessionsInv, ViewsInv, CallbacksInv, IntentsInv, FlagsInv, SeenInv, StoppingInv, LooseInv
     DEF IInv
<1>2. CASE UNCHANGED vars
  <2> USE <1>2 DEF vars, service, term, flipper, closing, stopping
  <2>1. SessionsOK' /\ ViewsOK'
    BY DEF IInv, SessionsOK, ListOK, Increasing, ViewsOK, ShownOK, Elements
  <2>2. CallbacksOK' /\ FlagsOK' /\ Seen' /\ Stopping'
    BY DEF IInv, CallbacksOK, FlagsOK, Seen, Stopping, Elements
  <2>3. IntentsOK'
    BY DEF IInv, IntentsOK
  <2>4. Loose'
    BY LooseFrame DEF IInv
  <2> QED BY <2>1, <2>2, <2>3, <2>4 DEF IInv
<1> QED BY <1>1, <1>2

(* IInv holds in every state of the program, for every number of sessions  *)
(* and of intents on their way.                                            *)
THEOREM InductiveInvariant == Spec => []IInv
<1>1. Init => IInv
  BY InitInv
<1>2. IInv /\ [Next]_vars => IInv'
  BY StepInv
<1> QED BY <1>1, <1>2, PTL DEF Spec

(* The index of the window shown is that of a view, and the activity is    *)
(* registered at most twice in the list of sessions.                       *)
THEOREM TypeCorrect == Spec => []TypeOK
<1>1. IInv => TypeOK
  <2> SUFFICES ASSUME IInv PROVE TypeOK
    OBVIOUS
  <2>1. listening \in 0..2
    BY DEF IInv, CallbacksOK
  <2>2. /\ sessions \in Seq(1..MaxSessions) /\ made \in 0..MaxSessions
        /\ views \in Seq(1..MaxSessions) /\ mWhichChild \in Nat
        /\ views # <<>> => mWhichChild < Len(views)
    BY DEF IInv, SessionsOK, ListOK, ViewsOK, ShownOK
  <2>3. onResumeSelectWindow \in -1..(MaxSessions - 1) /\ Len(intents) <= MaxIntents
    BY DEF IInv, IntentsOK
  <2>4. /\ activity \in {"none", "paused", "resumed"} /\ connected \in BOOLEAN
        /\ finishing \in BOOLEAN /\ mStopServiceOnFinish \in BOOLEAN
        /\ chooser \in BOOLEAN /\ crashed \in BOOLEAN
        /\ reason \in {"none", "empty", "asked", "early"} /\ stoppedAt \in 0..made
        /\ odd \subseteq {"overtaken", "unseen", "astray"}
    BY DEF IInv, CallbacksOK, FlagsOK, Stopping
  <2> QED BY <2>1, <2>2, <2>3, <2>4 DEF TypeOK
<1> QED BY <1>1, InductiveInvariant, PTL

(* The user does not look at a screen without a window unless the last     *)
(* session ended while the activity was not registered with the list.      *)
THEOREM SomethingIsSeen == Spec => []SomethingToSee
<1>1. IInv => SomethingToSee
  BY DEF IInv, Seen, SomethingToSee, Settled
<1> QED BY <1>1, InductiveInvariant, PTL

(* Unless the user asked for it with the Back key, or the result of the    *)
(* window list came too early, an activity stops the service only when no  *)
(* session is left, or only such as were opened after that.                *)
THEOREM NoSessionIsStopped == Spec => []StopsOnlyWhenEmpty
<1>1. IInv => StopsOnlyWhenEmpty
  BY DEF IInv, Stopping, StopsOnlyWhenEmpty, Elements
<1> QED BY <1>1, InductiveInvariant, PTL

(* getCurrentTermSession() and doCloseWindow() may match by index: when    *)
(* the user sees the windows, the views are those of the sessions in order.*)
THEOREM IndexesAgree == Spec => []ViewsMatchSessions
<1>1. IInv => ViewsMatchSessions
  <2> SUFFICES ASSUME IInv, Settled, odd \cap {"overtaken", "astray"} = {} PROVE views = sessions
    BY DEF ViewsMatchSessions
  <2>1. SessionsOK /\ ViewsOK /\ Matching /\ intents = <<>>
    BY DEF IInv, Loose, Clean, Settled
  <2>2. Len(views) <= Len(sessions) /\ NoDuplicates(views) /\ Ordered(views, sessions)
    BY <2>1 DEF Matching, Settled
  <2>3. Elements(sessions) \subseteq Elements(views)
    BY <2>1 DEF Matching, Covered, Awaited
  <2>4. /\ sessions \in Seq(Int) /\ NoDuplicates(sessions) /\ Increasing(sessions)
        /\ views \in Seq(Int) /\ Len(sessions) \in Nat /\ Len(views) \in Nat
    BY <2>1, ListElements, Types DEF SessionsOK
  <2>5. Len(sessions) <= Len(views) /\ (Len(sessions) = Len(views) => Elements(sessions) = Elements(views))
    BY <2>3, <2>4, Counting
  <2>6. Elements(sessions) = Elements(views)
    BY <2>2, <2>4, <2>5
  <2>7. \A i \in 1..Len(views) : views[i] \in Elements(sessions)
    BY <2>6 DEF Elements
  <2>8. Increasing(views)
    BY <2>2, <2>7 DEF Ordered, Increasing
  <2> QED BY <2>4, <2>6, <2>8, IncreasingEqual
<1> QED BY <1>1, InductiveInvariant, PTL
=============================================================================
