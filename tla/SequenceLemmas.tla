---------------------------- MODULE SequenceLemmas ----------------------------
(***************************************************************************)
(* Lemmas about natural numbers and about the sequence operators that the  *)
(* console splitter is modelled with.  Induction is stated for a set of    *)
(* numbers, so that it can be used without an operator as a parameter.     *)
(***************************************************************************)
EXTENDS SequencesExt, SequenceTheorems, NaturalsInduction, WellFoundedInduction,
        TLAPS

LessThan == {p \in Nat \X Nat : p[1] < p[2]}

\* A set of numbers that is not empty has a least one.
LEMMA NatMin ==
    ASSUME NEW T, T \subseteq Nat, T # {}
    PROVE  \E m \in T : \A k \in T : m <= k
  <1>1. IsWellFoundedOn(LessThan, Nat)
    BY NatLessThanWellFounded, Zenon DEF OpToRel, LessThan
  <1>2. PICK m \in T : \A k \in T : ~(<<k, m>> \in LessThan)
    BY <1>1, WFMin, Zenon
  <1>3. \A k \in T : ~(k < m)
    BY <1>2 DEF LessThan
  <1> QED  BY <1>3

\* The Min of the community modules is that one.
LEMMA MinFacts ==
    ASSUME NEW T, T \subseteq Nat, T # {}
    PROVE  Min(T) \in T /\ \A k \in T : Min(T) <= k
  BY NatMin DEF Min

\* Induction on the numbers up to a bound.
LEMMA UpToInduction ==
    ASSUME NEW n \in Nat, NEW T, 0 \in T,
           \A i \in 1 .. n : i - 1 \in T => i \in T
    PROVE  0 .. n \subseteq T
  <1> DEFINE Out == {i \in 0 .. n : i \notin T}
  <1> SUFFICES ASSUME Out # {} PROVE FALSE
    OBVIOUS
  <1>1. Out \subseteq Nat
    OBVIOUS
  <1>2. PICK m \in Out : \A k \in Out : m <= k
    <2> HIDE DEF Out
    <2> QED  BY <1>1, NatMin
  <1>3. m \in 1 .. n
    BY <1>2
  <1>4. m - 1 \in T
    BY <1>2, <1>3
  <1> QED  BY <1>2, <1>3, <1>4

\* f[i] is the value after i turns of a loop of n turns.
IsLoop(f, n, S, first, Turn) ==
    /\ f \in [0 .. n -> S] /\ f[0] = first
    /\ \A i \in 1 .. n : f[i] = Turn[i][f[i - 1]]

\* A loop of n turns has a result: the values after each turn exist.
LEMMA LoopExists ==
    ASSUME NEW n \in Nat, NEW S, NEW first, first \in S,
           NEW Turn, Turn \in [1 .. n -> [S -> S]]
    PROVE  \E f : IsLoop(f, n, S, first, Turn)
  <1> DEFINE Upto(m, f) == /\ f \in [0 .. m -> S] /\ f[0] = first
                           /\ \A i \in 1 .. m : f[i] = Turn[i][f[i - 1]]
             T == {m \in 0 .. n : \E f : Upto(m, f)}
  <1>1. 0 \in T
    <2>1. Upto(0, [i \in 0 .. 0 |-> first])
      OBVIOUS
    <2>2. 0 \in 0 .. n
      OBVIOUS
    <2> HIDE DEF Upto
    <2> QED  BY <2>1, <2>2, Zenon
  <1>2. ASSUME NEW m \in 1 .. n, m - 1 \in T
        PROVE  m \in T
    <2>1. PICK f : Upto(m - 1, f)
      BY <1>2
    <2>2. f[m - 1] \in S
      BY <2>1
    <2> DEFINE last == Turn[m][f[m - 1]]
               g == [i \in 0 .. m |-> IF i = m THEN last ELSE f[i]]
    <2>3. last \in S
      BY <2>2
    <2> HIDE DEF last
    <2>4. g \in [0 .. m -> S]
      <3>1. \A i \in 0 .. m : i # m => i \in 0 .. (m - 1)
        OBVIOUS
      <3>2. \A i \in 0 .. m : (IF i = m THEN last ELSE f[i]) \in S
        BY <2>1, <2>3, <3>1
      <3> QED  BY <3>2
    <2>5. g[0] = first
      BY <2>1
    <2>6. ASSUME NEW i \in 1 .. m
          PROVE  g[i] = Turn[i][g[i - 1]]
      <3>1. i \in 0 .. m /\ i - 1 \in 0 .. m /\ i - 1 # m
        OBVIOUS
      <3>2. g[i - 1] = f[i - 1]
        BY <3>1
      <3>3. CASE i = m
        <4>1. g[i] = last
          BY <3>1, <3>3
        <4> QED  BY <3>2, <3>3, <4>1 DEF last
      <3>4. CASE i # m
        <4>1. i \in 1 .. (m - 1)
          BY <3>4
        <4>2. f[i] = Turn[i][f[i - 1]]
          BY <2>1, <4>1
        <4>3. g[i] = f[i]
          BY <3>1, <3>4
        <4> QED  BY <3>2, <4>2, <4>3
      <3> QED  BY <3>3, <3>4
    <2> HIDE DEF g
    <2>7. Upto(m, g)
      BY <2>4, <2>5, <2>6
    <2>8. m \in 0 .. n
      OBVIOUS
    <2> HIDE DEF Upto
    <2> QED  BY <2>7, <2>8, Zenon
  <1>3. 0 .. n \subseteq T
    <2> HIDE DEF T
    <2> QED  BY <1>1, <1>2, UpToInduction
  <1>4. n \in T
    BY <1>3
  <1>5. PICK f : Upto(n, f)
    BY <1>4
  <1>6. IsLoop(f, n, S, first, Turn)
    BY <1>5 DEF IsLoop
  <1> QED  BY <1>6

\* The elements of a sequence.
LEMMA ToSetFacts ==
    ASSUME NEW S, NEW s \in Seq(S)
    PROVE  /\ ToSet(s) \subseteq S
           /\ s \in Seq(ToSet(s))
           /\ \A e : e \in ToSet(s) <=> \E i \in 1 .. Len(s) : s[i] = e
           /\ \A e \in S : /\ Append(s, e) \in Seq(S)
                           /\ ToSet(Append(s, e)) = ToSet(s) \union {e}
           /\ \A T : ToSet(s) \subseteq T => s \in Seq(T)
  <1>1. /\ Len(s) \in Nat /\ DOMAIN s = 1 .. Len(s)
        /\ \A i \in 1 .. Len(s) : s[i] \in S
    OBVIOUS
  <1>2. \A e : e \in ToSet(s) <=> \E i \in 1 .. Len(s) : s[i] = e
    BY <1>1 DEF ToSet
  <1>3. ToSet(s) \subseteq S
    BY <1>1, <1>2
  <1>4. ASSUME NEW T, ToSet(s) \subseteq T PROVE s \in Seq(T)
    <2>1. \A i \in 1 .. Len(s) : s[i] \in T
      BY <1>2, <1>4
    <2>2. s \in [1 .. Len(s) -> T]
      BY <1>1, <2>1
    <2> QED  BY <1>1, <2>2
  <1>5. ASSUME NEW e \in S
        PROVE  /\ Append(s, e) \in Seq(S)
               /\ ToSet(Append(s, e)) = ToSet(s) \union {e}
    <2> DEFINE t == Append(s, e)
    <2>1. t \in Seq(S)
      OBVIOUS
    <2>2. /\ DOMAIN t = 1 .. (Len(s) + 1) /\ t[Len(s) + 1] = e
          /\ \A i \in 1 .. Len(s) : t[i] = s[i]
      BY <1>1
    <2> HIDE DEF t
    <2>3. ASSUME NEW x \in ToSet(t) PROVE x \in ToSet(s) \union {e}
      <3>1. PICK i \in 1 .. (Len(s) + 1) : t[i] = x
        BY <2>2 DEF ToSet
      <3>2. CASE i = Len(s) + 1
        BY <2>2, <3>1, <3>2
      <3>3. CASE i # Len(s) + 1
        <4>1. i \in 1 .. Len(s)
          BY <1>1, <3>3
        <4> QED  BY <1>2, <2>2, <3>1, <4>1
      <3> QED  BY <3>2, <3>3
    <2>4. ASSUME NEW x \in ToSet(s) PROVE x \in ToSet(t)
      <3>1. PICK i \in 1 .. Len(s) : s[i] = x
        BY <1>2
      <3>2. i \in DOMAIN t /\ t[i] = x
        BY <1>1, <2>2, <3>1
      <3> QED  BY <3>2 DEF ToSet
    <2>5. e \in ToSet(t)
      <3>1. Len(s) + 1 \in DOMAIN t
        BY <1>1, <2>2
      <3> QED  BY <2>2, <3>1 DEF ToSet
    <2> QED  BY <2>1, <2>3, <2>4, <2>5 DEF t
  <1> QED  BY <1>2, <1>3, <1>4, <1>5

\* A sequence in which nothing is twice.
Distinct(s) == \A i, j \in 1 .. Len(s) : s[i] = s[j] => i = j

\* Appending something new keeps a sequence distinct.
LEMMA DistinctAppend ==
    ASSUME NEW S, NEW s \in Seq(S), Distinct(s), NEW e \in S, e \notin ToSet(s)
    PROVE  Distinct(Append(s, e))
  <1> DEFINE t == Append(s, e)
  <1>1. /\ Len(s) \in Nat /\ Len(t) = Len(s) + 1 /\ t[Len(s) + 1] = e
        /\ \A i \in 1 .. Len(s) : t[i] = s[i] /\ s[i] # e
    BY ToSetFacts
  <1> HIDE DEF t
  <1>2. \A i \in 1 .. Len(t) : i # Len(s) + 1 => i \in 1 .. Len(s)
    BY <1>1
  <1>3. ASSUME NEW i \in 1 .. Len(t), NEW j \in 1 .. Len(t), t[i] = t[j]
        PROVE  i = j
    <2>1. CASE i = Len(s) + 1
      BY <1>1, <1>2, <1>3, <2>1
    <2>2. CASE i # Len(s) + 1
      BY <1>1, <1>2, <1>3, <2>2 DEF Distinct
    <2> QED  BY <2>1, <2>2
  <1> QED  BY <1>3 DEF Distinct, t

\* A sequence without one of its places.
LEMMA RemoveAtFacts ==
    ASSUME NEW S, NEW s \in Seq(S), NEW n \in 1 .. Len(s)
    PROVE  /\ RemoveAt(s, n) \in Seq(S)
           /\ Len(RemoveAt(s, n)) = Len(s) - 1
           /\ \A i \in 1 .. (Len(s) - 1) :
                RemoveAt(s, n)[i] = IF i < n THEN s[i] ELSE s[i + 1]
  <1> DEFINE a == SubSeq(s, 1, n - 1)
             b == SubSeq(s, n + 1, Len(s))
  <1>1. Len(s) \in Nat /\ n \in Nat /\ 1 <= n /\ n <= Len(s)
    OBVIOUS
  <1>2. \A i \in 1 .. Len(s) : s[i] \in S
    OBVIOUS
  <1>3. /\ a \in Seq(S) /\ Len(a) = n - 1
        /\ \A i \in 1 .. (n - 1) : a[i] = s[i]
    <2>1. \A i \in 1 .. (n - 1) : s[i] \in S
      BY <1>1, <1>2
    <2>2. 1 \in Int /\ n - 1 \in Int
      BY <1>1
    <2>3. /\ a \in Seq(S) /\ Len(a) = IF 1 <= n - 1 THEN (n - 1) - 1 + 1 ELSE 0
          /\ \A i \in 1 .. ((n - 1) - 1 + 1) : a[i] = s[1 + i - 1]
      BY <2>1, <2>2, SubSeqProperties
    <2>4. \A i \in 1 .. (n - 1) : i \in 1 .. ((n - 1) - 1 + 1) /\ 1 + i - 1 = i
      BY <1>1
    <2> QED  BY <1>1, <2>3, <2>4
  <1>4. /\ b \in Seq(S) /\ Len(b) = Len(s) - n
        /\ \A i \in 1 .. (Len(s) - n) : b[i] = s[n + i]
    <2>1. \A i \in (n + 1) .. Len(s) : s[i] \in S
      BY <1>1, <1>2
    <2>2. n + 1 \in Int /\ Len(s) \in Int
      BY <1>1
    <2>3. /\ b \in Seq(S)
          /\ Len(b) = IF n + 1 <= Len(s) THEN Len(s) - (n + 1) + 1 ELSE 0
          /\ \A i \in 1 .. (Len(s) - (n + 1) + 1) : b[i] = s[(n + 1) + i - 1]
      BY <2>1, <2>2, SubSeqProperties
    <2>4. \A i \in 1 .. (Len(s) - n) : /\ i \in 1 .. (Len(s) - (n + 1) + 1)
                                       /\ (n + 1) + i - 1 = n + i
      BY <1>1
    <2> QED  BY <1>1, <2>3, <2>4
  <1>5. RemoveAt(s, n) = a \o b
    BY DEF RemoveAt
  <1> HIDE DEF a, b
  <1>6. /\ a \o b \in Seq(S) /\ Len(a \o b) = Len(a) + Len(b)
        /\ \A i \in 1 .. (Len(a) + Len(b)) :
             (a \o b)[i] = IF i <= Len(a) THEN a[i] ELSE b[i - Len(a)]
    BY <1>3, <1>4, ConcatProperties
  <1>7. ASSUME NEW i \in 1 .. (Len(s) - 1)
        PROVE  (a \o b)[i] = IF i < n THEN s[i] ELSE s[i + 1]
    <2>1. (a \o b)[i] = IF i <= n - 1 THEN a[i] ELSE b[i - (n - 1)]
      BY <1>1, <1>3, <1>4, <1>6
    <2>2. CASE i < n
      BY <1>1, <1>3, <2>1, <2>2
    <2>3. CASE ~(i < n)
      <3>1. i - (n - 1) \in 1 .. (Len(s) - n) /\ n + (i - (n - 1)) = i + 1
        BY <1>1, <2>3
      <3>2. b[i - (n - 1)] = s[n + (i - (n - 1))]
        BY <1>4, <3>1
      <3> QED  BY <1>1, <2>1, <2>3, <3>1, <3>2
    <2> QED  BY <2>2, <2>3
  <1> QED  BY <1>1, <1>3, <1>4, <1>5, <1>6, <1>7

\* A sequence of distinct elements without one of them.
LEMMA RemoveFirstFacts ==
    ASSUME NEW S, NEW s \in Seq(S), Distinct(s), NEW e \in ToSet(s)
    PROVE  /\ RemoveFirst(s, e) \in Seq(S)
           /\ Distinct(RemoveFirst(s, e))
           /\ Len(RemoveFirst(s, e)) = Len(s) - 1
           /\ ToSet(RemoveFirst(s, e)) = ToSet(s) \ {e}
           /\ \E n \in 1 .. Len(s) : s[n] = e /\ RemoveFirst(s, e) = RemoveAt(s, n)
  <1> DEFINE I == {i \in 1 .. Len(s) : s[i] = e}
             n == Min(I)
             t == RemoveAt(s, n)
  <1>1. I # {} /\ I \subseteq Nat
    BY ToSetFacts
  <1>2. n \in I
    <2> HIDE DEF I
    <2> QED  BY <1>1, MinFacts
  <1>3. n \in 1 .. Len(s) /\ s[n] = e
    BY <1>2
  <1>4. RemoveFirst(s, e) = t
    BY <1>1, <1>3, Zenon DEF RemoveFirst, SelectInSeq
  <1> HIDE DEF n, t
  <1>5. /\ t \in Seq(S) /\ Len(t) = Len(s) - 1 /\ Len(s) \in Nat
        /\ \A i \in 1 .. (Len(s) - 1) : t[i] = IF i < n THEN s[i] ELSE s[i + 1]
    BY <1>3, RemoveAtFacts DEF t
  <1>6. Distinct(t)
    <2> SUFFICES ASSUME NEW i \in 1 .. Len(t), NEW j \in 1 .. Len(t), t[i] = t[j]
                 PROVE  i = j
      BY DEF Distinct
    <2> DEFINE p(x) == IF x < n THEN x ELSE x + 1
    <2>1. p(i) \in 1 .. Len(s) /\ p(j) \in 1 .. Len(s)
      BY <1>3, <1>5
    <2>2. s[p(i)] = t[i] /\ s[p(j)] = t[j]
      BY <1>5
    <2>3. p(i) = p(j)
      <3> HIDE DEF p
      <3> QED  BY <2>1, <2>2 DEF Distinct
    <2> QED  BY <1>3, <1>5, <2>3
  <1>7. ToSet(t) = ToSet(s) \ {e}
    <2>1. ASSUME NEW x \in ToSet(t) PROVE x \in ToSet(s) \ {e}
      <3>1. PICK i \in 1 .. Len(t) : t[i] = x
        BY <1>5, <2>1, ToSetFacts
      <3>2. PICK j \in 1 .. Len(s) : s[j] = x /\ j # n
        <4>1. CASE i < n
          BY <1>3, <1>5, <3>1, <4>1
        <4>2. CASE ~(i < n)
          <5>1. i + 1 \in 1 .. Len(s) /\ i + 1 # n
            BY <1>3, <1>5, <4>2
          <5> QED  BY <1>5, <3>1, <4>2, <5>1
        <4> QED  BY <4>1, <4>2
      <3>3. x # e
        BY <1>3, <3>2 DEF Distinct
      <3> QED  BY <3>2, <3>3, ToSetFacts
    <2>2. ASSUME NEW x \in ToSet(s) \ {e} PROVE x \in ToSet(t)
      <3>1. PICK j \in 1 .. Len(s) : s[j] = x
        BY <2>2, ToSetFacts
      <3>2. j # n
        BY <1>3, <2>2, <3>1
      <3>3. \E i \in 1 .. Len(t) : t[i] = x
        <4>1. CASE j < n
          <5>1. j \in 1 .. Len(t) /\ t[j] = x
            BY <1>3, <1>5, <3>1, <4>1
          <5> QED  BY <5>1
        <4>2. CASE j > n
          <5>1. j - 1 \in 1 .. Len(t) /\ ~(j - 1 < n) /\ (j - 1) + 1 = j
            BY <1>3, <1>5, <4>2
          <5>2. t[j - 1] = x
            BY <1>5, <3>1, <5>1
          <5> QED  BY <5>1, <5>2
        <4> QED  BY <1>3, <3>2, <4>1, <4>2
      <3> QED  BY <1>5, <3>3, ToSetFacts
    <2> QED  BY <2>1, <2>2
  <1> QED  BY <1>3, <1>4, <1>5, <1>6, <1>7 DEF t

\* Quotients and remainders of natural numbers.
LEMMA Remainder ==
  ASSUME NEW a \in Nat \ {0}, NEW x \in Nat
  PROVE  /\ x \div a \in Nat /\ x % a \in 0 .. a - 1
         /\ x = a * (x \div a) + (x % a)
<1>1. x \div a \in Int
  OBVIOUS
<1>2. x \div a >= 0
  OBVIOUS
<1>3. x % a \in 0 .. a - 1
  OBVIOUS
<1>4. x = a * (x \div a) + (x % a)
  OBVIOUS
<1> QED
  BY <1>1, <1>2, <1>3, <1>4

LEMMA Product ==
  ASSUME NEW a \in Nat, NEW p \in Nat, NEW q \in Nat, p < q
  PROVE  a * p + a <= a * q
<1>1. PICK d \in Nat : q = p + 1 + d
  BY q - p - 1 \in Nat
<1>2. a * q = a * p + a + a * d /\ a * d \in Nat /\ a * p \in Nat
  BY <1>1
<1> QED
  BY <1>2

LEMMA RemainderUnique ==
  ASSUME NEW a \in Nat \ {0}, NEW q \in Nat, NEW r \in 0 .. a - 1
  PROVE  (a * q + r) % a = r /\ (a * q + r) \div a = q
<1> DEFINE x == a * q + r
<1> DEFINE p == x \div a
<1> DEFINE s == x % a
<1>1. x \in Nat
  BY SMT
<1>2. p \in Nat /\ s \in 0 .. a - 1 /\ x = a * p + s
  BY <1>1, Remainder
<1>3. a * p \in Nat /\ a * q \in Nat /\ x = a * q + r
  BY <1>2
<1> HIDE DEF x, p, s
<1>4. ~(p < q)
  <2>1. p < q => a * p + a <= a * q
    BY <1>2, Product
  <2> QED
    BY <1>2, <1>3, <2>1
<1>5. ~(q < p)
  <2>1. q < p => a * q + a <= a * p
    BY <1>2, Product
  <2> QED
    BY <1>2, <1>3, <2>1
<1>6. p = q
  BY <1>2, <1>4, <1>5
<1>7. s = r
  BY <1>2, <1>3, <1>6
<1> QED
  BY <1>6, <1>7 DEF p, s, x
=============================================================================
