------------------------ MODULE ConSplitterOut_proofs ------------------------
(***************************************************************************)
(* The invariants of ConSplitterOut, for any devices, text modes,          *)
(* resolutions and allocation unit that satisfy OutAssumption.             *)
(***************************************************************************)
EXTENDS ConSplitterOut, SequenceLemmas, FiniteSetTheorems

-----------------------------------------------------------------------------
(* The members of a set of numbers, counted from below.                    *)

LEMMA BelowZero ==
    ASSUME NEW n \in Int, NEW S \in SUBSET Nat, n <= 0
    PROVE  Below(n, S) = 0
<1>1. \A m \in S : ~(m < n)
  OBVIOUS
<1>2. {m \in S : m < n} = {}
  BY <1>1, Zenon
<1> QED  BY <1>2, FS_EmptySet, Zenon DEF Below

LEMMA BelowNext ==
    ASSUME NEW n \in Nat, NEW S \in SUBSET Nat
    PROVE  Below(n, S) \in 0 .. n
           /\ Below(n + 1, S) = Below(n, S) + (IF n \in S THEN 1 ELSE 0)
<1> DEFINE B(m) == {k \in S : k < m}
<1>1. B(n) \subseteq 0 .. n - 1
  <2>1. \A k \in S : k < n => k \in 0 .. n - 1
    OBVIOUS
  <2> QED  BY <2>1, Zenon
<1>2. \A m \in Nat : /\ IsFiniteSet(0 .. m - 1) /\ Cardinality(0 .. m - 1) = m
  <2> TAKE m \in Nat
  <2>1. 0 \in Int /\ m - 1 \in Int /\ (m - 1) - 0 + 1 = m /\ (0 > m - 1 => m = 0)
    OBVIOUS
  <2> QED  BY <2>1, FS_Interval
<1>3. IsFiniteSet(B(n)) /\ Cardinality(B(n)) <= n
  BY <1>1, <1>2, FS_Subset
<1>4. Cardinality(B(n)) \in Nat
  BY <1>3, FS_CardinalityType
<1>5. CASE n \in S
  <2>0. /\ \A k \in S : k < n + 1 <=> k < n \/ k = n
        /\ n < n + 1 /\ ~(n < n)
    OBVIOUS
  <2>1. B(n + 1) = B(n) \union {n} /\ n \notin B(n)
    BY <1>5, <2>0, Zenon
  <2>2. Cardinality(B(n + 1)) = Cardinality(B(n)) + 1
    BY <1>3, <2>1, FS_AddElement
  <2> QED  BY <1>3, <1>4, <1>5, <2>2 DEF Below
<1>6. CASE n \notin S
  <2>0. \A k \in S : k < n + 1 <=> k < n
    BY <1>6
  <2>1. B(n + 1) = B(n)
    BY <2>0, Zenon
  <2> QED  BY <1>3, <1>4, <1>6, <2>1 DEF Below
<1> QED  BY <1>5, <1>6

LEMMA BelowAll ==
    ASSUME NEW n \in Nat, NEW S \in SUBSET (0 .. n - 1), NEW m \in Nat, m >= n
    PROVE  Below(m, S) = Cardinality(S) /\ Cardinality(S) \in 0 .. n
<1>1. \A k \in S : k < m /\ k < n /\ k \in Nat
  OBVIOUS
<1>2. {k \in S : k < m} = S /\ {k \in S : k < n} = S /\ S \subseteq Nat
  BY <1>1, Zenon
<1> QED  BY <1>2, BelowNext, Zenon DEF Below

\* What was taken out below a number and what is left.
LEMMA BelowSplit ==
    ASSUME NEW M \in Nat, NEW gone \in SUBSET (0 .. M - 1), NEW n \in 0 .. M
    PROVE  Below(n, (0 .. M - 1) \ gone) + Below(n, gone) = n
<1> DEFINE kept == (0 .. M - 1) \ gone
           T == {k \in 0 .. M : Below(k, kept) + Below(k, gone) = k}
<1>1. kept \in SUBSET Nat /\ gone \in SUBSET Nat /\ \A k \in 0 .. M - 1 : k \in kept <=> k \notin gone
  OBVIOUS
<1> HIDE DEF kept
<1>2. 0 \in T
  BY <1>1, BelowZero
<1>3. ASSUME NEW i \in 1 .. M, i - 1 \in T
      PROVE  i \in T
  <2>1. i - 1 \in Nat /\ i - 1 \in 0 .. M - 1 /\ i = (i - 1) + 1
    OBVIOUS
  <2>2. /\ Below(i - 1, kept) \in 0 .. i - 1 /\ Below(i - 1, gone) \in 0 .. i - 1
        /\ Below((i - 1) + 1, kept) = Below(i - 1, kept) + (IF i - 1 \in kept THEN 1 ELSE 0)
        /\ Below((i - 1) + 1, gone) = Below(i - 1, gone) + (IF i - 1 \in gone THEN 1 ELSE 0)
    BY <1>1, <2>1, BelowNext
  <2> QED  BY <1>1, <1>3, <2>1, <2>2
<1>4. 0 .. M \subseteq T
  <2> HIDE DEF T
  <2> QED  BY <1>2, <1>3, UpToInduction
<1> QED  BY <1>4 DEF kept

LEMMA BelowGrows ==
    ASSUME NEW S \in SUBSET Nat, NEW m \in Nat, NEW n \in Nat, m <= n
    PROVE  /\ Below(m, S) \in Nat /\ Below(n, S) \in Nat
           /\ Below(m, S) <= Below(n, S)
           /\ m < n /\ m \in S => Below(m, S) < Below(n, S)
<1> DEFINE d == n - m
           T == {i \in 0 .. d : /\ Below(m + i, S) >= Below(m, S)
                                /\ i > 0 /\ m \in S => Below(m + i, S) > Below(m, S)}
<1>1. d \in Nat /\ m + d = n
  OBVIOUS
<1>2. \A k \in Nat : Below(k, S) \in Nat
                     /\ Below(k + 1, S) = Below(k, S) + (IF k \in S THEN 1 ELSE 0)
  BY BelowNext
<1> HIDE DEF d
<1>3. 0 \in T
  BY <1>1, <1>2
<1>4. ASSUME NEW i \in 1 .. d, i - 1 \in T
      PROVE  i \in T
  <2>1. m + (i - 1) \in Nat /\ m + i = (m + (i - 1)) + 1 /\ (i - 1 = 0 => m + (i - 1) = m)
    BY <1>1
  <2>2. Below(m + i, S) = Below(m + (i - 1), S) + (IF m + (i - 1) \in S THEN 1 ELSE 0)
        /\ Below(m + (i - 1), S) \in Nat /\ Below(m, S) \in Nat
    BY <1>2, <2>1
  <2> QED  BY <1>1, <1>4, <2>1, <2>2
<1>5. 0 .. d \subseteq T
  <2> HIDE DEF T
  <2> QED  BY <1>1, <1>3, <1>4, UpToInduction
<1>6. d \in T
  BY <1>1, <1>5
<1> QED  BY <1>1, <1>2, <1>6

\* Each place up to the size of a set has one member that comes there.
LEMMA Enumerated ==
    ASSUME NEW M \in Nat, NEW kept \in SUBSET (0 .. M - 1),
           NEW i \in 0 .. Cardinality(kept) - 1
    PROVE  \E n \in kept : Below(n, kept) = i
<1> DEFINE T == {k \in 0 .. M : Below(k, kept) <= i}
<1> SUFFICES ASSUME \A n \in kept : Below(n, kept) # i
             PROVE  FALSE
  OBVIOUS
<1>1. kept \in SUBSET Nat
  OBVIOUS
<1>2. Below(M, kept) = Cardinality(kept) /\ Cardinality(kept) \in 0 .. M
  BY BelowAll
<1>3. 0 \in T
  BY <1>1, <1>2, BelowZero
<1>4. ASSUME NEW k \in 1 .. M, k - 1 \in T
      PROVE  k \in T
  <2>1. k - 1 \in Nat /\ k = (k - 1) + 1
    OBVIOUS
  <2>2. Below(k - 1, kept) \in 0 .. k - 1
        /\ Below((k - 1) + 1, kept) = Below(k - 1, kept) + (IF k - 1 \in kept THEN 1 ELSE 0)
    BY <1>1, <2>1, BelowNext
  <2>3. k - 1 \in kept => Below(k - 1, kept) # i
    OBVIOUS
  <2> QED  BY <1>2, <1>4, <2>1, <2>2, <2>3
<1>5. 0 .. M \subseteq T
  <2> HIDE DEF T
  <2> QED  BY <1>3, <1>4, UpToInduction
<1>6. M \in T
  BY <1>5
<1> QED  BY <1>2, <1>6

LEMMA NthFacts ==
    ASSUME NEW M \in Nat, NEW kept \in SUBSET (0 .. M - 1), 0 \in kept, 1 \in kept,
           NEW i \in 0 .. Cardinality(kept) - 1
    PROVE  /\ Nth(i, kept) \in kept /\ Below(Nth(i, kept), kept) = i
           /\ i = 0 => Nth(i, kept) = 0
           /\ i = 1 => Nth(i, kept) = 1
           /\ i >= 2 => Nth(i, kept) >= 2
<1>1. Nth(i, kept) \in kept /\ Below(Nth(i, kept), kept) = i
  <2>1. \E n \in kept : Below(n, kept) = i
    BY Enumerated
  <2> QED  BY <2>1, Zenon DEF Nth
<1> DEFINE n == Nth(i, kept)
<1>2. n \in Nat /\ kept \in SUBSET Nat
  <2>1. \A k \in kept : k \in Nat
    OBVIOUS
  <2> QED  BY <1>1, <2>1, Zenon
<1>3. Below(0, kept) = 0
  BY <1>2, BelowZero
<1>4. Below(1, kept) = 1
  <2>1. Below(0 + 1, kept) = Below(0, kept) + (IF 0 \in kept THEN 1 ELSE 0)
    BY <1>2, BelowNext
  <2> QED  BY <1>3, <2>1
<1>5. 0 < n => Below(0, kept) < Below(n, kept)
  BY <1>2, BelowGrows
<1>6. 1 < n => Below(1, kept) < Below(n, kept)
  BY <1>2, BelowGrows
<1> HIDE DEF n
<1>7. Below(n, kept) = i /\ n \in kept
  BY <1>1 DEF n
<1>8. n = 0 \/ n = 1 \/ n > 1
  BY <1>2
<1>9. (i = 0 => n = 0) /\ (i = 1 => n = 1) /\ (i >= 2 => n >= 2)
  BY <1>2, <1>3, <1>4, <1>5, <1>6, <1>7, <1>8
<1> QED  BY <1>1, <1>9 DEF n

-----------------------------------------------------------------------------
(* A table with some of its rows.                                          *)

SplitterFields ==
    {"TextOutList", "CurrentNumberOfConsoles", "CurrentNumberOfGraphicsOutput",
     "TextOutQueryData", "TextOutQueryDataCount", "TextOutModeMap", "MaxMode", "Mode",
     "Cursor", "Attribute"}

\* What the thinning of a table and its columns leave alone.
SameConsoles(t, s) ==
    /\ DOMAIN t = SplitterFields
    /\ t.TextOutList = s.TextOutList /\ t.Cursor = s.Cursor
    /\ t.CurrentNumberOfConsoles = s.CurrentNumberOfConsoles
    /\ t.CurrentNumberOfGraphicsOutput = s.CurrentNumberOfGraphicsOutput
    /\ t.TextOutQueryDataCount = s.TextOutQueryDataCount

\* A mode on offer or none stays one, and what was neither stays neither.
ModeFollows(t, s) ==
    /\ s.Mode \in -1 .. s.MaxMode - 1 => t.Mode \in -1 .. t.MaxMode - 1
    /\ s.Mode \in Nat /\ s.Mode >= s.MaxMode => t.Mode \in Nat /\ t.Mode >= t.MaxMode

\* Row i of t is row f[i] of s, each of them used once.
IsThinning(f, t, s, column) ==
    /\ DOMAIN f = 0 .. t.MaxMode - 1
    /\ f[0] = 0 /\ f[1] = 1
    /\ \A i \in 0 .. t.MaxMode - 1 :
         /\ f[i] \in 0 .. s.MaxMode - 1
         /\ i >= 2 => f[i] >= 2 /\ column[f[i]] # -1
         /\ t.TextOutModeMap[i] = s.TextOutModeMap[f[i]]
    /\ \A i, j \in 0 .. t.MaxMode - 1 : f[i] = f[j] => i = j

Thinned(t, s, column) ==
    /\ SameConsoles(t, s) /\ t.TextOutQueryData = s.TextOutQueryData
    /\ t.MaxMode \in 2 .. s.MaxMode
    /\ DOMAIN t.TextOutModeMap = 0 .. t.MaxMode - 1
    /\ \E f : IsThinning(f, t, s, column)
    /\ ModeFollows(t, s)

LEMMA IntersectionThins ==
    ASSUME NEW s, DOMAIN s = SplitterFields, s.MaxMode \in Nat, s.MaxMode >= 2,
           NEW column
    PROVE  Thinned(GetIntersection(s, column), s, column)
<1> DEFINE M == s.MaxMode
           gone == {n \in 2 .. s.MaxMode - 1 : column[n] = -1}
           kept == (0 .. s.MaxMode - 1) \ gone
           C == Cardinality(kept)
           map == [i \in 0 .. Cardinality(kept) - 1 |-> s.TextOutModeMap[Nth(i, kept)]]
           mode == IF s.Mode \in gone THEN -1 ELSE s.Mode - Below(s.Mode, gone)
           t == GetIntersection(s, column)
<1>1. /\ DOMAIN t = SplitterFields
      /\ t.TextOutModeMap = map /\ t.MaxMode = C /\ t.Mode = mode
      /\ t.TextOutList = s.TextOutList /\ t.Cursor = s.Cursor
      /\ t.CurrentNumberOfConsoles = s.CurrentNumberOfConsoles
      /\ t.CurrentNumberOfGraphicsOutput = s.CurrentNumberOfGraphicsOutput
      /\ t.TextOutQueryDataCount = s.TextOutQueryDataCount
      /\ t.TextOutQueryData = s.TextOutQueryData
  <2> HIDE DEF map, C, mode
  <2>1. t = [s EXCEPT !.TextOutModeMap = map, !.MaxMode = C, !.Mode = mode]
    BY DEF GetIntersection, map, C, mode
  <2> HIDE DEF t
  <2> QED  BY <2>1 DEF SplitterFields
<1> HIDE DEF t
<1>2. /\ gone \in SUBSET (0 .. M - 1) /\ kept \in SUBSET (0 .. M - 1)
      /\ 0 \in kept /\ 1 \in kept /\ M \in Nat /\ 0 \notin gone /\ 1 \notin gone
      /\ \A n \in kept : n >= 2 => column[n] # -1
      /\ \A n \in 0 .. M - 1 : n \in kept <=> n \notin gone
  OBVIOUS
<1>3. /\ map = [i \in 0 .. C - 1 |-> s.TextOutModeMap[Nth(i, kept)]]
      /\ kept = (0 .. M - 1) \ gone
      /\ mode = IF s.Mode \in gone THEN -1 ELSE s.Mode - Below(s.Mode, gone)
  OBVIOUS
<1> HIDE DEF map, mode, gone
<1>4. C \in 2 .. M
  <2>1. Below(M, kept) = C /\ C \in 0 .. M
    BY <1>2, BelowAll
  <2>2. Below(0 + 1, kept) = Below(0, kept) + (IF 0 \in kept THEN 1 ELSE 0)
        /\ Below(1 + 1, kept) = Below(1, kept) + (IF 1 \in kept THEN 1 ELSE 0)
        /\ Below(0, kept) = 0
    BY <1>2, BelowNext, BelowZero
  <2>3. Below(2, kept) <= Below(M, kept)
    BY <1>2, BelowGrows
  <2> QED  BY <1>2, <2>1, <2>2, <2>3
<1> HIDE DEF kept, C
<1>5. ModeFollows(t, s)
  <2>1. \A n \in 0 .. M : Below(n, kept) + Below(n, gone) = n
        /\ Below(n, kept) \in Nat /\ Below(n, gone) \in Nat
    <3> TAKE n \in 0 .. M
    <3>1. Below(n, (0 .. M - 1) \ gone) + Below(n, gone) = n
      BY <1>2, BelowSplit
    <3>2. Below(n, kept) \in Nat /\ Below(n, gone) \in Nat
      BY <1>2, BelowNext
    <3> QED  BY <1>3, <3>1, <3>2
  <2>2. CASE s.Mode = -1
    <3>1. Below(-1, gone) = 0 /\ -1 \notin gone
      BY <1>2, BelowZero
    <3> QED  BY <1>1, <1>2, <1>3, <1>4, <2>2, <3>1 DEF ModeFollows
  <2>3. CASE s.Mode \in 0 .. M - 1
    <3>1. CASE s.Mode \in gone
      BY <1>1, <1>2, <1>3, <1>4, <2>3, <3>1 DEF ModeFollows
    <3>2. CASE s.Mode \notin gone
      <4>1. s.Mode \in kept
        BY <1>2, <2>3, <3>2
      <4>2. mode = Below(s.Mode, kept)
        <5>1. mode = s.Mode - Below(s.Mode, gone)
          BY <1>3, <3>2, Zenon
        <5>2. s.Mode \in 0 .. M /\ s.Mode \in Int
          BY <1>2, <2>3
        <5>3. Below(s.Mode, kept) + Below(s.Mode, gone) = s.Mode
              /\ Below(s.Mode, kept) \in Nat /\ Below(s.Mode, gone) \in Nat
          BY <2>1, <5>2
        <5> QED  BY <5>1, <5>2, <5>3
      <4>3. Below(s.Mode, kept) < Below(M, kept) /\ Below(M, kept) = C
        BY <1>2, <2>3, <4>1, BelowGrows, BelowAll DEF C
      <4>4. mode \in 0 .. C - 1
        BY <1>4, <2>1, <2>3, <4>2, <4>3
      <4> QED  BY <1>1, <1>4, <2>3, <4>4 DEF ModeFollows
    <3> QED  BY <3>1, <3>2
  <2>4. CASE s.Mode \in Nat /\ s.Mode >= M
    <3>1. Below(s.Mode, gone) = Cardinality(gone) /\ Below(M, gone) = Cardinality(gone)
          /\ Below(M, kept) = C
      BY <1>2, <2>4, BelowAll DEF C
    <3>2. C + Cardinality(gone) = M /\ Cardinality(gone) \in Nat
      BY <1>2, <2>1, <3>1
    <3>3. s.Mode \notin gone
      BY <1>2, <2>4
    <3>4. mode \in Nat /\ mode >= C
      BY <1>2, <1>3, <1>4, <2>4, <3>1, <3>2, <3>3
    <3> QED  BY <1>1, <1>2, <2>4, <3>4 DEF ModeFollows
  <2>5. CASE ~(s.Mode \in -1 .. M - 1 \/ (s.Mode \in Nat /\ s.Mode >= M))
    BY <2>5 DEF ModeFollows
  <2>6. s.Mode \in -1 .. M - 1 => s.Mode = -1 \/ s.Mode \in 0 .. M - 1
    BY <1>2
  <2> QED  BY <2>2, <2>3, <2>4, <2>5, <2>6
<1>6. \E f : IsThinning(f, t, s, column)
  <2> DEFINE f == [i \in 0 .. C - 1 |-> Nth(i, kept)]
  <2>1. \A i \in 0 .. C - 1 : /\ Nth(i, kept) \in kept /\ Below(Nth(i, kept), kept) = i
                              /\ i = 0 => Nth(i, kept) = 0
                              /\ i = 1 => Nth(i, kept) = 1
                              /\ i >= 2 => Nth(i, kept) >= 2
    BY <1>2, NthFacts DEF C
  <2>2. DOMAIN f = 0 .. C - 1 /\ \A i \in 0 .. C - 1 : f[i] = Nth(i, kept)
    OBVIOUS
  <2>3. \A i \in 0 .. C - 1 : map[i] = s.TextOutModeMap[f[i]]
    BY <1>3, <2>2
  <2>4. 0 \in 0 .. C - 1 /\ 1 \in 0 .. C - 1
    BY <1>4
  <2> HIDE DEF f
  <2>5. f[0] = 0 /\ f[1] = 1
    BY <2>1, <2>2, <2>4
  <2>6. \A i, j \in 0 .. C - 1 : f[i] = f[j] => i = j
    <3> TAKE i, j \in 0 .. C - 1
    <3>1. Below(f[i], kept) = i /\ Below(f[j], kept) = j
      BY <2>1, <2>2
    <3> QED  BY <3>1, Zenon
  <2>7. \A i \in 0 .. C - 1 : /\ f[i] \in 0 .. M - 1
                              /\ i >= 2 => f[i] >= 2 /\ column[f[i]] # -1
    BY <1>2, <2>1, <2>2
  <2>8. IsThinning(f, t, s, column)
    BY <1>1, <2>2, <2>3, <2>5, <2>6, <2>7, Zenon DEF IsThinning
  <2> QED  BY <2>8
<1>7. DOMAIN t.TextOutModeMap = 0 .. t.MaxMode - 1 /\ t.MaxMode \in 2 .. s.MaxMode
  BY <1>1, <1>3, <1>4
<1> QED  BY <1>1, <1>5, <1>6, <1>7, Zenon DEF Thinned, SameConsoles, t

-----------------------------------------------------------------------------
(* The list and the table of a virtual console.                            *)

\* The first n places of the list hold devices, none twice.
Listed(s, n) ==
    /\ DOMAIN s = SplitterFields
    /\ TextOutListCount(s) \in Nat \ {0}
    /\ DOMAIN s.TextOutList = 0 .. TextOutListCount(s) - 1
    /\ n \in 0 .. TextOutListCount(s)
    /\ \A k \in 0 .. n - 1 : s.TextOutList[k] \in Devices
    /\ \A j, k \in 0 .. n - 1 : s.TextOutList[j] = s.TextOutList[k] => j = k

\* The table has a row for each mode and a column for each place of the list.
Rows(s) ==
    /\ s.MaxMode \in Nat /\ s.MaxMode >= 2
    /\ s.TextOutQueryDataCount \in Nat /\ s.MaxMode <= s.TextOutQueryDataCount
    /\ DOMAIN s.TextOutModeMap = 0 .. s.MaxMode - 1
    /\ \A n \in 0 .. s.MaxMode - 1 : DOMAIN s.TextOutModeMap[n] = DOMAIN s.TextOutList

\* The query data are the modes of the first device, of which mode 1 may be lost.
QueryData(s, d) ==
    /\ DOMAIN s.TextOutQueryData = DOMAIN TextModes[d]
    /\ \A m \in DOMAIN TextModes[d] : m # 1 => s.TextOutQueryData[m] = TextModes[d][m]
    /\ s.TextOutQueryData[1] \in {TextModes[d][1], Unsupported}

\* The first column has modes 0 and 1, and after them others.
FirstColumn(s, d) ==
    /\ s.TextOutModeMap[0][0] = 0 /\ s.TextOutModeMap[1][0] = 1
    /\ \A n \in 2 .. s.MaxMode - 1 : /\ s.TextOutModeMap[n][0] \in DOMAIN TextModes[d]
                                     /\ s.TextOutModeMap[n][0] >= 2

Base(s) == /\ Rows(s)
           /\ QueryData(s, s.TextOutList[0]) /\ FirstColumn(s, s.TextOutList[0])

\* Column k has a mode of its device of each size that the console offers.
Column(s, k, d) ==
    /\ \A n \in 0 .. s.MaxMode - 1 :
         /\ s.TextOutModeMap[n][k] \in {-1} \union DOMAIN TextModes[d]
         /\ SizeOf(s, n) # Unsupported =>
              /\ Supports(d, s.TextOutModeMap[n][k])
              /\ TextModes[d][s.TextOutModeMap[n][k]] = SizeOf(s, n)
    /\ s.MaxMode <= ModeCount(d)

Unused(s, n) ==
    \A i \in 0 .. s.MaxMode - 1 : \A k \in DOMAIN s.TextOutList :
       k >= n => s.TextOutModeMap[i][k] = -1

Table(s, n) == /\ Base(s) /\ Unused(s, n)
               /\ \A k \in 0 .. n - 1 : Column(s, k, s.TextOutList[k])

LEMMA DeviceFacts ==
    ASSUME NEW d \in Devices
    PROVE  /\ ModeCount(d) \in 2 .. InitMode /\ DOMAIN TextModes[d] = 0 .. ModeCount(d) - 1
           /\ 0 \in DOMAIN TextModes[d] /\ 1 \in DOMAIN TextModes[d]
           /\ DOMAIN TextModes[d] \subseteq Nat
           /\ ModeCount(d) \in Nat /\ ModeCount(d) >= 2
           /\ TextModes[d][0] = BaseSize /\ Supports(d, 0)
           /\ \A n \in DOMAIN TextModes[d] : n # 1 => TextModes[d][n] # Unsupported
<1>1. /\ ModeCount(d) \in 2 .. InitMode /\ DOMAIN TextModes[d] = 0 .. ModeCount(d) - 1
      /\ TextModes[d][0] = BaseSize
      /\ \A n \in DOMAIN TextModes[d] : n # 1 => Supports(d, n)
  BY OutAssumption
<1>2. ModeCount(d) \in Nat /\ ModeCount(d) >= 2
  <2>1. ModeCount(d) \in 2 .. InitMode
    BY <1>1, Zenon
  <2> QED  BY <2>1 DEF InitMode
<1>3. 0 \in DOMAIN TextModes[d] /\ 1 \in DOMAIN TextModes[d] /\ DOMAIN TextModes[d] \subseteq Nat
  BY <1>1, <1>2
<1> QED  BY <1>1, <1>2, <1>3 DEF Supports

LEMMA SharedSize ==
    ASSUME NEW d \in Devices, NEW e \in Devices, Supports(d, 1),
           NEW n \in DOMAIN TextModes[e], Supports(e, n)
    PROVE  TextModes[e][n] = TextModes[d][1] <=> n = 1
<1>1. \A a \in Devices : Supports(a, 1) =>
        \A b \in Devices : \A m \in DOMAIN TextModes[b] :
          Supports(b, m) => (TextModes[b][m] = TextModes[a][1] <=> m = 1)
  BY OutAssumption, Zenon
<1> QED  BY <1>1, Zenon

LEMMA SizeFacts ==
    ASSUME NEW s, NEW d \in Devices, Rows(s), QueryData(s, d), FirstColumn(s, d)
    PROVE  /\ \A n \in 0 .. s.MaxMode - 1 :
                SizeOf(s, n) = s.TextOutQueryData[s.TextOutModeMap[n][0]]
           /\ \A n \in 0 .. s.MaxMode - 1 : n # 1 =>
                /\ s.TextOutModeMap[n][0] \in DOMAIN TextModes[d]
                /\ s.TextOutModeMap[n][0] # 1
                /\ SizeOf(s, n) = TextModes[d][s.TextOutModeMap[n][0]]
                /\ SizeOf(s, n) # Unsupported
           /\ SizeOf(s, 0) = BaseSize /\ 0 \in 0 .. s.MaxMode - 1
           /\ SizeOf(s, 1) = s.TextOutQueryData[1] /\ 1 \in 0 .. s.MaxMode - 1
           /\ SizeOf(s, 1) \in {TextModes[d][1], Unsupported}
<1>1. s.MaxMode \in Nat /\ s.MaxMode >= 2 /\ DOMAIN s.TextOutModeMap = 0 .. s.MaxMode - 1
  BY DEF Rows
<1>2. 0 \in 0 .. s.MaxMode - 1 /\ 1 \in 0 .. s.MaxMode - 1
  BY <1>1
<1>3. s.TextOutModeMap # << >>
  <2>1. 0 \notin DOMAIN << >>
    OBVIOUS
  <2> QED  BY <1>1, <1>2, <2>1
<1>4. \A n \in 0 .. s.MaxMode - 1 :
        SizeOf(s, n) = s.TextOutQueryData[s.TextOutModeMap[n][0]]
  BY <1>3, Zenon DEF SizeOf
<1>5. /\ s.TextOutModeMap[0][0] = 0 /\ s.TextOutModeMap[1][0] = 1
      /\ \A n \in 2 .. s.MaxMode - 1 : /\ s.TextOutModeMap[n][0] \in DOMAIN TextModes[d]
                                       /\ s.TextOutModeMap[n][0] >= 2
  BY Zenon DEF FirstColumn
<1>6. /\ \A m \in DOMAIN TextModes[d] : m # 1 => s.TextOutQueryData[m] = TextModes[d][m]
      /\ s.TextOutQueryData[1] \in {TextModes[d][1], Unsupported}
  BY Zenon DEF QueryData
<1>7. ASSUME NEW n \in 0 .. s.MaxMode - 1, n # 1
      PROVE  /\ s.TextOutModeMap[n][0] \in DOMAIN TextModes[d]
             /\ s.TextOutModeMap[n][0] # 1
  <2>1. n = 0 \/ n \in 2 .. s.MaxMode - 1
    BY <1>1, <1>7
  <2>2. CASE n = 0
    BY <1>5, <2>2, DeviceFacts
  <2>3. CASE n \in 2 .. s.MaxMode - 1
    <3>1. s.TextOutModeMap[n][0] \in DOMAIN TextModes[d] /\ s.TextOutModeMap[n][0] >= 2
      BY <1>5, <2>3
    <3>2. s.TextOutModeMap[n][0] \in Nat
      BY <3>1, DeviceFacts
    <3> QED  BY <3>1, <3>2
  <2> QED  BY <2>1, <2>2, <2>3
<1>8. ASSUME NEW n \in 0 .. s.MaxMode - 1, n # 1
      PROVE  /\ SizeOf(s, n) = TextModes[d][s.TextOutModeMap[n][0]]
             /\ SizeOf(s, n) # Unsupported
  <2>1. SizeOf(s, n) = TextModes[d][s.TextOutModeMap[n][0]]
    BY <1>4, <1>6, <1>7, <1>8, Zenon
  <2> QED  BY <1>7, <1>8, <2>1, DeviceFacts, Zenon
<1>9. SizeOf(s, 0) = BaseSize
  <2>1. SizeOf(s, 0) = TextModes[d][s.TextOutModeMap[0][0]]
    BY <1>2, <1>8
  <2>2. TextModes[d][0] = BaseSize
    BY DeviceFacts
  <2> QED  BY <1>5, <2>1, <2>2
<1>10. SizeOf(s, 1) = s.TextOutQueryData[1] /\ SizeOf(s, 1) \in {TextModes[d][1], Unsupported}
  <2>1. SizeOf(s, 1) = s.TextOutQueryData[s.TextOutModeMap[1][0]]
    BY <1>2, <1>4, Zenon
  <2> QED  BY <1>5, <1>6, <2>1
<1> QED  BY <1>2, <1>4, <1>7, <1>8, <1>9, <1>10, Zenon

LEMMA LeastFacts ==
    ASSUME NEW S \in SUBSET Nat, S # {}
    PROVE  Least(S) \in S /\ \A n \in S : Least(S) <= n
<1>1. \E n \in S : \A m \in S : n <= m
  BY NatMin
<1> QED  BY <1>1, Zenon DEF Least

LEMMA GreatestFacts ==
    ASSUME NEW N \in Nat, NEW S \in SUBSET (0 .. N), S # {}, NEW none
    PROVE  Greatest(S, none) \in S
<1> DEFINE T == {N - n : n \in S}
<1>1. T \subseteq Nat /\ T # {} /\ \A n \in S : N - n \in T
  <2>1. \A n \in S : N - n \in Nat
    OBVIOUS
  <2>2. \A n \in S : N - n \in T
    OBVIOUS
  <2> QED  BY <2>1, <2>2, Zenon
<1>2. PICK k \in T : \A j \in T : k <= j
  BY <1>1, NatMin
<1>3. PICK n \in S : k = N - n
  OBVIOUS
<1>4. \A m \in S : m <= n
  <2> TAKE m \in S
  <2>1. N - m \in T
    BY <1>1
  <2>2. N - n <= N - m
    BY <1>2, <1>3, <2>1
  <2>3. n \in 0 .. N /\ m \in 0 .. N
    OBVIOUS
  <2> QED  BY <2>2, <2>3
<1>5. Greatest(S, none) = CHOOSE i \in S : \A m \in S : m <= i
  BY DEF Greatest
<1> QED  BY <1>4, <1>5, Zenon

\* What RowOf finds.
LEMMA RowFacts ==
    ASSUME NEW s, s.MaxMode \in Nat, NEW size
    PROVE  /\ RowOf(s, size) \in 0 .. s.MaxMode
           /\ RowOf(s, size) < s.MaxMode => SizeOf(s, RowOf(s, size)) = size
           /\ \A n \in 0 .. s.MaxMode - 1 : SizeOf(s, n) = size => RowOf(s, size) <= n
<1> DEFINE S == {n \in 0 .. s.MaxMode - 1 : SizeOf(s, n) = size} \union {s.MaxMode}
<1>1. /\ S \in SUBSET Nat /\ S # {}
      /\ \A n \in S : n \in 0 .. s.MaxMode
      /\ \A n \in S : n < s.MaxMode => SizeOf(s, n) = size
      /\ \A n \in 0 .. s.MaxMode - 1 : SizeOf(s, n) = size => n \in S
  OBVIOUS
<1>2. RowOf(s, size) = Least(S)
  BY DEF RowOf
<1> HIDE DEF S
<1>3. Least(S) \in S /\ \A n \in S : Least(S) <= n
  BY <1>1, LeastFacts
<1> DEFINE r == RowOf(s, size)
<1>4. r \in S /\ \A n \in S : r <= n
  BY <1>2, <1>3, Zenon
<1> HIDE DEF r
<1>5. /\ r \in 0 .. s.MaxMode /\ (r < s.MaxMode => SizeOf(s, r) = size)
      /\ \A n \in 0 .. s.MaxMode - 1 : SizeOf(s, n) = size => r <= n
  BY <1>1, <1>4, Zenon
<1> QED  BY <1>5, Zenon DEF r

\* A match is a mode of the device with the size of the row.
LEMMA MatchFacts ==
    ASSUME NEW s, s.MaxMode \in Nat, NEW d \in Devices, NEW n \in 0 .. s.MaxMode - 1,
           NEW m \in Matches(s, d, n)
    PROVE  /\ m \in DOMAIN TextModes[d] /\ Supports(d, m)
           /\ RowOf(s, TextModes[d][m]) = n /\ SizeOf(s, n) = TextModes[d][m]
<1>1. m \in DOMAIN TextModes[d] /\ Supports(d, m) /\ RowOf(s, TextModes[d][m]) = n
  BY DEF Matches
<1>2. n < s.MaxMode
  OBVIOUS
<1> QED  BY <1>1, <1>2, RowFacts

LEMMA MatchExists ==
    ASSUME NEW s, s.MaxMode \in Nat, NEW d \in Devices, NEW n \in 0 .. s.MaxMode - 1,
           NEW none
    PROVE  Matches(s, d, n) # {} => Greatest(Matches(s, d, n), none) \in Matches(s, d, n)
<1>1. DOMAIN TextModes[d] = 0 .. ModeCount(d) - 1 /\ ModeCount(d) \in Nat /\ ModeCount(d) >= 2
  BY DeviceFacts
<1>2. Matches(s, d, n) \subseteq DOMAIN TextModes[d]
  BY DEF Matches
<1>3. ModeCount(d) - 1 \in Nat
  BY <1>1
<1> QED  BY <1>1, <1>2, <1>3, GreatestFacts

\* The column of a further device: where it has a mode, the mode has the size of the
\* row; and modes of different rows, but the second, are different.
LEMMA ColumnFacts ==
    ASSUME NEW s, NEW f \in Devices, NEW d \in Devices,
           Rows(s), QueryData(s, f), FirstColumn(s, f),
           s.CurrentNumberOfConsoles \in DOMAIN s.TextOutList,
           Unused(s, s.CurrentNumberOfConsoles),
           s.CurrentNumberOfConsoles \in Nat,
           Supports(d, 1) \/ s.TextOutQueryData[1] = Unsupported
    PROVE  LET c == ColumnOf(s, d)
               rows == 0 .. s.MaxMode - 1
           IN  /\ DOMAIN c = rows
               /\ \A n \in rows : c[n] \in {-1} \union DOMAIN TextModes[d]
               /\ \A n \in rows : n # 1 /\ c[n] # -1 =>
                     /\ Supports(d, c[n]) /\ TextModes[d][c[n]] = SizeOf(s, n)
                     /\ c[n] \in DOMAIN TextModes[d] \ {1}
                     /\ RowOf(s, TextModes[d][c[n]]) = n
               /\ c[0] # -1
               /\ SizeOf(s, 1) # Unsupported =>
                     Supports(d, c[1]) /\ TextModes[d][c[1]] = SizeOf(s, 1)
<1> DEFINE c == ColumnOf(s, d)
           rows == 0 .. s.MaxMode - 1
           K == s.CurrentNumberOfConsoles
           M(n) == Matches(s, d, n)
<1>1. s.MaxMode \in Nat /\ s.MaxMode >= 2 /\ 0 \in rows /\ 1 \in rows
  BY DEF Rows
<1>2. DOMAIN c = rows /\ \A n \in rows :
        c[n] = IF n = 1 /\ ~Supports(d, 1) THEN 1
               ELSE Greatest(M(n), s.TextOutModeMap[n][K])
  BY DEF ColumnOf
<1> HIDE DEF c
<1>3. \A n \in rows : s.TextOutModeMap[n][K] = -1
  <2>1. K >= K
    OBVIOUS
  <2> QED  BY <2>1 DEF Unused
<1>4. \A n \in rows : \A none :
        /\ M(n) = {} => Greatest(M(n), none) = none
        /\ M(n) # {} => Greatest(M(n), none) \in M(n)
  <2> TAKE n \in rows
  <2> TAKE none
  <2>1. M(n) = {} => Greatest(M(n), none) = none
    BY Zenon DEF Greatest
  <2>2. M(n) # {} => Greatest(M(n), none) \in M(n)
    BY <1>1, MatchExists
  <2> QED  BY <2>1, <2>2
<1>5. \A n \in rows : \A m \in M(n) :
        /\ m \in DOMAIN TextModes[d] /\ Supports(d, m)
        /\ RowOf(s, TextModes[d][m]) = n /\ SizeOf(s, n) = TextModes[d][m]
  BY <1>1, MatchFacts
<1>6. \A n \in rows : n # 1 => (c[n] = -1 /\ M(n) = {}) \/ c[n] \in M(n)
  BY <1>2, <1>3, <1>4, Zenon
<1>7. Supports(d, 1) => (c[1] = -1 /\ M(1) = {}) \/ c[1] \in M(1)
  BY <1>1, <1>2, <1>3, <1>4, Zenon
<1>8. ~Supports(d, 1) => c[1] = 1
  BY <1>1, <1>2, Zenon
<1>9. /\ SizeOf(s, 0) = BaseSize
      /\ SizeOf(s, 1) = s.TextOutQueryData[1] /\ SizeOf(s, 1) \in {TextModes[f][1], Unsupported}
      /\ \A n \in rows : n # 1 =>
           /\ s.TextOutModeMap[n][0] \in DOMAIN TextModes[f]
           /\ s.TextOutModeMap[n][0] # 1
           /\ SizeOf(s, n) = TextModes[f][s.TextOutModeMap[n][0]]
           /\ SizeOf(s, n) # Unsupported
  BY SizeFacts
<1>10. \A n \in rows : c[n] \in {-1} \union DOMAIN TextModes[d]
  <2> TAKE n \in rows
  <2>1. CASE n # 1
    BY <1>5, <1>6, <2>1, Zenon
  <2>2. CASE n = 1
    <3>1. 1 \in DOMAIN TextModes[d]
      BY DeviceFacts
    <3> QED  BY <1>1, <1>5, <1>7, <1>8, <2>2, <3>1, Zenon
  <2> QED  BY <2>1, <2>2
<1>11. \A n \in rows : n # 1 /\ c[n] # -1 =>
         /\ Supports(d, c[n]) /\ TextModes[d][c[n]] = SizeOf(s, n)
         /\ c[n] \in DOMAIN TextModes[d] \ {1}
         /\ RowOf(s, TextModes[d][c[n]]) = n
  <2> SUFFICES ASSUME NEW n \in rows, n # 1, c[n] # -1
               PROVE  /\ Supports(d, c[n]) /\ TextModes[d][c[n]] = SizeOf(s, n)
                      /\ c[n] \in DOMAIN TextModes[d] \ {1}
                      /\ RowOf(s, TextModes[d][c[n]]) = n
    BY Zenon
  <2>1. c[n] \in M(n)
    BY <1>6, Zenon
  <2>2. /\ c[n] \in DOMAIN TextModes[d] /\ Supports(d, c[n])
        /\ RowOf(s, TextModes[d][c[n]]) = n /\ SizeOf(s, n) = TextModes[d][c[n]]
    BY <1>5, <2>1, Zenon
  <2>3. c[n] # 1
    <3> SUFFICES ASSUME c[n] = 1
                 PROVE  FALSE
      OBVIOUS
    <3> DEFINE m == s.TextOutModeMap[n][0]
    <3>1. /\ m \in DOMAIN TextModes[f] /\ m # 1 /\ SizeOf(s, n) = TextModes[f][m]
          /\ TextModes[f][m] # Unsupported
      BY <1>9, Zenon
    <3>2. Supports(f, m)
      BY <3>1, Zenon DEF Supports
    <3>3. TextModes[f][m] = TextModes[d][1] /\ Supports(d, 1)
      BY <2>2, <3>1, Zenon
    <3> HIDE DEF m
    <3> QED  BY <3>1, <3>2, <3>3, SharedSize
  <2> QED  BY <2>2, <2>3, Zenon
<1>12. c[0] # -1
  <2>1. /\ 0 \in DOMAIN TextModes[d] /\ Supports(d, 0) /\ TextModes[d][0] = BaseSize
    BY DeviceFacts
  <2>2. RowOf(s, BaseSize) \in 0 .. s.MaxMode /\ RowOf(s, BaseSize) <= 0
    BY <1>1, <1>9, RowFacts
  <2>3. RowOf(s, BaseSize) = 0
    BY <1>1, <2>2
  <2>4. 0 \in M(0)
    BY <2>1, <2>3, Zenon DEF Matches
  <2>5. c[0] \in M(0)
    BY <1>1, <1>6, <2>4
  <2>6. c[0] \in Nat
    BY <1>1, <1>5, <2>5, DeviceFacts
  <2> QED  BY <2>6
<1>13. ASSUME SizeOf(s, 1) # Unsupported
       PROVE  Supports(d, c[1]) /\ TextModes[d][c[1]] = SizeOf(s, 1)
  <2>1. Supports(d, 1) /\ SizeOf(s, 1) = TextModes[f][1]
    BY <1>9, <1>13, Zenon
  <2>2. 1 \in DOMAIN TextModes[f] /\ 1 \in DOMAIN TextModes[d] /\ 0 \in DOMAIN TextModes[f]
        /\ Supports(f, 0)
    BY DeviceFacts
  <2>3. Supports(f, 1)
    BY <1>13, <2>1, <2>2, Zenon DEF Supports
  <2>4. TextModes[d][1] = TextModes[f][1]
    BY <2>1, <2>2, <2>3, SharedSize
  <2>5. SizeOf(s, 0) # TextModes[f][1]
    <3>1. TextModes[f][0] # TextModes[f][1]
      BY <2>2, <2>3, SharedSize
    <3> QED  BY <1>9, <3>1, DeviceFacts
  <2>6. RowOf(s, TextModes[d][1]) = 1
    <3> DEFINE r == RowOf(s, TextModes[d][1])
    <3>1. r \in 0 .. s.MaxMode /\ r <= 1 /\ (r < s.MaxMode => SizeOf(s, r) = TextModes[d][1])
      BY <1>1, <2>1, <2>4, RowFacts
    <3>2. r # 0
      BY <1>1, <2>4, <2>5, <3>1
    <3> QED  BY <1>1, <3>1, <3>2
  <2>7. 1 \in M(1)
    BY <2>1, <2>2, <2>6, Zenon DEF Matches
  <2>8. c[1] \in M(1)
    BY <1>7, <2>1, <2>7, Zenon
  <2> QED  BY <1>1, <1>5, <2>8, Zenon
<1> QED  BY <1>2, <1>10, <1>11, <1>12, <1>13 DEF c

LEMMA ThinnedBase ==
    ASSUME NEW s, NEW t, NEW column, NEW f, s.TextOutList[0] \in Devices,
           Base(s), Thinned(t, s, column), IsThinning(f, t, s, column)
    PROVE  /\ Base(t)
           /\ \A i \in 0 .. t.MaxMode - 1 :
                f[i] \in 0 .. s.MaxMode - 1 /\ SizeOf(t, i) = SizeOf(s, f[i])
<1> DEFINE d == s.TextOutList[0]
<1>1. /\ Rows(s) /\ QueryData(s, d) /\ FirstColumn(s, d)
  BY DEF Base
<1>2. /\ t.TextOutList = s.TextOutList /\ t.TextOutQueryDataCount = s.TextOutQueryDataCount
      /\ t.TextOutQueryData = s.TextOutQueryData /\ t.MaxMode \in 2 .. s.MaxMode
      /\ DOMAIN t.TextOutModeMap = 0 .. t.MaxMode - 1
  BY DEF Thinned, SameConsoles
<1>3. /\ s.MaxMode \in Nat /\ s.MaxMode >= 2 /\ s.MaxMode <= s.TextOutQueryDataCount
      /\ s.TextOutQueryDataCount \in Nat
      /\ \A n \in 0 .. s.MaxMode - 1 : DOMAIN s.TextOutModeMap[n] = DOMAIN s.TextOutList
  BY <1>1 DEF Rows
<1>4. /\ f[0] = 0 /\ f[1] = 1
      /\ \A i \in 0 .. t.MaxMode - 1 : /\ f[i] \in 0 .. s.MaxMode - 1
                                       /\ i >= 2 => f[i] >= 2
                                       /\ t.TextOutModeMap[i] = s.TextOutModeMap[f[i]]
  BY DEF IsThinning
<1>5. t.MaxMode \in Nat /\ t.MaxMode >= 2 /\ 0 \in 0 .. t.MaxMode - 1 /\ 1 \in 0 .. t.MaxMode - 1
  BY <1>2, <1>3
<1>6. Rows(t)
  <2>1. t.MaxMode <= t.TextOutQueryDataCount
    BY <1>2, <1>3
  <2>2. \A n \in 0 .. t.MaxMode - 1 : DOMAIN t.TextOutModeMap[n] = DOMAIN t.TextOutList
    BY <1>2, <1>3, <1>4, Zenon
  <2> QED  BY <1>2, <1>3, <1>5, <2>1, <2>2 DEF Rows
<1>7. QueryData(t, d)
  BY <1>1, <1>2 DEF QueryData
<1>8. FirstColumn(t, d)
  <2>1. t.TextOutModeMap[0] = s.TextOutModeMap[0] /\ t.TextOutModeMap[1] = s.TextOutModeMap[1]
    BY <1>4, <1>5
  <2>2. \A n \in 2 .. t.MaxMode - 1 :
          f[n] \in 2 .. s.MaxMode - 1 /\ t.TextOutModeMap[n] = s.TextOutModeMap[f[n]]
    <3> TAKE n \in 2 .. t.MaxMode - 1
    <3>1. n \in 0 .. t.MaxMode - 1 /\ n >= 2
      BY <1>5
    <3> QED  BY <1>3, <1>4, <3>1
  <2>3. /\ s.TextOutModeMap[0][0] = 0 /\ s.TextOutModeMap[1][0] = 1
        /\ \A n \in 2 .. s.MaxMode - 1 : /\ s.TextOutModeMap[n][0] \in DOMAIN TextModes[d]
                                         /\ s.TextOutModeMap[n][0] >= 2
    BY <1>1, Zenon DEF FirstColumn
  <2>4. \A n \in 2 .. t.MaxMode - 1 : /\ t.TextOutModeMap[n][0] \in DOMAIN TextModes[d]
                                      /\ t.TextOutModeMap[n][0] >= 2
    BY <2>2, <2>3, Zenon
  <2> HIDE DEF d
  <2> QED  BY <2>1, <2>3, <2>4 DEF FirstColumn
<1>9. Base(t)
  BY <1>2, <1>6, <1>7, <1>8 DEF Base
<1>10. \A i \in 0 .. t.MaxMode - 1 : SizeOf(t, i) = SizeOf(s, f[i])
  <2>1. \A i \in 0 .. t.MaxMode - 1 : SizeOf(t, i) = t.TextOutQueryData[t.TextOutModeMap[i][0]]
    BY <1>6, <1>7, <1>8, SizeFacts
  <2>2. \A i \in 0 .. s.MaxMode - 1 : SizeOf(s, i) = s.TextOutQueryData[s.TextOutModeMap[i][0]]
    BY <1>1, SizeFacts
  <2> QED  BY <1>2, <1>4, <2>1, <2>2, Zenon
<1> QED  BY <1>4, <1>9, <1>10, Zenon

LEMMA ThinnedColumn ==
    ASSUME NEW s, NEW t, NEW column, NEW f, s.TextOutList[0] \in Devices,
           Base(s), Thinned(t, s, column), IsThinning(f, t, s, column),
           NEW k, NEW d \in Devices, Column(s, k, d)
    PROVE  Column(t, k, d)
<1>1. \A i \in 0 .. t.MaxMode - 1 :
        f[i] \in 0 .. s.MaxMode - 1 /\ SizeOf(t, i) = SizeOf(s, f[i])
  BY ThinnedBase
<1>2. \A i \in 0 .. t.MaxMode - 1 : t.TextOutModeMap[i] = s.TextOutModeMap[f[i]]
  BY DEF IsThinning
<1>3. t.MaxMode <= ModeCount(d)
  <2>1. s.MaxMode \in Nat /\ t.MaxMode \in 2 .. s.MaxMode
    BY DEF Thinned, Base, Rows
  <2>2. s.MaxMode <= ModeCount(d) /\ ModeCount(d) \in Nat
    BY DeviceFacts DEF Column
  <2> QED  BY <2>1, <2>2
<1>4. \A n \in 0 .. s.MaxMode - 1 :
         /\ s.TextOutModeMap[n][k] \in {-1} \union DOMAIN TextModes[d]
         /\ SizeOf(s, n) # Unsupported =>
              /\ Supports(d, s.TextOutModeMap[n][k])
              /\ TextModes[d][s.TextOutModeMap[n][k]] = SizeOf(s, n)
  BY Zenon DEF Column
<1>5. \A n \in 0 .. t.MaxMode - 1 :
         /\ t.TextOutModeMap[n][k] \in {-1} \union DOMAIN TextModes[d]
         /\ SizeOf(t, n) # Unsupported =>
              /\ Supports(d, t.TextOutModeMap[n][k])
              /\ TextModes[d][t.TextOutModeMap[n][k]] = SizeOf(t, n)
  <2> TAKE n \in 0 .. t.MaxMode - 1
  <2>1. f[n] \in 0 .. s.MaxMode - 1 /\ SizeOf(t, n) = SizeOf(s, f[n])
        /\ t.TextOutModeMap[n][k] = s.TextOutModeMap[f[n]][k]
    BY <1>1, <1>2, Zenon
  <2> QED  BY <1>4, <2>1, Zenon
<1> QED  BY <1>3, <1>5, Zenon DEF Column

LEMMA ThinnedUnused ==
    ASSUME NEW s, NEW t, NEW column, NEW f, NEW n, Unused(s, n),
           Thinned(t, s, column), IsThinning(f, t, s, column)
    PROVE  Unused(t, n)
<1>1. t.TextOutList = s.TextOutList
  BY DEF Thinned, SameConsoles
<1>2. \A i \in 0 .. t.MaxMode - 1 :
        f[i] \in 0 .. s.MaxMode - 1 /\ t.TextOutModeMap[i] = s.TextOutModeMap[f[i]]
  BY DEF IsThinning
<1>3. ASSUME NEW i \in 0 .. t.MaxMode - 1, NEW k \in DOMAIN s.TextOutList, k >= n
      PROVE  t.TextOutModeMap[i][k] = -1
  <2>1. f[i] \in 0 .. s.MaxMode - 1 /\ t.TextOutModeMap[i] = s.TextOutModeMap[f[i]]
    BY <1>2
  <2>2. s.TextOutModeMap[f[i]][k] = -1
    BY <1>3, <2>1, Zenon DEF Unused
  <2> QED  BY <2>1, <2>2
<1> QED  BY <1>1, <1>3 DEF Unused

\* Modes that are removed leave a table of the others.
LEMMA ThinnedTable ==
    ASSUME NEW s, NEW t, NEW column, NEW n \in Nat, n >= 1, Listed(s, n), Table(s, n),
           Thinned(t, s, column)
    PROVE  Listed(t, n) /\ Table(t, n)
<1>1. PICK f : IsThinning(f, t, s, column)
  BY DEF Thinned
<1>2. \A k \in 0 .. n - 1 : s.TextOutList[k] \in Devices
  BY DEF Listed
<1>3. s.TextOutList[0] \in Devices
  BY <1>2
<1>4. Base(s) /\ Unused(s, n) /\ \A k \in 0 .. n - 1 : Column(s, k, s.TextOutList[k])
  BY DEF Table
<1>5. Base(t) /\ Unused(t, n)
  BY <1>1, <1>3, <1>4, ThinnedBase, ThinnedUnused
<1>6. t.TextOutList = s.TextOutList /\ DOMAIN t = SplitterFields
  BY DEF Thinned, SameConsoles
<1>7. \A k \in 0 .. n - 1 : Column(t, k, s.TextOutList[k])
  BY <1>1, <1>2, <1>3, <1>4, ThinnedColumn
<1>8. Listed(t, n)
  BY <1>6 DEF Listed, TextOutListCount
<1> QED  BY <1>5, <1>6, <1>7, <1>8 DEF Table

\* How many places there are after a growth.
LEMMA GrownFacts ==
    ASSUME NEW count \in Nat, NEW need \in Nat
    PROVE  /\ Grown(count, need) \in Nat
           /\ Grown(count, need) >= need /\ Grown(count, need) >= count
<1>1. Unit \in Nat \ {0}
  BY OutAssumption
<1>2. CASE need <= count
  BY <1>2 DEF Grown
<1>3. CASE ~(need <= count)
  <2> DEFINE x == need - count + Unit - 1
             q == x \div Unit
  <2>1. x \in Nat
    BY <1>1, <1>3
  <2>2. Grown(count, need) = count + Unit * q
    BY <1>3, Zenon DEF Grown
  <2>3. x = need - count + Unit - 1
    OBVIOUS
  <2> HIDE DEF x
  <2>4. q \in Nat /\ x % Unit \in 0 .. Unit - 1 /\ x = Unit * q + (x % Unit)
    BY <1>1, <2>1, Remainder
  <2> HIDE DEF q
  <2> DEFINE y == Unit * q
             r == x % Unit
  <2>5. y \in Nat
    BY <1>1, <2>4
  <2>6. r \in 0 .. Unit - 1 /\ x = y + r /\ Grown(count, need) = count + y
    BY <2>2, <2>4
  <2> HIDE DEF y, r
  <2> QED  BY <1>1, <1>3, <2>3, <2>5, <2>6
<1> QED  BY <1>2, <1>3

LEMMA ColumnSet ==
    ASSUME NEW table, NEW k, NEW column, NEW t, t = WithColumn(table, k, column)
    PROVE  /\ DOMAIN t = DOMAIN table
           /\ \A n \in DOMAIN table : DOMAIN t[n] = DOMAIN table[n]
           /\ \A n \in DOMAIN table : \A i \in DOMAIN table[n] :
                t[n][i] = IF n \in DOMAIN column /\ i = k THEN column[n] ELSE table[n][i]
BY DEF WithColumn

\* What a new table leaves alone.
SamePlaces(t, s) ==
    /\ DOMAIN t = SplitterFields
    /\ t.TextOutList = s.TextOutList /\ t.Cursor = s.Cursor /\ t.Mode = s.Mode
    /\ t.CurrentNumberOfConsoles = s.CurrentNumberOfConsoles
    /\ t.CurrentNumberOfGraphicsOutput = s.CurrentNumberOfGraphicsOutput

\* The table of the first device alone.
LEMMA AddOutputModeTable ==
    ASSUME NEW s, Listed(s, 1), s.TextOutQueryDataCount \in Nat
    PROVE  LET t == AddOutputMode(s, s.TextOutList[0])
           IN  /\ SamePlaces(t, s) /\ Table(t, 1)
               /\ t.MaxMode = ModeCount(s.TextOutList[0])
<1> DEFINE d == s.TextOutList[0]
           max == ModeCount(d)
           none == [s EXCEPT !.MaxMode = max, !.TextOutModeMap = << >>]
           empty == GrowMapTable(none)
           modes == TextModes[d]
           numbers == [n \in DOMAIN modes |-> n]
           map == WithColumn(empty.TextOutModeMap, 0, numbers)
           count == Grown(s.TextOutQueryDataCount, max)
           t == AddOutputMode(s, d)
<1>1. /\ DOMAIN s = SplitterFields /\ TextOutListCount(s) \in Nat \ {0}
      /\ DOMAIN s.TextOutList = 0 .. TextOutListCount(s) - 1
      /\ d \in Devices /\ 0 \in DOMAIN s.TextOutList
  BY DEF Listed
<1> HIDE DEF d
<1>2. /\ max \in Nat /\ max >= 2 /\ DOMAIN modes = 0 .. max - 1
      /\ 0 \in DOMAIN modes /\ 1 \in DOMAIN modes
      /\ \A n \in DOMAIN modes : n # 1 => modes[n] # Unsupported
  BY <1>1, DeviceFacts
<1> HIDE DEF modes, max
<1>3. /\ none.TextOutModeMap = << >> /\ none.MaxMode = max /\ DOMAIN none = SplitterFields
      /\ none.TextOutList = s.TextOutList /\ none.Cursor = s.Cursor /\ none.Mode = s.Mode
      /\ none.CurrentNumberOfConsoles = s.CurrentNumberOfConsoles
      /\ none.CurrentNumberOfGraphicsOutput = s.CurrentNumberOfGraphicsOutput
  BY <1>1 DEF SplitterFields
<1> HIDE DEF none
<1>4. /\ empty.TextOutModeMap = [n \in 0 .. max - 1 |-> [k \in DOMAIN s.TextOutList |-> -1]]
      /\ DOMAIN empty = SplitterFields /\ empty.MaxMode = max
      /\ empty.TextOutList = s.TextOutList /\ empty.Cursor = s.Cursor /\ empty.Mode = s.Mode
      /\ empty.CurrentNumberOfConsoles = s.CurrentNumberOfConsoles
      /\ empty.CurrentNumberOfGraphicsOutput = s.CurrentNumberOfGraphicsOutput
  <2> DEFINE new == [n \in 0 .. none.MaxMode - 1 |->
                       [k \in DOMAIN none.TextOutList |->
                          IF none.TextOutModeMap # << >> /\ k \in Columns(none)
                          THEN none.TextOutModeMap[n][k] ELSE -1]]
  <2>1. empty = [none EXCEPT !.TextOutModeMap = new]
    BY DEF GrowMapTable
  <2>2. new = [n \in 0 .. max - 1 |-> [k \in DOMAIN s.TextOutList |-> -1]]
    BY <1>3, Zenon
  <2> HIDE DEF new, empty
  <2> QED  BY <1>3, <2>1, <2>2 DEF SplitterFields
<1> HIDE DEF empty
<1>5. /\ SamePlaces(t, s) /\ t.MaxMode = max /\ t.TextOutModeMap = map
      /\ t.TextOutQueryData = modes /\ t.TextOutQueryDataCount = count
  <2> HIDE DEF map, count
  <2>1. t = [empty EXCEPT !.TextOutQueryData = modes, !.TextOutQueryDataCount = count,
                          !.TextOutModeMap = map]
    BY Zenon DEF AddOutputMode, modes, map, count, empty, none, max, numbers
  <2> HIDE DEF t
  <2> QED  BY <1>4, <2>1 DEF SplitterFields, SamePlaces
<1> HIDE DEF t
<1>6. count \in Nat /\ max <= count
  BY <1>2, GrownFacts
<1> HIDE DEF count
<1>7. /\ DOMAIN map = 0 .. max - 1
      /\ \A n \in 0 .. max - 1 :
           /\ DOMAIN map[n] = DOMAIN s.TextOutList
           /\ \A k \in DOMAIN s.TextOutList : map[n][k] = IF k = 0 THEN n ELSE -1
  <2>1. /\ DOMAIN empty.TextOutModeMap = 0 .. max - 1
        /\ \A n \in 0 .. max - 1 :
             /\ DOMAIN empty.TextOutModeMap[n] = DOMAIN s.TextOutList
             /\ \A k \in DOMAIN s.TextOutList : empty.TextOutModeMap[n][k] = -1
    BY <1>4
  <2>2. DOMAIN numbers = 0 .. max - 1 /\ \A n \in 0 .. max - 1 : numbers[n] = n
    BY <1>2
  <2>3. /\ DOMAIN map = DOMAIN empty.TextOutModeMap
        /\ \A n \in DOMAIN empty.TextOutModeMap : DOMAIN map[n] = DOMAIN empty.TextOutModeMap[n]
        /\ \A n \in DOMAIN empty.TextOutModeMap : \A i \in DOMAIN empty.TextOutModeMap[n] :
             map[n][i] = IF n \in DOMAIN numbers /\ i = 0 THEN numbers[n]
                         ELSE empty.TextOutModeMap[n][i]
    BY ColumnSet
  <2> HIDE DEF map, numbers
  <2>4. \A n \in 0 .. max - 1 : DOMAIN map[n] = DOMAIN s.TextOutList
    BY <2>1, <2>3
  <2>5. ASSUME NEW n \in 0 .. max - 1, NEW k \in DOMAIN s.TextOutList
        PROVE  map[n][k] = IF k = 0 THEN n ELSE -1
    <3>1. map[n][k] = IF n \in DOMAIN numbers /\ k = 0 THEN numbers[n]
                      ELSE empty.TextOutModeMap[n][k]
      BY <2>1, <2>3, Zenon
    <3> QED  BY <2>1, <2>2, <3>1
  <2> QED  BY <2>1, <2>3, <2>4, <2>5
<1> HIDE DEF map
<1>8. t.TextOutList = s.TextOutList /\ t.TextOutList[0] = d
  BY <1>5 DEF SamePlaces, d
<1>9. Rows(t)
  BY <1>2, <1>5, <1>6, <1>7, <1>8 DEF Rows
<1>10. QueryData(t, d)
  BY <1>5, Zenon DEF QueryData, modes
<1>11. FirstColumn(t, d)
  <2>1. \A n \in 0 .. max - 1 : t.TextOutModeMap[n][0] = n
    BY <1>1, <1>5, <1>7
  <2>2. \A n \in 2 .. max - 1 : n \in 0 .. max - 1 /\ n >= 2 /\ n \in DOMAIN TextModes[d]
    BY <1>2 DEF modes
  <2>3. 0 \in 0 .. max - 1 /\ 1 \in 0 .. max - 1
    BY <1>2
  <2> QED  BY <1>5, <2>1, <2>2, <2>3 DEF FirstColumn
<1>12. Unused(t, 1)
  <2>1. \A k \in DOMAIN s.TextOutList : k >= 1 => k # 0
    OBVIOUS
  <2> QED  BY <1>5, <1>7, <1>8, <2>1 DEF Unused
<1>13. Column(t, 0, d)
  <2>1. \A n \in 0 .. max - 1 : t.TextOutModeMap[n][0] = n /\ n \in DOMAIN TextModes[d]
    BY <1>1, <1>2, <1>5, <1>7 DEF modes
  <2>2. \A n \in 0 .. max - 1 : SizeOf(t, n) = TextModes[d][n]
    <3>1. \A n \in 0 .. t.MaxMode - 1 :
             SizeOf(t, n) = t.TextOutQueryData[t.TextOutModeMap[n][0]]
      BY <1>1, <1>9, <1>10, <1>11, SizeFacts
    <3> QED  BY <1>5, <2>1, <3>1 DEF modes
  <2>3. t.MaxMode <= ModeCount(d)
    BY <1>2, <1>5 DEF max
  <2> QED  BY <1>5, <2>1, <2>2, <2>3, Zenon DEF Column, Supports
<1>14. \A k \in 0 .. 1 - 1 : Column(t, k, t.TextOutList[k])
  BY <1>8, <1>13
<1>15. Table(t, 1)
  BY <1>8, <1>9, <1>10, <1>11, <1>12, <1>14 DEF Table, Base
<1> QED  BY <1>5, <1>15 DEF t, d, max

\* Rows other than the second have different modes of a device; so there are not more
\* of them than the device has modes.
IsChoice(g, rows, modes) ==
    /\ \A i \in 0 .. rows - 1 : i # 1 => g[i] \in (0 .. modes - 1) \ {1}
    /\ \A i, j \in 0 .. rows - 1 : i # 1 /\ j # 1 /\ g[i] = g[j] => i = j

LEMMA RowsFit ==
    ASSUME NEW rows \in Nat, rows >= 2, NEW modes \in Nat, modes >= 2, NEW g,
           IsChoice(g, rows, modes)
    PROVE  rows <= modes
<1> DEFINE R == (0 .. rows - 1) \ {1}
           M == (0 .. modes - 1) \ {1}
           h == [i \in R |-> g[i]]
<1>1. /\ IsFiniteSet(0 .. rows - 1) /\ Cardinality(0 .. rows - 1) = rows
      /\ IsFiniteSet(0 .. modes - 1) /\ Cardinality(0 .. modes - 1) = modes
  <2>1. \A n \in Nat : n >= 2 => /\ 0 \in Int /\ n - 1 \in Int /\ ~(0 > n - 1)
                                 /\ (n - 1) - 0 + 1 = n
    OBVIOUS
  <2> QED  BY <2>1, FS_Interval
<1>2. 1 \in 0 .. rows - 1 /\ 1 \in 0 .. modes - 1
  OBVIOUS
<1>3. IsFiniteSet(R) /\ Cardinality(R) = rows - 1 /\ IsFiniteSet(M) /\ Cardinality(M) = modes - 1
  <2>1. \A S : IsFiniteSet(S) /\ 1 \in S =>
           IsFiniteSet(S \ {1}) /\ Cardinality(S \ {1}) = Cardinality(S) - 1
    BY FS_RemoveElement, Zenon
  <2> QED  BY <1>1, <1>2, <2>1
<1>4. h \in [R -> M]
  <2>1. \A i \in R : g[i] \in M
    <3> TAKE i \in R
    <3>1. i \in 0 .. rows - 1 /\ i # 1
      OBVIOUS
    <3> QED  BY <3>1, Zenon DEF IsChoice
  <2> HIDE DEF R, M
  <2> QED  BY <2>1
<1>5. \A i, j \in R : h[i] = h[j] => i = j
  <2> TAKE i, j \in R
  <2>1. i \in 0 .. rows - 1 /\ j \in 0 .. rows - 1 /\ i # 1 /\ j # 1
    OBVIOUS
  <2>2. h[i] = g[i] /\ h[j] = g[j]
    OBVIOUS
  <2> HIDE DEF h
  <2> QED  BY <2>1, <2>2, Zenon DEF IsChoice
<1>6. h \in Injection(R, M)
  <2> HIDE DEF h, R, M
  <2> QED  BY <1>4, <1>5, Zenon DEF Injection, IsInjective
<1>7. Cardinality(R) <= Cardinality(M)
  <2> HIDE DEF h, R, M
  <2> QED  BY <1>3, <1>6, FS_Injection
<1> HIDE DEF R, M
<1> QED  BY <1>3, <1>7

\* The table of one more device.
LEMMA SyncOutputModeTable ==
    ASSUME NEW s, NEW n \in Nat, n >= 1, n = s.CurrentNumberOfConsoles,
           Listed(s, n + 1), Table(s, n)
    PROVE  LET t == SyncOutputMode(s, s.TextOutList[n])
           IN  /\ SameConsoles(t, s) /\ ModeFollows(t, s) /\ t.MaxMode \in 2 .. s.MaxMode
               /\ Table(t, n + 1)
<1> DEFINE f == s.TextOutList[0]
           d == s.TextOutList[n]
           lost == [s EXCEPT !.TextOutQueryData[1] = Unsupported]
           u == IF Supports(d, 1) THEN s ELSE lost
           column == ColumnOf(u, d)
           map == WithColumn(u.TextOutModeMap, n, column)
           v == [u EXCEPT !.TextOutModeMap = map]
           t == SyncOutputMode(s, d)
<1>1. /\ DOMAIN s = SplitterFields /\ f \in Devices /\ d \in Devices
      /\ n \in DOMAIN s.TextOutList /\ 0 \in DOMAIN s.TextOutList
      /\ TextOutListCount(s) \in Nat \ {0}
      /\ DOMAIN s.TextOutList = 0 .. TextOutListCount(s) - 1
      /\ \A k \in 0 .. n : s.TextOutList[k] \in Devices
  BY DEF Listed
<1>2. /\ Base(s) /\ Unused(s, n) /\ \A k \in 0 .. n - 1 : Column(s, k, s.TextOutList[k])
      /\ Rows(s) /\ QueryData(s, f) /\ FirstColumn(s, f)
  BY DEF Table, Base
<1>3. t = GetIntersection(v, column)
  BY Zenon DEF SyncOutputMode
<1> HIDE DEF t, f, d
<1>4. 1 \in DOMAIN TextModes[f] /\ DOMAIN TextModes[f] \subseteq Nat
  BY <1>1, DeviceFacts
<1>5. /\ DOMAIN u = SplitterFields
      /\ u.TextOutList = s.TextOutList /\ u.Cursor = s.Cursor /\ u.Mode = s.Mode
      /\ u.CurrentNumberOfConsoles = n /\ u.MaxMode = s.MaxMode
      /\ u.CurrentNumberOfGraphicsOutput = s.CurrentNumberOfGraphicsOutput
      /\ u.TextOutQueryDataCount = s.TextOutQueryDataCount
      /\ u.TextOutModeMap = s.TextOutModeMap
      /\ DOMAIN u.TextOutQueryData = DOMAIN s.TextOutQueryData
      /\ \A m \in DOMAIN s.TextOutQueryData : m # 1 =>
           u.TextOutQueryData[m] = s.TextOutQueryData[m]
      /\ u.TextOutQueryData[1] \in {s.TextOutQueryData[1], Unsupported}
      /\ Supports(d, 1) \/ u.TextOutQueryData[1] = Unsupported
  <2>1. CASE Supports(d, 1)
    BY <1>1, <2>1
  <2>2. CASE ~Supports(d, 1)
    <3>1. lost.TextOutQueryData = [s.TextOutQueryData EXCEPT ![1] = Unsupported]
      BY <1>1 DEF SplitterFields
    <3>2. 1 \in DOMAIN s.TextOutQueryData
      BY <1>2, <1>4 DEF QueryData
    <3>3. /\ DOMAIN lost.TextOutQueryData = DOMAIN s.TextOutQueryData
          /\ \A m \in DOMAIN s.TextOutQueryData : m # 1 =>
               lost.TextOutQueryData[m] = s.TextOutQueryData[m]
          /\ lost.TextOutQueryData[1] = Unsupported
      BY <3>1, <3>2, Zenon
    <3>4. /\ DOMAIN lost = SplitterFields
          /\ lost.TextOutList = s.TextOutList /\ lost.Cursor = s.Cursor /\ lost.Mode = s.Mode
          /\ lost.CurrentNumberOfConsoles = n /\ lost.MaxMode = s.MaxMode
          /\ lost.CurrentNumberOfGraphicsOutput = s.CurrentNumberOfGraphicsOutput
          /\ lost.TextOutQueryDataCount = s.TextOutQueryDataCount
          /\ lost.TextOutModeMap = s.TextOutModeMap
      BY <1>1 DEF SplitterFields
    <3> HIDE DEF lost
    <3> QED  BY <2>2, <3>3, <3>4
  <2> QED  BY <2>1, <2>2
<1> HIDE DEF u
<1>6. Rows(u) /\ FirstColumn(u, f)
  BY <1>2, <1>5, Zenon DEF Rows, FirstColumn
<1>7. QueryData(u, f)
  BY <1>2, <1>5, Zenon DEF QueryData
<1>8. Unused(u, n)
  BY <1>2, <1>5 DEF Unused
<1>9. /\ DOMAIN column = 0 .. s.MaxMode - 1
      /\ \A i \in 0 .. s.MaxMode - 1 : column[i] \in {-1} \union DOMAIN TextModes[d]
      /\ \A i \in 0 .. s.MaxMode - 1 : i # 1 /\ column[i] # -1 =>
            /\ Supports(d, column[i]) /\ TextModes[d][column[i]] = SizeOf(u, i)
            /\ column[i] \in DOMAIN TextModes[d] \ {1}
            /\ RowOf(u, TextModes[d][column[i]]) = i
      /\ column[0] # -1
      /\ SizeOf(u, 1) # Unsupported =>
            Supports(d, column[1]) /\ TextModes[d][column[1]] = SizeOf(u, 1)
  BY <1>1, <1>5, <1>6, <1>7, <1>8, ColumnFacts
<1> HIDE DEF column
<1>10. /\ DOMAIN map = 0 .. s.MaxMode - 1
       /\ \A i \in 0 .. s.MaxMode - 1 :
            /\ DOMAIN map[i] = DOMAIN s.TextOutList
            /\ map[i][n] = column[i]
            /\ \A k \in DOMAIN s.TextOutList : k # n => map[i][k] = s.TextOutModeMap[i][k]
  <2>1. /\ DOMAIN s.TextOutModeMap = 0 .. s.MaxMode - 1
        /\ \A i \in 0 .. s.MaxMode - 1 : DOMAIN s.TextOutModeMap[i] = DOMAIN s.TextOutList
    BY <1>2 DEF Rows
  <2>2. /\ DOMAIN map = DOMAIN u.TextOutModeMap
        /\ \A i \in DOMAIN u.TextOutModeMap : DOMAIN map[i] = DOMAIN u.TextOutModeMap[i]
        /\ \A i \in DOMAIN u.TextOutModeMap : \A k \in DOMAIN u.TextOutModeMap[i] :
             map[i][k] = IF i \in DOMAIN column /\ k = n THEN column[i]
                         ELSE u.TextOutModeMap[i][k]
    BY ColumnSet
  <2> HIDE DEF map
  <2>3. \A i \in 0 .. s.MaxMode - 1 : \A k \in DOMAIN s.TextOutList :
             map[i][k] = IF k = n THEN column[i] ELSE s.TextOutModeMap[i][k]
    BY <1>5, <1>9, <2>1, <2>2
  <2> QED  BY <1>1, <1>5, <2>1, <2>2, <2>3
<1> HIDE DEF map
<1>11. /\ DOMAIN v = SplitterFields
       /\ v.TextOutList = s.TextOutList /\ v.Cursor = s.Cursor /\ v.Mode = s.Mode
       /\ v.CurrentNumberOfConsoles = s.CurrentNumberOfConsoles /\ v.MaxMode = s.MaxMode
       /\ v.CurrentNumberOfGraphicsOutput = s.CurrentNumberOfGraphicsOutput
       /\ v.TextOutQueryDataCount = s.TextOutQueryDataCount
       /\ v.TextOutModeMap = map /\ v.TextOutQueryData = u.TextOutQueryData
  BY <1>5 DEF SplitterFields
<1> HIDE DEF v
<1>12. \A i \in 0 .. s.MaxMode - 1 : v.TextOutModeMap[i][0] = s.TextOutModeMap[i][0]
  <2>1. 0 # n
    OBVIOUS
  <2> QED  BY <1>1, <1>10, <1>11, <2>1
<1>13. s.MaxMode \in Nat /\ s.MaxMode >= 2 /\ 0 \in 0 .. s.MaxMode - 1 /\ 1 \in 0 .. s.MaxMode - 1
  BY <1>2 DEF Rows
<1>14. Rows(v)
  BY <1>2, <1>10, <1>11 DEF Rows
<1>15. QueryData(v, f)
  BY <1>7, <1>11, Zenon DEF QueryData
<1>16. FirstColumn(v, f)
  <2>1. \A i \in 2 .. s.MaxMode - 1 : i \in 0 .. s.MaxMode - 1
    OBVIOUS
  <2> QED  BY <1>2, <1>11, <1>12, <1>13, <2>1, Zenon DEF FirstColumn
<1>17. Base(v)
  BY <1>11, <1>14, <1>15, <1>16 DEF Base, f
<1>18. \A i \in 0 .. s.MaxMode - 1 :
         /\ SizeOf(v, i) = SizeOf(u, i)
         /\ SizeOf(v, i) # Unsupported => SizeOf(v, i) = SizeOf(s, i)
  <2> TAKE i \in 0 .. s.MaxMode - 1
  <2>1. SizeOf(v, i) = v.TextOutQueryData[v.TextOutModeMap[i][0]]
    BY <1>1, <1>11, <1>14, <1>15, <1>16, SizeFacts
  <2>2. SizeOf(u, i) = u.TextOutQueryData[u.TextOutModeMap[i][0]]
    BY <1>1, <1>5, <1>6, <1>7, SizeFacts
  <2>3. SizeOf(s, i) = s.TextOutQueryData[s.TextOutModeMap[i][0]]
    BY <1>1, <1>2, SizeFacts
  <2>4. SizeOf(v, i) = SizeOf(u, i)
    BY <1>5, <1>11, <1>12, <2>1, <2>2, Zenon
  <2>5. i # 1 => SizeOf(v, i) = SizeOf(s, i)
    <3>1. i # 1 => s.TextOutModeMap[i][0] \in DOMAIN s.TextOutQueryData
                   /\ s.TextOutModeMap[i][0] # 1
      BY <1>1, <1>2, SizeFacts DEF QueryData
    <3> QED  BY <1>5, <2>2, <2>3, <2>4, <3>1, Zenon
  <2>6. i = 1 => SizeOf(v, i) = Unsupported \/ SizeOf(v, i) = SizeOf(s, i)
    <3>1. i = 1 => s.TextOutModeMap[i][0] = 1
      BY <1>2, Zenon DEF FirstColumn
    <3> QED  BY <1>5, <2>2, <2>3, <2>4, <3>1
  <2> QED  BY <2>4, <2>5, <2>6, Zenon
<1>19. Thinned(t, v, column)
  BY <1>3, <1>11, <1>13, IntersectionThins
<1>20. SameConsoles(t, s) /\ ModeFollows(t, s) /\ t.MaxMode \in 2 .. s.MaxMode
  BY <1>11, <1>19, Zenon DEF Thinned, SameConsoles, ModeFollows
<1>21. PICK p : IsThinning(p, t, v, column)
  BY <1>19 DEF Thinned
<1>22. v.TextOutList[0] \in Devices
  BY <1>1, <1>11 DEF f
<1>23. /\ Base(t) /\ t.TextOutList = s.TextOutList
       /\ \A i \in 0 .. t.MaxMode - 1 :
            p[i] \in 0 .. s.MaxMode - 1 /\ SizeOf(t, i) = SizeOf(v, p[i])
  BY <1>11, <1>17, <1>19, <1>20, <1>21, <1>22, ThinnedBase DEF SameConsoles
<1>24. Unused(t, n + 1)
  <2>1. \A k \in DOMAIN s.TextOutList : k >= n + 1 => k >= n /\ k # n
    BY <1>1
  <2>2. Unused(v, n + 1)
    BY <1>2, <1>10, <1>11, <2>1 DEF Unused
  <2> QED  BY <1>19, <1>21, <2>2, ThinnedUnused
<1>25. ASSUME NEW k \in 0 .. n - 1
       PROVE  Column(t, k, s.TextOutList[k])
  <2> DEFINE e == s.TextOutList[k]
  <2>1. e \in Devices /\ k # n /\ k \in DOMAIN s.TextOutList
    BY <1>1
  <2>2. /\ s.MaxMode <= ModeCount(e)
        /\ \A i \in 0 .. s.MaxMode - 1 :
             /\ s.TextOutModeMap[i][k] \in {-1} \union DOMAIN TextModes[e]
             /\ SizeOf(s, i) # Unsupported =>
                  /\ Supports(e, s.TextOutModeMap[i][k])
                  /\ TextModes[e][s.TextOutModeMap[i][k]] = SizeOf(s, i)
    BY <1>2 DEF Column
  <2> HIDE DEF e
  <2>3. \A i \in 0 .. s.MaxMode - 1 : v.TextOutModeMap[i][k] = s.TextOutModeMap[i][k]
    BY <1>10, <1>11, <2>1
  <2>4. Column(v, k, e)
    BY <1>11, <1>18, <2>2, <2>3, Zenon DEF Column
  <2>5. Column(t, k, e)
    BY <1>17, <1>19, <1>21, <1>22, <2>1, <2>4, ThinnedColumn
  <2> QED  BY <2>5 DEF e
<1>26. Column(t, n, d)
  <2>1. /\ p[0] = 0 /\ p[1] = 1
        /\ \A i \in 0 .. t.MaxMode - 1 :
             /\ p[i] \in 0 .. s.MaxMode - 1
             /\ i >= 2 => p[i] >= 2 /\ column[p[i]] # -1
             /\ t.TextOutModeMap[i] = v.TextOutModeMap[p[i]]
        /\ \A i, j \in 0 .. t.MaxMode - 1 : p[i] = p[j] => i = j
    BY <1>11, <1>21 DEF IsThinning
  <2>2. t.MaxMode \in Nat /\ t.MaxMode >= 2 /\ 0 \in 0 .. t.MaxMode - 1 /\ 1 \in 0 .. t.MaxMode - 1
    BY <1>13, <1>20
  <2>3. \A i \in 0 .. t.MaxMode - 1 : /\ t.TextOutModeMap[i][n] = column[p[i]]
                                      /\ SizeOf(t, i) = SizeOf(u, p[i])
    BY <1>10, <1>11, <1>18, <1>23, <2>1
  <2>4. \A i \in 0 .. t.MaxMode - 1 : i # 1 => p[i] # 1 /\ column[p[i]] # -1
    <3> SUFFICES ASSUME NEW i \in 0 .. t.MaxMode - 1, i # 1
                 PROVE  p[i] # 1 /\ column[p[i]] # -1
      OBVIOUS
    <3>1. i = 0 \/ i >= 2
      BY <2>2
    <3>2. CASE i = 0
      BY <1>9, <2>1, <3>2
    <3>3. CASE i >= 2
      <4>1. p[i] >= 2 /\ column[p[i]] # -1
        BY <2>1, <3>3
      <4>2. p[i] # 1
        BY <4>1
      <4> QED  BY <4>1, <4>2
    <3> QED  BY <3>1, <3>2, <3>3
  <2>5. \A i \in 0 .. t.MaxMode - 1 :
          /\ t.TextOutModeMap[i][n] \in {-1} \union DOMAIN TextModes[d]
          /\ SizeOf(t, i) # Unsupported =>
               /\ Supports(d, t.TextOutModeMap[i][n])
               /\ TextModes[d][t.TextOutModeMap[i][n]] = SizeOf(t, i)
    <3> TAKE i \in 0 .. t.MaxMode - 1
    <3>1. CASE i # 1
      <4>1. /\ p[i] \in 0 .. s.MaxMode - 1 /\ p[i] # 1 /\ column[p[i]] # -1
            /\ t.TextOutModeMap[i][n] = column[p[i]] /\ SizeOf(t, i) = SizeOf(u, p[i])
        BY <2>1, <2>3, <2>4, <3>1, Zenon
      <4> QED  BY <1>9, <4>1, Zenon
    <3>2. CASE i = 1
      <4>1. t.TextOutModeMap[1][n] = column[1] /\ SizeOf(t, 1) = SizeOf(u, 1)
        BY <2>1, <2>2, <2>3
      <4> QED  BY <1>9, <1>13, <3>2, <4>1
    <3> QED  BY <3>1, <3>2
  <2>6. t.MaxMode <= ModeCount(d)
    <3> DEFINE g == [i \in 0 .. t.MaxMode - 1 |-> column[p[i]]]
    <3>1. \A i \in 0 .. t.MaxMode - 1 : g[i] = column[p[i]]
      OBVIOUS
    <3> HIDE DEF g
    <3>2. ModeCount(d) \in Nat /\ ModeCount(d) >= 2 /\ DOMAIN TextModes[d] = 0 .. ModeCount(d) - 1
      BY <1>1, DeviceFacts
    <3>3. \A i \in 0 .. t.MaxMode - 1 : i # 1 => g[i] \in (0 .. ModeCount(d) - 1) \ {1}
      BY <1>9, <2>1, <2>4, <3>1, <3>2, Zenon
    <3>4. \A i \in 0 .. t.MaxMode - 1 : i # 1 => RowOf(u, TextModes[d][g[i]]) = p[i]
      BY <1>9, <2>1, <2>4, <3>1, Zenon
    <3>5. \A i, j \in 0 .. t.MaxMode - 1 : i # 1 /\ j # 1 /\ g[i] = g[j] => i = j
      <4> TAKE i, j \in 0 .. t.MaxMode - 1
      <4>1. i # 1 /\ j # 1 /\ g[i] = g[j] => p[i] = p[j]
        BY <3>4, Zenon
      <4> QED  BY <2>1, <4>1, Zenon
    <3>6. IsChoice(g, t.MaxMode, ModeCount(d))
      BY <3>3, <3>5, Zenon DEF IsChoice
    <3> QED  BY <2>2, <3>2, <3>6, RowsFit
  <2> QED  BY <2>5, <2>6, Zenon DEF Column
<1>27. \A k \in 0 .. n : Column(t, k, t.TextOutList[k])
  <2>1. \A k \in 0 .. n : k \in 0 .. n - 1 \/ k = n
    OBVIOUS
  <2> QED  BY <1>23, <1>25, <1>26, <2>1, Zenon DEF d
<1>28. Table(t, n + 1)
  <2>1. 0 .. (n + 1) - 1 = 0 .. n
    OBVIOUS
  <2> QED  BY <1>23, <1>24, <1>27, <2>1, Zenon DEF Table
<1> QED  BY <1>20, <1>28 DEF t, d

-----------------------------------------------------------------------------
(* What holds of a virtual console between the steps of an operation.      *)

\* All that the table consists of is the same.
SameTable(t, s) ==
    /\ DOMAIN t = SplitterFields
    /\ t.TextOutList = s.TextOutList /\ t.TextOutQueryData = s.TextOutQueryData
    /\ t.TextOutQueryDataCount = s.TextOutQueryDataCount
    /\ t.TextOutModeMap = s.TextOutModeMap /\ t.MaxMode = s.MaxMode

LEMMA TableKept ==
    ASSUME NEW s, NEW t, SameTable(t, s), NEW n
    PROVE  /\ Listed(s, n) => Listed(t, n)
           /\ Table(s, n) => Table(t, n)
           /\ \A m : SizeOf(t, m) = SizeOf(s, m)
<1>1. /\ DOMAIN t = SplitterFields /\ t.TextOutList = s.TextOutList
      /\ t.TextOutQueryData = s.TextOutQueryData
      /\ t.TextOutQueryDataCount = s.TextOutQueryDataCount
      /\ t.TextOutModeMap = s.TextOutModeMap /\ t.MaxMode = s.MaxMode
  BY DEF SameTable
<1>2. \A m : SizeOf(t, m) = SizeOf(s, m)
  BY <1>1 DEF SizeOf
<1>3. Listed(s, n) => Listed(t, n)
  BY <1>1 DEF Listed, TextOutListCount
<1>4. Base(s) => Base(t)
  BY <1>1 DEF Base, Rows, QueryData, FirstColumn
<1>5. Unused(s, n) => Unused(t, n)
  BY <1>1 DEF Unused
<1>6. \A k, d : Column(s, k, d) => Column(t, k, d)
  <2> TAKE k, d
  <2> QED  BY <1>1, <1>2 DEF Column
<1>7. Table(s, n) => Table(t, n)
  BY <1>1, <1>4, <1>5, <1>6 DEF Table
<1> QED  BY <1>2, <1>3, <1>7

\* The one mode of a console without a device.
Alone(s) ==
    /\ s.MaxMode = 1 /\ s.TextOutQueryData = [m \in {0} |-> BaseSize]
    /\ s.TextOutQueryDataCount \in Nat \ {0}
    /\ s.TextOutModeMap # << >> =>
         DOMAIN s.TextOutModeMap = {0} /\ s.TextOutModeMap[0][0] = 0

OnScreen(cursor) == cursor \in (0 .. BaseSize[1] - 1) \X (0 .. BaseSize[2] - 1)

Console(s) ==
    /\ Listed(s, s.CurrentNumberOfConsoles)
    /\ s.CurrentNumberOfConsoles = 0 => Alone(s)
    /\ s.CurrentNumberOfConsoles # 0 => Table(s, s.CurrentNumberOfConsoles)
    /\ OnScreen(s.Cursor)

\* The current mode is on offer, or it was removed.
InUse(s) == /\ s.Mode \in -1 .. s.MaxMode - 1
            /\ s.CurrentNumberOfConsoles = 0 => s.Mode = 0

\* While a device is added there is no current mode.
NoMode(s) == s.Mode \in Nat /\ s.Mode >= s.MaxMode

LEMMA HomeOnScreen == OnScreen(Home) /\ BaseSize # Unsupported
<1>1. BaseSize \in (Nat \ {0}) \X (Nat \ {0})
  BY OutAssumption
<1> QED  BY <1>1 DEF OnScreen, Home, Unsupported

LEMMA ConsoleFacts ==
    ASSUME NEW s, Console(s)
    PROVE  /\ DOMAIN s = SplitterFields
           /\ s.CurrentNumberOfConsoles \in 0 .. TextOutListCount(s)
           /\ s.CurrentNumberOfConsoles \in Nat
           /\ s.MaxMode \in 1 .. InitMode
           /\ s.TextOutQueryDataCount \in Nat /\ s.MaxMode <= s.TextOutQueryDataCount
           /\ SizeOf(s, 0) = BaseSize /\ BaseSize # Unsupported
           /\ \A d \in Behind(s) : d \in Devices /\ s.MaxMode <= ModeCount(d)
           /\ \A n \in 0 .. s.MaxMode - 1 : SizeOf(s, n) # Unsupported => QueryModeSucceeds(s, n)
<1> DEFINE K == s.CurrentNumberOfConsoles
<1>1. Listed(s, K) /\ (K = 0 => Alone(s)) /\ (K # 0 => Table(s, K))
  BY DEF Console
<1>2. K \in 0 .. TextOutListCount(s) /\ TextOutListCount(s) \in Nat /\ DOMAIN s = SplitterFields
  BY <1>1 DEF Listed
<1>3. \A k \in 0 .. K - 1 : s.TextOutList[k] \in Devices
  BY <1>1 DEF Listed
<1>4. BaseSize # Unsupported
  BY HomeOnScreen
<1>5. \A n \in 0 .. s.MaxMode - 1 : SizeOf(s, n) # Unsupported => QueryModeSucceeds(s, n)
  <2>1. s.MaxMode \in Nat
    BY <1>1 DEF Alone, Table, Base, Rows
  <2> QED  BY <2>1 DEF QueryModeSucceeds
<1>6. \A d \in Behind(s) : d \in Devices /\ s.MaxMode <= ModeCount(d)
  <2> TAKE d \in Behind(s)
  <2>1. PICK k \in 0 .. K - 1 : s.TextOutList[k] = d
    BY DEF Behind, Columns
  <2>2. K # 0
    BY <1>2, <2>1
  <2>3. Column(s, k, d)
    BY <1>1, <2>1, <2>2 DEF Table
  <2> QED  BY <1>3, <2>1, <2>3 DEF Column
<1>7. CASE K = 0
  <2>1. s.MaxMode = 1 /\ s.TextOutQueryDataCount \in Nat \ {0}
    BY <1>1, <1>7 DEF Alone
  <2>2. SizeOf(s, 0) = BaseSize
    <3>1. s.TextOutQueryData[0] = BaseSize
      BY <1>1, <1>7 DEF Alone
    <3>2. s.TextOutModeMap = << >> \/ s.TextOutModeMap[0][0] = 0
      BY <1>1, <1>7 DEF Alone
    <3> QED  BY <3>1, <3>2 DEF SizeOf
  <2> QED  BY <1>2, <1>4, <1>5, <1>6, <2>1, <2>2 DEF InitMode
<1>8. CASE K # 0
  <2>1. 0 \in 0 .. K - 1
    BY <1>2, <1>8
  <2>2. s.TextOutList[0] \in Devices
    BY <1>3, <2>1
  <2>3. Base(s)
    BY <1>1, <1>8 DEF Table
  <2>4. SizeOf(s, 0) = BaseSize
    BY <2>2, <2>3, SizeFacts DEF Base
  <2>5. /\ s.MaxMode \in Nat /\ s.MaxMode >= 2
        /\ s.TextOutQueryDataCount \in Nat /\ s.MaxMode <= s.TextOutQueryDataCount
    BY <2>3 DEF Base, Rows
  <2>6. s.TextOutList[0] \in Behind(s)
    BY <2>1 DEF Behind, Columns
  <2>7. s.MaxMode <= ModeCount(s.TextOutList[0]) /\ ModeCount(s.TextOutList[0]) \in 2 .. InitMode
    BY <1>6, <2>2, <2>6, DeviceFacts
  <2>8. s.MaxMode \in 1 .. InitMode
    BY <2>5, <2>7 DEF InitMode
  <2> QED  BY <1>2, <1>4, <1>5, <1>6, <2>4, <2>5, <2>8
<1> QED  BY <1>7, <1>8

\* A mode that has a size has a number on every device.
LEMMA ModeOnAll ==
    ASSUME NEW s, Console(s), NEW n \in 0 .. s.MaxMode - 1, NEW k \in Columns(s)
    PROVE  /\ s.TextOutList[k] \in Devices
           /\ s.TextOutModeMap[n][k] \in {-1} \union DOMAIN TextModes[s.TextOutList[k]]
           /\ SizeOf(s, n) # Unsupported =>
                /\ Supports(s.TextOutList[k], s.TextOutModeMap[n][k])
                /\ TextModes[s.TextOutList[k]][s.TextOutModeMap[n][k]] = SizeOf(s, n)
<1> DEFINE K == s.CurrentNumberOfConsoles
           d == s.TextOutList[k]
<1>1. k \in 0 .. K - 1
  BY DEF Columns
<1>2. K \in Nat
  BY ConsoleFacts
<1>3. K # 0
  BY <1>1, <1>2
<1>4. Listed(s, K) /\ Table(s, K)
  BY <1>3 DEF Console
<1>5. d \in Devices
  BY <1>1, <1>4 DEF Listed
<1>6. Column(s, k, d)
  BY <1>1, <1>4 DEF Table
<1> QED  BY <1>5, <1>6 DEF Column

-----------------------------------------------------------------------------
(* What holds of the text consoles and the devices, and which steps leave  *)
(* the lists and the graphics output alone.                                *)

StateFields == {"splitter", "graphics", "device", "pcd", "failed"}
DeviceFields == {"textMode", "colour", "graphicsMode"}

DeviceOK(dev) ==
    /\ DOMAIN dev = Devices
    /\ \A d \in Devices :
         /\ DOMAIN dev[d] = DeviceFields
         /\ Supports(d, dev[d].textMode)
         /\ HasGraphics(d) => dev[d].graphicsMode \in 0 .. Len(GraphicsModes[d]) - 1

TextState(st) ==
    /\ DOMAIN st = StateFields /\ DOMAIN st.splitter = Splitters
    /\ DeviceOK(st.device)
    /\ \A p \in Splitters : Console(st.splitter[p])

SameList(t, s) ==
    /\ t.TextOutList = s.TextOutList
    /\ t.CurrentNumberOfConsoles = s.CurrentNumberOfConsoles
    /\ t.CurrentNumberOfGraphicsOutput = s.CurrentNumberOfGraphicsOutput

TextOnly(t, st) ==
    /\ t.graphics = st.graphics
    /\ \A p \in Splitters : SameList(t.splitter[p], st.splitter[p])
    /\ \A d \in Devices : t.device[d].graphicsMode = st.device[d].graphicsMode

ModeKept(t, s) == (InUse(s) => InUse(t)) /\ (NoMode(s) => NoMode(t))

LEMMA SameListFacts ==
    ASSUME NEW s, NEW t, SameList(t, s)
    PROVE  Behind(t) = Behind(s) /\ Columns(t) = Columns(s)
           /\ GraphicsDevices(t) = GraphicsDevices(s)
BY DEF SameList, Behind, Columns, GraphicsDevices

LEMMA TextOnlyTransitive ==
    ASSUME NEW s, NEW t, NEW u, TextOnly(t, s), TextOnly(u, t)
    PROVE  TextOnly(u, s)
BY DEF TextOnly, SameList

\* A console with another mode and the cursor home.
LEMMA ConsoleMoved ==
    ASSUME NEW s, Console(s), NEW t, SameTable(t, s), SameList(t, s), OnScreen(t.Cursor)
    PROVE  Console(t)
<1>1. t.CurrentNumberOfConsoles = s.CurrentNumberOfConsoles
  BY DEF SameList
<1>2. Listed(t, t.CurrentNumberOfConsoles)
  BY <1>1, TableKept DEF Console
<1>3. t.CurrentNumberOfConsoles # 0 => Table(t, t.CurrentNumberOfConsoles)
  BY <1>1, TableKept DEF Console
<1>4. t.CurrentNumberOfConsoles = 0 => Alone(t)
  BY <1>1 DEF Console, Alone, SameTable
<1> QED  BY <1>2, <1>3, <1>4 DEF Console

LEMMA TextOutSetModeIs ==
    ASSUME NEW st, DOMAIN st = StateFields, DOMAIN st.splitter = Splitters,
           NEW p \in Splitters, Console(st.splitter[p]), NEW n
    PROVE  LET t == TextOutSetMode(st, p, n)
           IN  /\ DOMAIN t = StateFields /\ DOMAIN t.splitter = Splitters
               /\ \A q \in Splitters \ {p} : t.splitter[q] = st.splitter[q]
               /\ Console(t.splitter[p]) /\ SameTable(t.splitter[p], st.splitter[p])
               /\ SameList(t.splitter[p], st.splitter[p])
               /\ t.splitter[p].Mode = n
               /\ t.device = st.device /\ t.graphics = st.graphics /\ t.pcd = st.pcd
               /\ t.failed = st.failed
<1> DEFINE t == TextOutSetMode(st, p, n)
           s == st.splitter[p]
           u == [[s EXCEPT !.Mode = n] EXCEPT !.Cursor = Home]
<1>1. DOMAIN s = SplitterFields
  BY DEF Console, Listed
<1>2. /\ DOMAIN u = SplitterFields /\ u.Mode = n /\ u.Cursor = Home
      /\ SameTable(u, s) /\ SameList(u, s)
  BY <1>1 DEF SplitterFields, SameTable, SameList
<1>3. t.splitter = [st.splitter EXCEPT ![p] = u]
  BY DEF TextOutSetMode, StateFields
<1>4. /\ DOMAIN t = StateFields /\ t.device = st.device /\ t.graphics = st.graphics
      /\ t.pcd = st.pcd /\ t.failed = st.failed
  BY DEF TextOutSetMode, StateFields
<1> HIDE DEF t, u
<1>5. /\ DOMAIN t.splitter = Splitters /\ t.splitter[p] = u
      /\ \A q \in Splitters \ {p} : t.splitter[q] = st.splitter[q]
  BY <1>3
<1>6. Console(u)
  BY <1>2, ConsoleMoved, HomeOnScreen
<1> QED  BY <1>2, <1>4, <1>5, <1>6 DEF t

\* The number that a device has for mode n, where it stands in the list.
LEMMA PlaceFacts ==
    ASSUME NEW s, Console(s), NEW d \in Behind(s), NEW n \in 0 .. s.MaxMode - 1
    PROVE  LET m == s.TextOutModeMap[n][CHOOSE k \in Columns(s) : s.TextOutList[k] = d]
           IN  /\ d \in Devices
               /\ SizeOf(s, n) # Unsupported =>
                    Supports(d, m) /\ TextModes[d][m] = SizeOf(s, n)
<1> DEFINE k == CHOOSE i \in Columns(s) : s.TextOutList[i] = d
<1>1. \E i \in Columns(s) : s.TextOutList[i] = d
  BY DEF Behind
<1>2. k \in Columns(s) /\ s.TextOutList[k] = d
  BY <1>1
<1> HIDE DEF k
<1>3. /\ d \in Devices
      /\ SizeOf(s, n) # Unsupported =>
           Supports(d, s.TextOutModeMap[n][k]) /\ TextModes[d][s.TextOutModeMap[n][k]] = SizeOf(s, n)
  BY <1>2, ModeOnAll
<1> QED  BY <1>3 DEF k

LEMMA SetEveryModeIs ==
    ASSUME NEW st, TextState(st), NEW p \in Splitters,
           NEW n \in 0 .. st.splitter[p].MaxMode - 1
    PROVE  LET t == SetEveryMode(st, p, n)
               s == st.splitter[p]
           IN  /\ TextState(t) /\ TextOnly(t, st) /\ t.pcd = st.pcd
               /\ \A q \in Splitters \ {p} : t.splitter[q] = st.splitter[q]
               /\ SameTable(t.splitter[p], s) /\ t.splitter[p].Mode = n
               /\ SizeOf(s, n) # Unsupported => t.failed = FALSE /\ InMode(t.splitter[p], t.device)
<1> DEFINE s == st.splitter[p]
           u == TextOutSetMode(st, p, n)
           At(d) == s.TextOutModeMap[n][CHOOSE k \in Columns(s) : s.TextOutList[k] = d]
           dev == [d \in Devices |->
                     IF d \in Behind(s) /\ Supports(d, At(d))
                     THEN [st.device[d] EXCEPT !.textMode = At(d)] ELSE st.device[d]]
           bad == \E d \in Behind(s) : ~Supports(d, At(d))
           t == SetEveryMode(st, p, n)
<1>1. /\ DOMAIN st = StateFields /\ DOMAIN st.splitter = Splitters
      /\ DeviceOK(st.device) /\ Console(s)
  BY DEF TextState
<1>2. /\ DOMAIN u = StateFields /\ DOMAIN u.splitter = Splitters
      /\ \A q \in Splitters \ {p} : u.splitter[q] = st.splitter[q]
      /\ Console(u.splitter[p]) /\ SameTable(u.splitter[p], s)
      /\ SameList(u.splitter[p], s) /\ u.splitter[p].Mode = n
      /\ u.graphics = st.graphics /\ u.pcd = st.pcd
  <2> HIDE DEF u, s
  <2> QED  BY <1>1, TextOutSetModeIs DEF u, s
<1>3. t = [u EXCEPT !.device = dev, !.failed = bad]
  BY DEF SetEveryMode
<1>4. \A d \in Behind(s) : /\ d \in Devices
                           /\ SizeOf(s, n) # Unsupported =>
                                Supports(d, At(d)) /\ TextModes[d][At(d)] = SizeOf(s, n)
  <2> TAKE d \in Behind(s)
  <2> QED  BY <1>1, PlaceFacts, Zenon
<1>5. DOMAIN dev = Devices
  OBVIOUS
<1>6. \A d \in Devices : dev[d] = IF d \in Behind(s) /\ Supports(d, At(d))
                                  THEN [st.device[d] EXCEPT !.textMode = At(d)] ELSE st.device[d]
  OBVIOUS
<1> HIDE DEF t, u, s, dev, bad, At
<1>7. \A d \in Devices :
        /\ DOMAIN dev[d] = DeviceFields
        /\ dev[d].graphicsMode = st.device[d].graphicsMode
        /\ Supports(d, dev[d].textMode)
        /\ d \in Behind(s) /\ Supports(d, At(d)) => dev[d].textMode = At(d)
  <2> TAKE d \in Devices
  <2>1. DOMAIN st.device[d] = DeviceFields /\ Supports(d, st.device[d].textMode)
    BY <1>1 DEF DeviceOK
  <2>2. CASE d \in Behind(s) /\ Supports(d, At(d))
    <3>1. dev[d] = [st.device[d] EXCEPT !.textMode = At(d)]
      BY <1>6, <2>2
    <3> QED  BY <2>1, <2>2, <3>1 DEF DeviceFields
  <2>3. CASE ~(d \in Behind(s) /\ Supports(d, At(d)))
    <3>1. dev[d] = st.device[d]
      BY <1>6, <2>3
    <3> QED  BY <2>1, <2>3, <3>1
  <2> QED  BY <2>2, <2>3
<1>8. DeviceOK(dev)
  BY <1>1, <1>5, <1>7 DEF DeviceOK
<1>9. /\ DOMAIN t = StateFields /\ t.splitter = u.splitter /\ t.device = dev
      /\ t.graphics = st.graphics /\ t.pcd = st.pcd /\ t.failed = bad
  BY <1>2, <1>3 DEF StateFields
<1>10. \A q \in Splitters : Console(t.splitter[q]) /\ SameList(t.splitter[q], st.splitter[q])
  <2>1. \A q \in Splitters : Console(st.splitter[q]) /\ SameList(st.splitter[q], st.splitter[q])
    BY DEF TextState, SameList
  <2> QED  BY <1>2, <1>9, <2>1 DEF s
<1>11. TextState(t) /\ TextOnly(t, st)
  BY <1>2, <1>7, <1>8, <1>9, <1>10 DEF TextState, TextOnly
<1>12. ASSUME SizeOf(s, n) # Unsupported
       PROVE  t.failed = FALSE /\ InMode(t.splitter[p], t.device)
  <2>1. \A d \in Behind(s) : /\ d \in Devices /\ Supports(d, At(d))
                             /\ TextModes[d][dev[d].textMode] = SizeOf(s, n)
    BY <1>4, <1>7, <1>12
  <2>2. bad = FALSE
    BY <2>1 DEF bad
  <2>3. Behind(u.splitter[p]) = Behind(s)
    BY <1>2, SameListFacts
  <2>4. SizeOf(u.splitter[p], n) = SizeOf(s, n)
    BY <1>2, TableKept
  <2> QED  BY <1>2, <1>9, <2>1, <2>2, <2>3, <2>4 DEF InMode
<1> QED  BY <1>2, <1>9, <1>11, <1>12 DEF t, s

LEMMA TextOutSetModeCallIs ==
    ASSUME NEW st, TextState(st), NEW p \in Splitters, NEW n \in Nat
    PROVE  LET t == TextOutSetModeCall(st, p, n)
               s == st.splitter[p]
           IN  /\ TextState(t) /\ TextOnly(t, st) /\ t.pcd = st.pcd
               /\ \A q \in Splitters \ {p} : t.splitter[q] = st.splitter[q]
               /\ SameTable(t.splitter[p], s)
               /\ n < s.MaxMode => t.splitter[p].Mode = n
               /\ n >= s.MaxMode =>
                    t.failed = TRUE /\ t.splitter = st.splitter /\ t.device = st.device
               /\ n < s.MaxMode /\ s.Mode # n /\ SizeOf(s, n) # Unsupported =>
                    t.failed = FALSE /\ InMode(t.splitter[p], t.device)
<1> DEFINE s == st.splitter[p]
           t == TextOutSetModeCall(st, p, n)
           Goal == /\ TextState(t) /\ TextOnly(t, st) /\ t.pcd = st.pcd
                   /\ \A q \in Splitters \ {p} : t.splitter[q] = st.splitter[q]
                   /\ SameTable(t.splitter[p], s)
                   /\ n < s.MaxMode => t.splitter[p].Mode = n
                   /\ n >= s.MaxMode =>
                        t.failed = TRUE /\ t.splitter = st.splitter /\ t.device = st.device
                   /\ n < s.MaxMode /\ s.Mode # n /\ SizeOf(s, n) # Unsupported =>
                        t.failed = FALSE /\ InMode(t.splitter[p], t.device)
<1> SUFFICES Goal
  OBVIOUS
<1>1. /\ DOMAIN st = StateFields /\ DOMAIN st.splitter = Splitters
      /\ DeviceOK(st.device) /\ Console(s) /\ \A q \in Splitters : Console(st.splitter[q])
  BY DEF TextState
<1>2. s.MaxMode \in Nat /\ DOMAIN s = SplitterFields
  <2>1. s.MaxMode \in 1 .. InitMode /\ DOMAIN s = SplitterFields
    BY <1>1, ConsoleFacts
  <2> QED  BY <2>1 DEF InitMode
<1>3. CASE n >= s.MaxMode
  <2>1. t = [st EXCEPT !.failed = TRUE]
    BY <1>3 DEF TextOutSetModeCall
  <2> HIDE DEF t, s
  <2>2. /\ DOMAIN t = StateFields /\ t.splitter = st.splitter /\ t.device = st.device
        /\ t.graphics = st.graphics /\ t.pcd = st.pcd /\ t.failed = TRUE
    BY <1>1, <2>1 DEF StateFields
  <2>3. TextState(t) /\ TextOnly(t, st)
    BY <1>1, <2>2 DEF TextState, TextOnly, SameList
  <2>4. SameTable(t.splitter[p], s)
    BY <1>2, <2>2 DEF SameTable, s
  <2>5. ~(n < s.MaxMode)
    BY <1>2, <1>3
  <2> QED  BY <2>2, <2>3, <2>4, <2>5
<1>4. CASE n < s.MaxMode /\ s.Mode = n
  <2> DEFINE u == [s EXCEPT !.Cursor = Home]
  <2>1. t.splitter = [st.splitter EXCEPT ![p] = u]
    BY <1>1, <1>2, <1>4 DEF TextOutSetModeCall, ClearScreen, StateFields
  <2>2. t = [[st EXCEPT !.splitter = [st.splitter EXCEPT ![p] = u]] EXCEPT !.failed = FALSE]
    BY <1>1, <1>2, <1>4 DEF TextOutSetModeCall, ClearScreen, StateFields
  <2>3. SameTable(u, s) /\ SameList(u, s) /\ u.Cursor = Home /\ u.Mode = s.Mode
    BY <1>2 DEF SameTable, SameList, SplitterFields
  <2> HIDE DEF t, s, u
  <2>4. /\ DOMAIN t = StateFields /\ t.device = st.device
        /\ t.graphics = st.graphics /\ t.pcd = st.pcd
    BY <1>1, <2>2 DEF StateFields
  <2>5. /\ DOMAIN t.splitter = Splitters /\ t.splitter[p] = u
        /\ \A q \in Splitters \ {p} : t.splitter[q] = st.splitter[q]
    BY <1>1, <2>1
  <2>6. Console(u)
    BY <1>1, <2>3, HomeOnScreen, ConsoleMoved
  <2>7. TextState(t)
    BY <1>1, <2>4, <2>5, <2>6 DEF TextState
  <2>8. TextOnly(t, st)
    BY <2>3, <2>4, <2>5 DEF TextOnly, SameList, s
  <2> QED  BY <1>2, <1>4, <2>3, <2>4, <2>5, <2>7, <2>8
<1>5. CASE n < s.MaxMode /\ s.Mode # n
  <2>1. n \in 0 .. s.MaxMode - 1 /\ ~(n >= s.MaxMode)
    BY <1>2, <1>5
  <2>2. t = SetEveryMode(st, p, n)
    BY <1>5, <2>1 DEF TextOutSetModeCall
  <2> HIDE DEF t
  <2>4. n \in 0 .. s.MaxMode - 1
    BY <2>1
  <2>3. /\ TextState(t) /\ TextOnly(t, st) /\ t.pcd = st.pcd
        /\ \A q \in Splitters \ {p} : t.splitter[q] = st.splitter[q]
        /\ SameTable(t.splitter[p], s) /\ t.splitter[p].Mode = n
        /\ SizeOf(s, n) # Unsupported => t.failed = FALSE /\ InMode(t.splitter[p], t.device)
    <3>1. LET x == SetEveryMode(st, p, n)
          IN  /\ TextState(x) /\ TextOnly(x, st) /\ x.pcd = st.pcd
              /\ \A q \in Splitters \ {p} : x.splitter[q] = st.splitter[q]
              /\ SameTable(x.splitter[p], s) /\ x.splitter[p].Mode = n
              /\ SizeOf(s, n) # Unsupported => x.failed = FALSE /\ InMode(x.splitter[p], x.device)
      BY <2>4, SetEveryModeIs, Zenon
    <3> QED  BY <2>2, <3>1
  <2> HIDE DEF s
  <2> QED  BY <2>1, <2>3
<1> QED
  <2>1. n >= s.MaxMode \/ n < s.MaxMode
    BY <1>2
  <2> QED  BY <1>3, <1>4, <1>5, <2>1

\* A console with a new device gets a mode, and its devices are in it.
LEMMA SetConsoleOutModeIs ==
    ASSUME NEW st, TextState(st), NEW p \in Splitters, NoMode(st.splitter[p])
    PROVE  LET t == SetConsoleOutMode(st, p)
           IN  /\ TextState(t) /\ TextOnly(t, st)
               /\ \A q \in Splitters \ {p} : t.splitter[q] = st.splitter[q]
               /\ t.splitter[p].Mode \in 0 .. t.splitter[p].MaxMode - 1
               /\ InMode(t.splitter[p], t.device)
<1> DEFINE s == st.splitter[p]
           Having(size) == {n \in 0 .. s.MaxMode - 1 :
                              QueryModeSucceeds(s, n) /\ SizeOf(s, n) = size}
           OfSize(size) == Greatest(Having(size), InitMode)
           i == OfSize(st.pcd)
           j == OfSize(BaseSize)
           u == TextOutSetModeCall(st, p, i)
           v == TextOutSetModeCall(u, p, j)
           t == SetConsoleOutMode(st, p)
           Goal == /\ TextState(t) /\ TextOnly(t, st)
                   /\ \A q \in Splitters \ {p} : t.splitter[q] = st.splitter[q]
                   /\ t.splitter[p].Mode \in 0 .. t.splitter[p].MaxMode - 1
                   /\ InMode(t.splitter[p], t.device)
<1> SUFFICES Goal
  OBVIOUS
<1>1. Console(s) /\ DOMAIN st = StateFields
  BY DEF TextState
<1>2. /\ s.MaxMode \in 1 .. InitMode /\ SizeOf(s, 0) = BaseSize /\ BaseSize # Unsupported
      /\ \A n \in 0 .. s.MaxMode - 1 : SizeOf(s, n) # Unsupported => QueryModeSucceeds(s, n)
  BY <1>1, ConsoleFacts
<1>3. InitMode = 255 /\ s.MaxMode \in Nat /\ s.MaxMode >= 1 /\ s.MaxMode <= InitMode
  <2>1. s.MaxMode \in 1 .. InitMode
    BY <1>2
  <2> HIDE DEF s
  <2> QED  BY <2>1 DEF InitMode
<1>4. t = IF u.failed THEN [v EXCEPT !.pcd = BaseSize] ELSE u
  BY DEF SetConsoleOutMode
<1>5. \A size : Having(size) \in SUBSET (0 .. s.MaxMode - 1)
  OBVIOUS
<1>6. \A size : \/ Having(size) = {} /\ OfSize(size) = InitMode
                \/ OfSize(size) \in Having(size)
  <2> HIDE DEF Having
  <2> TAKE size
  <2>1. CASE Having(size) = {}
    BY <2>1 DEF Greatest
  <2>2. CASE Having(size) # {}
    <3>1. Having(size) \in SUBSET (0 .. s.MaxMode)
      BY <1>3, <1>5
    <3> QED  BY <1>3, <2>2, <3>1, GreatestFacts
  <2> QED  BY <2>1, <2>2
<1>7. \A size : \A n \in Having(size) :
        n \in 0 .. s.MaxMode - 1 /\ SizeOf(s, n) = size /\ SizeOf(s, n) # Unsupported
  BY DEF QueryModeSucceeds
<1>8. j \in Having(BaseSize)
  <2>1. 0 \in 0 .. s.MaxMode - 1
    BY <1>3
  <2>2. 0 \in Having(BaseSize)
    BY <1>2, <2>1
  <2> HIDE DEF Having, OfSize
  <2> QED  BY <1>6, <2>2
<1>9. s.Mode \in Nat /\ s.Mode >= s.MaxMode
  BY DEF NoMode
<1>10. i = InitMode \/ i \in Having(st.pcd)
  <2> HIDE DEF Having, OfSize
  <2> QED  BY <1>6
<1> HIDE DEF Having, OfSize, i, j, s, u, v, t
<1>11. CASE i \in Having(st.pcd)
  <2>1. i \in 0 .. s.MaxMode - 1 /\ SizeOf(s, i) # Unsupported
    BY <1>7, <1>11
  <2>2. i \in Nat /\ i < s.MaxMode /\ s.Mode # i
    BY <1>3, <1>9, <2>1
  <2>3. /\ TextState(u) /\ TextOnly(u, st)
        /\ \A q \in Splitters \ {p} : u.splitter[q] = st.splitter[q]
        /\ SameTable(u.splitter[p], s) /\ u.splitter[p].Mode = i
        /\ u.failed = FALSE /\ InMode(u.splitter[p], u.device)
    <3> HIDE DEF s
    <3> QED  BY <2>1, <2>2, TextOutSetModeCallIs DEF u, s
  <2>4. t = u
    BY <1>4, <2>3
  <2> QED  BY <2>1, <2>3, <2>4 DEF SameTable
<1>12. CASE i = InitMode
  <2>1. i \in Nat /\ i >= s.MaxMode
    BY <1>3, <1>12
  <2>2. /\ TextState(u) /\ TextOnly(u, st) /\ u.failed = TRUE
        /\ u.splitter = st.splitter /\ u.device = st.device
    BY <2>1, TextOutSetModeCallIs DEF u, s
  <2>3. j \in 0 .. s.MaxMode - 1 /\ SizeOf(s, j) # Unsupported
    BY <1>7, <1>8
  <2>4. j \in Nat /\ j < s.MaxMode /\ s.Mode # j /\ u.splitter[p] = s
    BY <1>3, <1>9, <2>2, <2>3 DEF s
  <2>5. /\ TextState(v) /\ TextOnly(v, u)
        /\ \A q \in Splitters \ {p} : v.splitter[q] = u.splitter[q]
        /\ SameTable(v.splitter[p], s) /\ v.splitter[p].Mode = j
        /\ InMode(v.splitter[p], v.device)
    BY <2>2, <2>3, <2>4, TextOutSetModeCallIs DEF v
  <2>6. t = [v EXCEPT !.pcd = BaseSize]
    BY <1>4, <2>2
  <2>7. /\ DOMAIN t = StateFields /\ t.splitter = v.splitter /\ t.device = v.device
        /\ t.graphics = v.graphics
    BY <2>5, <2>6 DEF TextState, StateFields
  <2>8. TextState(t) /\ TextOnly(t, u)
    BY <2>5, <2>7 DEF TextState, TextOnly
  <2>9. TextOnly(t, st)
    BY <2>2, <2>8, TextOnlyTransitive
  <2> QED  BY <2>2, <2>3, <2>5, <2>7, <2>8, <2>9 DEF SameTable
<1> QED  BY <1>10, <1>11, <1>12

\* What one console offers is cut down to what another offers too.
LEMMA IntersectWithIs ==
    ASSUME NEW st, TextState(st), NEW p \in Splitters, NEW other,
           st.splitter[p].CurrentNumberOfConsoles # 0
    PROVE  LET t == IntersectWith(st, p, other)
           IN  /\ TextState(t) /\ TextOnly(t, st)
               /\ \A q \in Splitters : ModeKept(t.splitter[q], st.splitter[q])
<1> DEFINE s == st.splitter[p]
           n == s.CurrentNumberOfConsoles
           g == GetIntersection(s, Common(s, other))
           u == [st EXCEPT !.splitter[p] = g]
           v == TextOutSetModeCall(u, p, 0)
           t == IntersectWith(st, p, other)
           Goal == /\ TextState(t) /\ TextOnly(t, st)
                   /\ \A q \in Splitters : ModeKept(t.splitter[q], st.splitter[q])
<1> SUFFICES Goal
  OBVIOUS
<1>1. /\ Console(s) /\ DOMAIN st = StateFields /\ DOMAIN st.splitter = Splitters
      /\ DeviceOK(st.device) /\ \A q \in Splitters : Console(st.splitter[q])
  BY DEF TextState
<1>2. n \in Nat /\ n >= 1 /\ n # 0
  BY <1>1, ConsoleFacts
<1>3. Listed(s, n) /\ Table(s, n) /\ OnScreen(s.Cursor)
  BY <1>1, <1>2 DEF Console
<1>4. DOMAIN s = SplitterFields /\ s.MaxMode \in Nat /\ s.MaxMode >= 2
  BY <1>3 DEF Table, Base, Rows, Listed
<1>5. Thinned(g, s, Common(s, other))
  BY <1>4, IntersectionThins
<1>6. t = IF u.splitter[p].Mode < 0 THEN v ELSE u
  BY DEF IntersectWith
<1> HIDE DEF g, s
<1>7. u.splitter = [st.splitter EXCEPT ![p] = g]
  BY <1>1 DEF StateFields
<1>8. /\ DOMAIN u = StateFields /\ u.device = st.device /\ u.graphics = st.graphics
  BY <1>1 DEF StateFields
<1> HIDE DEF u, v, t
<1>9. /\ DOMAIN u.splitter = Splitters /\ u.splitter[p] = g
      /\ \A q \in Splitters \ {p} : u.splitter[q] = st.splitter[q]
  BY <1>1, <1>7
<1>10. /\ SameList(g, s) /\ g.Cursor = s.Cursor /\ g.CurrentNumberOfConsoles = n
       /\ ModeFollows(g, s) /\ g.MaxMode \in Nat /\ g.MaxMode >= 2
  BY <1>4, <1>5 DEF Thinned, SameConsoles, SameList
<1>11. Listed(g, n) /\ Table(g, n)
  BY <1>2, <1>3, <1>5, ThinnedTable
<1>12. Console(g)
  BY <1>2, <1>3, <1>10, <1>11 DEF Console
<1>13. TextState(u)
  BY <1>1, <1>8, <1>9, <1>12 DEF TextState
<1>14. TextOnly(u, st)
  BY <1>8, <1>9, <1>10 DEF TextOnly, SameList, s
<1>15. ModeKept(g, s)
  BY <1>2, <1>10 DEF ModeKept, ModeFollows, InUse, NoMode
<1>16. CASE ~(u.splitter[p].Mode < 0)
  BY <1>6, <1>9, <1>13, <1>14, <1>15, <1>16 DEF ModeKept, s
<1>17. CASE u.splitter[p].Mode < 0
  <2>1. t = v
    BY <1>6, <1>17
  <2>2. 0 < g.MaxMode /\ 0 \in Nat
    BY <1>10
  <2>3. /\ TextState(v) /\ TextOnly(v, u)
        /\ \A q \in Splitters \ {p} : v.splitter[q] = u.splitter[q]
        /\ SameTable(v.splitter[p], g) /\ v.splitter[p].Mode = 0
    BY <1>9, <1>13, <2>2, TextOutSetModeCallIs DEF v
  <2>4. TextOnly(v, st)
    BY <1>14, <2>3, TextOnlyTransitive
  <2>5. InUse(v.splitter[p])
    <3>1. v.splitter[p].MaxMode = g.MaxMode
      BY <2>3 DEF SameTable
    <3> QED  BY <1>10, <2>3, <3>1 DEF InUse
  <2>6. ~NoMode(s)
    BY <1>9, <1>15, <1>17 DEF ModeKept, NoMode
  <2>7. \A q \in Splitters : ModeKept(v.splitter[q], st.splitter[q])
    BY <1>9, <2>3, <2>5, <2>6 DEF ModeKept, s
  <2> QED  BY <2>1, <2>3, <2>4, <2>7
<1> QED  BY <1>16, <1>17

LEMMA GetIntersectionBetweenIs ==
    ASSUME NEW st, TextState(st)
    PROVE  LET t == GetIntersectionBetweenConOutAndStrErr(st)
           IN  /\ TextState(t) /\ TextOnly(t, st)
               /\ \A q \in Splitters : ModeKept(t.splitter[q], st.splitter[q])
<1> DEFINE out == st.splitter["ConOut"]
           err == st.splitter["StdErr"]
           u == IntersectWith(st, "ConOut", err)
           v == IntersectWith(u, "StdErr", out)
           t == GetIntersectionBetweenConOutAndStrErr(st)
           Goal == /\ TextState(t) /\ TextOnly(t, st)
                   /\ \A q \in Splitters : ModeKept(t.splitter[q], st.splitter[q])
<1> SUFFICES Goal
  OBVIOUS
<1>1. "ConOut" \in Splitters /\ "StdErr" \in Splitters
  BY DEF Splitters
<1>2. t = IF FoundTheSameTextOut(out, err) THEN v ELSE st
  BY DEF GetIntersectionBetweenConOutAndStrErr
<1>3. CASE ~FoundTheSameTextOut(out, err)
  <2>1. t = st
    BY <1>2, <1>3
  <2> HIDE DEF t
  <2>2. TextOnly(st, st) /\ \A q \in Splitters : ModeKept(st.splitter[q], st.splitter[q])
    BY DEF TextOnly, SameList, ModeKept
  <2> QED  BY <2>1, <2>2
<1>4. CASE FoundTheSameTextOut(out, err)
  <2>1. Columns(out) # {} /\ Columns(err) # {}
    BY <1>4 DEF FoundTheSameTextOut
  <2>2. out.CurrentNumberOfConsoles # 0 /\ err.CurrentNumberOfConsoles # 0
    BY <2>1 DEF Columns
  <2>3. t = v
    BY <1>2, <1>4
  <2> HIDE DEF t, u, v
  <2>4. /\ TextState(u) /\ TextOnly(u, st)
        /\ \A q \in Splitters : ModeKept(u.splitter[q], st.splitter[q])
    BY <1>1, <2>2, IntersectWithIs DEF u
  <2>5. u.splitter["StdErr"].CurrentNumberOfConsoles # 0
    BY <1>1, <2>2, <2>4 DEF TextOnly, SameList
  <2>6. /\ TextState(v) /\ TextOnly(v, u)
        /\ \A q \in Splitters : ModeKept(v.splitter[q], u.splitter[q])
    BY <1>1, <2>4, <2>5, IntersectWithIs DEF v
  <2>7. TextOnly(v, st)
    BY <2>4, <2>6, TextOnlyTransitive
  <2>8. \A q \in Splitters : ModeKept(v.splitter[q], st.splitter[q])
    BY <2>4, <2>6 DEF ModeKept
  <2> QED  BY <2>3, <2>6, <2>7, <2>8
<1> QED  BY <1>3, <1>4

-----------------------------------------------------------------------------
(* A device is added to the list.                                          *)

\* A console with more room for the same.
Roomier(t, s) ==
    /\ DOMAIN t = SplitterFields
    /\ t.CurrentNumberOfConsoles = s.CurrentNumberOfConsoles
    /\ t.CurrentNumberOfGraphicsOutput = s.CurrentNumberOfGraphicsOutput
    /\ t.Cursor = s.Cursor /\ t.Mode = s.Mode /\ t.MaxMode = s.MaxMode
    /\ t.TextOutQueryData = s.TextOutQueryData
    /\ t.TextOutQueryDataCount = s.TextOutQueryDataCount
    /\ \A k \in Columns(s) : t.TextOutList[k] = s.TextOutList[k]

LEMMA RoomForOneIs ==
    ASSUME NEW s, Console(s)
    PROVE  LET t == RoomForOne(s)
               n == s.CurrentNumberOfConsoles
           IN  /\ Roomier(t, s) /\ Listed(t, n) /\ n < TextOutListCount(t)
               /\ n # 0 => Table(t, n)
<1> DEFINE t == RoomForOne(s)
           n == s.CurrentNumberOfConsoles
           count == TextOutListCount(s)
           need == n + 1
           list == [k \in 0 .. Grown(count, need) - 1 |->
                      IF k < count THEN s.TextOutList[k] ELSE NoDevice]
           u == [s EXCEPT !.TextOutList = list]
           map == [i \in 0 .. u.MaxMode - 1 |-> [k \in DOMAIN u.TextOutList |->
                     IF u.TextOutModeMap # << >> /\ k \in Columns(u)
                     THEN u.TextOutModeMap[i][k] ELSE -1]]
           Goal == /\ Roomier(t, s) /\ Listed(t, n) /\ n < TextOutListCount(t)
                   /\ n # 0 => Table(t, n)
<1> SUFFICES Goal
  OBVIOUS
<1>1. /\ Listed(s, n) /\ (n # 0 => Table(s, n)) /\ n \in Nat /\ n \in 0 .. count
      /\ DOMAIN s = SplitterFields
  BY ConsoleFacts DEF Console
<1>2. count \in Nat /\ count >= 1 /\ DOMAIN s.TextOutList = 0 .. count - 1
  BY <1>1 DEF Listed
<1>3. CASE n < count
  <2>1. t = s
    BY <1>3 DEF RoomForOne
  <2> HIDE DEF t
  <2> QED  BY <1>1, <1>3, <2>1 DEF Roomier
<1>4. CASE ~(n < count)
  <2>1. n = count /\ n >= 1 /\ n # 0
    BY <1>1, <1>2, <1>4
  <2>2. Table(s, n)
    BY <1>1, <2>1
  <2>3. t = [u EXCEPT !.TextOutModeMap = map]
    BY <1>4 DEF RoomForOne, GrowMapTable
  <2>4. need \in Nat /\ need > n
    BY <1>1
  <2> DEFINE G == Grown(count, need)
  <2>5. G \in Nat /\ G >= need /\ G >= count
    BY <1>2, <2>4, GrownFacts
  <2>6. DOMAIN list = 0 .. G - 1 /\ \A k \in 0 .. count - 1 : list[k] = s.TextOutList[k]
    <3>1. \A k \in 0 .. count - 1 : k \in 0 .. G - 1 /\ k < count
      BY <1>2, <2>5
    <3> HIDE DEF G
    <3> QED  BY <3>1 DEF G
  <2>7. /\ u.TextOutList = list /\ u.MaxMode = s.MaxMode /\ u.TextOutModeMap = s.TextOutModeMap
        /\ Columns(u) = 0 .. n - 1
    BY <1>1 DEF SplitterFields, Columns
  <2>8. /\ DOMAIN map = 0 .. u.MaxMode - 1
        /\ \A i \in 0 .. u.MaxMode - 1 : DOMAIN map[i] = DOMAIN u.TextOutList
        /\ \A i \in 0 .. u.MaxMode - 1 : \A k \in DOMAIN u.TextOutList :
              map[i][k] = IF u.TextOutModeMap # << >> /\ k \in Columns(u)
                          THEN u.TextOutModeMap[i][k] ELSE -1
    <3> HIDE DEF u
    <3> QED  OBVIOUS
  <2>9. /\ DOMAIN t = SplitterFields /\ t.TextOutList = list /\ t.TextOutModeMap = map
        /\ t.CurrentNumberOfConsoles = n
        /\ t.CurrentNumberOfGraphicsOutput = s.CurrentNumberOfGraphicsOutput
        /\ t.Cursor = s.Cursor /\ t.Mode = s.Mode /\ t.MaxMode = s.MaxMode
        /\ t.TextOutQueryData = s.TextOutQueryData
        /\ t.TextOutQueryDataCount = s.TextOutQueryDataCount
    <3>1. /\ DOMAIN u = SplitterFields /\ u.TextOutList = list
          /\ u.CurrentNumberOfConsoles = n
          /\ u.CurrentNumberOfGraphicsOutput = s.CurrentNumberOfGraphicsOutput
          /\ u.Cursor = s.Cursor /\ u.Mode = s.Mode /\ u.MaxMode = s.MaxMode
          /\ u.TextOutQueryData = s.TextOutQueryData
          /\ u.TextOutQueryDataCount = s.TextOutQueryDataCount
      BY <1>1 DEF SplitterFields
    <3> HIDE DEF u, map, list
    <3> QED  BY <2>3, <3>1 DEF SplitterFields
  <2> HIDE DEF t, u, map, list, G
  <2>10. s.TextOutModeMap # << >>
    <3>1. 0 \in DOMAIN s.TextOutModeMap
      BY <2>2 DEF Table, Base, Rows
    <3> QED  BY <3>1
  <2>11. TextOutListCount(t) = G
    <3>1. 0 \in Int /\ G - 1 \in Int /\ ~(0 > G - 1) /\ (G - 1) - 0 + 1 = G
      BY <1>2, <2>5
    <3>2. Cardinality(0 .. G - 1) = G
      BY <3>1, FS_Interval
    <3> QED  BY <2>6, <2>9, <3>2 DEF TextOutListCount
  <2>12. Listed(t, n)
    <3>1. n \in 0 .. G /\ G \in Nat \ {0}
      BY <1>1, <2>1, <2>4, <2>5
    <3>2. \A k \in 0 .. n - 1 : t.TextOutList[k] = s.TextOutList[k]
      BY <2>1, <2>6, <2>9
    <3> QED  BY <1>1, <2>6, <2>9, <2>11, <3>1, <3>2 DEF Listed
  <2>13. /\ s.MaxMode \in Nat /\ s.MaxMode >= 2 /\ DOMAIN map = 0 .. s.MaxMode - 1
         /\ \A i \in 0 .. s.MaxMode - 1 : DOMAIN map[i] = DOMAIN list
         /\ \A i \in 0 .. s.MaxMode - 1 : \A k \in 0 .. n - 1 : map[i][k] = s.TextOutModeMap[i][k]
         /\ \A i \in 0 .. s.MaxMode - 1 : \A k \in DOMAIN list : k >= n => map[i][k] = -1
    <3>1. s.MaxMode \in Nat /\ s.MaxMode >= 2
      BY <2>2 DEF Table, Base, Rows
    <3>2. \A k \in 0 .. n - 1 : k \in DOMAIN list
      BY <1>2, <2>1, <2>5, <2>6
    <3>3. \A k \in DOMAIN list : k >= n => k \notin 0 .. n - 1
      BY <2>1, <1>2
    <3> QED  BY <2>7, <2>8, <2>10, <3>1, <3>2, <3>3
  <2>14. \A i \in 0 .. s.MaxMode - 1 : SizeOf(t, i) = SizeOf(s, i)
    <3>1. 0 \in 0 .. n - 1
      BY <2>1, <1>2
    <3>2. t.TextOutModeMap # << >>
      <4>1. 0 \in DOMAIN t.TextOutModeMap
        BY <2>9, <2>13
      <4> QED  BY <4>1
    <3> QED  BY <2>9, <2>10, <2>13, <3>1, <3>2 DEF SizeOf
  <2>15. 0 \in 0 .. n - 1 /\ 0 \in 0 .. count - 1
    BY <2>1, <1>2
  <2>16. t.TextOutList[0] = s.TextOutList[0]
    BY <2>6, <2>9, <2>15
  <2>17. Base(t)
    <3>1. Rows(t)
      BY <2>2, <2>9, <2>13 DEF Table, Base, Rows
    <3>2. QueryData(t, t.TextOutList[0])
      BY <2>2, <2>9, <2>16 DEF Table, Base, QueryData
    <3>3. FirstColumn(t, t.TextOutList[0])
      <4>1. \A i \in 0 .. s.MaxMode - 1 : t.TextOutModeMap[i][0] = s.TextOutModeMap[i][0]
        BY <2>9, <2>13, <2>15
      <4>2. 0 \in 0 .. s.MaxMode - 1 /\ 1 \in 0 .. s.MaxMode - 1
            /\ \A i \in 2 .. s.MaxMode - 1 : i \in 0 .. s.MaxMode - 1
        BY <2>13
      <4> QED  BY <2>2, <2>9, <2>16, <4>1, <4>2 DEF Table, Base, FirstColumn
    <3> QED  BY <3>1, <3>2, <3>3 DEF Base
  <2>18. Unused(t, n)
    BY <2>9, <2>13 DEF Unused
  <2>19. \A k \in 0 .. n - 1 : Column(t, k, t.TextOutList[k])
    <3> TAKE k \in 0 .. n - 1
    <3>1. t.TextOutList[k] = s.TextOutList[k]
      BY <2>1, <2>6, <2>9
    <3>2. Column(s, k, s.TextOutList[k])
      BY <2>2 DEF Table
    <3>3. \A i \in 0 .. s.MaxMode - 1 : t.TextOutModeMap[i][k] = s.TextOutModeMap[i][k]
      BY <2>9, <2>13
    <3> HIDE DEF n
    <3> QED  BY <2>9, <2>14, <3>1, <3>2, <3>3 DEF Column
  <2>20. Table(t, n)
    BY <2>17, <2>18, <2>19 DEF Table
  <2>21. n < TextOutListCount(t)
    BY <1>1, <2>4, <2>5, <2>11
  <2>22. Roomier(t, s)
    BY <2>1, <2>6, <2>9 DEF Roomier, Columns
  <2> QED  BY <2>12, <2>20, <2>21, <2>22
<1> QED  BY <1>3, <1>4

\* A device in the first free place of the list.
LEMMA OneMoreListed ==
    ASSUME NEW s, NEW n \in Nat, Listed(s, n), n < TextOutListCount(s), NEW d \in Devices,
           d \notin {s.TextOutList[k] : k \in 0 .. n - 1}
    PROVE  LET t == [s EXCEPT !.TextOutList[n] = d]
           IN  /\ Listed(t, n + 1) /\ t.TextOutList[n] = d
               /\ \A k \in 0 .. n - 1 : t.TextOutList[k] = s.TextOutList[k]
               /\ n # 0 /\ Table(s, n) => Table(t, n)
               /\ t.Cursor = s.Cursor /\ t.Mode = s.Mode /\ t.MaxMode = s.MaxMode
               /\ t.TextOutQueryDataCount = s.TextOutQueryDataCount
               /\ t.CurrentNumberOfConsoles = s.CurrentNumberOfConsoles
               /\ t.CurrentNumberOfGraphicsOutput = s.CurrentNumberOfGraphicsOutput
<1> DEFINE count == TextOutListCount(s)
           list == [s.TextOutList EXCEPT ![n] = d]
           t == [s EXCEPT !.TextOutList[n] = d]
<1>1. /\ DOMAIN s = SplitterFields /\ DOMAIN s.TextOutList = 0 .. count - 1
      /\ count \in Nat \ {0} /\ n \in 0 .. count - 1
  BY DEF Listed
<1>2. \A k \in 0 .. n - 1 : k \in 0 .. count - 1 /\ k # n
  BY <1>1
<1>3. /\ DOMAIN list = 0 .. count - 1 /\ list[n] = d
      /\ \A k \in 0 .. n - 1 : list[k] = s.TextOutList[k]
  BY <1>1, <1>2
<1>4. t = [s EXCEPT !.TextOutList = list]
  BY <1>1 DEF SplitterFields
<1> HIDE DEF list, t
<1>5. /\ DOMAIN t = SplitterFields /\ t.TextOutList = list
      /\ t.Cursor = s.Cursor /\ t.Mode = s.Mode /\ t.MaxMode = s.MaxMode
      /\ t.TextOutQueryData = s.TextOutQueryData
      /\ t.TextOutQueryDataCount = s.TextOutQueryDataCount
      /\ t.TextOutModeMap = s.TextOutModeMap
      /\ t.CurrentNumberOfConsoles = s.CurrentNumberOfConsoles
      /\ t.CurrentNumberOfGraphicsOutput = s.CurrentNumberOfGraphicsOutput
  BY <1>1, <1>4 DEF SplitterFields
<1>6. TextOutListCount(t) = count
  BY <1>1, <1>3, <1>5 DEF TextOutListCount
<1>7. Listed(t, n + 1)
  <2>1. n + 1 \in 0 .. count
    BY <1>1
  <2>2. \A k \in 0 .. n : k \in 0 .. n - 1 \/ k = n
    OBVIOUS
  <2>3. \A k \in 0 .. n - 1 : s.TextOutList[k] \in Devices
    BY DEF Listed
  <2>4. \A k \in 0 .. n : list[k] \in Devices
    BY <1>3, <2>2, <2>3
  <2>5. \A j, k \in 0 .. n - 1 : s.TextOutList[j] = s.TextOutList[k] => j = k
    BY DEF Listed
  <2>6. \A j, k \in 0 .. n : list[j] = list[k] => j = k
    <3> TAKE j, k \in 0 .. n
    <3>1. (j \in 0 .. n - 1 \/ j = n) /\ (k \in 0 .. n - 1 \/ k = n)
      BY <2>2
    <3>2. CASE j = n /\ k = n
      BY <3>2
    <3>3. CASE j = n /\ k \in 0 .. n - 1
      BY <1>3, <3>3
    <3>4. CASE j \in 0 .. n - 1 /\ k = n
      BY <1>3, <3>4
    <3>5. CASE j \in 0 .. n - 1 /\ k \in 0 .. n - 1
      BY <1>3, <2>5, <3>5
    <3> QED  BY <3>1, <3>2, <3>3, <3>4, <3>5
  <2>7. (n + 1) - 1 = n
    OBVIOUS
  <2> QED  BY <1>1, <1>3, <1>5, <1>6, <2>1, <2>4, <2>6, <2>7 DEF Listed
<1>8. ASSUME n # 0, Table(s, n)
      PROVE  Table(t, n)
  <2>1. 0 \in 0 .. n - 1
    BY <1>8
  <2>2. t.TextOutList[0] = s.TextOutList[0] /\ DOMAIN t.TextOutList = DOMAIN s.TextOutList
    BY <1>1, <1>3, <1>5, <2>1
  <2>3. \A i : SizeOf(t, i) = SizeOf(s, i)
    BY <1>5 DEF SizeOf
  <2>4. Base(t)
    BY <1>5, <1>8, <2>2 DEF Table, Base, Rows, QueryData, FirstColumn
  <2>5. Unused(t, n)
    BY <1>5, <1>8, <2>2 DEF Table, Unused
  <2>6. \A k \in 0 .. n - 1 : Column(t, k, t.TextOutList[k])
    <3> TAKE k \in 0 .. n - 1
    <3>1. t.TextOutList[k] = s.TextOutList[k] /\ Column(s, k, s.TextOutList[k])
      BY <1>3, <1>5, <1>8 DEF Table
    <3> QED  BY <1>5, <2>3, <3>1 DEF Column
  <2> QED  BY <2>4, <2>5, <2>6 DEF Table
<1> QED  BY <1>3, <1>5, <1>7, <1>8 DEF t

\* The table of one device more.
LEMMA JoinedByIs ==
    ASSUME NEW s, Console(s), s.Mode = InitMode, NEW d \in Devices, d \notin Behind(s)
    PROVE  LET t == JoinedBy(s, d)
           IN  /\ Console(t) /\ NoMode(t)
               /\ t.CurrentNumberOfGraphicsOutput = s.CurrentNumberOfGraphicsOutput
               /\ Behind(t) = Behind(s) \union {d}
<1> DEFINE n == s.CurrentNumberOfConsoles
           room == RoomForOne(s)
           listed == [room EXCEPT !.TextOutList[n] = d]
           synced == IF n = 0 THEN AddOutputMode(listed, d) ELSE SyncOutputMode(listed, d)
           t == [synced EXCEPT !.CurrentNumberOfConsoles = @ + 1]
<1>1. /\ n \in Nat /\ s.MaxMode \in 1 .. InitMode /\ DOMAIN s = SplitterFields
      /\ s.TextOutQueryDataCount \in Nat
  BY ConsoleFacts
<1>2. /\ Roomier(room, s) /\ Listed(room, n) /\ n < TextOutListCount(room)
      /\ n # 0 => Table(room, n)
  BY RoomForOneIs
<1>3. \A k \in 0 .. n - 1 : room.TextOutList[k] = s.TextOutList[k] /\ s.TextOutList[k] # d
  BY <1>2 DEF Roomier, Columns, Behind
<1>4. JoinedBy(s, d) = t
  BY <1>2 DEF JoinedBy, Roomier
<1> HIDE DEF room
<1>5. /\ Listed(listed, n + 1) /\ listed.TextOutList[n] = d
      /\ \A k \in 0 .. n - 1 : listed.TextOutList[k] = s.TextOutList[k]
      /\ n # 0 => Table(listed, n)
      /\ listed.Cursor = s.Cursor /\ listed.Mode = s.Mode /\ listed.MaxMode = s.MaxMode
      /\ listed.TextOutQueryDataCount = s.TextOutQueryDataCount
      /\ listed.CurrentNumberOfConsoles = n
      /\ listed.CurrentNumberOfGraphicsOutput = s.CurrentNumberOfGraphicsOutput
  <2>1. d \notin {room.TextOutList[k] : k \in 0 .. n - 1}
    BY <1>3
  <2>3. n # 0 => Table(room, n)
    BY <1>2
  <2>2. /\ Listed(listed, n + 1) /\ listed.TextOutList[n] = d
        /\ \A k \in 0 .. n - 1 : listed.TextOutList[k] = room.TextOutList[k]
        /\ n # 0 /\ Table(room, n) => Table(listed, n)
        /\ listed.Cursor = room.Cursor /\ listed.Mode = room.Mode
        /\ listed.MaxMode = room.MaxMode
        /\ listed.TextOutQueryDataCount = room.TextOutQueryDataCount
        /\ listed.CurrentNumberOfConsoles = room.CurrentNumberOfConsoles
        /\ listed.CurrentNumberOfGraphicsOutput = room.CurrentNumberOfGraphicsOutput
    BY <1>1, <1>2, <2>1, OneMoreListed
  <2> HIDE DEF listed
  <2> QED  BY <1>2, <1>3, <2>2 DEF Roomier
<1> HIDE DEF listed
<1>6. /\ DOMAIN synced = SplitterFields /\ synced.TextOutList = listed.TextOutList
      /\ synced.Cursor = s.Cursor /\ synced.CurrentNumberOfConsoles = n
      /\ synced.CurrentNumberOfGraphicsOutput = s.CurrentNumberOfGraphicsOutput
      /\ Table(synced, n + 1) /\ NoMode(synced)
  <2>1. CASE n = 0
    <3>1. Listed(listed, 1) /\ listed.TextOutList[0] = d
      BY <1>5, <2>1
    <3>2. SamePlaces(synced, listed) /\ Table(synced, 1) /\ synced.MaxMode = ModeCount(d)
      BY <1>1, <1>5, <2>1, <3>1, AddOutputModeTable
    <3>3. ModeCount(d) \in 2 .. InitMode
      BY DeviceFacts
    <3>4. NoMode(synced)
      BY <1>5, <3>2, <3>3 DEF SamePlaces, NoMode, InitMode
    <3> HIDE DEF synced
    <3> QED  BY <1>5, <2>1, <3>2, <3>4 DEF SamePlaces
  <2>2. CASE n # 0
    <3>1. n >= 1
      BY <1>1, <2>2
    <3>2. SameConsoles(synced, listed) /\ ModeFollows(synced, listed) /\ Table(synced, n + 1)
      BY <1>1, <1>5, <2>2, <3>1, SyncOutputModeTable
    <3> HIDE DEF synced
    <3>3. InitMode \in Nat /\ InitMode >= listed.MaxMode
      <4>1. s.MaxMode <= InitMode
        BY <1>1 DEF InitMode
      <4> QED  BY <1>5, <4>1 DEF InitMode
    <3>4. NoMode(synced)
      BY <1>5, <3>2, <3>3 DEF ModeFollows, NoMode
    <3> QED  BY <1>5, <3>2, <3>4 DEF SameConsoles
  <2> QED  BY <2>1, <2>2
<1> HIDE DEF synced
<1>7. /\ SameTable(t, synced) /\ t.Cursor = s.Cursor /\ t.Mode = synced.Mode
      /\ t.CurrentNumberOfConsoles = n + 1
      /\ t.CurrentNumberOfGraphicsOutput = s.CurrentNumberOfGraphicsOutput
  BY <1>6 DEF SplitterFields, SameTable
<1> HIDE DEF t
<1>8. Listed(synced, n + 1)
  BY <1>5, <1>6 DEF Listed, TextOutListCount
<1>9. Listed(t, n + 1) /\ Table(t, n + 1)
  BY <1>6, <1>7, <1>8, TableKept
<1>10. Console(t)
  <2>1. n + 1 # 0
    BY <1>1
  <2>2. OnScreen(t.Cursor)
    BY <1>7 DEF Console
  <2> QED  BY <1>7, <1>9, <2>1, <2>2 DEF Console
<1>11. NoMode(t)
  BY <1>6, <1>7 DEF NoMode, SameTable
<1>12. Behind(t) = Behind(s) \union {d}
  <2>1. t.TextOutList = listed.TextOutList
    BY <1>6, <1>7 DEF SameTable
  <2>2. Columns(t) = 0 .. n /\ Columns(s) = 0 .. n - 1
    BY <1>1, <1>7 DEF Columns
  <2>3. \A k \in 0 .. n : k \in 0 .. n - 1 \/ k = n
    BY <1>1
  <2>4. n \in 0 .. n /\ \A k \in 0 .. n - 1 : k \in 0 .. n
    BY <1>1
  <2>5. \A e \in Behind(t) : e \in Behind(s) \/ e = d
    BY <1>5, <2>1, <2>2, <2>3 DEF Behind
  <2>6. \A e \in Behind(s) \union {d} : e \in Behind(t)
    <3>1. d \in Behind(t)
      BY <1>5, <2>1, <2>2, <2>4 DEF Behind
    <3>2. \A k \in 0 .. n - 1 : s.TextOutList[k] \in Behind(t)
      BY <1>5, <2>1, <2>2, <2>4 DEF Behind
    <3> QED  BY <2>2, <3>1, <3>2 DEF Behind
  <2> QED  BY <2>5, <2>6, Zenon
<1> QED  BY <1>4, <1>7, <1>10, <1>11, <1>12

-----------------------------------------------------------------------------
(* The virtual graphics output.                                            *)

LEMMA ResolutionFacts ==
    ASSUME NEW d \in Devices
    PROVE  /\ GraphicsModes[d] \in Seq(ToSet(GraphicsModes[d])) /\ Len(GraphicsModes[d]) \in Nat
           /\ HasGraphics(d) => Len(GraphicsModes[d]) >= 1
           /\ \A i \in 1 .. Len(GraphicsModes[d]) : GraphicsModes[d][i] \in ToSet(GraphicsModes[d])
           /\ \A r \in ToSet(GraphicsModes[d]) :
                /\ HasGraphics(d)
                /\ NumberOf(d, r) \in 0 .. Len(GraphicsModes[d]) - 1
                /\ GraphicsModes[d][NumberOf(d, r) + 1] = r
<1> DEFINE g == GraphicsModes[d]
<1>1. g \in Seq(ToSet(g))
  BY OutAssumption
<1>2. Len(g) \in Nat /\ DOMAIN g = 1 .. Len(g) /\ (g # << >> => Len(g) >= 1)
  <2> HIDE DEF g
  <2> QED  BY <1>1
<1>3. \A i \in 1 .. Len(g) : g[i] \in ToSet(g)
  <2> HIDE DEF g
  <2> QED  BY <1>2 DEF ToSet
<1>4. ASSUME NEW r \in ToSet(g)
      PROVE  /\ HasGraphics(d) /\ NumberOf(d, r) \in 0 .. Len(g) - 1
             /\ g[NumberOf(d, r) + 1] = r
  <2> DEFINE found == {n \in DOMAIN g : g[n] = r}
  <2>1. found # {} /\ found \in SUBSET Nat
    <3> HIDE DEF g
    <3> QED  BY <1>2, <1>4 DEF ToSet
  <2>2. Least(found) \in found
    <3> HIDE DEF found
    <3> QED  BY <2>1, LeastFacts
  <2>3. NumberOf(d, r) = Least(found) - 1
    <3>1. NumberOf(d, r) = IF found = {} THEN Len(g) ELSE Least(found) - 1
      BY Zenon DEF NumberOf
    <3> HIDE DEF found, g
    <3> QED  BY <2>1, <3>1
  <2>4. Least(found) \in 1 .. Len(g) /\ g[Least(found)] = r
    <3> HIDE DEF g
    <3> QED  BY <1>2, <2>2
  <2>5. HasGraphics(d)
    BY <1>2, <2>4 DEF HasGraphics
  <2> HIDE DEF g, found
  <2> QED  BY <1>2, <2>3, <2>4, <2>5
<1> QED  BY <1>1, <1>2, <1>3, <1>4 DEF HasGraphics

\* The devices of D are set to a resolution, if they have it.
Resolved(t, st, D, r) ==
    /\ DOMAIN t = StateFields /\ DeviceOK(t.device)
    /\ t.splitter = st.splitter /\ t.graphics = st.graphics
    /\ \A d \in Devices \ D : t.device[d] = st.device[d]
    /\ \A d \in D : r \in ToSet(GraphicsModes[d]) => Resolution(t, d) = r
    /\ (\A d \in D : r \in ToSet(GraphicsModes[d])) => t.failed = FALSE

LEMMA SetResolutionsIs ==
    ASSUME NEW st, DOMAIN st = StateFields, DeviceOK(st.device), NEW D \in SUBSET Devices,
           NEW r
    PROVE  Resolved(SetResolutions(st, D, r), st, D, r)
<1> DEFINE dev == [d \in Devices |->
                     IF d \in D /\ r \in ToSet(GraphicsModes[d])
                     THEN [st.device[d] EXCEPT !.graphicsMode = NumberOf(d, r)] ELSE st.device[d]]
           bad == \E d \in D : r \notin ToSet(GraphicsModes[d])
           t == SetResolutions(st, D, r)
<1>1. t = [st EXCEPT !.device = dev, !.failed = bad]
  BY DEF SetResolutions
<1>2. DOMAIN dev = Devices
  OBVIOUS
<1>3. \A d \in Devices : dev[d] = IF d \in D /\ r \in ToSet(GraphicsModes[d])
        THEN [st.device[d] EXCEPT !.graphicsMode = NumberOf(d, r)] ELSE st.device[d]
  OBVIOUS
<1>4. (\A d \in D : r \in ToSet(GraphicsModes[d])) => bad = FALSE
  OBVIOUS
<1> HIDE DEF t, dev, bad
<1>5. /\ DOMAIN t = StateFields /\ t.device = dev /\ t.failed = bad
      /\ t.splitter = st.splitter /\ t.graphics = st.graphics
  BY <1>1 DEF StateFields
<1>6. \A d \in Devices :
        /\ DOMAIN dev[d] = DeviceFields /\ Supports(d, dev[d].textMode)
        /\ HasGraphics(d) => dev[d].graphicsMode \in 0 .. Len(GraphicsModes[d]) - 1
        /\ d \in D /\ r \in ToSet(GraphicsModes[d]) => GraphicsModes[d][dev[d].graphicsMode + 1] = r
        /\ d \notin D => dev[d] = st.device[d]
  <2> TAKE d \in Devices
  <2>1. /\ DOMAIN st.device[d] = DeviceFields /\ Supports(d, st.device[d].textMode)
        /\ HasGraphics(d) => st.device[d].graphicsMode \in 0 .. Len(GraphicsModes[d]) - 1
    BY DEF DeviceOK
  <2>2. CASE d \in D /\ r \in ToSet(GraphicsModes[d])
    <3>1. dev[d] = [st.device[d] EXCEPT !.graphicsMode = NumberOf(d, r)]
      BY <1>3, <2>2
    <3>2. /\ NumberOf(d, r) \in 0 .. Len(GraphicsModes[d]) - 1
          /\ GraphicsModes[d][NumberOf(d, r) + 1] = r
      BY <2>2, ResolutionFacts
    <3>3. /\ DOMAIN dev[d] = DeviceFields /\ dev[d].textMode = st.device[d].textMode
          /\ dev[d].graphicsMode = NumberOf(d, r)
      BY <2>1, <3>1 DEF DeviceFields
    <3> QED  BY <2>1, <2>2, <3>2, <3>3
  <2>3. CASE ~(d \in D /\ r \in ToSet(GraphicsModes[d]))
    <3>1. dev[d] = st.device[d]
      BY <1>3, <2>3
    <3> QED  BY <2>1, <2>3, <3>1
  <2> QED  BY <2>2, <2>3
<1>7. DeviceOK(dev)
  BY <1>2, <1>6 DEF DeviceOK
<1> QED  BY <1>4, <1>5, <1>6, <1>7 DEF t, Resolution, Resolved

GraphicsFields == {"modes", "mode", "installed", "info", "frameBuffer"}

\* A resolution that all graphics devices have.
OnAll(r) == \A d \in Devices : HasGraphics(d) => r \in ToSet(GraphicsModes[d])

\* What the virtual graphics output offers for the devices of D, and whose frame
\* buffer it lends.
Offers(g, D) ==
    /\ DOMAIN g = GraphicsFields
    /\ g.modes \in Seq(ToSet(g.modes))
    /\ \A d \in D : ToSet(g.modes) \subseteq ToSet(GraphicsModes[d])
    /\ D # {} => \A r : OnAll(r) => r \in ToSet(g.modes)
    /\ D # {} /\ g.frameBuffer # NoDevice => D = {g.frameBuffer}

\* Its current mode is that of all devices.
Shows(g, dev, D) ==
    /\ Offers(g, D)
    /\ g.mode \in 0 .. Len(g.modes) - 1 /\ g.modes[g.mode + 1] = g.info
    /\ \A d \in D : GraphicsModes[d][dev[d].graphicsMode + 1] = g.info

Counted(s) ==
    /\ IsFiniteSet(GraphicsDevices(s)) /\ GraphicsDevices(s) \in SUBSET Devices
    /\ s.CurrentNumberOfGraphicsOutput = Cardinality(GraphicsDevices(s))

LEMMA ModeAt ==
    ASSUME NEW g, g.modes \in Seq(ToSet(g.modes)), NEW n \in 0 .. Len(g.modes) - 1
    PROVE  n + 1 \in 1 .. Len(g.modes) /\ g.modes[n + 1] \in ToSet(g.modes)
<1> DEFINE m == g.modes
<1>1. m \in Seq(ToSet(m)) /\ n \in 0 .. Len(m) - 1
  OBVIOUS
<1> HIDE DEF m
<1>2. Len(m) \in Nat /\ DOMAIN m = 1 .. Len(m)
  BY <1>1
<1>3. n + 1 \in 1 .. Len(m)
  BY <1>1, <1>2
<1>4. m[n + 1] \in ToSet(m)
  BY <1>2, <1>3 DEF ToSet
<1> QED  BY <1>3, <1>4 DEF m

\* A mode on offer is set on all the devices.
LEMMA GraphicsSetModeCallIs ==
    ASSUME NEW st, DOMAIN st = StateFields, DeviceOK(st.device),
           Counted(st.splitter["ConOut"]),
           Offers(st.graphics, GraphicsDevices(st.splitter["ConOut"])),
           NEW n \in 0 .. Len(st.graphics.modes) - 1
    PROVE  LET t == GraphicsSetModeCall(st, n)
           IN  /\ DOMAIN t = StateFields /\ DeviceOK(t.device) /\ t.splitter = st.splitter
               /\ Shows(t.graphics, t.device, GraphicsDevices(st.splitter["ConOut"]))
               /\ t.graphics.installed = st.graphics.installed
               /\ t.failed = FALSE
<1> DEFINE s == st.splitter["ConOut"]
           D == GraphicsDevices(s)
           r == st.graphics.modes[n + 1]
           t == SetResolutions(st, D, r)
           d == CHOOSE e \in D : TRUE
           one == s.CurrentNumberOfGraphicsOutput = 1 /\ D # {}
           u == GraphicsSetModeCall(st, n)
           g == u.graphics
           Goal == /\ DOMAIN u = StateFields /\ DeviceOK(u.device) /\ u.splitter = st.splitter
                   /\ Shows(u.graphics, u.device, D)
                   /\ u.graphics.installed = st.graphics.installed
                   /\ u.failed = FALSE
<1> SUFFICES Goal
  OBVIOUS
<1>1. /\ IsFiniteSet(D) /\ D \in SUBSET Devices
      /\ s.CurrentNumberOfGraphicsOutput = Cardinality(D)
  BY DEF Counted
<1>2. Offers(st.graphics, D) /\ DOMAIN st.graphics = GraphicsFields
  BY DEF Offers
<1>3. r \in ToSet(st.graphics.modes)
  BY <1>2, ModeAt DEF Offers
<1>4. \A e \in D : r \in ToSet(GraphicsModes[e])
  BY <1>2, <1>3 DEF Offers
<1>5. u = IF one
          THEN [t EXCEPT !.graphics.mode = n, !.graphics.frameBuffer = d,
                         !.graphics.info = Resolution(t, d)]
          ELSE [t EXCEPT !.graphics.mode = n, !.graphics.info = r]
  <2>1. Len(st.graphics.modes) \in Nat
    BY <1>2 DEF Offers
  <2>2. ~(n >= Len(st.graphics.modes))
    BY <2>1
  <2>3. u = IF n >= Len(st.graphics.modes) THEN [st EXCEPT !.failed = TRUE]
            ELSE IF one
            THEN [t EXCEPT !.graphics.mode = n, !.graphics.frameBuffer = d,
                           !.graphics.info = Resolution(t, d)]
            ELSE [t EXCEPT !.graphics.mode = n, !.graphics.info = r]
    BY Zenon DEF GraphicsSetModeCall
  <2> HIDE DEF u, one, t, d, r
  <2> QED  BY <2>2, <2>3
<1> HIDE DEF D
<1>6. /\ DOMAIN t = StateFields /\ DeviceOK(t.device)
      /\ t.splitter = st.splitter /\ t.graphics = st.graphics
      /\ (\A e \in D : Resolution(t, e) = r) /\ t.failed = FALSE
  <2>1. D \in SUBSET Devices
    BY <1>1
  <2> HIDE DEF r
  <2>2. Resolved(t, st, D, r)
    BY <2>1, SetResolutionsIs, Zenon
  <2> HIDE DEF t
  <2> QED  BY <1>4, <2>2 DEF Resolved
<1> HIDE DEF t
<1>7. /\ DOMAIN u = StateFields /\ u.device = t.device /\ u.splitter = st.splitter
      /\ u.failed = FALSE
      /\ DOMAIN g = GraphicsFields /\ g.modes = st.graphics.modes /\ g.mode = n
      /\ g.installed = st.graphics.installed /\ g.info = r
      /\ g.frameBuffer = IF one THEN d ELSE st.graphics.frameBuffer
  <2>1. one => d \in D
    BY Zenon
  <2>2. CASE one
    <3>1. Resolution(t, d) = r
      BY <1>6, <2>1, <2>2
    <3> DEFINE x == [[[t.graphics EXCEPT !.mode = n] EXCEPT !.frameBuffer = d]
                       EXCEPT !.info = r]
    <3>2. u = [t EXCEPT !.graphics = x]
      BY <1>5, <1>6, <2>2, <3>1 DEF StateFields
    <3>3. /\ DOMAIN x = GraphicsFields /\ x.modes = st.graphics.modes /\ x.mode = n
          /\ x.installed = st.graphics.installed /\ x.info = r /\ x.frameBuffer = d
      <4> HIDE DEF d, r
      <4> QED  BY <1>2, <1>6 DEF GraphicsFields
    <3> HIDE DEF u, x, d, r, one
    <3>4. /\ DOMAIN u = StateFields /\ u.device = t.device /\ u.splitter = t.splitter
          /\ u.failed = t.failed /\ u.graphics = x
      BY <1>6, <3>2 DEF StateFields
    <3> QED  BY <1>6, <2>2, <3>3, <3>4
  <2>3. CASE ~one
    <3> DEFINE x == [[t.graphics EXCEPT !.mode = n] EXCEPT !.info = r]
    <3>1. u = [t EXCEPT !.graphics.mode = n, !.graphics.info = r]
      <4> HIDE DEF u, one, d, r
      <4> QED  BY <1>5, <2>3
    <3>2. u = [t EXCEPT !.graphics = x]
      <4> HIDE DEF u, r
      <4> QED  BY <1>6, <3>1 DEF StateFields
    <3>3. /\ DOMAIN x = GraphicsFields /\ x.modes = st.graphics.modes /\ x.mode = n
          /\ x.installed = st.graphics.installed /\ x.info = r
          /\ x.frameBuffer = st.graphics.frameBuffer
      <4> HIDE DEF r
      <4> QED  BY <1>2, <1>6 DEF GraphicsFields
    <3> HIDE DEF u, x, d, r, one
    <3>4. /\ DOMAIN u = StateFields /\ u.device = t.device /\ u.splitter = t.splitter
          /\ u.failed = t.failed /\ u.graphics = x
      BY <1>6, <3>2 DEF StateFields
    <3> QED  BY <1>6, <2>3, <3>3, <3>4
  <2> QED  BY <2>2, <2>3
<1> HIDE DEF u, d
<1>8. one => d \in D /\ D = {d}
  <2>1. ASSUME one PROVE d \in D
    BY <2>1 DEF d
  <2>2. ASSUME one PROVE D = {d}
    <3>1. Cardinality(D) = 1
      BY <1>1, <2>2
    <3>2. PICK x : D = {x}
      BY <1>1, <3>1, FS_Singleton
    <3> QED  BY <2>1, <2>2, <3>2
  <2> QED  BY <2>1, <2>2
<1>9. Offers(g, D)
  <2>1. D # {} /\ g.frameBuffer # NoDevice => D = {g.frameBuffer}
    <3>1. D # {} /\ st.graphics.frameBuffer # NoDevice => D = {st.graphics.frameBuffer}
      BY <1>2 DEF Offers
    <3> HIDE DEF one
    <3> QED  BY <1>7, <1>8, <3>1
  <2> QED  BY <1>2, <1>7, <2>1 DEF Offers
<1>10. Shows(g, u.device, D)
  <2>1. \A e \in D : GraphicsModes[e][u.device[e].graphicsMode + 1] = r
    BY <1>6, <1>7 DEF Resolution
  <2> QED  BY <1>7, <1>9, <2>1 DEF Shows
<1> QED  BY <1>6, <1>7, <1>10

\* Turn i of the loop over the modes: mode i stays if the device has it too, and it
\* is not there yet.
KeepTurn(m, A, x, i) == IF m[i] \in A \ ToSet(x) THEN Append(x, m[i]) ELSE x

IsKeeping(f, m, A) ==
    f = [i \in 0 .. Len(m) |-> IF i = 0 THEN << >> ELSE KeepTurn(m, A, f[i - 1], i)]

LEMMA KeepingExists ==
    ASSUME NEW m, m \in Seq(ToSet(m)), NEW A
    PROVE  \E f : IsKeeping(f, m, A)
<1> DEFINE L == Len(m)
           S == Seq(ToSet(m))
           Turn == [i \in 1 .. L |-> [x \in S |-> KeepTurn(m, A, x, i)]]
<1>1. L \in Nat /\ << >> \in S /\ \A i \in 1 .. L : m[i] \in ToSet(m)
  OBVIOUS
<1>2. \A i \in 1 .. L : \A x \in S : KeepTurn(m, A, x, i) \in S
  <2> TAKE i \in 1 .. L
  <2> TAKE x \in S
  <2>1. Append(x, m[i]) \in S
    BY <1>1
  <2> HIDE DEF S
  <2> QED  BY <2>1 DEF KeepTurn
<1>3. Turn \in [1 .. L -> [S -> S]]
  <2> HIDE DEF S, L
  <2> QED  BY <1>2
<1>4. \A i \in 1 .. L : \A x \in S : Turn[i][x] = KeepTurn(m, A, x, i)
  <2> HIDE DEF S, L
  <2> QED  OBVIOUS
<1>5. PICK f : IsLoop(f, L, S, << >>, Turn)
  <2> HIDE DEF S, L, Turn
  <2> QED  BY <1>1, <1>3, LoopExists
<1>6. \A i \in 1 .. L : i \in 0 .. L /\ i - 1 \in 0 .. L /\ i # 0
  BY <1>1
<1>7. \A i \in 0 .. L : i # 0 => i \in 1 .. L
  BY <1>1
<1> HIDE DEF S, L, Turn
<1>8. f \in [0 .. L -> S] /\ f[0] = << >> /\ \A i \in 1 .. L : f[i] = KeepTurn(m, A, f[i - 1], i)
  <2>1. f \in [0 .. L -> S] /\ f[0] = << >> /\ \A i \in 1 .. L : f[i] = Turn[i][f[i - 1]]
    BY <1>5, Zenon DEF IsLoop
  <2>2. \A i \in 1 .. L : f[i - 1] \in S
    BY <1>6, <2>1
  <2> QED  BY <1>4, <2>1, <2>2
<1>9. \A i \in 0 .. L : f[i] = IF i = 0 THEN << >> ELSE KeepTurn(m, A, f[i - 1], i)
  BY <1>7, <1>8, Zenon
<1>10. f = [i \in 0 .. L |-> IF i = 0 THEN << >> ELSE KeepTurn(m, A, f[i - 1], i)]
  <2>1. f = [i \in 0 .. L |-> f[i]]
    BY <1>8
  <2> QED  BY <1>9, <2>1, Zenon
<1>11. IsKeeping(f, m, A)
  BY <1>10, Zenon DEF L, IsKeeping
<1> QED  BY <1>11, Zenon

\* A further device leaves the modes that it has too.
AreFurther(r, st, d) ==
    /\ GraphicsModesWith(st, d) = [st.graphics EXCEPT !.modes = r, !.frameBuffer = NoDevice]
    /\ r \in Seq(ToSet(r))
    /\ ToSet(r) = ToSet(st.graphics.modes) \cap ToSet(GraphicsModes[d])

LEMMA FurtherModes ==
    ASSUME NEW st, NEW d, st.graphics.modes \in Seq(ToSet(st.graphics.modes)),
           st.splitter["ConOut"].CurrentNumberOfGraphicsOutput # 0
    PROVE  \E r : AreFurther(r, st, d)
<1> DEFINE m == st.graphics.modes
           A == ToSet(GraphicsModes[d])
           L == Len(m)
<1>1. PICK f : IsKeeping(f, m, A)
  <2>1. m \in Seq(ToSet(m))
    OBVIOUS
  <2> HIDE DEF m, A
  <2> QED  BY <2>1, KeepingExists
<1>2. PICK h : /\ h = [i \in 0 .. Len(m) |->
                        IF i = 0 THEN << >> ELSE KeepTurn(m, A, h[i - 1], i)]
               /\ GraphicsModesWith(st, d) =
                    [st.graphics EXCEPT !.modes = h[Len(m)], !.frameBuffer = NoDevice]
  BY <1>1, Zenon DEF GraphicsModesWith, KeepTurn, IsKeeping
<1>3. m \in Seq(ToSet(m)) /\ Len(m) \in Nat /\ L = Len(m)
      /\ (\A i \in 1 .. Len(m) : m[i] \in ToSet(m)) /\ DOMAIN m = 1 .. Len(m)
  <2>1. m \in Seq(ToSet(m)) /\ L = Len(m)
    OBVIOUS
  <2>2. L \in Nat /\ DOMAIN m = 1 .. L
    <3> HIDE DEF m
    <3> QED  BY <2>1
  <2> HIDE DEF m, L
  <2> QED  BY <2>1, <2>2 DEF ToSet
<1> HIDE DEF m, A, L
<1>4. \A i \in 0 .. L : h[i] = IF i = 0 THEN << >> ELSE KeepTurn(m, A, h[i - 1], i)
  BY <1>2, <1>3, Zenon
<1> DEFINE Kept(i) == /\ h[i] \in Seq(ToSet(m))
                      /\ \A x : x \in ToSet(h[i]) <=> x \in A /\ \E j \in 1 .. i : m[j] = x
           T == {i \in 0 .. L : Kept(i)}
<1>5. 0 \in T
  <2>1. 0 \in 0 .. L
    BY <1>3
  <2>2. h[0] = << >>
    BY <1>4, <2>1
  <2>3. ToSet(<< >>) = {} /\ << >> \in Seq(ToSet(m)) /\ 1 .. 0 = {}
    BY DEF ToSet
  <2> QED  BY <2>1, <2>2, <2>3
<1>6. ASSUME NEW i \in 1 .. L, i - 1 \in T
      PROVE  i \in T
  <2> DEFINE x == h[i - 1]
  <2>1. i \in 0 .. L /\ i # 0 /\ i \in Nat /\ i \in 1 .. i
    BY <1>3
  <2>2. x \in Seq(ToSet(m)) /\ \A y : y \in ToSet(x) <=> y \in A /\ \E j \in 1 .. i - 1 : m[j] = y
    BY <1>6
  <2>3. h[i] = KeepTurn(m, A, x, i)
    BY <1>4, <2>1
  <2>4. m[i] \in ToSet(m)
    BY <1>3
  <2>5. \A j \in 1 .. i : j \in 1 .. i - 1 \/ j = i
    BY <2>1
  <2>6. \A j \in 1 .. i - 1 : j \in 1 .. i
    BY <2>1
  <2> HIDE DEF x
  <2>7. Append(x, m[i]) \in Seq(ToSet(m)) /\ ToSet(Append(x, m[i])) = ToSet(x) \union {m[i]}
    BY <2>2, <2>4, ToSetFacts
  <2>8. h[i] \in Seq(ToSet(m)) /\ ToSet(h[i]) = ToSet(x) \union ({m[i]} \cap A)
    <3>1. CASE m[i] \in A \ ToSet(x)
      <4>1. h[i] = Append(x, m[i])
        BY <2>3, <3>1, Zenon DEF KeepTurn
      <4> QED  BY <2>7, <3>1, <4>1
    <3>2. CASE m[i] \notin A \ ToSet(x)
      <4>1. h[i] = x
        BY <2>3, <3>2, Zenon DEF KeepTurn
      <4> QED  BY <2>2, <3>2, <4>1
    <3> QED  BY <3>1, <3>2
  <2>9. ASSUME NEW y
        PROVE  y \in ToSet(h[i]) <=> y \in A /\ \E j \in 1 .. i : m[j] = y
    <3>1. (\E j \in 1 .. i : m[j] = y) <=> m[i] = y \/ \E j \in 1 .. i - 1 : m[j] = y
      BY <2>1, <2>5, <2>6, Zenon
    <3> QED  BY <2>2, <2>8, <3>1
  <2> QED  BY <2>1, <2>8, <2>9
<1>7. L \in T
  <2>1. 0 .. L \subseteq T
    <3> HIDE DEF T
    <3> QED  BY <1>3, <1>5, <1>6, UpToInduction
  <2>2. L \in 0 .. L
    BY <1>3
  <2> QED  BY <2>1, <2>2
<1>8. Kept(L)
  BY <1>7
<1>9. \A x : x \in ToSet(m) <=> \E j \in 1 .. L : m[j] = x
  BY <1>3, Zenon DEF ToSet
<1>10. ToSet(h[L]) = ToSet(m) \cap A
  BY <1>8, <1>9
<1>11. h[L] \in Seq(ToSet(h[L]))
  BY <1>8, ToSetFacts
<1>12. GraphicsModesWith(st, d) = [st.graphics EXCEPT !.modes = h[L], !.frameBuffer = NoDevice]
  BY <1>2, <1>3
<1> QED  BY <1>10, <1>11, <1>12, Zenon DEF m, A, AreFurther

LEMMA IndexForIs ==
    ASSUME NEW g, g.modes \in Seq(ToSet(g.modes)), Len(g.modes) >= 1, NEW r
    PROVE  /\ IndexFor(g, r) \in 0 .. Len(g.modes) - 1
           /\ r \in ToSet(g.modes) => g.modes[IndexFor(g, r) + 1] = r
<1> DEFINE m == g.modes
           At(x) == {n \in DOMAIN m : m[n] = x}
           i == IndexFor(g, r)
<1>1. Len(m) \in Nat /\ DOMAIN m = 1 .. Len(m) /\ Len(m) >= 1
  <2>1. m \in Seq(ToSet(m)) /\ Len(m) >= 1
    OBVIOUS
  <2> HIDE DEF m
  <2> QED  BY <2>1
<1>2. i = CASE At(r) # {} -> Least(At(r)) - 1
          [] At(r) = {} /\ At(DefaultResolution) # {} -> Least(At(DefaultResolution)) - 1
          [] OTHER -> 0
  BY Zenon DEF IndexFor
<1> HIDE DEF m, i
<1>3. \A x : At(x) \in SUBSET Nat /\ At(x) \in SUBSET (1 .. Len(m)) /\ \A n \in At(x) : m[n] = x
  BY <1>1
<1>4. r \in ToSet(m) => At(r) # {}
  BY DEF ToSet
<1> HIDE DEF At
<1>5. \A x : At(x) # {} => Least(At(x)) \in At(x)
  BY <1>3, LeastFacts
<1>6. \A x : At(x) # {} => /\ Least(At(x)) - 1 \in 0 .. Len(m) - 1
                           /\ m[(Least(At(x)) - 1) + 1] = x
  <2> TAKE x
  <2> DEFINE l == Least(At(x))
  <2>1. At(x) # {} => l \in 1 .. Len(m) /\ m[l] = x
    BY <1>3, <1>5
  <2> HIDE DEF l
  <2>2. At(x) # {} => (l - 1) + 1 = l /\ l - 1 \in 0 .. Len(m) - 1
    BY <1>1, <2>1
  <2>3. At(x) # {} => m[(l - 1) + 1] = x
    BY <2>1, <2>2
  <2> QED  BY <2>2, <2>3 DEF l
<1>7. CASE At(r) # {}
  <2>1. i = Least(At(r)) - 1
    BY <1>2, <1>7
  <2> QED  BY <1>6, <1>7, <2>1 DEF m, i
<1>8. CASE At(r) = {} /\ At(DefaultResolution) # {}
  <2>1. i = Least(At(DefaultResolution)) - 1
    BY <1>2, <1>8
  <2> QED  BY <1>4, <1>6, <1>8, <2>1 DEF m, i
<1>9. CASE At(r) = {} /\ At(DefaultResolution) = {}
  <2>1. i = 0
    BY <1>2, <1>9
  <2> QED  BY <1>1, <1>4, <1>9, <2>1 DEF m, i
<1> QED  BY <1>7, <1>8, <1>9

\* What the new device makes of the modes.
LEMMA GraphicsModesWithOffers ==
    ASSUME NEW st, DeviceOK(st.device), NEW D \in SUBSET Devices, IsFiniteSet(D),
           Offers(st.graphics, D), NEW d \in Devices, HasGraphics(d),
           st.splitter["ConOut"].CurrentNumberOfGraphicsOutput = Cardinality(D)
    PROVE  LET g == GraphicsModesWith(st, d)
           IN  /\ Offers(g, D \union {d}) /\ Len(g.modes) >= 1
               /\ g.installed = st.graphics.installed
               /\ D = {} => g.info = Resolution(st, d) /\ g.info \in ToSet(g.modes)
               /\ D # {} => g.info = st.graphics.info
<1> DEFINE g == GraphicsModesWith(st, d)
           old == st.graphics
           B == D \union {d}
           Goal == /\ Offers(g, B) /\ Len(g.modes) >= 1
                   /\ g.installed = st.graphics.installed
                   /\ D = {} => g.info = Resolution(st, d) /\ g.info \in ToSet(g.modes)
                   /\ D # {} => g.info = st.graphics.info
<1> SUFFICES Goal
  OBVIOUS
<1>1. /\ DOMAIN old = GraphicsFields /\ old.modes \in Seq(ToSet(old.modes))
      /\ \A e \in D : ToSet(old.modes) \subseteq ToSet(GraphicsModes[e])
      /\ D # {} => \A r : OnAll(r) => r \in ToSet(old.modes)
  BY DEF Offers
<1>2. PICK common : OnAll(common)
  BY OutAssumption DEF OnAll
<1>3. Cardinality(D) = 0 <=> D = {}
  BY FS_EmptySet
<1>4. ASSUME g.modes \in Seq(ToSet(g.modes)), \A r : OnAll(r) => r \in ToSet(g.modes)
      PROVE  Len(g.modes) >= 1
  <2> DEFINE m == g.modes
  <2>1. common \in ToSet(m) /\ m \in Seq(ToSet(m))
    BY <1>2, <1>4
  <2> HIDE DEF g, m
  <2>2. Len(m) \in Nat /\ DOMAIN m = 1 .. Len(m)
    BY <2>1
  <2>3. Len(m) >= 1
    BY <2>1, <2>2 DEF ToSet
  <2> QED  BY <2>3 DEF m
<1>5. \A r : OnAll(r) => r \in ToSet(GraphicsModes[d])
  BY DEF OnAll
<1>6. CASE D = {}
  <2>1. g = [old EXCEPT !.modes = GraphicsModes[d], !.mode = st.device[d].graphicsMode,
                        !.info = Resolution(st, d), !.frameBuffer = d]
    BY <1>3, <1>6 DEF GraphicsModesWith
  <2> HIDE DEF g
  <2>2. /\ DOMAIN g = GraphicsFields /\ g.modes = GraphicsModes[d]
        /\ g.info = Resolution(st, d) /\ g.frameBuffer = d /\ g.installed = old.installed
    BY <1>1, <2>1 DEF GraphicsFields
  <2>3. g.modes \in Seq(ToSet(g.modes)) /\ \A r : OnAll(r) => r \in ToSet(g.modes)
    BY <1>5, <2>2, ResolutionFacts
  <2>4. Len(g.modes) >= 1
    BY <1>4, <2>3
  <2>5. B = {d}
    BY <1>6
  <2>6. Resolution(st, d) \in ToSet(GraphicsModes[d])
    <3>1. st.device[d].graphicsMode \in 0 .. Len(GraphicsModes[d]) - 1
      BY DEF DeviceOK
    <3>2. Len(GraphicsModes[d]) \in Nat
          /\ \A i \in 1 .. Len(GraphicsModes[d]) : GraphicsModes[d][i] \in ToSet(GraphicsModes[d])
      BY ResolutionFacts
    <3>3. st.device[d].graphicsMode + 1 \in 1 .. Len(GraphicsModes[d])
      BY <3>1, <3>2
    <3> QED  BY <3>2, <3>3 DEF Resolution
  <2>7. Offers(g, B)
    BY <2>2, <2>3, <2>5 DEF Offers
  <2> QED  BY <1>6, <2>2, <2>4, <2>6, <2>7
<1>7. CASE D # {}
  <2>1. st.splitter["ConOut"].CurrentNumberOfGraphicsOutput # 0
    BY <1>3, <1>7
  <2>2. PICK r : /\ g = [old EXCEPT !.modes = r, !.frameBuffer = NoDevice]
                 /\ r \in Seq(ToSet(r))
                 /\ ToSet(r) = ToSet(old.modes) \cap ToSet(GraphicsModes[d])
    <3>1. PICK r : AreFurther(r, st, d)
      BY <1>1, <2>1, FurtherModes
    <3> QED  BY <3>1, Zenon DEF AreFurther
  <2> HIDE DEF g
  <2>3. /\ DOMAIN g = GraphicsFields /\ g.modes = r /\ g.info = old.info
        /\ g.frameBuffer = NoDevice /\ g.installed = old.installed
    BY <1>1, <2>2 DEF GraphicsFields
  <2>4. \A x : OnAll(x) => x \in ToSet(g.modes)
    BY <1>1, <1>5, <1>7, <2>2, <2>3
  <2>5. Len(g.modes) >= 1
    BY <1>4, <2>2, <2>3, <2>4
  <2>6. \A e \in B : ToSet(g.modes) \subseteq ToSet(GraphicsModes[e])
    BY <1>1, <2>2, <2>3
  <2>7. Offers(g, B)
    BY <2>2, <2>3, <2>4, <2>6 DEF Offers
  <2> QED  BY <1>7, <2>3, <2>5, <2>7
<1> QED  BY <1>6, <1>7

\* A graphics device that is on ConOut's list already, with those of D.
Lends(st, D, d) ==
    /\ DOMAIN st = StateFields /\ DOMAIN st.splitter = Splitters
    /\ DOMAIN st.splitter["ConOut"] = SplitterFields
    /\ DeviceOK(st.device)
    /\ D \in SUBSET Devices /\ IsFiniteSet(D) /\ d \in Devices \ D /\ HasGraphics(d)
    /\ GraphicsDevices(st.splitter["ConOut"]) = D \union {d}
    /\ st.splitter["ConOut"].CurrentNumberOfGraphicsOutput = Cardinality(D)
    /\ Shows(st.graphics, st.device, D)

\* The state with one more graphics device.
WithGraphicsOutput(s) ==
    [s EXCEPT !.CurrentNumberOfGraphicsOutput = s.CurrentNumberOfGraphicsOutput + 1]

OneMoreGraphics(t, st) ==
    t.splitter = [st.splitter EXCEPT !["ConOut"] = WithGraphicsOutput(st.splitter["ConOut"])]

LEMMA AddGraphicsOutputModeIs ==
    ASSUME NEW st, NEW D, NEW d, Lends(st, D, d)
    PROVE  LET t == AddGraphicsOutputMode(st, d)
           IN  /\ DOMAIN t = StateFields /\ DeviceOK(t.device) /\ OneMoreGraphics(t, st)
               /\ Shows(t.graphics, t.device, D \union {d})
               /\ t.graphics.installed = st.graphics.installed
               /\ t.failed = FALSE
<1> DEFINE s == st.splitter["ConOut"]
           g == GraphicsModesWith(st, d)
           B == D \union {d}
           z == WithGraphicsOutput(s)
           more == [st.splitter EXCEPT !["ConOut"] = z]
           t == [st EXCEPT !.graphics = g, !.splitter = more]
           index == IndexFor(t.graphics, Resolution(t, d))
           chosen == t.graphics.modes[index + 1]
           x == [t EXCEPT !.graphics.mode = index]
           E == {d} \ {e \in {d} : Resolution(t, e) = chosen}
           y == [t EXCEPT !.graphics.mode = InvalidMode]
           u == AddGraphicsOutputMode(st, d)
           Goal == /\ DOMAIN u = StateFields /\ DeviceOK(u.device) /\ OneMoreGraphics(u, st)
                   /\ Shows(u.graphics, u.device, B)
                   /\ u.graphics.installed = st.graphics.installed
                   /\ u.failed = FALSE
<1> SUFFICES Goal
  OBVIOUS
<1>1. /\ DOMAIN st = StateFields /\ DOMAIN st.splitter = Splitters
      /\ DOMAIN s = SplitterFields /\ DeviceOK(st.device)
      /\ D \in SUBSET Devices /\ IsFiniteSet(D) /\ d \in Devices /\ d \notin D /\ HasGraphics(d)
      /\ GraphicsDevices(s) = B /\ s.CurrentNumberOfGraphicsOutput = Cardinality(D)
      /\ Shows(st.graphics, st.device, D)
  BY DEF Lends
<1>2. /\ Offers(g, B) /\ Len(g.modes) >= 1
      /\ g.installed = st.graphics.installed
      /\ D = {} => g.info = Resolution(st, d) /\ g.info \in ToSet(g.modes)
      /\ D # {} => g.info = st.graphics.info
  <2>1. Offers(st.graphics, D)
    BY <1>1 DEF Shows
  <2> QED  BY <1>1, <2>1, GraphicsModesWithOffers
<1>3. u = LET set == GraphicsSetModeCall(y, index)
          IN  IF chosen = t.graphics.info THEN SetResolutions(x, E, chosen)
              ELSE IF ~set.failed THEN set
              ELSE GraphicsSetModeCall([set EXCEPT !.graphics.modes[1] = DefaultResolution], 0)
  <2>1. t = [st EXCEPT !.graphics = g,
                       !.splitter["ConOut"].CurrentNumberOfGraphicsOutput = @ + 1]
    <3>1. t.splitter = [st.splitter EXCEPT !["ConOut"].CurrentNumberOfGraphicsOutput = @ + 1]
      BY <1>1 DEF StateFields, SplitterFields, Splitters, WithGraphicsOutput
    <3> HIDE DEF g
    <3> QED  BY <1>1 DEF StateFields, WithGraphicsOutput
  <2> HIDE DEF t
  <2> QED  BY <2>1 DEF AddGraphicsOutputMode
<1> HIDE DEF u, g, more, z
<1>4. /\ DOMAIN t = StateFields /\ t.graphics = g /\ t.splitter = more
      /\ t.device = st.device
  BY <1>1 DEF StateFields
<1> HIDE DEF t
<1>5. /\ more["ConOut"].CurrentNumberOfGraphicsOutput = Cardinality(D) + 1
      /\ GraphicsDevices(more["ConOut"]) = B
  <2>1. "ConOut" \in Splitters
    BY DEF Splitters
  <2>2. more["ConOut"] = z
    BY <1>1, <2>1 DEF more
  <2>3. z.CurrentNumberOfGraphicsOutput = Cardinality(D) + 1
        /\ z.TextOutList = s.TextOutList /\ z.CurrentNumberOfConsoles = s.CurrentNumberOfConsoles
    BY <1>1 DEF SplitterFields, WithGraphicsOutput, z
  <2>4. GraphicsDevices(z) = GraphicsDevices(s)
    BY <2>3 DEF GraphicsDevices, Behind, Columns
  <2> QED  BY <1>1, <2>2, <2>3, <2>4
<1>6. Counted(more["ConOut"])
  <2>1. IsFiniteSet(B) /\ Cardinality(B) = Cardinality(D) + 1
    BY <1>1, FS_AddElement
  <2>2. B \in SUBSET Devices
    BY <1>1
  <2> HIDE DEF B
  <2> QED  BY <1>5, <2>1, <2>2 DEF Counted
<1>7. /\ index \in 0 .. Len(g.modes) - 1
      /\ Resolution(t, d) \in ToSet(g.modes) => g.modes[index + 1] = Resolution(t, d)
  <2>1. g.modes \in Seq(ToSet(g.modes))
    BY <1>2 DEF Offers
  <2> QED  BY <1>2, <1>4, <2>1, IndexForIs
<1> HIDE DEF index
<1>8. chosen = g.modes[index + 1] /\ chosen \in ToSet(g.modes)
  <2>1. g.modes \in Seq(ToSet(g.modes))
    BY <1>2 DEF Offers
  <2> QED  BY <1>4, <1>7, <2>1, ModeAt
<1> HIDE DEF chosen
<1>9. DOMAIN g = GraphicsFields
  BY <1>2 DEF Offers
<1>10. \A e \in B : chosen \in ToSet(GraphicsModes[e])
  BY <1>2, <1>8 DEF Offers
<1>11. CASE chosen = g.info
  <2>1. u = SetResolutions(x, E, chosen)
    BY <1>3, <1>4, <1>11
  <2> DEFINE h == [g EXCEPT !.mode = index]
  <2>2. x = [t EXCEPT !.graphics = h]
    BY <1>4 DEF StateFields
  <2>3. /\ DOMAIN h = GraphicsFields /\ h.mode = index /\ h.modes = g.modes
        /\ h.info = g.info /\ h.installed = g.installed /\ h.frameBuffer = g.frameBuffer
    BY <1>9 DEF GraphicsFields
  <2> HIDE DEF h, x
  <2>4. /\ DOMAIN x = StateFields /\ x.graphics = h /\ x.splitter = more
        /\ x.device = st.device
    BY <1>4, <2>2 DEF StateFields
  <2>5. E \in SUBSET Devices /\ E \in SUBSET {d}
    BY <1>1
  <2>6. d \notin E => Resolution(t, d) = chosen
    OBVIOUS
  <2> HIDE DEF E
  <2>7. DeviceOK(x.device)
    BY <1>1, <2>4
  <2>8. Resolved(u, x, E, chosen)
    BY <2>1, <2>4, <2>5, <2>7, SetResolutionsIs
  <2>9. /\ DOMAIN u = StateFields /\ DeviceOK(u.device)
        /\ u.splitter = more /\ u.graphics = h /\ u.failed = FALSE
        /\ \A e \in Devices \ E : u.device[e] = st.device[e]
        /\ \A e \in E : Resolution(u, e) = chosen
    <3>1. \A e \in E : chosen \in ToSet(GraphicsModes[e])
      BY <1>10, <2>5
    <3> QED  BY <2>4, <2>8, <3>1 DEF Resolved
  <2>10. \A e \in B : GraphicsModes[e][u.device[e].graphicsMode + 1] = g.info
    <3> TAKE e \in B
    <3>1. CASE e \in E
      BY <1>11, <2>9, <3>1 DEF Resolution
    <3>2. CASE e \notin E /\ e = d
      BY <1>1, <1>4, <1>11, <2>6, <2>9, <3>2 DEF Resolution
    <3>3. CASE e \notin E /\ e # d
      <4>1. e \in D /\ D # {}
        BY <3>3
      <4>2. GraphicsModes[e][st.device[e].graphicsMode + 1] = st.graphics.info
        BY <1>1, <4>1 DEF Shows
      <4> QED  BY <1>1, <1>2, <2>9, <3>3, <4>1, <4>2
    <3> QED  BY <3>1, <3>2, <3>3
  <2>11. Offers(h, B)
    BY <1>2, <2>3 DEF Offers
  <2>12. Shows(h, u.device, B)
    BY <1>7, <1>8, <1>11, <2>3, <2>10, <2>11 DEF Shows
  <2>13. OneMoreGraphics(u, st)
    BY <2>9 DEF OneMoreGraphics, more, z
  <2> QED  BY <1>2, <2>3, <2>9, <2>12, <2>13
<1>12. CASE chosen # g.info
  <2> DEFINE h == [g EXCEPT !.mode = InvalidMode]
             set == GraphicsSetModeCall(y, index)
  <2>1. u = IF ~set.failed THEN set
            ELSE GraphicsSetModeCall([set EXCEPT !.graphics.modes[1] = DefaultResolution], 0)
    BY <1>3, <1>4, <1>12
  <2>2. y = [t EXCEPT !.graphics = h]
    BY <1>4 DEF StateFields
  <2>3. /\ DOMAIN h = GraphicsFields /\ h.modes = g.modes
        /\ h.info = g.info /\ h.installed = g.installed /\ h.frameBuffer = g.frameBuffer
    BY <1>9 DEF GraphicsFields
  <2> HIDE DEF h, y
  <2>4. /\ DOMAIN y = StateFields /\ y.graphics = h /\ y.splitter = more
        /\ y.device = st.device
    BY <1>4, <2>2 DEF StateFields
  <2>5. Offers(h, B)
    BY <1>2, <2>3 DEF Offers
  <2>6. /\ DeviceOK(y.device) /\ Counted(y.splitter["ConOut"])
        /\ Offers(y.graphics, GraphicsDevices(y.splitter["ConOut"]))
        /\ index \in 0 .. Len(y.graphics.modes) - 1
    BY <1>1, <1>5, <1>6, <1>7, <2>3, <2>4, <2>5
  <2>7. /\ DOMAIN set = StateFields /\ DeviceOK(set.device) /\ set.splitter = y.splitter
        /\ Shows(set.graphics, set.device, GraphicsDevices(y.splitter["ConOut"]))
        /\ set.graphics.installed = y.graphics.installed
        /\ set.failed = FALSE
    BY <2>4, <2>6, GraphicsSetModeCallIs
  <2> HIDE DEF set
  <2>8. u = set
    BY <2>1, <2>7
  <2>9. OneMoreGraphics(u, st)
    BY <2>4, <2>7, <2>8 DEF OneMoreGraphics, more, z
  <2> QED  BY <1>2, <1>5, <2>3, <2>4, <2>7, <2>8, <2>9
<1> QED  BY <1>11, <1>12

-----------------------------------------------------------------------------
(* The invariant, and the operations that keep it.                         *)

GraphicsOK(st) ==
    LET D == GraphicsDevices(st.splitter["ConOut"])
    IN  /\ Counted(st.splitter["ConOut"])
        /\ Shows(st.graphics, st.device, D)
        /\ st.graphics.installed <=> D # {}

StateOK(st) == TextState(st) /\ GraphicsOK(st)

\* Nothing of the graphics output depends on the modes of the text consoles.
LEMMA ShowsKept ==
    ASSUME NEW g, NEW dev, NEW D \in SUBSET Devices, Shows(g, dev, D), NEW new,
           \A d \in D : new[d].graphicsMode = dev[d].graphicsMode
    PROVE  Shows(g, new, D)
BY DEF Shows

LEMMA GraphicsKept ==
    ASSUME NEW st, GraphicsOK(st), NEW t, TextOnly(t, st)
    PROVE  GraphicsOK(t)
<1> DEFINE D == GraphicsDevices(st.splitter["ConOut"])
<1>1. "ConOut" \in Splitters
  BY DEF Splitters
<1>2. SameList(t.splitter["ConOut"], st.splitter["ConOut"]) /\ t.graphics = st.graphics
      /\ \A d \in Devices : t.device[d].graphicsMode = st.device[d].graphicsMode
  BY <1>1 DEF TextOnly
<1>3. GraphicsDevices(t.splitter["ConOut"]) = D
  BY <1>2, SameListFacts
<1>4. /\ Counted(st.splitter["ConOut"]) /\ Shows(st.graphics, st.device, D)
      /\ st.graphics.installed <=> D # {}
  BY DEF GraphicsOK
<1>5. Counted(t.splitter["ConOut"])
  BY <1>2, <1>3, <1>4 DEF Counted, SameList
<1>6. Shows(t.graphics, t.device, D)
  BY <1>2, <1>4 DEF Shows, Counted
<1> QED  BY <1>2, <1>3, <1>4, <1>5, <1>6 DEF GraphicsOK

\* A console with another number of graphics devices, or another colour.
LEMMA ConsoleSame ==
    ASSUME NEW s, Console(s), NEW t, SameTable(t, s), t.Cursor = s.Cursor,
           t.CurrentNumberOfConsoles = s.CurrentNumberOfConsoles, t.Mode = s.Mode
    PROVE  /\ Console(t) /\ ModeKept(t, s)
           /\ Behind(t) = Behind(s) /\ GraphicsDevices(t) = GraphicsDevices(s)
<1>1. /\ t.MaxMode = s.MaxMode /\ t.TextOutList = s.TextOutList
      /\ t.TextOutModeMap = s.TextOutModeMap
      /\ t.TextOutQueryData = s.TextOutQueryData
      /\ t.TextOutQueryDataCount = s.TextOutQueryDataCount
  BY DEF SameTable
<1>2. Listed(t, t.CurrentNumberOfConsoles)
  BY TableKept DEF Console
<1>3. t.CurrentNumberOfConsoles # 0 => Table(t, t.CurrentNumberOfConsoles)
  BY TableKept DEF Console
<1>4. t.CurrentNumberOfConsoles = 0 => Alone(t)
  BY <1>1 DEF Console, Alone
<1>5. Console(t)
  BY <1>2, <1>3, <1>4 DEF Console
<1>6. ModeKept(t, s)
  BY <1>1 DEF ModeKept, InUse, NoMode
<1>7. Behind(t) = Behind(s)
  BY <1>1 DEF Behind, Columns
<1> QED  BY <1>5, <1>6, <1>7 DEF GraphicsDevices

LEMMA SetAttributeCallIs ==
    ASSUME NEW st, TextState(st), NEW p \in Splitters, NEW colour
    PROVE  LET t == SetAttributeCall(st, p, colour)
           IN  /\ TextState(t) /\ TextOnly(t, st)
               /\ \A q \in Splitters : /\ SameTable(t.splitter[q], st.splitter[q])
                                       /\ t.splitter[q].Mode = st.splitter[q].Mode
               /\ \A d \in Devices : t.device[d].textMode = st.device[d].textMode
<1> DEFINE s == st.splitter[p]
           B == Behind(s)
           u == [s EXCEPT !.Attribute = colour]
           dev == [d \in Devices |-> IF d \in B THEN [st.device[d] EXCEPT !.colour = colour]
                                     ELSE st.device[d]]
           more == [st.splitter EXCEPT ![p] = u]
           t == SetAttributeCall(st, p, colour)
           Goal == /\ TextState(t) /\ TextOnly(t, st)
                   /\ \A q \in Splitters : /\ SameTable(t.splitter[q], st.splitter[q])
                                           /\ t.splitter[q].Mode = st.splitter[q].Mode
                   /\ \A d \in Devices : t.device[d].textMode = st.device[d].textMode
<1> SUFFICES Goal
  OBVIOUS
<1>1. /\ DOMAIN st = StateFields /\ DOMAIN st.splitter = Splitters /\ DeviceOK(st.device)
      /\ Console(s) /\ \A q \in Splitters : Console(st.splitter[q])
  BY DEF TextState
<1>2. \A q \in Splitters : DOMAIN st.splitter[q] = SplitterFields
  BY <1>1 DEF Console, Listed
<1>3. /\ SameTable(u, s) /\ SameList(u, s) /\ u.Mode = s.Mode /\ u.Cursor = s.Cursor
      /\ u.CurrentNumberOfConsoles = s.CurrentNumberOfConsoles
  BY <1>2 DEF SplitterFields, SameTable, SameList
<1>4. Console(u)
  <2> HIDE DEF u, s
  <2> QED  BY <1>1, <1>3, ConsoleSame
<1>5. t = [st EXCEPT !.splitter = more, !.device = dev]
  BY <1>1, <1>2 DEF SetAttributeCall, StateFields, SplitterFields
<1>6. \A d \in Devices : dev[d] = IF d \in B THEN [st.device[d] EXCEPT !.colour = colour]
                                  ELSE st.device[d]
  OBVIOUS
<1>7. DOMAIN dev = Devices
  OBVIOUS
<1> HIDE DEF t, u, dev, B, s
<1>8. \A d \in Devices :
        /\ DOMAIN dev[d] = DeviceFields /\ dev[d].textMode = st.device[d].textMode
        /\ dev[d].graphicsMode = st.device[d].graphicsMode
  <2> TAKE d \in Devices
  <2>1. DOMAIN st.device[d] = DeviceFields
    BY <1>1 DEF DeviceOK
  <2>2. CASE d \in B
    BY <1>6, <2>1, <2>2 DEF DeviceFields
  <2>3. CASE d \notin B
    BY <1>6, <2>1, <2>3
  <2> QED  BY <2>2, <2>3
<1>9. DeviceOK(dev)
  BY <1>1, <1>7, <1>8 DEF DeviceOK
<1>10. DOMAIN more = Splitters /\ more[p] = u
       /\ \A q \in Splitters \ {p} : more[q] = st.splitter[q]
  BY <1>1
<1> HIDE DEF more
<1>11. DOMAIN t = StateFields /\ t.splitter = more /\ t.device = dev
       /\ t.graphics = st.graphics
  BY <1>1, <1>5 DEF StateFields
<1>12. TextState(t)
  BY <1>1, <1>4, <1>9, <1>10, <1>11 DEF TextState
<1>13. TextOnly(t, st)
  BY <1>3, <1>8, <1>10, <1>11 DEF TextOnly, SameList, s
<1>14. \A q \in Splitters : /\ SameTable(t.splitter[q], st.splitter[q])
                            /\ t.splitter[q].Mode = st.splitter[q].Mode
  BY <1>2, <1>3, <1>10, <1>11 DEF SameTable, s
<1> QED  BY <1>8, <1>11, <1>12, <1>13, <1>14

\* A graphics device that is on the list is added to the graphics output.
LEMMA GraphicsAdded ==
    ASSUME NEW st, TextState(st), NEW D, NEW d, Lends(st, D, d),
           st.graphics.installed <=> D # {}, NoMode(st.splitter["ConOut"])
    PROVE  LET t == InstallsGraphics(AddGraphicsOutputMode(st, d))
           IN  /\ StateOK(t) /\ NoMode(t.splitter["ConOut"])
               /\ \A q \in Splitters : ModeKept(t.splitter[q], st.splitter[q])
               /\ \A q \in Splitters : Behind(t.splitter[q]) = Behind(st.splitter[q])
<1> DEFINE s == st.splitter["ConOut"]
           u == AddGraphicsOutputMode(st, d)
           z == WithGraphicsOutput(s)
           B == D \union {d}
           there == u.graphics.installed
                      \/ (~u.failed /\ u.splitter["ConOut"].CurrentNumberOfGraphicsOutput = 1)
           g == [u.graphics EXCEPT !.installed = there]
           t == InstallsGraphics(u)
           Goal == /\ StateOK(t) /\ NoMode(t.splitter["ConOut"])
                   /\ \A q \in Splitters : ModeKept(t.splitter[q], st.splitter[q])
                   /\ \A q \in Splitters : Behind(t.splitter[q]) = Behind(st.splitter[q])
<1> SUFFICES Goal
  OBVIOUS
<1>1. /\ DOMAIN u = StateFields /\ DeviceOK(u.device) /\ OneMoreGraphics(u, st)
      /\ Shows(u.graphics, u.device, B)
      /\ u.graphics.installed = st.graphics.installed /\ u.failed = FALSE
  BY AddGraphicsOutputModeIs
<1>2. t = [u EXCEPT !.graphics = g]
  BY <1>1 DEF InstallsGraphics, StateFields
<1>3. DOMAIN u.graphics = GraphicsFields
  BY <1>1 DEF Shows, Offers
<1> HIDE DEF t, u, there, s
<1>4. /\ DOMAIN g = GraphicsFields /\ g.installed = there /\ g.modes = u.graphics.modes
      /\ g.mode = u.graphics.mode /\ g.info = u.graphics.info
      /\ g.frameBuffer = u.graphics.frameBuffer
  BY <1>3 DEF GraphicsFields
<1> HIDE DEF g
<1>5. DOMAIN t = StateFields /\ t.graphics = g /\ t.splitter = u.splitter /\ t.device = u.device
  BY <1>1, <1>2 DEF StateFields
<1>6. /\ DOMAIN st.splitter = Splitters /\ \A q \in Splitters : Console(st.splitter[q])
      /\ Console(s) /\ "ConOut" \in Splitters
  BY DEF TextState, Splitters, s
<1>7. /\ D \in SUBSET Devices /\ IsFiniteSet(D) /\ d \in Devices /\ d \notin D
      /\ GraphicsDevices(s) = B /\ s.CurrentNumberOfGraphicsOutput = Cardinality(D)
      /\ DOMAIN s = SplitterFields
  BY DEF Lends, s
<1>8. /\ SameTable(z, s) /\ z.Cursor = s.Cursor /\ z.Mode = s.Mode
      /\ z.CurrentNumberOfConsoles = s.CurrentNumberOfConsoles
      /\ z.CurrentNumberOfGraphicsOutput = Cardinality(D) + 1
  BY <1>7 DEF WithGraphicsOutput, SplitterFields, SameTable
<1> HIDE DEF z
<1>9. /\ Console(z) /\ ModeKept(z, s)
      /\ Behind(z) = Behind(s) /\ GraphicsDevices(z) = B
  BY <1>6, <1>7, <1>8, ConsoleSame
<1>10. u.splitter = [st.splitter EXCEPT !["ConOut"] = z]
  BY <1>1 DEF OneMoreGraphics, z, s
<1>11. /\ DOMAIN t.splitter = Splitters /\ t.splitter["ConOut"] = z
       /\ \A q \in Splitters \ {"ConOut"} : t.splitter[q] = st.splitter[q]
  BY <1>5, <1>6, <1>10
<1>12. TextState(t)
  BY <1>1, <1>5, <1>6, <1>9, <1>11 DEF TextState
<1>13. Counted(z) /\ B # {}
  <2>1. IsFiniteSet(B) /\ Cardinality(B) = Cardinality(D) + 1
    BY <1>7, FS_AddElement
  <2>2. B \in SUBSET Devices /\ B # {}
    BY <1>7
  <2> HIDE DEF B
  <2> QED  BY <1>8, <1>9, <2>1, <2>2 DEF Counted
<1>14. there
  <2>1. CASE D # {}
    BY <1>1, <2>1 DEF there
  <2>2. CASE D = {}
    <3>1. Cardinality(D) = 0
      BY <2>2, FS_EmptySet
    <3>2. z.CurrentNumberOfGraphicsOutput = 1
      BY <1>8, <3>1
    <3> QED  BY <1>1, <1>5, <1>11, <3>2 DEF there
  <2> QED  BY <2>1, <2>2
<1> HIDE DEF B
<1>15. Shows(t.graphics, t.device, B)
  BY <1>1, <1>4, <1>5 DEF Shows, Offers
<1>16. GraphicsOK(t)
  BY <1>4, <1>5, <1>9, <1>11, <1>13, <1>14, <1>15 DEF GraphicsOK
<1>17. \A q \in Splitters : /\ ModeKept(t.splitter[q], st.splitter[q])
                            /\ Behind(t.splitter[q]) = Behind(st.splitter[q])
  BY <1>9, <1>11 DEF ModeKept, s
<1>18. NoMode(t.splitter["ConOut"])
  BY <1>6, <1>17 DEF ModeKept
<1> QED  BY <1>12, <1>16, <1>17, <1>18 DEF StateOK

\* What a console and the devices are like when device d has been added to it.
Added(t, st, p, d) ==
    /\ StateOK(t)
    /\ \A q \in Splitters \ {p} : /\ InUse(st.splitter[q]) => InUse(t.splitter[q])
                                  /\ Behind(t.splitter[q]) = Behind(st.splitter[q])
    /\ Behind(t.splitter[p]) = Behind(st.splitter[p]) \union {d}
    /\ t.splitter[p].Mode \in 0 .. t.splitter[p].MaxMode - 1
    /\ InMode(t.splitter[p], t.device)

\* The text part of an addition, and what is ready for the graphics part.
LEMMA TextAdded ==
    ASSUME NEW st, StateOK(st), NEW p \in Splitters, NEW d \in Devices,
           d \notin Behind(st.splitter[p]), st.splitter[p].Mode = InitMode
    PROVE  LET D == GraphicsDevices(st.splitter["ConOut"])
               t == GetIntersectionBetweenConOutAndStrErr(
                      [st EXCEPT !.splitter[p] = JoinedBy(st.splitter[p], d)])
           IN  /\ TextState(t) /\ NoMode(t.splitter[p])
               /\ t.graphics = st.graphics
               /\ \A q \in Splitters \ {p} : /\ InUse(st.splitter[q]) => InUse(t.splitter[q])
                                             /\ Behind(t.splitter[q]) = Behind(st.splitter[q])
               /\ Behind(t.splitter[p]) = Behind(st.splitter[p]) \union {d}
               /\ D \in SUBSET Devices /\ Shows(t.graphics, t.device, D)
               /\ t.splitter["ConOut"].CurrentNumberOfGraphicsOutput
                    = st.splitter["ConOut"].CurrentNumberOfGraphicsOutput
<1> DEFINE s == st.splitter[p]
           j == JoinedBy(s, d)
           more == [st.splitter EXCEPT ![p] = j]
           u == [st EXCEPT !.splitter[p] = j]
           t == GetIntersectionBetweenConOutAndStrErr(u)
           D == GraphicsDevices(st.splitter["ConOut"])
           Goal == /\ TextState(t) /\ NoMode(t.splitter[p])
                   /\ t.graphics = st.graphics
                   /\ \A q \in Splitters \ {p} : /\ InUse(st.splitter[q]) => InUse(t.splitter[q])
                                                 /\ Behind(t.splitter[q]) = Behind(st.splitter[q])
                   /\ Behind(t.splitter[p]) = Behind(st.splitter[p]) \union {d}
                   /\ D \in SUBSET Devices /\ Shows(t.graphics, t.device, D)
                   /\ t.splitter["ConOut"].CurrentNumberOfGraphicsOutput
                        = st.splitter["ConOut"].CurrentNumberOfGraphicsOutput
<1> SUFFICES Goal
  OBVIOUS
<1>1. /\ DOMAIN st = StateFields /\ DOMAIN st.splitter = Splitters /\ DeviceOK(st.device)
      /\ Console(s) /\ (\A q \in Splitters : Console(st.splitter[q])) /\ "ConOut" \in Splitters
      /\ TextState(st)
  BY DEF StateOK, TextState, Splitters
<1>2. /\ Counted(st.splitter["ConOut"]) /\ Shows(st.graphics, st.device, D)
      /\ D \in SUBSET Devices
  BY DEF StateOK, GraphicsOK, Counted
<1>3. /\ Console(j) /\ NoMode(j) /\ Behind(j) = Behind(s) \union {d}
      /\ j.CurrentNumberOfGraphicsOutput = s.CurrentNumberOfGraphicsOutput
  <2> HIDE DEF s
  <2> QED  BY <1>1, JoinedByIs DEF s
<1> HIDE DEF j, s
<1>4. u = [st EXCEPT !.splitter = more]
  BY <1>1 DEF StateFields
<1>5. /\ DOMAIN more = Splitters /\ more[p] = j
      /\ \A q \in Splitters \ {p} : more[q] = st.splitter[q]
  BY <1>1
<1> HIDE DEF u, more, D
<1>6. DOMAIN u = StateFields /\ u.splitter = more /\ u.device = st.device
      /\ u.graphics = st.graphics
  BY <1>1, <1>4 DEF StateFields
<1>7. TextState(u)
  BY <1>1, <1>3, <1>5, <1>6 DEF TextState
<1>8. /\ TextState(t) /\ TextOnly(t, u)
      /\ \A q \in Splitters : ModeKept(t.splitter[q], u.splitter[q])
  BY <1>7, GetIntersectionBetweenIs
<1> HIDE DEF t
<1>9. NoMode(t.splitter[p])
  BY <1>3, <1>5, <1>6, <1>8 DEF ModeKept
<1>10. \A q \in Splitters : Behind(t.splitter[q]) = Behind(u.splitter[q])
  BY <1>8, SameListFacts DEF TextOnly
<1>11. \A q \in Splitters \ {p} : /\ InUse(st.splitter[q]) => InUse(t.splitter[q])
                                  /\ Behind(t.splitter[q]) = Behind(st.splitter[q])
  BY <1>5, <1>6, <1>8, <1>10 DEF ModeKept
<1>12. Behind(t.splitter[p]) = Behind(st.splitter[p]) \union {d}
  BY <1>3, <1>5, <1>6, <1>10 DEF s
<1>13. t.graphics = st.graphics /\ \A e \in Devices : t.device[e].graphicsMode = st.device[e].graphicsMode
  BY <1>6, <1>8 DEF TextOnly
<1>14. Shows(t.graphics, t.device, D)
  BY <1>2, <1>13 DEF Shows
<1>15. t.splitter["ConOut"].CurrentNumberOfGraphicsOutput
         = st.splitter["ConOut"].CurrentNumberOfGraphicsOutput
  <2>1. t.splitter["ConOut"].CurrentNumberOfGraphicsOutput
          = more["ConOut"].CurrentNumberOfGraphicsOutput
    BY <1>1, <1>6, <1>8 DEF TextOnly, SameList
  <2>2. CASE p = "ConOut"
    BY <1>3, <1>5, <2>1, <2>2 DEF s
  <2>3. CASE p # "ConOut"
    BY <1>1, <1>5, <2>1, <2>3
  <2> QED  BY <2>2, <2>3
<1> QED  BY <1>2, <1>8, <1>9, <1>11, <1>12, <1>13, <1>14, <1>15

LEMMA TextOutAddDeviceIs ==
    ASSUME NEW st, StateOK(st), NEW p \in Splitters, NEW d \in Devices,
           d \notin Behind(st.splitter[p]), st.splitter[p].Mode = InitMode
    PROVE  Added(TextOutAddDevice(st, p, d), st, p, d)
<1> DEFINE out == st.splitter["ConOut"]
           D == GraphicsDevices(out)
           v == GetIntersectionBetweenConOutAndStrErr(
                  [st EXCEPT !.splitter[p] = JoinedBy(st.splitter[p], d)])
           b == IF p = "ConOut" /\ HasGraphics(d)
                THEN InstallsGraphics(AddGraphicsOutputMode(v, d)) ELSE v
           t == SetConsoleOutMode(b, p)
<1>1. TextOutAddDevice(st, p, d) = t
  BY Zenon DEF TextOutAddDevice
<1>2. /\ TextState(v) /\ NoMode(v.splitter[p])
      /\ v.graphics = st.graphics
      /\ \A q \in Splitters \ {p} : /\ InUse(st.splitter[q]) => InUse(v.splitter[q])
                                    /\ Behind(v.splitter[q]) = Behind(st.splitter[q])
      /\ Behind(v.splitter[p]) = Behind(st.splitter[p]) \union {d}
      /\ D \in SUBSET Devices /\ Shows(v.graphics, v.device, D)
      /\ v.splitter["ConOut"].CurrentNumberOfGraphicsOutput = out.CurrentNumberOfGraphicsOutput
  BY TextAdded
<1> HIDE DEF v, t
<1>3. /\ "ConOut" \in Splitters /\ IsFiniteSet(D) /\ out.CurrentNumberOfGraphicsOutput = Cardinality(D)
      /\ st.graphics.installed <=> D # {}
  BY DEF StateOK, GraphicsOK, Counted, Splitters
<1>4. /\ StateOK(b) /\ NoMode(b.splitter[p])
      /\ \A q \in Splitters : /\ Behind(b.splitter[q]) = Behind(v.splitter[q])
                              /\ InUse(v.splitter[q]) => InUse(b.splitter[q])
  <2>1. CASE p = "ConOut" /\ HasGraphics(d)
    <3>1. b = InstallsGraphics(AddGraphicsOutputMode(v, d))
      BY <2>1
    <3> HIDE DEF b
    <3>2. GraphicsDevices(v.splitter["ConOut"]) = D \union {d}
      BY <1>2, <2>1 DEF GraphicsDevices
    <3>3. d \notin D
      BY <2>1 DEF GraphicsDevices
    <3>4. Lends(v, D, d)
      <4>1. /\ DOMAIN v = StateFields /\ DOMAIN v.splitter = Splitters /\ DeviceOK(v.device)
            /\ DOMAIN v.splitter["ConOut"] = SplitterFields
        BY <1>2, <1>3 DEF TextState, Console, Listed
      <4> HIDE DEF D, out
      <4> QED  BY <1>2, <1>3, <2>1, <3>2, <3>3, <4>1 DEF Lends
    <3>5. (v.graphics.installed <=> D # {}) /\ NoMode(v.splitter["ConOut"])
      BY <1>2, <1>3, <2>1
    <3> HIDE DEF D, out
    <3>6. LET x == InstallsGraphics(AddGraphicsOutputMode(v, d))
          IN  /\ StateOK(x) /\ NoMode(x.splitter["ConOut"])
              /\ \A q \in Splitters : ModeKept(x.splitter[q], v.splitter[q])
              /\ \A q \in Splitters : Behind(x.splitter[q]) = Behind(v.splitter[q])
      BY <1>2, <3>4, <3>5, GraphicsAdded
    <3> QED  BY <2>1, <3>1, <3>6 DEF ModeKept
  <2>2. CASE ~(p = "ConOut" /\ HasGraphics(d))
    <3>1. b = v
      BY <2>2
    <3> HIDE DEF b
    <3>2. GraphicsDevices(v.splitter["ConOut"]) = D
      <4>1. CASE p = "ConOut"
        BY <1>2, <2>2, <4>1 DEF GraphicsDevices
      <4>2. CASE p # "ConOut"
        BY <1>2, <1>3, <4>2 DEF GraphicsDevices
      <4> QED  BY <4>1, <4>2
    <3> HIDE DEF D, out
    <3>3. Counted(v.splitter["ConOut"])
      BY <1>2, <1>3, <3>2 DEF Counted
    <3>4. GraphicsOK(v)
      BY <1>2, <1>3, <3>2, <3>3 DEF GraphicsOK
    <3> QED  BY <1>2, <3>1, <3>4 DEF StateOK
  <2> QED  BY <2>1, <2>2
<1> HIDE DEF b, D, out
<1>5. /\ TextState(t) /\ TextOnly(t, b)
      /\ \A q \in Splitters \ {p} : t.splitter[q] = b.splitter[q]
      /\ t.splitter[p].Mode \in 0 .. t.splitter[p].MaxMode - 1
      /\ InMode(t.splitter[p], t.device)
  BY <1>4, SetConsoleOutModeIs DEF StateOK, t
<1>6. GraphicsOK(t)
  BY <1>4, <1>5, GraphicsKept DEF StateOK
<1>7. Behind(t.splitter[p]) = Behind(b.splitter[p])
  BY <1>5, SameListFacts DEF TextOnly
<1>8. Added(t, st, p, d)
  BY <1>2, <1>4, <1>5, <1>6, <1>7 DEF Added, StateOK
<1> QED  BY <1>1, <1>8

-----------------------------------------------------------------------------
(* A device leaves, and the table is computed anew.                        *)

LEMMA ListedLess ==
    ASSUME NEW s, NEW n \in Nat, Listed(s, n), NEW m \in 0 .. n
    PROVE  Listed(s, m)
<1>1. \A k \in 0 .. m - 1 : k \in 0 .. n - 1
  OBVIOUS
<1>2. m \in 0 .. TextOutListCount(s)
  BY DEF Listed
<1> QED  BY <1>1, <1>2 DEF Listed

\* What is computed for the first k + 1 devices.
RebuildBody(s, f, k) ==
    [IF k = 0 THEN AddOutputMode(s, s.TextOutList[0])
     ELSE SyncOutputMode(f[k - 1], s.TextOutList[k])
       EXCEPT !.CurrentNumberOfConsoles = k + 1]

IsRebuilding(f, s, n) ==
    /\ f = [k \in 0 .. n |-> f[k]]
    /\ \A k \in 0 .. n : f[k] = RebuildBody(s, f, k)

LEMMA RebuildingExists ==
    ASSUME NEW s, NEW n \in Nat
    PROVE  \E f : IsRebuilding(f, s, n)
<1> DEFINE T == {m \in 0 .. n : \E f : IsRebuilding(f, s, m)}
<1>0. \A f, g, k : k = 0 \/ f[k - 1] = g[k - 1] => RebuildBody(s, f, k) = RebuildBody(s, g, k)
  <2> TAKE f, g, k
  <2>1. CASE k = 0
    BY <2>1, Zenon DEF RebuildBody
  <2>2. CASE k # 0 /\ f[k - 1] = g[k - 1]
    BY <2>2, Zenon DEF RebuildBody
  <2> QED  BY <2>1, <2>2
<1>1. 0 \in T
  <2> DEFINE first == RebuildBody(s, << >>, 0)
             f == [i \in 0 .. 0 |-> first]
  <2>1. f = [i \in 0 .. 0 |-> f[i]] /\ f[0] = first /\ \A i \in 0 .. 0 : i = 0
    <3> HIDE DEF first
    <3> QED  OBVIOUS
  <2>2. f[0] = RebuildBody(s, f, 0)
    <3>1. RebuildBody(s, f, 0) = first
      <4> HIDE DEF f
      <4> QED  BY <1>0, Zenon
    <3> QED  BY <2>1, <3>1
  <2> HIDE DEF f
  <2>3. IsRebuilding(f, s, 0)
    BY <2>1, <2>2, Zenon DEF IsRebuilding
  <2>4. 0 \in 0 .. n
    OBVIOUS
  <2> QED  BY <2>3, <2>4
<1>2. ASSUME NEW m \in 1 .. n, m - 1 \in T PROVE m \in T
  <2>1. PICK f : IsRebuilding(f, s, m - 1)
    BY <1>2
  <2> DEFINE last == RebuildBody(s, f, m)
             g == [i \in 0 .. m |-> IF i = m THEN last ELSE f[i]]
  <2>2. m \in 0 .. n /\ m \in 0 .. m
    OBVIOUS
  <2>3. \A i \in 0 .. m : i # m => i \in 0 .. m - 1
    OBVIOUS
  <2>4. \A i \in 0 .. m : i # 0 => i - 1 \in 0 .. m /\ i - 1 # m
    OBVIOUS
  <2>5. g = [i \in 0 .. m |-> g[i]]
    <3> HIDE DEF last
    <3> QED  OBVIOUS
  <2>6. ASSUME NEW i \in 0 .. m PROVE g[i] = RebuildBody(s, g, i)
    <3>1. i # 0 => g[i - 1] = f[i - 1]
      BY <2>4, Zenon
    <3>2. RebuildBody(s, g, i) = RebuildBody(s, f, i)
      <4> HIDE DEF g
      <4> QED  BY <1>0, <3>1, Zenon
    <3>3. CASE i = m
      <4>1. g[i] = last
        BY <3>3, Zenon
      <4> QED  BY <3>2, <3>3, <4>1, Zenon
    <3>4. CASE i # m
      <4>1. g[i] = f[i]
        BY <3>4, Zenon
      <4>2. f[i] = RebuildBody(s, f, i)
        BY <2>1, <2>3, <3>4, Zenon DEF IsRebuilding
      <4> HIDE DEF g
      <4> QED  BY <3>2, <4>1, <4>2, Zenon
    <3> QED  BY <3>3, <3>4
  <2> HIDE DEF g
  <2>7. IsRebuilding(g, s, m)
    BY <2>5, <2>6, Zenon DEF IsRebuilding
  <2> QED  BY <2>2, <2>7
<1>3. n \in T
  <2>1. 0 .. n \subseteq T
    <3> HIDE DEF T
    <3> QED  BY <1>1, <1>2, UpToInduction
  <2>2. n \in 0 .. n
    OBVIOUS
  <2> QED  BY <2>1, <2>2
<1> QED  BY <1>3

LEMMA RecomputedLast ==
    ASSUME NEW s, NEW n \in Nat, n >= 1
    PROVE  \E f : IsRebuilding(f, s, n - 1) /\ Recomputed(s, n) = f[n - 1]
<1>1. n - 1 \in Nat
  OBVIOUS
<1>2. PICK f : IsRebuilding(f, s, n - 1)
  BY <1>1, RebuildingExists
<1>3. f = [k \in 0 .. n - 1 |-> RebuildBody(s, f, k)]
  <2>1. f = [k \in 0 .. n - 1 |-> f[k]] /\ \A k \in 0 .. n - 1 : f[k] = RebuildBody(s, f, k)
    BY <1>2, Zenon DEF IsRebuilding
  <2> QED  BY <2>1, Zenon
<1>4. PICK h : /\ h = [k \in 0 .. n - 1 |-> RebuildBody(s, h, k)]
               /\ Recomputed(s, n) = h[n - 1]
  BY <1>3, Zenon DEF Recomputed, RebuildBody
<1>5. h = [k \in 0 .. n - 1 |-> h[k]] /\ \A k \in 0 .. n - 1 : h[k] = RebuildBody(s, h, k)
  BY <1>4, Zenon
<1>6. IsRebuilding(h, s, n - 1)
  BY <1>5, Zenon DEF IsRebuilding
<1> QED  BY <1>4, <1>6, Zenon

\* The table of the first k + 1 devices of s.
Rebuilt(x, s, k) ==
    /\ Listed(x, k + 1) /\ Table(x, k + 1)
    /\ x.TextOutList = s.TextOutList /\ x.Cursor = s.Cursor
    /\ x.CurrentNumberOfConsoles = k + 1
    /\ x.CurrentNumberOfGraphicsOutput = s.CurrentNumberOfGraphicsOutput
    /\ x.Mode \in -1 .. x.MaxMode - 1

LEMMA Counting ==
    ASSUME NEW x, DOMAIN x = SplitterFields, NEW s, NEW k \in Nat,
           x.TextOutList = s.TextOutList, x.Cursor = s.Cursor,
           x.CurrentNumberOfGraphicsOutput = s.CurrentNumberOfGraphicsOutput,
           Listed(x, k + 1), Table(x, k + 1), x.Mode \in -1 .. x.MaxMode - 1
    PROVE  Rebuilt([x EXCEPT !.CurrentNumberOfConsoles = k + 1], s, k)
<1> DEFINE y == [x EXCEPT !.CurrentNumberOfConsoles = k + 1]
<1>1. /\ SameTable(y, x) /\ y.Cursor = x.Cursor /\ y.Mode = x.Mode
      /\ y.CurrentNumberOfConsoles = k + 1
      /\ y.CurrentNumberOfGraphicsOutput = x.CurrentNumberOfGraphicsOutput
  BY DEF SplitterFields, SameTable
<1> HIDE DEF y
<1>2. Listed(y, k + 1) /\ Table(y, k + 1)
  BY <1>1, TableKept
<1>3. Rebuilt(y, s, k)
  BY <1>1, <1>2 DEF Rebuilt, SameTable
<1> QED  BY <1>3 DEF y

LEMMA RecomputedIs ==
    ASSUME NEW s, NEW n \in Nat, n >= 1, Listed(s, n), s.TextOutQueryDataCount \in Nat,
           s.Mode \in -1 .. ModeCount(s.TextOutList[0]) - 1
    PROVE  Rebuilt(Recomputed(s, n), s, n - 1)
<1>1. PICK f : IsRebuilding(f, s, n - 1) /\ Recomputed(s, n) = f[n - 1]
  BY RecomputedLast
<1>2. \A k \in 0 .. n - 1 : f[k] = RebuildBody(s, f, k)
  BY <1>1, Zenon DEF IsRebuilding
<1> DEFINE T == {k \in 0 .. n - 1 : Rebuilt(f[k], s, k)}
<1>3. 0 \in T
  <2> DEFINE x == AddOutputMode(s, s.TextOutList[0])
  <2>1. 0 \in 0 .. n - 1 /\ 1 \in 0 .. n
    OBVIOUS
  <2>2. Listed(s, 1) /\ s.TextOutList[0] \in Devices
    <3>1. Listed(s, 1)
      BY <2>1, ListedLess
    <3> QED  BY <2>1, <3>1 DEF Listed
  <2>3. SamePlaces(x, s) /\ Table(x, 1) /\ x.MaxMode = ModeCount(s.TextOutList[0])
    BY <2>2, AddOutputModeTable
  <2> HIDE DEF x
  <2>4. Listed(x, 1)
    BY <2>2, <2>3 DEF SamePlaces, Listed, TextOutListCount
  <2>5. Rebuilt([x EXCEPT !.CurrentNumberOfConsoles = 0 + 1], s, 0)
    <3>1. 0 + 1 = 1 /\ 0 \in Nat
      OBVIOUS
    <3>2. Listed(x, 0 + 1) /\ Table(x, 0 + 1)
      BY <2>3, <2>4, <3>1
    <3> QED  BY <2>3, <3>1, <3>2, Counting DEF SamePlaces
  <2>6. f[0] = [x EXCEPT !.CurrentNumberOfConsoles = 0 + 1]
    BY <1>2, <2>1, Zenon DEF RebuildBody, x
  <2>7. Rebuilt(f[0], s, 0)
    BY <2>5, <2>6, Zenon
  <2> QED  BY <2>1, <2>7
<1>4. ASSUME NEW k \in 1 .. n - 1, k - 1 \in T
      PROVE  k \in T
  <2> DEFINE x == f[k - 1]
             y == SyncOutputMode(x, s.TextOutList[k])
  <2>1. k \in 0 .. n - 1 /\ k # 0 /\ k \in Nat /\ k >= 1 /\ (k - 1) + 1 = k /\ k + 1 \in 0 .. n
    OBVIOUS
  <2>2. Rebuilt(x, s, k - 1)
    BY <1>4
  <2> HIDE DEF x
  <2>3. /\ Table(x, k) /\ DOMAIN x = SplitterFields
        /\ x.TextOutList = s.TextOutList /\ x.Cursor = s.Cursor
        /\ x.CurrentNumberOfConsoles = k
        /\ x.CurrentNumberOfGraphicsOutput = s.CurrentNumberOfGraphicsOutput
        /\ x.Mode \in -1 .. x.MaxMode - 1
    BY <2>1, <2>2 DEF Rebuilt, Listed
  <2>4. Listed(x, k + 1)
    <3>1. Listed(s, k + 1)
      BY <2>1, ListedLess
    <3> QED  BY <2>3, <3>1 DEF Listed, TextOutListCount
  <2>5. SameConsoles(y, x) /\ ModeFollows(y, x) /\ Table(y, k + 1)
    BY <2>1, <2>3, <2>4, SyncOutputModeTable
  <2> HIDE DEF y
  <2>6. Listed(y, k + 1)
    BY <2>4, <2>5 DEF SameConsoles, Listed, TextOutListCount
  <2>7. /\ DOMAIN y = SplitterFields /\ y.TextOutList = s.TextOutList /\ y.Cursor = s.Cursor
        /\ y.CurrentNumberOfGraphicsOutput = s.CurrentNumberOfGraphicsOutput
        /\ y.Mode \in -1 .. y.MaxMode - 1
    BY <2>3, <2>5 DEF SameConsoles, ModeFollows
  <2>8. Rebuilt([y EXCEPT !.CurrentNumberOfConsoles = k + 1], s, k)
    BY <2>1, <2>5, <2>6, <2>7, Counting
  <2>9. f[k] = [y EXCEPT !.CurrentNumberOfConsoles = k + 1]
    BY <1>2, <2>1, Zenon DEF RebuildBody, x, y
  <2>10. Rebuilt(f[k], s, k)
    BY <2>8, <2>9, Zenon
  <2> QED  BY <2>1, <2>10
<1>5. n - 1 \in T
  <2>1. n - 1 \in Nat /\ n - 1 \in 0 .. n - 1
    OBVIOUS
  <2>2. 0 .. n - 1 \subseteq T
    <3> HIDE DEF T
    <3> QED  BY <1>3, <1>4, <2>1, UpToInduction
  <2> QED  BY <2>1, <2>2
<1>6. Rebuilt(f[n - 1], s, n - 1)
  BY <1>5
<1> QED  BY <1>1, <1>6

\* The list without the device.
LEMMA RemovedIs ==
    ASSUME NEW s, NEW n \in Nat, n = s.CurrentNumberOfConsoles - 1, Listed(s, n + 1),
           NEW d \in Behind(s)
    PROVE  LET list == Removed(s, d)
           IN  /\ DOMAIN list = DOMAIN s.TextOutList
               /\ \A k \in 0 .. n - 1 : list[k] \in Devices
               /\ \A j, k \in 0 .. n - 1 : list[j] = list[k] => j = k
               /\ {list[k] : k \in 0 .. n - 1} = Behind(s) \ {d}
<1> DEFINE list == Removed(s, d)
           i == CHOOSE k \in Columns(s) : s.TextOutList[k] = d
           From(k) == IF k >= i THEN k + 1 ELSE k
<1>1. Columns(s) = 0 .. n
  <2>1. s.CurrentNumberOfConsoles - 1 = n
    OBVIOUS
  <2> QED  BY <2>1, Zenon DEF Columns
<1>2. i \in 0 .. n /\ s.TextOutList[i] = d
  <2>1. \E k \in Columns(s) : s.TextOutList[k] = d
    BY DEF Behind
  <2>2. i \in Columns(s) /\ s.TextOutList[i] = d
    BY <2>1, Zenon
  <2> HIDE DEF i
  <2> QED  BY <1>1, <2>2
<1>3. list = [k \in DOMAIN s.TextOutList |->
                IF k \in i .. n - 1 THEN s.TextOutList[k + 1] ELSE s.TextOutList[k]]
  BY DEF Removed
<1> HIDE DEF list, i
<1>4. \A k \in 0 .. n - 1 : k \in DOMAIN s.TextOutList
  <2>1. n + 1 \in 0 .. TextOutListCount(s) /\ TextOutListCount(s) \in Nat
        /\ DOMAIN s.TextOutList = 0 .. TextOutListCount(s) - 1
    BY DEF Listed
  <2> QED  BY <2>1
<1>5. /\ \A j, k \in 0 .. n : s.TextOutList[j] = s.TextOutList[k] => j = k
      /\ \A k \in 0 .. n : s.TextOutList[k] \in Devices
  <2>1. (n + 1) - 1 = n
    OBVIOUS
  <2> QED  BY <2>1 DEF Listed
<1>6. \A k \in 0 .. n - 1 : From(k) \in 0 .. n /\ From(k) # i /\ list[k] = s.TextOutList[From(k)]
  <2> TAKE k \in 0 .. n - 1
  <2>1. CASE k >= i
    <3>1. k \in i .. n - 1
      BY <1>2, <2>1
    <3>2. list[k] = s.TextOutList[k + 1]
      BY <1>3, <1>4, <3>1
    <3> QED  BY <1>2, <2>1, <3>2
  <2>2. CASE ~(k >= i)
    <3>1. k \notin i .. n - 1
      BY <1>2, <2>2
    <3>2. list[k] = s.TextOutList[k]
      BY <1>3, <1>4, <3>1
    <3> QED  BY <1>2, <2>2, <3>2
  <2> QED  BY <2>1, <2>2
<1>7. \A j, k \in 0 .. n - 1 : From(j) = From(k) => j = k
  BY <1>2
<1>8. \A m \in 0 .. n : m # i => \E k \in 0 .. n - 1 : From(k) = m
  <2> TAKE m \in 0 .. n
  <2>1. CASE m > i
    <3>1. m - 1 \in 0 .. n - 1 /\ From(m - 1) = m
      BY <1>2, <2>1
    <3> QED  BY <3>1
  <2>2. CASE m < i
    <3>1. m \in 0 .. n - 1 /\ From(m) = m
      BY <1>2, <2>2
    <3> QED  BY <3>1
  <2> QED  BY <1>2, <2>1, <2>2
<1> HIDE DEF From
<1>9. \A k \in 0 .. n - 1 : list[k] \in Devices
  BY <1>5, <1>6
<1>10. \A j, k \in 0 .. n - 1 : list[j] = list[k] => j = k
  BY <1>5, <1>6, <1>7
<1>11. \A e : e \in {list[k] : k \in 0 .. n - 1} <=> e \in Behind(s) \ {d}
  <2> TAKE e
  <2>1. e \in Behind(s) \ {d} <=> \E m \in 0 .. n : m # i /\ s.TextOutList[m] = e
    BY <1>1, <1>2, <1>5 DEF Behind
  <2>2. (\E k \in 0 .. n - 1 : list[k] = e) <=> \E m \in 0 .. n : m # i /\ s.TextOutList[m] = e
    <3>1. ASSUME NEW k \in 0 .. n - 1, list[k] = e
          PROVE  \E m \in 0 .. n : m # i /\ s.TextOutList[m] = e
      BY <1>6, <3>1
    <3>2. ASSUME NEW m \in 0 .. n, m # i, s.TextOutList[m] = e
          PROVE  \E k \in 0 .. n - 1 : list[k] = e
      BY <1>6, <1>8, <3>2
    <3> QED  BY <3>1, <3>2
  <2> QED  BY <2>1, <2>2
<1>12. {list[k] : k \in 0 .. n - 1} = Behind(s) \ {d}
  BY <1>11, Zenon
<1>13. DOMAIN list = DOMAIN s.TextOutList
  BY <1>3
<1> QED  BY <1>9, <1>10, <1>12, <1>13 DEF list

\* A list without one of its n + 1 devices, whose table is not yet computed.
Rest(s, d, gops) ==
    [s EXCEPT !.TextOutList = Removed(s, d), !.CurrentNumberOfGraphicsOutput = gops]

IsRest(rest, s, d, n) ==
    /\ n \in Nat /\ Listed(rest, n) /\ DOMAIN rest = SplitterFields
    /\ rest.Cursor = s.Cursor
    /\ {rest.TextOutList[k] : k \in 0 .. n - 1} = Behind(s) \ {d}
    /\ n >= 1 => rest.Mode \in -1 .. ModeCount(rest.TextOutList[0]) - 1
    /\ rest.TextOutQueryDataCount \in Nat \ {0} /\ rest.TextOutModeMap[0][0] = 0

LEMMA RestIs ==
    ASSUME NEW s, Console(s), InUse(s), NEW d \in Behind(s), NEW gops
    PROVE  /\ IsRest(Rest(s, d, gops), s, d, s.CurrentNumberOfConsoles - 1)
           /\ Rest(s, d, gops).CurrentNumberOfGraphicsOutput = gops
<1> DEFINE n == s.CurrentNumberOfConsoles - 1
           list == Removed(s, d)
           rest == Rest(s, d, gops)
<1>1. /\ DOMAIN s = SplitterFields /\ s.CurrentNumberOfConsoles \in Nat
      /\ s.MaxMode \in 1 .. InitMode /\ s.TextOutQueryDataCount \in Nat
      /\ s.MaxMode <= s.TextOutQueryDataCount
      /\ \A e \in Behind(s) : e \in Devices /\ s.MaxMode <= ModeCount(e)
  BY ConsoleFacts
<1>2. s.CurrentNumberOfConsoles # 0 /\ n \in Nat /\ s.CurrentNumberOfConsoles = n + 1
  <2>1. Columns(s) # {}
    BY DEF Behind
  <2> QED  BY <1>1, <2>1 DEF Columns
<1>3. Listed(s, n + 1) /\ Table(s, n + 1)
  BY <1>2 DEF Console
<1>4. s.TextOutModeMap[0][0] = 0
  BY <1>3 DEF Table, Base, FirstColumn
<1>5. /\ DOMAIN rest = SplitterFields /\ rest.TextOutList = list
      /\ rest.Cursor = s.Cursor /\ rest.CurrentNumberOfGraphicsOutput = gops
      /\ rest.Mode = s.Mode /\ rest.TextOutQueryDataCount = s.TextOutQueryDataCount
      /\ rest.TextOutModeMap = s.TextOutModeMap
  BY <1>1 DEF SplitterFields, Rest
<1> HIDE DEF n
<1>6. /\ DOMAIN list = DOMAIN s.TextOutList
      /\ \A k \in 0 .. n - 1 : list[k] \in Devices
      /\ \A j, k \in 0 .. n - 1 : list[j] = list[k] => j = k
      /\ {list[k] : k \in 0 .. n - 1} = Behind(s) \ {d}
  <2>1. n = s.CurrentNumberOfConsoles - 1
    BY DEF n
  <2> QED  BY <1>2, <1>3, <2>1, RemovedIs
<1> HIDE DEF rest, list
<1>7. Listed(rest, n)
  <2>1. n \in 0 .. TextOutListCount(s)
    <3>1. n + 1 \in 0 .. TextOutListCount(s) /\ TextOutListCount(s) \in Nat
      BY <1>3 DEF Listed
    <3> QED  BY <1>2, <3>1
  <2>2. TextOutListCount(rest) = TextOutListCount(s)
    BY <1>5, <1>6 DEF TextOutListCount
  <2> QED  BY <1>3, <1>5, <1>6, <2>1, <2>2 DEF Listed
<1>8. n >= 1 => rest.Mode \in -1 .. ModeCount(rest.TextOutList[0]) - 1
  <2> SUFFICES ASSUME n >= 1 PROVE s.Mode \in -1 .. ModeCount(list[0]) - 1
    BY <1>5
  <2>1. 0 \in 0 .. n - 1
    BY <1>2
  <2>2. list[0] \in Behind(s)
    BY <1>6, <2>1
  <2>3. list[0] \in Devices /\ s.MaxMode <= ModeCount(list[0]) /\ ModeCount(list[0]) \in Nat
    BY <1>1, <2>2, DeviceFacts
  <2>4. s.Mode \in -1 .. s.MaxMode - 1 /\ s.MaxMode \in Nat
    BY <1>1 DEF InUse, InitMode
  <2> QED  BY <2>3, <2>4
<1>9. s.TextOutQueryDataCount \in Nat \ {0}
  BY <1>1 DEF InitMode
<1>10. IsRest(rest, s, d, n)
  BY <1>2, <1>4, <1>5, <1>6, <1>7, <1>8, <1>9 DEF IsRest
<1> QED  BY <1>5, <1>10 DEF rest, n

\* The console that one of its devices has left.
WithoutDevice(s, d, gops) ==
    LET rest == Rest(s, d, gops)
        n == s.CurrentNumberOfConsoles - 1
    IN  IF n = 0
        THEN [rest EXCEPT !.CurrentNumberOfConsoles = 0, !.MaxMode = 1,
                          !.TextOutQueryData = [m \in {0} |-> BaseSize],
                          !.TextOutModeMap = [m \in {0} |-> rest.TextOutModeMap[0]]]
        ELSE Recomputed(rest, n)

LEMMA WithoutDeviceIs ==
    ASSUME NEW s, Console(s), InUse(s), NEW d \in Behind(s), NEW gops
    PROVE  LET t == WithoutDevice(s, d, gops)
           IN  /\ Console(t) /\ Behind(t) = Behind(s) \ {d}
               /\ t.CurrentNumberOfGraphicsOutput = gops
               /\ s.CurrentNumberOfConsoles - 1 # 0 => InUse(t)
               /\ t.CurrentNumberOfConsoles = 0 => t.MaxMode = 1
<1> DEFINE n == s.CurrentNumberOfConsoles - 1
           rest == Rest(s, d, gops)
           one == [rest EXCEPT !.CurrentNumberOfConsoles = 0, !.MaxMode = 1,
                               !.TextOutQueryData = [m \in {0} |-> BaseSize],
                               !.TextOutModeMap = [m \in {0} |-> rest.TextOutModeMap[0]]]
           t == WithoutDevice(s, d, gops)
           Goal == /\ Console(t) /\ Behind(t) = Behind(s) \ {d}
                   /\ t.CurrentNumberOfGraphicsOutput = gops
                   /\ n # 0 => InUse(t)
                   /\ t.CurrentNumberOfConsoles = 0 => t.MaxMode = 1
<1> SUFFICES Goal
  OBVIOUS
<1>1. /\ n \in Nat /\ Listed(rest, n) /\ DOMAIN rest = SplitterFields
      /\ rest.Cursor = s.Cursor /\ rest.CurrentNumberOfGraphicsOutput = gops
      /\ {rest.TextOutList[k] : k \in 0 .. n - 1} = Behind(s) \ {d}
      /\ n >= 1 => rest.Mode \in -1 .. ModeCount(rest.TextOutList[0]) - 1
      /\ rest.TextOutQueryDataCount \in Nat \ {0} /\ rest.TextOutModeMap[0][0] = 0
  BY RestIs DEF IsRest
<1>2. t = IF n = 0 THEN one ELSE Recomputed(rest, n)
  BY Zenon DEF WithoutDevice
<1>3. OnScreen(s.Cursor)
  BY DEF Console
<1> HIDE DEF rest, n, t
<1>4. CASE n = 0
  <2>1. t = one
    BY <1>2, <1>4
  <2>2. /\ DOMAIN one = SplitterFields /\ one.CurrentNumberOfConsoles = 0
        /\ one.MaxMode = 1 /\ one.TextOutQueryData = [m \in {0} |-> BaseSize]
        /\ one.TextOutModeMap = [m \in {0} |-> rest.TextOutModeMap[0]]
        /\ one.TextOutList = rest.TextOutList /\ one.Cursor = s.Cursor
        /\ one.CurrentNumberOfGraphicsOutput = gops
        /\ one.TextOutQueryDataCount = rest.TextOutQueryDataCount
    BY <1>1 DEF SplitterFields
  <2> HIDE DEF one
  <2>3. DOMAIN one.TextOutModeMap = {0} /\ one.TextOutModeMap[0][0] = 0
    BY <1>1, <2>2
  <2>4. Alone(one)
    BY <1>1, <2>2, <2>3 DEF Alone
  <2>5. Listed(one, 0)
    BY <1>1, <1>4, <2>2 DEF Listed, TextOutListCount
  <2>6. Console(one)
    BY <1>3, <2>2, <2>4, <2>5 DEF Console
  <2>7. Behind(one) = Behind(s) \ {d}
    <3>1. one.CurrentNumberOfConsoles = n /\ one.TextOutList = rest.TextOutList
      BY <1>4, <2>2
    <3>2. Behind(one) = {rest.TextOutList[k] : k \in 0 .. n - 1}
      BY <3>1, Zenon DEF Behind, Columns
    <3> QED  BY <1>1, <3>2
  <2>8. Console(t) /\ Behind(t) = Behind(s) \ {d}
    BY <2>1, <2>6, <2>7
  <2>9. t.CurrentNumberOfGraphicsOutput = gops /\ t.MaxMode = 1
    BY <2>1, <2>2
  <2> QED  BY <1>4, <2>8, <2>9
<1>5. CASE n # 0
  <2>1. n >= 1 /\ (n - 1) + 1 = n /\ t = Recomputed(rest, n)
    BY <1>1, <1>2, <1>5
  <2>2. Rebuilt(t, rest, n - 1)
    BY <1>1, <2>1, RecomputedIs
  <2>3. /\ Listed(t, n) /\ Table(t, n)
        /\ t.TextOutList = rest.TextOutList /\ t.Cursor = s.Cursor
        /\ t.CurrentNumberOfConsoles = n /\ t.CurrentNumberOfGraphicsOutput = gops
        /\ t.Mode \in -1 .. t.MaxMode - 1
    BY <1>1, <2>1, <2>2 DEF Rebuilt
  <2>4. Console(t) /\ InUse(t)
    BY <1>3, <1>5, <2>3 DEF Console, InUse
  <2>5. Behind(t) = Behind(s) \ {d}
    BY <1>1, <2>3 DEF Behind, Columns
  <2> QED  BY <1>5, <2>3, <2>4, <2>5
<1> QED  BY <1>4, <1>5

\* The number of graphics devices that are left.
LeftOver(s, p, d) ==
    s.CurrentNumberOfGraphicsOutput - (IF p = "ConOut" /\ HasGraphics(d) THEN 1 ELSE 0)

\* The graphics output goes with its last device.
StillThere(st, p, gops) == st.graphics.installed /\ ~(p = "ConOut" /\ gops = 0)

\* What a console and the devices are like when device d has left it.
TextLeft(t, st, p, d, gops) ==
    /\ TextState(t)
    /\ \A q \in Splitters : InUse(t.splitter[q])
    /\ \A q \in Splitters \ {p} : SameList(t.splitter[q], st.splitter[q])
    /\ Behind(t.splitter[p]) = Behind(st.splitter[p]) \ {d}
    /\ t.splitter[p].CurrentNumberOfGraphicsOutput = gops
    /\ t.graphics = [st.graphics EXCEPT !.installed = StillThere(st, p, gops)]
    /\ \A e \in Devices : t.device[e].graphicsMode = st.device[e].graphicsMode

LEMMA TextRemoved ==
    ASSUME NEW st, TextState(st), NEW p \in Splitters,
           \A q \in Splitters : InUse(st.splitter[q]),
           NEW d \in Behind(st.splitter[p])
    PROVE  TextLeft(TextOutDeleteDevice(st, p, d), st, p, d, LeftOver(st.splitter[p], p, d))
<1> DEFINE s == st.splitter[p]
           n == s.CurrentNumberOfConsoles - 1
           gops == LeftOver(s, p, d)
           rest == Rest(s, d, gops)
           one == [rest EXCEPT !.CurrentNumberOfConsoles = 0, !.MaxMode = 1,
                               !.TextOutQueryData = [m \in {0} |-> BaseSize],
                               !.TextOutModeMap = [m \in {0} |-> rest.TextOutModeMap[0]]]
           x == WithoutDevice(s, d, gops)
           there == StillThere(st, p, gops)
           g == [st.graphics EXCEPT !.installed = there]
           bare == [st EXCEPT !.graphics.installed = @ /\ ~(p = "ConOut" /\ gops = 0)]
           more == [st.splitter EXCEPT ![p] = x]
           u == [bare EXCEPT !.splitter[p] = x]
           t == TextOutDeleteDevice(st, p, d)
<1>1. /\ DOMAIN st = StateFields /\ DOMAIN st.splitter = Splitters /\ DeviceOK(st.device)
      /\ Console(s) /\ (\A q \in Splitters : Console(st.splitter[q]))
  BY DEF TextState
<1>2. t = IF n = 0 THEN TextOutSetMode([bare EXCEPT !.splitter[p] = one], p, 0)
          ELSE GetIntersectionBetweenConOutAndStrErr([bare EXCEPT !.splitter[p] = Recomputed(rest, n)])
  BY Zenon DEF TextOutDeleteDevice, Rest, LeftOver
<1>3. x = IF n = 0 THEN one ELSE Recomputed(rest, n)
  BY Zenon DEF WithoutDevice
<1>4. /\ Console(x) /\ Behind(x) = Behind(s) \ {d} /\ x.CurrentNumberOfGraphicsOutput = gops
      /\ (n # 0 => InUse(x)) /\ (x.CurrentNumberOfConsoles = 0 => x.MaxMode = 1)
  <2>1. InUse(s) /\ d \in Behind(s)
    OBVIOUS
  <2> HIDE DEF gops, s
  <2> QED  BY <1>1, <2>1, WithoutDeviceIs
<1>5. bare = [st EXCEPT !.graphics = g]
  BY DEF StillThere
<1> HIDE DEF gops, one, x
<1>6. t = IF n = 0 THEN TextOutSetMode(u, p, 0) ELSE GetIntersectionBetweenConOutAndStrErr(u)
  <2> HIDE DEF t, bare, rest, n
  <2> QED  BY <1>2, <1>3, Zenon
<1> HIDE DEF t, there, g
<1>7. /\ DOMAIN bare = StateFields /\ bare.graphics = g /\ bare.splitter = st.splitter
      /\ bare.device = st.device
  BY <1>1, <1>5 DEF StateFields
<1> HIDE DEF bare
<1>8. u = [bare EXCEPT !.splitter = more]
  BY <1>7 DEF StateFields
<1>9. /\ DOMAIN more = Splitters /\ more[p] = x
      /\ \A q \in Splitters \ {p} : more[q] = st.splitter[q]
  BY <1>1
<1> HIDE DEF u, more
<1>10. DOMAIN u = StateFields /\ u.splitter = more /\ u.device = st.device
       /\ u.graphics = g
  BY <1>7, <1>8 DEF StateFields
<1>11. TextState(u)
  BY <1>1, <1>4, <1>9, <1>10 DEF TextState
<1>12. /\ TextState(t) /\ TextOnly(t, u)
       /\ \A q \in Splitters : InUse(t.splitter[q])
  <2>1. CASE n = 0
    <3>1. t = TextOutSetMode(u, p, 0)
      BY <1>6, <2>1
    <3>2. /\ DOMAIN t = StateFields /\ DOMAIN t.splitter = Splitters
          /\ \A q \in Splitters \ {p} : t.splitter[q] = u.splitter[q]
          /\ Console(t.splitter[p]) /\ SameList(t.splitter[p], u.splitter[p])
          /\ t.splitter[p].Mode = 0
          /\ t.device = u.device /\ t.graphics = u.graphics
      BY <1>11, <3>1, TextOutSetModeIs DEF TextState
    <3>3. TextState(t)
      BY <1>11, <3>2 DEF TextState
    <3>4. TextOnly(t, u)
      BY <3>2 DEF TextOnly, SameList
    <3>5. InUse(t.splitter[p])
      <4>1. t.splitter[p].MaxMode \in 1 .. InitMode
        BY <3>2, ConsoleFacts
      <4> QED  BY <3>2, <4>1 DEF InUse, InitMode
    <3>6. \A q \in Splitters \ {p} : InUse(t.splitter[q])
      BY <1>9, <1>10, <3>2
    <3> QED  BY <3>3, <3>4, <3>5, <3>6
  <2>2. CASE n # 0
    <3>1. t = GetIntersectionBetweenConOutAndStrErr(u)
      BY <1>6, <2>2
    <3>2. /\ TextState(t) /\ TextOnly(t, u)
          /\ \A q \in Splitters : ModeKept(t.splitter[q], u.splitter[q])
      BY <1>11, <3>1, GetIntersectionBetweenIs
    <3>3. \A q \in Splitters : InUse(u.splitter[q])
      BY <1>4, <1>9, <1>10, <2>2
    <3> QED  BY <3>2, <3>3 DEF ModeKept
  <2> QED  BY <2>1, <2>2
<1>13. \A q \in Splitters \ {p} : SameList(t.splitter[q], st.splitter[q])
  BY <1>9, <1>10, <1>12 DEF TextOnly
<1>14. /\ Behind(t.splitter[p]) = Behind(s) \ {d}
       /\ t.splitter[p].CurrentNumberOfGraphicsOutput = gops
  <2>1. SameList(t.splitter[p], x)
    BY <1>9, <1>10, <1>12 DEF TextOnly
  <2> HIDE DEF s
  <2> QED  BY <1>4, <2>1, SameListFacts DEF SameList
<1>15. t.graphics = g /\ \A e \in Devices : t.device[e].graphicsMode = st.device[e].graphicsMode
  BY <1>10, <1>12 DEF TextOnly
<1>16. TextLeft(t, st, p, d, gops)
  BY <1>12, <1>13, <1>14, <1>15 DEF TextLeft, g, there
<1> QED  BY <1>16 DEF t, gops

\* A device leaves a console; the graphics output shows what is left.
Left(t, st, p, d) ==
    /\ StateOK(t)
    /\ \A q \in Splitters : InUse(t.splitter[q])
    /\ \A q \in Splitters \ {p} : Behind(t.splitter[q]) = Behind(st.splitter[q])
    /\ Behind(t.splitter[p]) = Behind(st.splitter[p]) \ {d}
    /\ \A e \in Devices : t.device[e].graphicsMode = st.device[e].graphicsMode

LEMMA TextOutDeleteDeviceIs ==
    ASSUME NEW st, StateOK(st), NEW p \in Splitters,
           \A q \in Splitters : InUse(st.splitter[q]),
           NEW d \in Behind(st.splitter[p])
    PROVE  Left(TextOutDeleteDevice(st, p, d), st, p, d)
<1> DEFINE t == TextOutDeleteDevice(st, p, d)
           s == st.splitter[p]
           gops == LeftOver(s, p, d)
           out == st.splitter["ConOut"]
           left == t.splitter["ConOut"]
           D == GraphicsDevices(out)
           E == GraphicsDevices(left)
           there == StillThere(st, p, gops)
           g == [st.graphics EXCEPT !.installed = there]
<1>1. TextLeft(t, st, p, d, gops)
  BY TextRemoved DEF StateOK
<1> HIDE DEF t, there
<1>2. /\ "ConOut" \in Splitters /\ Shows(st.graphics, st.device, D)
      /\ IsFiniteSet(D) /\ D \in SUBSET Devices
      /\ out.CurrentNumberOfGraphicsOutput = Cardinality(D)
      /\ st.graphics.installed <=> D # {}
  BY DEF StateOK, GraphicsOK, Counted, Splitters
<1>3. t.graphics = g
  BY <1>1 DEF TextLeft, g, there
<1>4. DOMAIN st.graphics = GraphicsFields
  BY <1>2 DEF Shows, Offers
<1>5. /\ DOMAIN g = GraphicsFields /\ g.installed = there /\ g.modes = st.graphics.modes
      /\ g.mode = st.graphics.mode /\ g.info = st.graphics.info
      /\ g.frameBuffer = st.graphics.frameBuffer
  BY <1>4 DEF GraphicsFields
<1> HIDE DEF g, gops
<1>6. /\ E \in SUBSET D /\ IsFiniteSet(E) /\ left.CurrentNumberOfGraphicsOutput = Cardinality(E)
      /\ there <=> E # {}
      /\ D # E => D \ E = {d} /\ d \in D
  <2>1. CASE p # "ConOut"
    <3>1. SameList(left, out)
      BY <1>1, <1>2, <2>1 DEF TextLeft
    <3>2. E = D /\ left.CurrentNumberOfGraphicsOutput = out.CurrentNumberOfGraphicsOutput
      BY <3>1, SameListFacts DEF SameList
    <3>3. there <=> D # {}
      BY <1>2, <2>1 DEF there, StillThere
    <3> QED  BY <1>2, <3>2, <3>3
  <2>2. CASE p = "ConOut"
    <3>1. /\ Behind(left) = Behind(out) \ {d} /\ d \in Behind(out)
          /\ left.CurrentNumberOfGraphicsOutput = gops
      BY <1>1, <2>2 DEF TextLeft
    <3>2. E = D \ {d} /\ (d \in D <=> HasGraphics(d))
      BY <3>1 DEF GraphicsDevices
    <3>3. IsFiniteSet(E) /\ gops = Cardinality(E)
      <4>1. CASE HasGraphics(d)
        <5>1. d \in D
          BY <3>2, <4>1
        <5> HIDE DEF D, E, out
        <5>2. IsFiniteSet(E) /\ Cardinality(E) = Cardinality(D) - 1
          BY <1>2, <3>2, <5>1, FS_RemoveElement
        <5>3. gops = Cardinality(D) - 1
          BY <1>2, <2>2, <4>1 DEF gops, LeftOver, out
        <5> QED  BY <5>2, <5>3
      <4>2. CASE ~HasGraphics(d)
        <5>1. E = D
          BY <3>2, <4>2
        <5> HIDE DEF D, E, out
        <5>2. Cardinality(D) \in Nat
          BY <1>2, FS_CardinalityType
        <5>3. gops = Cardinality(D) - 0
          BY <1>2, <2>2, <4>2 DEF gops, LeftOver, out
        <5> QED  BY <1>2, <5>1, <5>2, <5>3
      <4> QED  BY <4>1, <4>2
    <3>4. gops = 0 <=> E = {}
      BY <3>3, FS_EmptySet
    <3>5. there <=> E # {}
      BY <1>2, <2>2, <3>2, <3>4 DEF there, StillThere
    <3> QED  BY <1>2, <3>1, <3>2, <3>3, <3>5
  <2> QED  BY <2>1, <2>2
<1>7. \A e \in Devices : t.device[e].graphicsMode = st.device[e].graphicsMode
  BY <1>1 DEF TextLeft
<1> HIDE DEF D, E, out, left
<1>8. Shows(t.graphics, t.device, E)
  <2>1. Offers(g, E)
    BY <1>2, <1>5, <1>6 DEF Shows, Offers
  <2> QED  BY <1>2, <1>3, <1>5, <1>6, <1>7, <2>1 DEF Shows
<1>9. GraphicsOK(t)
  BY <1>2, <1>3, <1>5, <1>6, <1>8 DEF GraphicsOK, Counted, E, left
<1>10. \A q \in Splitters \ {p} : Behind(t.splitter[q]) = Behind(st.splitter[q])
  BY <1>1, SameListFacts DEF TextLeft
<1>11. Left(t, st, p, d)
  BY <1>1, <1>7, <1>9, <1>10 DEF Left, StateOK, TextLeft
<1> QED  BY <1>11 DEF t

-----------------------------------------------------------------------------
(* The inductive invariant.                                                *)

\* o is what the driver holds open on the consoles of st.
Holds(st, o) ==
    /\ StateOK(st)
    /\ DOMAIN o = Splitters
    /\ \A p \in Splitters : InUse(st.splitter[p]) /\ Behind(st.splitter[p]) = o[p]

Inv == Holds(State, opened)

LEMMA StateIs ==
    /\ DOMAIN State = StateFields /\ State.splitter = splitter /\ State.graphics = graphics
    /\ State.device = device /\ State.pcd = pcd
BY DEF State, StateFields

LEMMA Reached ==
    ASSUME NEW st, Holds(st, opened'), Becomes(st)
    PROVE  Inv'
<1>1. splitter' = st.splitter /\ graphics' = st.graphics /\ device' = st.device
  BY DEF Becomes
<1>2. /\ DOMAIN State' = StateFields /\ State'.splitter = st.splitter
      /\ State'.graphics = st.graphics /\ State'.device = st.device
  BY <1>1 DEF State, StateFields
<1> DEFINE u == State'
<1>3. u = State'
  OBVIOUS
<1>4. /\ DOMAIN u = StateFields /\ u.splitter = st.splitter
      /\ u.graphics = st.graphics /\ u.device = st.device
  BY <1>2
<1> HIDE DEF u
<1>5. StateOK(u)
  BY <1>4 DEF Holds, StateOK, TextState, GraphicsOK
<1>6. Holds(u, opened')
  BY <1>4, <1>5 DEF Holds
<1>7. Holds(State', opened')
  BY <1>3, <1>6
<1> QED  BY <1>7 DEF Inv

\* A call that concerns text only.
LEMMA TextCall ==
    ASSUME NEW st, NEW t, NEW o, Holds(st, o), TextState(t), TextOnly(t, st),
           \A q \in Splitters : InUse(t.splitter[q])
    PROVE  Holds(t, o)
<1>1. GraphicsOK(t)
  BY GraphicsKept DEF Holds, StateOK
<1>2. \A q \in Splitters : Behind(t.splitter[q]) = Behind(st.splitter[q])
  BY SameListFacts DEF TextOnly
<1> QED  BY <1>1, <1>2 DEF Holds, StateOK

\* The current mode does not depend on colours.
LEMMA InUseKept ==
    ASSUME NEW s, NEW t, InUse(s), SameTable(t, s), SameList(t, s), t.Mode = s.Mode
    PROVE  InUse(t)
BY DEF InUse, SameTable, SameList

LEMMA SetModeKeeps ==
    ASSUME Inv, NEW p \in Splitters, NEW n \in 0 .. splitter[p].MaxMode - 1, SetMode(p, n)
    PROVE  Inv'
<1> DEFINE st == State
           s == st.splitter[p]
           t == TextOutSetModeCall(st, p, n)
<1>1. Becomes(t) /\ opened' = opened
  BY DEF SetMode
<1>2. st.splitter = splitter /\ Holds(st, opened)
  BY StateIs DEF Inv
<1> HIDE DEF st
<1>3. TextState(st) /\ Console(s) /\ \A q \in Splitters : InUse(st.splitter[q])
  BY <1>2 DEF Holds, StateOK, TextState
<1>4. s.MaxMode \in Nat /\ n \in Nat /\ n < s.MaxMode
  <2>1. s.MaxMode \in 1 .. InitMode
    BY <1>3, ConsoleFacts
  <2>2. s.MaxMode \in Nat /\ n \in 0 .. s.MaxMode - 1
    BY <1>2, <2>1 DEF InitMode
  <2> HIDE DEF s
  <2> QED  BY <2>2
<1>5. /\ TextState(t) /\ TextOnly(t, st)
      /\ \A q \in Splitters \ {p} : t.splitter[q] = st.splitter[q]
      /\ SameTable(t.splitter[p], s) /\ t.splitter[p].Mode = n
  BY <1>3, <1>4, TextOutSetModeCallIs
<1> HIDE DEF t
<1>6. s.CurrentNumberOfConsoles = 0 => n = 0
  BY <1>3, <1>4 DEF Console, Alone
<1>7. InUse(t.splitter[p])
  <2>1. SameList(t.splitter[p], s) /\ t.splitter[p].MaxMode = s.MaxMode
    BY <1>5 DEF TextOnly, SameTable
  <2> QED  BY <1>4, <1>5, <1>6, <2>1 DEF InUse, SameList
<1>8. \A q \in Splitters : InUse(t.splitter[q])
  BY <1>3, <1>5, <1>7
<1>9. Holds(t, opened')
  BY <1>1, <1>2, <1>5, <1>8, TextCall
<1> QED  BY <1>1, <1>9, Reached

LEMMA SetAttributeKeeps ==
    ASSUME Inv, NEW p \in Splitters, NEW colour, SetAttribute(p, colour)
    PROVE  Inv'
<1> DEFINE st == State
           t == SetAttributeCall(st, p, colour)
<1>1. Becomes(t) /\ opened' = opened
  BY DEF SetAttribute
<1>2. Holds(st, opened)
  BY DEF Inv
<1> HIDE DEF st
<1>3. TextState(st) /\ \A q \in Splitters : InUse(st.splitter[q])
  BY <1>2 DEF Holds, StateOK
<1>4. /\ TextState(t) /\ TextOnly(t, st)
      /\ \A q \in Splitters : /\ SameTable(t.splitter[q], st.splitter[q])
                              /\ t.splitter[q].Mode = st.splitter[q].Mode
  BY <1>3, SetAttributeCallIs
<1> HIDE DEF t
<1>5. \A q \in Splitters : InUse(t.splitter[q])
  BY <1>3, <1>4, InUseKept DEF TextOnly
<1>6. Holds(t, opened')
  BY <1>1, <1>2, <1>4, <1>5, TextCall
<1> QED  BY <1>1, <1>6, Reached

LEMMA OutputStringKeeps ==
    ASSUME Inv, NEW p \in Splitters, OutputString(p)
    PROVE  Inv'
BY SetAttributeKeeps DEF OutputString, SetAttribute

\* The devices behind a console are in their mode 0, and the rest is as it was.
LEMMA DevicesResetIs ==
    ASSUME NEW st, TextState(st), NEW p \in Splitters
    PROVE  LET t == DevicesReset(st, p)
           IN  TextState(t) /\ TextOnly(t, st) /\ t.splitter = st.splitter
<1> DEFINE B == Behind(st.splitter[p])
           dev == [d \in Devices |-> IF d \in B THEN [st.device[d] EXCEPT !.textMode = 0]
                                     ELSE st.device[d]]
           t == DevicesReset(st, p)
           Goal == TextState(t) /\ TextOnly(t, st) /\ t.splitter = st.splitter
<1> SUFFICES Goal
  OBVIOUS
<1>1. /\ DOMAIN st = StateFields /\ DOMAIN st.splitter = Splitters /\ DeviceOK(st.device)
      /\ \A q \in Splitters : Console(st.splitter[q])
  BY DEF TextState
<1>2. t = [st EXCEPT !.device = dev]
  BY DEF DevicesReset
<1>3. \A d \in Devices : dev[d] = IF d \in B THEN [st.device[d] EXCEPT !.textMode = 0]
                                  ELSE st.device[d]
  OBVIOUS
<1>4. DOMAIN dev = Devices
  OBVIOUS
<1> HIDE DEF t, dev, B
<1>5. \A d \in Devices :
        /\ DOMAIN dev[d] = DeviceFields /\ dev[d].graphicsMode = st.device[d].graphicsMode
        /\ dev[d].textMode \in {0, st.device[d].textMode}
  <2> TAKE d \in Devices
  <2>1. DOMAIN st.device[d] = DeviceFields
    BY <1>1 DEF DeviceOK
  <2>2. CASE d \in B
    BY <1>3, <2>1, <2>2 DEF DeviceFields
  <2>3. CASE d \notin B
    BY <1>3, <2>1, <2>3
  <2> QED  BY <2>2, <2>3
<1>6. \A d \in Devices : Supports(d, 0)
  BY DeviceFacts
<1>7. DeviceOK(dev)
  BY <1>1, <1>4, <1>5, <1>6 DEF DeviceOK
<1>8. /\ DOMAIN t = StateFields /\ t.splitter = st.splitter /\ t.device = dev
      /\ t.graphics = st.graphics
  BY <1>1, <1>2 DEF StateFields
<1>9. TextState(t)
  BY <1>1, <1>7, <1>8 DEF TextState
<1> QED  BY <1>5, <1>8, <1>9 DEF TextOnly, SameList

LEMMA ResetKeeps ==
    ASSUME Inv, NEW p \in Splitters, Reset(p)
    PROVE  Inv'
<1> DEFINE st == State
           u == DevicesReset(st, p)
           v == SetAttributeCall(u, p, splitter[p].Attribute)
           t == TextOutSetMode(v, p, 0)
<1>1. Becomes(t) /\ opened' = opened
  BY DEF Reset
<1>2. Holds(st, opened)
  BY DEF Inv
<1> HIDE DEF st
<1>3. TextState(st) /\ \A q \in Splitters : InUse(st.splitter[q])
  BY <1>2 DEF Holds, StateOK
<1>4. TextState(u) /\ TextOnly(u, st) /\ u.splitter = st.splitter
  BY <1>3, DevicesResetIs
<1> HIDE DEF u
<1>5. /\ TextState(v) /\ TextOnly(v, u)
      /\ \A q \in Splitters : /\ SameTable(v.splitter[q], u.splitter[q])
                              /\ v.splitter[q].Mode = u.splitter[q].Mode
  BY <1>4, SetAttributeCallIs
<1> HIDE DEF v
<1>6. /\ DOMAIN t = StateFields /\ DOMAIN t.splitter = Splitters
      /\ \A q \in Splitters \ {p} : t.splitter[q] = v.splitter[q]
      /\ Console(t.splitter[p]) /\ SameTable(t.splitter[p], v.splitter[p])
      /\ SameList(t.splitter[p], v.splitter[p])
      /\ t.splitter[p].Mode = 0
      /\ t.device = v.device /\ t.graphics = v.graphics
  BY <1>5, TextOutSetModeIs DEF TextState
<1> HIDE DEF t
<1>7. TextState(t)
  BY <1>5, <1>6 DEF TextState
<1>8. TextOnly(t, v)
  BY <1>6 DEF TextOnly, SameList
<1>9. \A q \in Splitters : InUse(t.splitter[q])
  <2>1. \A q \in Splitters : InUse(v.splitter[q])
    BY <1>3, <1>4, <1>5, InUseKept DEF TextOnly
  <2>2. t.splitter[p].MaxMode \in 1 .. InitMode
    BY <1>6, ConsoleFacts
  <2>3. InUse(t.splitter[p])
    BY <1>6, <2>2 DEF InUse, InitMode
  <2> QED  BY <1>6, <2>1, <2>3
<1>10. TextOnly(t, st)
  BY <1>4, <1>5, <1>8, TextOnlyTransitive
<1>11. Holds(t, opened')
  BY <1>1, <1>2, <1>7, <1>9, <1>10, TextCall
<1> QED  BY <1>1, <1>11, Reached

\* Whatever the character, the cursor stays on the screen.
LEMMA MovedOnScreen ==
    ASSUME NEW cursor, OnScreen(cursor), NEW char
    PROVE  OnScreen(Moved(cursor, BaseSize, char))
<1> DEFINE c == cursor[1]
           r == cursor[2]
           w == BaseSize[1]
           h == BaseSize[2]
           down == IF r < h - 1 THEN r + 1 ELSE r
           next == CASE char = "backspace" /\ c = 0 /\ r > 0 -> <<w - 1, r - 1>>
                     [] char = "backspace" /\ c > 0 -> <<c - 1, r>>
                     [] char = "linefeed" -> <<c, down>>
                     [] char = "return" -> <<0, r>>
                     [] char = "glyph" -> IF c < w - 1 THEN <<c + 1, r>> ELSE <<0, down>>
                     [] OTHER -> cursor
           Screen == (0 .. w - 1) \X (0 .. h - 1)
<1>1. w \in Nat \ {0} /\ h \in Nat \ {0}
  BY OutAssumption
<1>2. c \in 0 .. w - 1 /\ r \in 0 .. h - 1 /\ cursor \in Screen
  BY DEF OnScreen
<1>3. Moved(cursor, BaseSize, char) = next
  BY Zenon DEF Moved
<1> HIDE DEF c, r, w, h
<1>4. down \in 0 .. h - 1
  BY <1>1, <1>2
<1> HIDE DEF down
<1>5. 0 \in 0 .. w - 1 /\ w - 1 \in 0 .. w - 1
  BY <1>1
<1>6. r > 0 => r - 1 \in 0 .. h - 1
  BY <1>1, <1>2
<1>7. /\ c > 0 => c - 1 \in 0 .. w - 1
      /\ c < w - 1 => c + 1 \in 0 .. w - 1
  BY <1>1, <1>2
<1>8. next \in Screen
  BY <1>2, <1>4, <1>5, <1>6, <1>7
<1> HIDE DEF next
<1>9. Moved(cursor, BaseSize, char) \in Screen
  BY <1>3, <1>8
<1> QED  BY <1>9 DEF OnScreen, w, h

LEMMA CursorMoved ==
    ASSUME Inv, NEW p \in Splitters, NEW cursor, OnScreen(cursor)
    PROVE  Holds([State EXCEPT !.splitter[p].Cursor = cursor], opened)
<1> DEFINE st == State
           s == st.splitter[p]
           u == [s EXCEPT !.Cursor = cursor]
           t == [st EXCEPT !.splitter[p].Cursor = cursor]
           more == [st.splitter EXCEPT ![p] = u]
<1>1. Holds(st, opened)
  BY DEF Inv
<1> HIDE DEF st
<1>2. /\ DOMAIN st = StateFields /\ DOMAIN st.splitter = Splitters /\ DeviceOK(st.device)
      /\ (\A q \in Splitters : Console(st.splitter[q])) /\ DOMAIN s = SplitterFields
      /\ \A q \in Splitters : InUse(st.splitter[q])
  BY <1>1 DEF Holds, StateOK, TextState, Console, Listed
<1>3. /\ SameTable(u, s) /\ SameList(u, s) /\ u.Mode = s.Mode /\ u.Cursor = cursor
  BY <1>2 DEF SplitterFields, SameTable, SameList
<1>4. t = [st EXCEPT !.splitter = more]
  BY <1>2 DEF StateFields
<1> HIDE DEF u
<1>5. Console(u) /\ InUse(u)
  BY <1>2, <1>3, ConsoleMoved, InUseKept
<1>6. /\ DOMAIN more = Splitters /\ more[p] = u
      /\ \A q \in Splitters \ {p} : more[q] = st.splitter[q]
  BY <1>2
<1> HIDE DEF t, more
<1>7. DOMAIN t = StateFields /\ t.splitter = more /\ t.device = st.device
      /\ t.graphics = st.graphics
  BY <1>2, <1>4 DEF StateFields
<1>8. TextState(t)
  BY <1>2, <1>5, <1>6, <1>7 DEF TextState
<1>9. TextOnly(t, st)
  BY <1>3, <1>6, <1>7 DEF TextOnly, SameList
<1>10. \A q \in Splitters : InUse(t.splitter[q])
  BY <1>2, <1>5, <1>6, <1>7
<1>11. Holds(t, opened)
  BY <1>1, <1>8, <1>9, <1>10, TextCall
<1> QED  BY <1>11 DEF t, st

\* Without a device a console has the one mode of a screen that is not there.
LEMMA NoDeviceFacts ==
    ASSUME Inv, NEW p \in Splitters
    PROVE  /\ OnScreen(splitter[p].Cursor) /\ splitter[p].CurrentNumberOfConsoles \in Nat
           /\ splitter[p].CurrentNumberOfConsoles = 0 =>
                splitter[p].Mode = 0 /\ SizeOf(splitter[p], splitter[p].Mode) = BaseSize
<1> DEFINE s == splitter[p]
<1>1. Console(s) /\ InUse(s)
  BY StateIs DEF Inv, Holds, StateOK, TextState
<1> HIDE DEF s
<1>2. SizeOf(s, 0) = BaseSize /\ s.CurrentNumberOfConsoles \in Nat
  BY <1>1, ConsoleFacts
<1>3. OnScreen(s.Cursor) /\ (s.CurrentNumberOfConsoles = 0 => s.Mode = 0)
  BY <1>1 DEF Console, InUse
<1> QED  BY <1>2, <1>3 DEF s

LEMMA OutputToNoDeviceKeeps ==
    ASSUME Inv, NEW p \in Splitters, NEW char, OutputToNoDevice(p, char)
    PROVE  Inv'
<1> DEFINE s == splitter[p]
           cursor == Moved(s.Cursor, SizeOf(s, s.Mode), char)
           t == [State EXCEPT !.splitter[p].Cursor = cursor]
<1>1. /\ s.CurrentNumberOfConsoles = 0 /\ opened' = opened
      /\ Becomes([State EXCEPT !.splitter[p].Cursor = Moved(@, SizeOf(s, s.Mode), char)])
  BY DEF OutputToNoDevice
<1>2. [State EXCEPT !.splitter[p].Cursor = Moved(@, SizeOf(s, s.Mode), char)] = t
  BY StateIs
<1>3. OnScreen(s.Cursor) /\ SizeOf(s, s.Mode) = BaseSize
  BY <1>1, NoDeviceFacts
<1>4. OnScreen(cursor)
  BY <1>3, MovedOnScreen
<1> HIDE DEF cursor
<1>5. Holds(t, opened)
  BY <1>4, CursorMoved
<1> HIDE DEF t
<1>6. Becomes(t)
  BY <1>1, <1>2
<1> QED  BY <1>1, <1>5, <1>6, Reached

LEMMA SetCursorPositionKeeps ==
    ASSUME Inv, NEW p \in Splitters, NEW position \in Positions, SetCursorPosition(p, position)
    PROVE  Inv'
<1> DEFINE s == splitter[p]
           t == [State EXCEPT !.splitter[p].Cursor = position]
<1>1. /\ s.Mode >= 0 => /\ position[1] < SizeOf(s, s.Mode)[1]
                        /\ position[2] < SizeOf(s, s.Mode)[2]
      /\ Becomes(IF s.CurrentNumberOfConsoles > 0 THEN State ELSE t)
      /\ opened' = opened
  BY DEF SetCursorPosition
<1>2. CASE s.CurrentNumberOfConsoles > 0
  <2>1. Becomes(State)
    BY <1>1, <1>2
  <2>2. Holds(State, opened')
    BY <1>1 DEF Inv
  <2> QED  BY <2>1, <2>2, Reached
<1>3. CASE ~(s.CurrentNumberOfConsoles > 0)
  <2>1. s.CurrentNumberOfConsoles = 0 /\ s.Mode = 0 /\ SizeOf(s, s.Mode) = BaseSize
    BY <1>3, NoDeviceFacts
  <2>2. position[1] < BaseSize[1] /\ position[2] < BaseSize[2]
    BY <1>1, <2>1
  <2>3. BaseSize \in (Nat \ {0}) \X (Nat \ {0})
    BY OutAssumption
  <2>4. OnScreen(position)
    BY <2>2, <2>3 DEF OnScreen, Positions, Home
  <2>5. Becomes(t)
    BY <1>1, <1>3
  <2>6. Holds(t, opened')
    BY <1>1, <2>4, CursorMoved
  <2> HIDE DEF t
  <2> QED  BY <2>5, <2>6, Reached
<1> QED  BY <1>2, <1>3

LEMMA GraphicsSetModeKeeps ==
    ASSUME Inv, NEW n \in 0 .. Len(graphics.modes) - 1, GraphicsSetMode(n)
    PROVE  Inv'
<1> DEFINE st == State
           D == GraphicsDevices(st.splitter["ConOut"])
           t == GraphicsSetModeCall(st, n)
<1>1. Becomes(t) /\ opened' = opened
  BY DEF GraphicsSetMode
<1>2. Holds(st, opened) /\ st.graphics = graphics
  BY StateIs DEF Inv
<1> HIDE DEF st
<1>3. /\ TextState(st) /\ GraphicsOK(st) /\ DOMAIN st = StateFields /\ DeviceOK(st.device)
      /\ n \in 0 .. Len(st.graphics.modes) - 1
  BY <1>2 DEF Holds, StateOK, TextState
<1>4. /\ Counted(st.splitter["ConOut"]) /\ Offers(st.graphics, D)
      /\ st.graphics.installed <=> D # {}
  BY <1>3 DEF GraphicsOK, Shows
<1>5. /\ DOMAIN t = StateFields /\ DeviceOK(t.device) /\ t.splitter = st.splitter
      /\ Shows(t.graphics, t.device, D)
      /\ t.graphics.installed = st.graphics.installed
  BY <1>3, <1>4, GraphicsSetModeCallIs
<1> HIDE DEF t
<1>6. TextState(t)
  BY <1>3, <1>5 DEF TextState
<1>7. GraphicsOK(t)
  BY <1>4, <1>5 DEF GraphicsOK
<1>8. Holds(t, opened')
  BY <1>1, <1>2, <1>5, <1>6, <1>7 DEF Holds, StateOK
<1> QED  BY <1>1, <1>8, Reached

\* The console on which a device is started has no current mode meanwhile.
LEMMA WithoutMode ==
    ASSUME Inv, NEW p \in Splitters
    PROVE  LET t == [State EXCEPT !.splitter[p].Mode = InitMode]
           IN  /\ StateOK(t) /\ t.splitter[p].Mode = InitMode
               /\ \A q \in Splitters : Behind(t.splitter[q]) = opened[q]
               /\ \A q \in Splitters \ {p} : InUse(t.splitter[q])
<1> DEFINE st == State
           s == st.splitter[p]
           u == [s EXCEPT !.Mode = InitMode]
           t == [st EXCEPT !.splitter[p].Mode = InitMode]
           more == [st.splitter EXCEPT ![p] = u]
           Goal == /\ StateOK(t) /\ t.splitter[p].Mode = InitMode
                   /\ \A q \in Splitters : Behind(t.splitter[q]) = opened[q]
                   /\ \A q \in Splitters \ {p} : InUse(t.splitter[q])
<1> SUFFICES Goal
  OBVIOUS
<1>1. Holds(st, opened)
  BY DEF Inv
<1> HIDE DEF st
<1>2. /\ DOMAIN st = StateFields /\ DOMAIN st.splitter = Splitters /\ DeviceOK(st.device)
      /\ (\A q \in Splitters : Console(st.splitter[q])) /\ DOMAIN s = SplitterFields
      /\ \A q \in Splitters : InUse(st.splitter[q])
      /\ \A q \in Splitters : Behind(st.splitter[q]) = opened[q]
      /\ GraphicsOK(st) /\ OnScreen(s.Cursor)
  BY <1>1 DEF Holds, StateOK, TextState, Console, Listed
<1>3. /\ SameTable(u, s) /\ SameList(u, s) /\ u.Mode = InitMode /\ u.Cursor = s.Cursor
  BY <1>2 DEF SplitterFields, SameTable, SameList
<1>4. t = [st EXCEPT !.splitter = more]
  BY <1>2 DEF StateFields
<1> HIDE DEF u
<1>5. Console(u)
  BY <1>2, <1>3, ConsoleMoved
<1>6. /\ DOMAIN more = Splitters /\ more[p] = u
      /\ \A q \in Splitters \ {p} : more[q] = st.splitter[q]
  BY <1>2
<1> HIDE DEF t, more
<1>7. DOMAIN t = StateFields /\ t.splitter = more /\ t.device = st.device
      /\ t.graphics = st.graphics
  BY <1>2, <1>4 DEF StateFields
<1>8. TextState(t)
  BY <1>2, <1>5, <1>6, <1>7 DEF TextState
<1>9. TextOnly(t, st)
  BY <1>3, <1>6, <1>7 DEF TextOnly, SameList
<1>10. GraphicsOK(t)
  BY <1>2, <1>9, GraphicsKept
<1>11. \A q \in Splitters : Behind(t.splitter[q]) = opened[q]
  BY <1>2, <1>9, SameListFacts DEF TextOnly
<1>12. t.splitter[p].Mode = InitMode /\ \A q \in Splitters \ {p} : InUse(t.splitter[q])
  BY <1>2, <1>3, <1>6, <1>7
<1> QED  BY <1>8, <1>10, <1>11, <1>12 DEF StateOK

\* The devices behind a console are in a mode that it offers.
Synchronised(s, dev) == s.Mode \in Nat /\ InMode(s, dev)

LEMMA DriverBindingStartKeeps ==
    ASSUME Inv, NEW p \in Splitters, NEW d \in Devices, DriverBindingStart(p, d)
    PROVE  Inv' /\ Synchronised(splitter'[p], device')
<1> DEFINE st == [State EXCEPT !.splitter[p].Mode = InitMode]
           v == TextOutAddDevice(st, p, d)
           c == IF p = "ConOut" THEN ConOutColour ELSE StdErrColour
           t == SetAttributeCall(v, p, c)
           x == v.splitter[p]
           y == t.splitter[p]
<1>1. /\ d \notin opened[p] /\ Becomes(t)
      /\ opened' = [opened EXCEPT ![p] = @ \union {d}]
  BY DEF DriverBindingStart
<1>2. /\ StateOK(st) /\ st.splitter[p].Mode = InitMode
      /\ \A q \in Splitters : Behind(st.splitter[q]) = opened[q]
      /\ \A q \in Splitters \ {p} : InUse(st.splitter[q])
  BY WithoutMode
<1> HIDE DEF st
<1>3. Added(v, st, p, d)
  BY <1>1, <1>2, TextOutAddDeviceIs
<1> HIDE DEF v, c
<1>4. /\ TextState(v) /\ Console(x) /\ x.Mode \in 0 .. x.MaxMode - 1 /\ InMode(x, v.device)
      /\ \A q \in Splitters \ {p} : InUse(v.splitter[q]) /\ Behind(v.splitter[q]) = opened[q]
      /\ Behind(x) = opened[p] \union {d} /\ GraphicsOK(v)
  BY <1>2, <1>3 DEF Added, StateOK, TextState
<1>5. /\ TextState(t) /\ TextOnly(t, v)
      /\ \A q \in Splitters : /\ SameTable(t.splitter[q], v.splitter[q])
                              /\ t.splitter[q].Mode = v.splitter[q].Mode
      /\ \A e \in Devices : t.device[e].textMode = v.device[e].textMode
  BY <1>4, SetAttributeCallIs
<1> HIDE DEF t
<1>6. InUse(x) /\ x.Mode \in Nat
  <2>1. x.MaxMode \in 1 .. InitMode
    BY <1>4, ConsoleFacts
  <2>2. x.CurrentNumberOfConsoles = 0 => x.MaxMode = 1
    BY <1>4 DEF Console, Alone
  <2> HIDE DEF x
  <2> QED  BY <1>4, <2>1, <2>2 DEF InUse, InitMode
<1>7. DOMAIN opened = Splitters
  BY DEF Inv, Holds
<1>8. opened'[p] = opened[p] \union {d} /\ \A q \in Splitters \ {p} : opened'[q] = opened[q]
  BY <1>1, <1>7
<1>9. Holds(v, opened')
  BY <1>1, <1>4, <1>6, <1>7, <1>8 DEF Holds, StateOK
<1>10. \A q \in Splitters : InUse(t.splitter[q])
  BY <1>5, <1>9, InUseKept DEF TextOnly, Holds
<1>11. Holds(t, opened')
  BY <1>5, <1>9, <1>10, TextCall
<1>12. Synchronised(y, t.device)
  <2>1. /\ SameTable(y, x) /\ SameList(y, x) /\ y.Mode = x.Mode
    BY <1>5 DEF TextOnly
  <2>2. Behind(x) \subseteq Devices
    BY <1>4, ConsoleFacts
  <2> HIDE DEF x, y
  <2>3. Behind(y) = Behind(x)
    BY <2>1, SameListFacts
  <2>4. SizeOf(y, y.Mode) = SizeOf(x, x.Mode)
    BY <2>1, TableKept
  <2> QED  BY <1>4, <1>5, <1>6, <2>1, <2>2, <2>3, <2>4 DEF Synchronised, InMode
<1>13. splitter'[p] = y /\ device' = t.device
  BY <1>1 DEF Becomes
<1> HIDE DEF y
<1>14. Synchronised(splitter'[p], device')
  BY <1>12, <1>13
<1> QED  BY <1>1, <1>11, <1>14, Reached

\* What a device that has just been started is like.
LEMMA StartedIs ==
    /\ DOMAIN Started = DeviceFields
    /\ \A d \in Devices : /\ Supports(d, Started.textMode)
                          /\ HasGraphics(d) => Started.graphicsMode \in 0 .. Len(GraphicsModes[d]) - 1
<1>1. /\ DOMAIN Started = DeviceFields /\ Started.textMode = 0 /\ Started.graphicsMode = 0
  BY DEF Started, DeviceFields
<1>2. ASSUME NEW d \in Devices, HasGraphics(d)
      PROVE  0 \in 0 .. Len(GraphicsModes[d]) - 1
  <2>1. GraphicsModes[d] \in Seq(ToSet(GraphicsModes[d])) /\ GraphicsModes[d] # << >>
    BY <1>2, OutAssumption DEF HasGraphics
  <2> QED  BY <2>1
<1> HIDE DEF Started
<1> QED  BY <1>1, <1>2, DeviceFacts

LEMMA DriverBindingStopKeeps ==
    ASSUME Inv, NEW p \in Splitters, NEW d \in Devices, DriverBindingStop(p, d)
    PROVE  Inv' /\ \A q \in Splitters : opened'[q] \subseteq opened[q]
<1> DEFINE st == TextOutDeleteDevice(State, p, d)
           dev == [e \in Devices |->
                     IF \E q \in Splitters : e \in opened'[q] THEN st.device[e] ELSE Started]
           t == [st EXCEPT !.device = dev]
           D == GraphicsDevices(st.splitter["ConOut"])
<1>1. /\ d \in opened[p] /\ Becomes(t)
      /\ opened' = [opened EXCEPT ![p] = @ \ {d}]
  BY DEF DriverBindingStop
<1>2. /\ StateOK(State) /\ DOMAIN opened = Splitters
      /\ \A q \in Splitters : InUse(State.splitter[q]) /\ Behind(State.splitter[q]) = opened[q]
  BY DEF Inv, Holds
<1>3. Left(st, State, p, d)
  <2>1. d \in Behind(State.splitter[p])
    BY <1>1, <1>2
  <2> QED  BY <1>2, <2>1, TextOutDeleteDeviceIs
<1> HIDE DEF st
<1>4. opened'[p] = opened[p] \ {d} /\ \A q \in Splitters \ {p} : opened'[q] = opened[q]
  BY <1>1, <1>2
<1>5. /\ TextState(st) /\ GraphicsOK(st)
      /\ \A q \in Splitters : InUse(st.splitter[q]) /\ Behind(st.splitter[q]) = opened'[q]
  BY <1>2, <1>3, <1>4 DEF Left, StateOK
<1>6. DOMAIN dev = Devices
      /\ \A e \in Devices : dev[e] = IF \E q \in Splitters : e \in opened'[q]
                                     THEN st.device[e] ELSE Started
  OBVIOUS
<1> HIDE DEF dev
<1>7. DOMAIN t = StateFields /\ t.splitter = st.splitter /\ t.graphics = st.graphics
      /\ t.device = dev
  BY <1>5 DEF TextState, StateFields
<1> HIDE DEF t
<1>8. DeviceOK(dev)
  BY <1>5, <1>6, StartedIs DEF TextState, DeviceOK
<1>9. TextState(t)
  BY <1>5, <1>7, <1>8 DEF TextState
<1>10. D \in SUBSET Devices /\ "ConOut" \in Splitters
  BY <1>5 DEF GraphicsOK, Counted, Splitters
<1>11. \A e \in D : dev[e].graphicsMode = st.device[e].graphicsMode
  <2>1. \A e \in D : e \in opened'["ConOut"]
    BY <1>5, <1>10 DEF GraphicsDevices
  <2> QED  BY <1>6, <1>10, <2>1
<1>12. Shows(st.graphics, dev, D)
  <2>1. Shows(st.graphics, st.device, D)
    BY <1>5 DEF GraphicsOK
  <2> HIDE DEF D
  <2> QED  BY <1>10, <1>11, <2>1, ShowsKept
<1>13. GraphicsOK(t)
  BY <1>5, <1>7, <1>12 DEF GraphicsOK
<1>14. Holds(t, opened')
  BY <1>1, <1>2, <1>5, <1>7, <1>9, <1>13 DEF Holds, StateOK
<1>15. \A q \in Splitters : opened'[q] \subseteq opened[q]
  BY <1>4
<1> QED  BY <1>1, <1>14, <1>15, Reached

LEMMA InitIs ==
    ASSUME Init
    PROVE  Inv
<1> DEFINE st == State
           colour(p) == IF p = "ConOut" THEN ConOutColour ELSE StdErrColour
           new(p) == NewSplitter(colour(p))
           D == GraphicsDevices(splitter["ConOut"])
<1>1. /\ splitter = [p \in Splitters |-> new(p)]
      /\ graphics = [modes |-> <<DefaultResolution>>, mode |-> 0, installed |-> FALSE,
                     info |-> DefaultResolution, frameBuffer |-> NoDevice]
      /\ device = [d \in Devices |-> Started]
      /\ opened = [p \in Splitters |-> {}]
  BY Zenon DEF Init
<1>2. ASSUME NEW c
      PROVE  LET s == NewSplitter(c)
             IN  /\ Console(s) /\ InUse(s) /\ Behind(s) = {}
                 /\ s.CurrentNumberOfGraphicsOutput = 0
  <2> DEFINE s == NewSplitter(c)
  <2>1. Unit \in Nat \ {0}
    BY OutAssumption
  <2>2. /\ s.TextOutList = [k \in 0 .. Unit - 1 |-> NoDevice]
        /\ s.CurrentNumberOfConsoles = 0 /\ s.CurrentNumberOfGraphicsOutput = 0
        /\ s.TextOutQueryData = [m \in {0} |-> BaseSize] /\ s.TextOutQueryDataCount = Unit
        /\ s.TextOutModeMap = << >> /\ s.MaxMode = 1 /\ s.Mode = 0 /\ s.Cursor = Home
        /\ DOMAIN s = SplitterFields
    BY DEF NewSplitter, SplitterFields
  <2> HIDE DEF s
  <2>3. DOMAIN s.TextOutList = 0 .. Unit - 1 /\ TextOutListCount(s) = Unit
    <3>1. DOMAIN s.TextOutList = 0 .. Unit - 1
      BY <2>2
    <3>2. Cardinality(0 .. Unit - 1) = Unit
      BY <2>1, FS_Interval
    <3> QED  BY <3>1, <3>2 DEF TextOutListCount
  <2>4. Listed(s, 0)
    BY <2>1, <2>2, <2>3 DEF Listed
  <2>5. Alone(s)
    BY <2>1, <2>2 DEF Alone
  <2>6. Console(s) /\ InUse(s)
    BY <2>2, <2>4, <2>5, HomeOnScreen DEF Console, InUse
  <2>7. Behind(s) = {}
    BY <2>2 DEF Behind, Columns
  <2>8. Console(s) /\ InUse(s) /\ Behind(s) = {} /\ s.CurrentNumberOfGraphicsOutput = 0
    BY <2>2, <2>6, <2>7
  <2> QED  BY <2>8, Zenon DEF s
<1>3. \A p \in Splitters : /\ Console(splitter[p]) /\ InUse(splitter[p])
                           /\ Behind(splitter[p]) = {}
                           /\ splitter[p].CurrentNumberOfGraphicsOutput = 0
  <2> TAKE p \in Splitters
  <2>1. splitter[p] = NewSplitter(colour(p))
    BY <1>1
  <2> HIDE DEF colour
  <2> QED  BY <1>2, <2>1
<1>4. DeviceOK(device)
  <2>1. DOMAIN device = Devices /\ \A d \in Devices : device[d] = Started
    BY <1>1
  <2> QED  BY <2>1, StartedIs DEF DeviceOK
<1>5. TextState(State)
  BY <1>1, <1>3, <1>4, StateIs DEF TextState
<1>6. D = {} /\ Counted(splitter["ConOut"])
  <2>1. D = {}
    BY <1>3 DEF GraphicsDevices, Splitters
  <2>2. splitter["ConOut"].CurrentNumberOfGraphicsOutput = 0
    BY <1>3 DEF Splitters
  <2> QED  BY <2>1, <2>2, FS_EmptySet DEF Counted
<1>7. Shows(graphics, device, {}) /\ graphics.installed = FALSE
  <2>1. /\ graphics.modes = <<DefaultResolution>> /\ graphics.mode = 0
        /\ graphics.installed = FALSE /\ graphics.info = DefaultResolution
        /\ DOMAIN graphics = GraphicsFields
    BY <1>1 DEF GraphicsFields
  <2>2. <<DefaultResolution>> \in Seq(ToSet(<<DefaultResolution>>))
    BY DEF ToSet
  <2>3. Len(<<DefaultResolution>>) = 1 /\ <<DefaultResolution>>[1] = DefaultResolution
    OBVIOUS
  <2>4. graphics.modes \in Seq(ToSet(graphics.modes))
    BY <2>1, <2>2
  <2>5. Offers(graphics, {})
    BY <2>1, <2>4 DEF Offers
  <2>6. Len(graphics.modes) = 1 /\ graphics.modes[1] = graphics.info /\ graphics.mode = 0
    BY <2>1, <2>3
  <2>7. graphics.mode \in 0 .. Len(graphics.modes) - 1 /\ graphics.mode + 1 = 1
    BY <2>6
  <2>8. graphics.modes[graphics.mode + 1] = graphics.info
    BY <2>6, <2>7
  <2> QED  BY <2>1, <2>5, <2>7, <2>8 DEF Shows
<1> HIDE DEF D
<1>8. GraphicsOK(State)
  BY <1>6, <1>7, StateIs DEF GraphicsOK, D
<1> QED  BY <1>1, <1>3, <1>5, <1>8, StateIs DEF Inv, Holds, StateOK

\* Each step keeps the invariant, and a console that opens a device ends with all
\* its devices in its mode.
Opens == \A p \in Splitters : opened'[p] \ opened[p] # {} => Synchronised(splitter'[p], device')

LEMMA NextKeeps ==
    ASSUME Inv, Next
    PROVE  Inv' /\ Opens
<1>1. DOMAIN opened = Splitters
  BY DEF Inv, Holds
<1>2. ASSUME opened' = opened PROVE Opens
  BY <1>2 DEF Opens
<1>3. PICK p \in Splitters :
        \/ \E d \in Devices : DriverBindingStart(p, d) \/ DriverBindingStop(p, d)
        \/ \E n \in 0 .. splitter[p].MaxMode - 1 : SetMode(p, n)
        \/ Reset(p)
        \/ \E colour \in Colours : SetAttribute(p, colour)
        \/ OutputString(p)
        \/ \E char \in {"backspace", "linefeed", "return", "glyph"} : OutputToNoDevice(p, char)
        \/ \E position \in Positions : SetCursorPosition(p, position)
        \/ \E n \in 0 .. Len(graphics.modes) - 1 : GraphicsSetMode(n)
  BY Zenon DEF Next
<1>4. ASSUME NEW d \in Devices, DriverBindingStart(p, d) PROVE Inv' /\ Opens
  <2>1. Inv' /\ Synchronised(splitter'[p], device')
    BY <1>4, DriverBindingStartKeeps
  <2>2. \A q \in Splitters \ {p} : opened'[q] = opened[q]
    BY <1>1, <1>4 DEF DriverBindingStart
  <2> QED  BY <2>1, <2>2 DEF Opens
<1>5. ASSUME NEW d \in Devices, DriverBindingStop(p, d) PROVE Inv' /\ Opens
  BY <1>5, DriverBindingStopKeeps DEF Opens
<1>6. ASSUME NEW n \in 0 .. splitter[p].MaxMode - 1, SetMode(p, n) PROVE Inv' /\ Opens
  BY <1>2, <1>6, SetModeKeeps DEF SetMode
<1>7. ASSUME Reset(p) PROVE Inv' /\ Opens
  BY <1>2, <1>7, ResetKeeps DEF Reset
<1>8. ASSUME NEW colour, SetAttribute(p, colour) PROVE Inv' /\ Opens
  BY <1>2, <1>8, SetAttributeKeeps DEF SetAttribute
<1>9. ASSUME OutputString(p) PROVE Inv' /\ Opens
  BY <1>2, <1>9, OutputStringKeeps DEF OutputString
<1>10. ASSUME NEW char, OutputToNoDevice(p, char) PROVE Inv' /\ Opens
  BY <1>2, <1>10, OutputToNoDeviceKeeps DEF OutputToNoDevice
<1>11. ASSUME NEW position \in Positions, SetCursorPosition(p, position) PROVE Inv' /\ Opens
  BY <1>2, <1>11, SetCursorPositionKeeps DEF SetCursorPosition
<1>12. ASSUME NEW n \in 0 .. Len(graphics.modes) - 1, GraphicsSetMode(n) PROVE Inv' /\ Opens
  BY <1>2, <1>12, GraphicsSetModeKeeps DEF GraphicsSetMode
<1> QED  BY <1>3, <1>4, <1>5, <1>6, <1>7, <1>8, <1>9, <1>10, <1>11, <1>12, Zenon

LEMMA StutterKeeps ==
    ASSUME Inv, UNCHANGED vars
    PROVE  Inv' /\ Opens
<1>1. splitter' = splitter /\ graphics' = graphics /\ device' = device /\ pcd' = pcd
      /\ opened' = opened
  BY DEF vars
<1>2. Becomes(State)
  BY <1>1, StateIs DEF Becomes
<1>3. Inv'
  BY <1>1, <1>2, Reached DEF Inv
<1> QED  BY <1>1, <1>3 DEF Opens

\* The tables, the lists and the devices fit together after every operation.
THEOREM InvCorrect == Spec => []Inv
<1>1. Init => Inv
  BY InitIs
<1>2. Inv /\ [Next]_vars => Inv'
  BY NextKeeps, StutterKeeps
<1> QED  BY <1>1, <1>2, PTL DEF Spec

-----------------------------------------------------------------------------
(* What the invariant says of the properties.                              *)

LEMMA InvTypeOK == Inv => TypeOK
<1> SUFFICES ASSUME Inv PROVE TypeOK
  OBVIOUS
<1>1. /\ (\A p \in Splitters : Console(splitter[p]) /\ InUse(splitter[p])
                               /\ Behind(splitter[p]) = opened[p])
      /\ DeviceOK(device) /\ GraphicsOK(State)
  BY StateIs DEF Inv, Holds, StateOK, TextState
<1>2. ASSUME NEW p \in Splitters
      PROVE  LET s == splitter[p]
             IN  /\ s.CurrentNumberOfConsoles \in 0 .. TextOutListCount(s)
                 /\ Behind(s) = opened[p]
                 /\ s.MaxMode \in 1 .. s.TextOutQueryDataCount
                 /\ s.Mode \in -1 .. s.MaxMode - 1
                 /\ s.CurrentNumberOfConsoles > 0 =>
                      /\ DOMAIN s.TextOutModeMap = 0 .. s.MaxMode - 1
                      /\ \A n \in 0 .. s.MaxMode - 1, k \in Columns(s) :
                           s.TextOutModeMap[n][k]
                             \in {-1} \union DOMAIN TextModes[s.TextOutList[k]]
                 /\ s.Cursor \in (0 .. BaseSize[1] - 1) \X (0 .. BaseSize[2] - 1)
  <2> DEFINE s == splitter[p]
  <2>1. Console(s) /\ InUse(s) /\ Behind(s) = opened[p]
    BY <1>1
  <2> HIDE DEF s
  <2>2. /\ s.CurrentNumberOfConsoles \in 0 .. TextOutListCount(s)
        /\ s.CurrentNumberOfConsoles \in Nat
        /\ s.MaxMode \in 1 .. s.TextOutQueryDataCount
    <3>1. /\ s.CurrentNumberOfConsoles \in 0 .. TextOutListCount(s)
          /\ s.CurrentNumberOfConsoles \in Nat
          /\ s.MaxMode \in 1 .. InitMode
          /\ s.TextOutQueryDataCount \in Nat /\ s.MaxMode <= s.TextOutQueryDataCount
      BY <2>1, ConsoleFacts
    <3> QED  BY <3>1 DEF InitMode
  <2>3. s.Mode \in -1 .. s.MaxMode - 1 /\ OnScreen(s.Cursor)
    BY <2>1 DEF InUse, Console
  <2>4. s.CurrentNumberOfConsoles > 0 => DOMAIN s.TextOutModeMap = 0 .. s.MaxMode - 1
    <3>1. s.CurrentNumberOfConsoles > 0 => s.CurrentNumberOfConsoles # 0
      BY <2>2
    <3> QED  BY <2>1, <3>1 DEF Console, Table, Base, Rows
  <2>5. \A n \in 0 .. s.MaxMode - 1, k \in Columns(s) :
          s.TextOutModeMap[n][k] \in {-1} \union DOMAIN TextModes[s.TextOutList[k]]
    BY <2>1, ModeOnAll
  <2> QED  BY <2>1, <2>2, <2>3, <2>4, <2>5 DEF s, OnScreen
<1>3. graphics.mode \in 0 .. Len(graphics.modes) - 1
  BY <1>1, StateIs DEF GraphicsOK, Shows
<1>4. \A d \in Devices : Supports(d, device[d].textMode)
  BY <1>1 DEF DeviceOK
<1> QED  BY <1>2, <1>3, <1>4, Zenon DEF TypeOK

LEMMA InvModesShared == Inv => ModesShared
<1> SUFFICES ASSUME Inv, NEW p \in Splitters,
                    NEW n \in 0 .. splitter[p].MaxMode - 1, QueryModeSucceeds(splitter[p], n),
                    NEW k \in Columns(splitter[p])
             PROVE  LET s == splitter[p]
                        d == s.TextOutList[k]
                        m == s.TextOutModeMap[n][k]
                    IN  Supports(d, m) /\ TextModes[d][m] = SizeOf(s, n)
  BY DEF ModesShared
<1> DEFINE s == splitter[p]
<1>1. Console(s) /\ SizeOf(s, n) # Unsupported
  BY StateIs DEF Inv, Holds, StateOK, TextState, QueryModeSucceeds
<1>2. n \in 0 .. s.MaxMode - 1 /\ k \in Columns(s)
  OBVIOUS
<1> HIDE DEF s
<1>3. /\ Supports(s.TextOutList[k], s.TextOutModeMap[n][k])
      /\ TextModes[s.TextOutList[k]][s.TextOutModeMap[n][k]] = SizeOf(s, n)
  BY <1>1, <1>2, ModeOnAll
<1> QED  BY <1>3 DEF s

LEMMA InvGraphicsShared == Inv => GraphicsShared
<1> SUFFICES ASSUME Inv PROVE GraphicsShared
  OBVIOUS
<1> DEFINE D == GraphicsDevices(splitter["ConOut"])
<1>1. GraphicsOK(State)
  BY DEF Inv, Holds, StateOK
<1>2. /\ Shows(graphics, device, D) /\ (graphics.installed <=> D # {})
      /\ D \in SUBSET Devices
  BY <1>1, StateIs DEF GraphicsOK, Counted
<1>3. \A d \in D : Resolution(State, d) = GraphicsModes[d][device[d].graphicsMode + 1]
  BY StateIs DEF Resolution
<1> QED  BY <1>2, <1>3 DEF GraphicsShared, Shows, Offers

(* What ConSplitterDxe does with its outputs, for any devices and any modes.   *)

\* The tables have room for what is in use, the current mode is on offer, and the
\* devices behind a console are those that the driver holds open.
THEOREM TypeCorrect == Spec => []TypeOK
<1>1. Inv => TypeOK
  BY InvTypeOK
<1> QED  BY <1>1, InvCorrect, PTL

\* ConSplitterTextOutQueryMode never offers a mode that one of the devices lacks
\* or that looks different on it.
THEOREM ModesAreShared == Spec => []ModesShared
<1>1. Inv => ModesShared
  BY InvModesShared
<1> QED  BY <1>1, InvCorrect, PTL

\* All graphics devices have the modes of the virtual graphics output and show the
\* current one, and a frame buffer is lent by the only graphics device.
THEOREM GraphicsIsShared == Spec => []GraphicsShared
<1>1. Inv => GraphicsShared
  BY InvGraphicsShared
<1> QED  BY <1>1, InvCorrect, PTL

\* A device that is added, and with it those that were there, ends in the current
\* mode of the console.
THEOREM AdditionsSynchronise == Spec => AddSynchronises
<1>1. Inv /\ [Next]_vars => Opens
  BY NextKeeps, StutterKeeps
<1>2. Opens => [\A p \in Splitters : opened'[p] \ opened[p] # {} =>
                  splitter'[p].Mode >= 0 /\ InMode(splitter'[p], device')]_vars
  BY DEF Opens, Synchronised
<1> QED  BY <1>1, <1>2, InvCorrect, PTL DEF Spec, AddSynchronises
=============================================================================
