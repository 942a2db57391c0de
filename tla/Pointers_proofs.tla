---------------------------- MODULE Pointers_proofs ----------------------------
(***************************************************************************)
(* The invariants of Pointers, for any devices of either kind, and what is *)
(* needed of sums over a finite set.                                       *)
(***************************************************************************)
EXTENDS Pointers, SequenceLemmas, FiniteSetTheorems

-----------------------------------------------------------------------------
(* Sums.  Induction is stated for a set of sets.                           *)

\* Induction on the subsets of a finite set: each from the smaller ones in it.
LEMMA SubsetInduction ==
    ASSUME NEW D, IsFiniteSet(D), NEW T,
           \A S \in SUBSET D : (\A U \in SUBSET S : U # S => U \in T) => S \in T
    PROVE  SUBSET D \subseteq T
  <1> DEFINE Out == {S \in SUBSET D : S \notin T}
             Sizes == {Cardinality(S) : S \in Out}
  <1> SUFFICES ASSUME Out # {} PROVE FALSE
    OBVIOUS
  <1>1. \A S \in SUBSET D : IsFiniteSet(S) /\ Cardinality(S) \in Nat
    BY FS_Subset, FS_CardinalityType
  <1>2. Sizes \subseteq Nat /\ Sizes # {}
    BY <1>1
  <1>3. PICK m \in Sizes : \A k \in Sizes : m <= k
    <2> HIDE DEF Sizes
    <2> QED  BY <1>2, NatMin
  <1>4. PICK S \in Out : m = Cardinality(S)
    BY <1>3
  <1>5. ASSUME NEW U \in SUBSET S, U # S PROVE U \in T
    <2>1. U \in SUBSET D /\ IsFiniteSet(S) /\ S \in SUBSET D
      BY <1>1, <1>4
    <2>2. Cardinality(U) <= Cardinality(S) /\ Cardinality(U) # Cardinality(S)
      BY <1>5, <2>1, FS_Subset
    <2>3. Cardinality(U) \in Nat /\ Cardinality(S) \in Nat
      BY <1>1, <2>1
    <2>4. U \in Out => m <= Cardinality(U)
      BY <1>3
    <2> QED  BY <1>4, <2>1, <2>2, <2>3, <2>4
  <1> QED  BY <1>4, <1>5

\* The element of a set that a sum takes first.
First(S) == CHOOSE x \in S : TRUE

\* g is the recursion that sums f over the subsets of S.
Sums(g, f, S) ==
    g = [s \in SUBSET S |-> IF s = {} THEN 0 ELSE f[First(s)] + g[s \ {First(s)}]]

LEMMA SumIsChosen ==
    ASSUME NEW f, NEW S
    PROVE  SumFunctionOnSet(f, S) = (CHOOSE g : Sums(g, f, S))[S]
  BY Zenon DEF SumFunctionOnSet, FoldFunctionOnSet, MapThenFoldSet, Sums, First

LEMMA FirstFacts ==
    ASSUME NEW S, S # {}
    PROVE  First(S) \in S
  BY DEF First

\* A recursion for a set is one for its subsets, and there is at most one.
LEMMA SumsWithin ==
    ASSUME NEW D, NEW S \in SUBSET D, NEW f, NEW g, Sums(g, f, D)
    PROVE  Sums([s \in SUBSET S |-> g[s]], f, S)
  <1>1. ASSUME NEW s \in SUBSET S
        PROVE  g[s] = IF s = {} THEN 0 ELSE f[First(s)] + g[s \ {First(s)}]
    <2>1. s \in SUBSET D
      OBVIOUS
    <2> QED  BY <2>1 DEF Sums
  <1>2. ASSUME NEW s \in SUBSET S PROVE s \ {First(s)} \in SUBSET S
    OBVIOUS
  <1> QED  BY <1>1, <1>2 DEF Sums

LEMMA SumsUnique ==
    ASSUME NEW S, IsFiniteSet(S), NEW f, NEW g, NEW h, Sums(g, f, S), Sums(h, f, S)
    PROVE  g = h
  <1> DEFINE T == {s \in SUBSET S : g[s] = h[s]}
  <1>1. ASSUME NEW s \in SUBSET S, \A u \in SUBSET s : u # s => u \in T
        PROVE  s \in T
    <2>1. /\ g[s] = IF s = {} THEN 0 ELSE f[First(s)] + g[s \ {First(s)}]
          /\ h[s] = IF s = {} THEN 0 ELSE f[First(s)] + h[s \ {First(s)}]
      BY DEF Sums
    <2>2. CASE s = {}
      BY <2>1, <2>2
    <2>3. CASE s # {}
      <3>1. s \ {First(s)} \in SUBSET s /\ s \ {First(s)} # s
        BY <2>3, FirstFacts
      <3>2. g[s \ {First(s)}] = h[s \ {First(s)}]
        BY <1>1, <3>1
      <3> QED  BY <2>1, <2>3, <3>2
    <2> QED  BY <2>2, <2>3
  <1>2. SUBSET S \subseteq T
    <2> HIDE DEF T
    <2> QED  BY <1>1, SubsetInduction
  <1>3. \A s \in SUBSET S : g[s] = h[s]
    BY <1>2
  <1>4. g = [s \in SUBSET S |-> g[s]] /\ h = [s \in SUBSET S |-> h[s]]
    BY DEF Sums
  <1> QED  BY <1>3, <1>4, Zenon

\* What the recursion for a set says of a subset is the sum over that.
LEMMA SumsAreSums ==
    ASSUME NEW D, IsFiniteSet(D), NEW f, NEW g, Sums(g, f, D), NEW S \in SUBSET D
    PROVE  SumFunctionOnSet(f, S) = g[S]
  <1> DEFINE h == [s \in SUBSET S |-> g[s]]
             c == CHOOSE k : Sums(k, f, S)
  <1>1. Sums(h, f, S)
    BY SumsWithin
  <1>2. Sums(c, f, S)
    BY <1>1, Zenon
  <1>3. IsFiniteSet(S)
    BY FS_Subset
  <1>4. h = c
    <2> HIDE DEF h, c
    <2> QED  BY <1>1, <1>2, <1>3, SumsUnique
  <1>5. h[S] = g[S]
    OBVIOUS
  <1>6. SumFunctionOnSet(f, S) = c[S]
    BY SumIsChosen, Zenon
  <1> QED  BY <1>4, <1>5, <1>6, Zenon

LEMMA SumsExist ==
    ASSUME NEW D, IsFiniteSet(D), NEW f
    PROVE  \E g : Sums(g, f, D)
  <1> DEFINE T == {S \in SUBSET D : \E g : Sums(g, f, S)}
  <1>1. ASSUME NEW S \in SUBSET D, \A U \in SUBSET S : U # S => U \in T
        PROVE  S \in T
    <2> DEFINE rest(s) == s \ {First(s)}
               g == [s \in SUBSET S |-> IF s = {} THEN 0
                                        ELSE f[First(s)] + SumFunctionOnSet(f, rest(s))]
    <2>1. ASSUME NEW s \in SUBSET S, s # {}
          PROVE  SumFunctionOnSet(f, rest(s)) = g[rest(s)]
      <3>1. rest(s) \in SUBSET S /\ rest(s) # S
        BY <2>1, FirstFacts
      <3>2. PICK h : Sums(h, f, rest(s))
        BY <1>1, <3>1
      <3>3. IsFiniteSet(rest(s))
        BY <3>1, FS_Subset
      <3>4. SumFunctionOnSet(f, rest(s)) = h[rest(s)]
        <4> HIDE DEF rest
        <4> QED  BY <3>2, <3>3, SumsAreSums
      <3>5. h[rest(s)] = IF rest(s) = {} THEN 0
                         ELSE f[First(rest(s))] + h[rest(rest(s))]
        BY <3>2 DEF Sums
      <3>6. SumFunctionOnSet(f, rest(rest(s))) = h[rest(rest(s))]
        <4>1. rest(rest(s)) \in SUBSET rest(s)
          OBVIOUS
        <4> HIDE DEF rest
        <4> QED  BY <3>2, <3>3, <4>1, SumsAreSums
      <3>7. g[rest(s)] = IF rest(s) = {} THEN 0
                         ELSE f[First(rest(s))] + SumFunctionOnSet(f, rest(rest(s)))
        BY <3>1
      <3> HIDE DEF rest, g
      <3> QED  BY <3>4, <3>5, <3>6, <3>7
    <2>2. g = [s \in SUBSET S |-> IF s = {} THEN 0 ELSE f[First(s)] + g[rest(s)]]
      <3>1. \A s \in SUBSET S :
              (IF s = {} THEN 0 ELSE f[First(s)] + SumFunctionOnSet(f, rest(s)))
              = IF s = {} THEN 0 ELSE f[First(s)] + g[rest(s)]
        <4> HIDE DEF g, rest
        <4> QED  BY <2>1, Zenon
      <3> QED  BY <3>1, Zenon
    <2>3. Sums(g, f, S)
      <3> HIDE DEF g
      <3> QED  BY <2>2, Zenon DEF Sums
    <2> QED  BY <2>3, Zenon
  <1>2. SUBSET D \subseteq T
    <2> HIDE DEF T
    <2> QED  BY <1>1, SubsetInduction
  <1> QED  BY <1>2

TakesFirst(f, S) ==
    /\ S = {} => SumFunctionOnSet(f, S) = 0
    /\ S # {} => SumFunctionOnSet(f, S) =
                    f[First(S)] + SumFunctionOnSet(f, S \ {First(S)})

\* A sum is what its first element adds to the sum over the others.
LEMMA SumFirst ==
    ASSUME NEW D, IsFiniteSet(D), NEW f, NEW S \in SUBSET D
    PROVE  TakesFirst(f, S)
  <1>1. PICK g : Sums(g, f, D)
    BY SumsExist
  <1>2. g[S] = IF S = {} THEN 0 ELSE f[First(S)] + g[S \ {First(S)}]
    BY <1>1 DEF Sums
  <1>3. SumFunctionOnSet(f, S) = g[S]
    BY <1>1, SumsAreSums
  <1>4. SumFunctionOnSet(f, S \ {First(S)}) = g[S \ {First(S)}]
    <2>1. S \ {First(S)} \in SUBSET D
      OBVIOUS
    <2> QED  BY <1>1, <2>1, SumsAreSums
  <1> QED  BY <1>2, <1>3, <1>4 DEF TakesFirst

LEMMA SumType ==
    ASSUME NEW D, IsFiniteSet(D), NEW f, \A d \in D : f[d] \in Int
    PROVE  \A S \in SUBSET D : SumFunctionOnSet(f, S) \in Int
  <1> DEFINE T == {S \in SUBSET D : SumFunctionOnSet(f, S) \in Int}
  <1>1. ASSUME NEW S \in SUBSET D, \A U \in SUBSET S : U # S => U \in T
        PROVE  S \in T
    <2>0. TakesFirst(f, S)
      BY SumFirst
    <2>1. /\ S = {} => SumFunctionOnSet(f, S) = 0
          /\ S # {} => SumFunctionOnSet(f, S) =
                            f[First(S)] + SumFunctionOnSet(f, S \ {First(S)})
      BY <2>0 DEF TakesFirst
    <2>2. CASE S = {}
      BY <2>1, <2>2
    <2>3. CASE S # {}
      <3>1. First(S) \in D /\ S \ {First(S)} \in SUBSET S /\ S \ {First(S)} # S
        BY <2>3, FirstFacts
      <3>2. f[First(S)] \in Int /\ SumFunctionOnSet(f, S \ {First(S)}) \in Int
        BY <1>1, <3>1
      <3> QED  BY <2>1, <2>3, <3>2
    <2> QED  BY <2>2, <2>3
  <1>2. SUBSET D \subseteq T
    <2> HIDE DEF T
    <2> QED  BY <1>1, SubsetInduction
  <1> QED  BY <1>2

\* Any element can be taken first.
LEMMA SumTake ==
    ASSUME NEW D, IsFiniteSet(D), NEW f, \A d \in D : f[d] \in Int
    PROVE  \A S \in SUBSET D : \A e \in S :
               SumFunctionOnSet(f, S) = f[e] + SumFunctionOnSet(f, S \ {e})
  <1> DEFINE T == {S \in SUBSET D : \A e \in S :
                     SumFunctionOnSet(f, S) = f[e] + SumFunctionOnSet(f, S \ {e})}
  <1>1. ASSUME NEW S \in SUBSET D, \A U \in SUBSET S : U # S => U \in T, NEW e \in S
        PROVE  SumFunctionOnSet(f, S) = f[e] + SumFunctionOnSet(f, S \ {e})
    <2> DEFINE c == First(S)
               both == (S \ {c}) \ {e}
    <2>1. c \in S /\ c \in D /\ e \in D
      BY FirstFacts
    <2>2. SumFunctionOnSet(f, S) = f[c] + SumFunctionOnSet(f, S \ {c})
      <3>1. TakesFirst(f, S)
        BY SumFirst
      <3> QED  BY <3>1 DEF TakesFirst
    <2> HIDE DEF c
    <2>3. CASE e # c
      <3>1. S \ {c} \in T /\ S \ {e} \in T
        <4>1. S \ {c} \in SUBSET S /\ S \ {c} # S /\ S \ {e} \in SUBSET S /\ S \ {e} # S
          BY <2>1
        <4> HIDE DEF T
        <4> QED  BY <1>1, <4>1
      <3>2. e \in S \ {c} /\ c \in S \ {e} /\ (S \ {e}) \ {c} = both
        BY <2>1, <2>3
      <3>3. SumFunctionOnSet(f, S \ {c}) = f[e] + SumFunctionOnSet(f, both)
        BY <3>1, <3>2
      <3>4. SumFunctionOnSet(f, S \ {e}) = f[c] + SumFunctionOnSet(f, both)
        BY <3>1, <3>2, Zenon
      <3>5. SumFunctionOnSet(f, both) \in Int /\ f[c] \in Int /\ f[e] \in Int
        <4>1. both \in SUBSET D
          OBVIOUS
        <4> HIDE DEF both
        <4> QED  BY <2>1, <4>1, SumType
      <3> HIDE DEF both
      <3> QED  BY <2>2, <3>3, <3>4, <3>5
    <2> QED  BY <2>2, <2>3
  <1>2. ASSUME NEW S \in SUBSET D, \A U \in SUBSET S : U # S => U \in T
        PROVE  S \in T
    <2>1. \A e \in S : SumFunctionOnSet(f, S) = f[e] + SumFunctionOnSet(f, S \ {e})
      <3> HIDE DEF T
      <3> QED  BY <1>1, <1>2
    <2> QED  BY <2>1
  <1>3. SUBSET D \subseteq T
    <2> HIDE DEF T
    <2> QED  BY <1>2, SubsetInduction
  <1> QED  BY <1>3

\* A sum looks at no other values than those of its set.
LEMMA SumAgree ==
    ASSUME NEW D, IsFiniteSet(D), NEW f, NEW g
    PROVE  \A S \in SUBSET D : (\A d \in S : f[d] = g[d]) =>
               SumFunctionOnSet(f, S) = SumFunctionOnSet(g, S)
  <1> DEFINE T == {S \in SUBSET D : (\A d \in S : f[d] = g[d]) =>
                     SumFunctionOnSet(f, S) = SumFunctionOnSet(g, S)}
  <1>1. ASSUME NEW S \in SUBSET D, \A U \in SUBSET S : U # S => U \in T,
               \A d \in S : f[d] = g[d]
        PROVE  SumFunctionOnSet(f, S) = SumFunctionOnSet(g, S)
    <2>0. TakesFirst(f, S) /\ TakesFirst(g, S)
      BY SumFirst
    <2>1. /\ S = {} => SumFunctionOnSet(f, S) = 0
          /\ S # {} => SumFunctionOnSet(f, S) =
                            f[First(S)] + SumFunctionOnSet(f, S \ {First(S)})
          /\ S = {} => SumFunctionOnSet(g, S) = 0
          /\ S # {} => SumFunctionOnSet(g, S) =
                            g[First(S)] + SumFunctionOnSet(g, S \ {First(S)})
      BY <2>0 DEF TakesFirst
    <2>2. CASE S = {}
      BY <2>1, <2>2
    <2>3. CASE S # {}
      <3>1. First(S) \in S /\ S \ {First(S)} \in SUBSET S /\ S \ {First(S)} # S
        BY <2>3, FirstFacts
      <3>2. SumFunctionOnSet(f, S \ {First(S)}) = SumFunctionOnSet(g, S \ {First(S)})
        <4>1. \A d \in S \ {First(S)} : f[d] = g[d]
          BY <1>1
        <4> QED  BY <1>1, <3>1, <4>1
      <3>3. f[First(S)] = g[First(S)]
        BY <1>1, <3>1
      <3> QED  BY <2>1, <2>3, <3>2, <3>3
    <2> QED  BY <2>2, <2>3
  <1>2. ASSUME NEW S \in SUBSET D, \A U \in SUBSET S : U # S => U \in T
        PROVE  S \in T
    <2>1. (\A d \in S : f[d] = g[d]) => SumFunctionOnSet(f, S) = SumFunctionOnSet(g, S)
      <3> HIDE DEF T
      <3> QED  BY <1>1, <1>2
    <2> QED  BY <2>1
  <1>3. SUBSET D \subseteq T
    <2> HIDE DEF T
    <2> QED  BY <1>2, SubsetInduction
  <1> QED  BY <1>3

\* When one value changes, the sum changes by as much.
LEMMA SumChange ==
    ASSUME NEW D, IsFiniteSet(D), NEW f, \A d \in D : f[d] \in Int,
           NEW g, \A d \in D : g[d] \in Int, NEW S \in SUBSET D, NEW e \in S,
           \A d \in S : d # e => f[d] = g[d]
    PROVE  SumFunctionOnSet(g, S) = SumFunctionOnSet(f, S) + g[e] - f[e]
  <1>1. SumFunctionOnSet(f, S) = f[e] + SumFunctionOnSet(f, S \ {e})
    BY SumTake
  <1>2. SumFunctionOnSet(g, S) = g[e] + SumFunctionOnSet(g, S \ {e})
    BY SumTake
  <1>3. SumFunctionOnSet(f, S \ {e}) = SumFunctionOnSet(g, S \ {e})
    <2>1. S \ {e} \in SUBSET D /\ \A d \in S \ {e} : f[d] = g[d]
      OBVIOUS
    <2> QED  BY <2>1, SumAgree
  <1>4. SumFunctionOnSet(f, S \ {e}) \in Int /\ f[e] \in Int /\ g[e] \in Int
    <2>1. S \ {e} \in SUBSET D /\ e \in D
      OBVIOUS
    <2> QED  BY <2>1, SumType
  <1> QED  BY <1>1, <1>2, <1>3, <1>4

\* When values become 0, the sum loses theirs.
LEMMA SumZeroed ==
    ASSUME NEW D, IsFiniteSet(D), NEW f, \A d \in D : f[d] \in Int,
           NEW g, NEW S \in SUBSET D, NEW A \in SUBSET S,
           \A d \in S : g[d] = IF d \in A THEN 0 ELSE f[d]
    PROVE  SumFunctionOnSet(g, S) = SumFunctionOnSet(f, S) - SumFunctionOnSet(f, A)
  <1> DEFINE z(B) == [d \in D |-> IF d \in B THEN 0 ELSE f[d]]
             Lost(B) == SumFunctionOnSet(z(B), S)
                            = SumFunctionOnSet(f, S) - SumFunctionOnSet(f, B)
             T == {B \in SUBSET S : Lost(B)}
  <1>1. IsFiniteSet(S)
    BY FS_Subset
  <1>2. SumFunctionOnSet(f, S) \in Int
    BY SumType
  <1>3. ASSUME NEW B \in SUBSET S, \A U \in SUBSET B : U # B => U \in T
        PROVE  Lost(B)
    <2>1. /\ B = {} => SumFunctionOnSet(f, B) = 0
          /\ B # {} => SumFunctionOnSet(f, B) =
                            f[First(B)] + SumFunctionOnSet(f, B \ {First(B)})
      <3>1. B \in SUBSET D
        OBVIOUS
      <3>2. TakesFirst(f, B)
        BY <3>1, SumFirst
      <3> QED  BY <3>2 DEF TakesFirst
    <2>2. CASE B = {}
      <3>1. SumFunctionOnSet(z(B), S) = SumFunctionOnSet(f, S)
        <4>1. \A d \in S : z(B)[d] = f[d]
          BY <2>2
        <4> HIDE DEF z
        <4> QED  BY <4>1, SumAgree
      <3> HIDE DEF z
      <3> QED  BY <1>2, <2>1, <2>2, <3>1
    <2>3. CASE B # {}
      <3> DEFINE c == First(B)
                 C == B \ {c}
      <3>1. c \in B /\ c \in S /\ c \in D
        BY <2>3, FirstFacts
      <3>2. C \in T
        <4>1. C \in SUBSET B /\ C # B
          BY <3>1
        <4> HIDE DEF C, T
        <4> QED  BY <1>3, <4>1
      <3>3. Lost(C)
        <4> HIDE DEF Lost, C
        <4> QED  BY <3>2
      <3>4. SumFunctionOnSet(z(B), S) = SumFunctionOnSet(z(C), S) + z(B)[c] - z(C)[c]
        <4>1. \A d \in D : z(C)[d] \in Int /\ z(B)[d] \in Int
          OBVIOUS
        <4>2. \A d \in S : d # c => z(C)[d] = z(B)[d]
          <5> HIDE DEF c
          <5> QED  OBVIOUS
        <4> HIDE DEF z, c, C
        <4> QED  BY <3>1, <4>1, <4>2, SumChange
      <3>5. z(B)[c] = 0 /\ z(C)[c] = f[c] /\ f[c] \in Int
        <4> HIDE DEF c
        <4> QED  BY <3>1
      <3>6. SumFunctionOnSet(f, B) = f[c] + SumFunctionOnSet(f, C)
        BY <2>1, <2>3
      <3>7. SumFunctionOnSet(f, C) \in Int
        <4>1. C \in SUBSET D
          OBVIOUS
        <4> HIDE DEF C
        <4> QED  BY <4>1, SumType
      <3> HIDE DEF z, c, C
      <3> QED  BY <1>2, <3>3, <3>4, <3>5, <3>6, <3>7
    <2> QED  BY <2>2, <2>3
  <1>4. SUBSET S \subseteq T
    <2>1. ASSUME NEW B \in SUBSET S, \A U \in SUBSET B : U # B => U \in T
          PROVE  B \in T
      <3>1. Lost(B)
        <4> HIDE DEF T, Lost
        <4> QED  BY <1>3, <2>1
      <3> HIDE DEF Lost
      <3> QED  BY <3>1
    <2> HIDE DEF T
    <2> QED  BY <1>1, <2>1, SubsetInduction
  <1>5. Lost(A)
    <2> HIDE DEF Lost
    <2> QED  BY <1>4
  <1>6. SumFunctionOnSet(g, S) = SumFunctionOnSet(z(A), S)
    <2>1. \A d \in S : g[d] = z(A)[d]
      OBVIOUS
    <2> HIDE DEF z
    <2> QED  BY <2>1, SumAgree
  <1> HIDE DEF z
  <1> QED  BY <1>5, <1>6

-----------------------------------------------------------------------------
(* The invariant.                                                          *)

KindOf(kind) == {d \in Devices : PointerOf[d] = kind}

SplitterTypes ==
    /\ splitter \in [Kinds -> [list : Seq(Devices), capacity : Nat, signalled : BOOLEAN,
                               opened : SUBSET Devices]]
    /\ \A kind \in Kinds : splitter[kind].opened \subseteq KindOf(kind)

DeviceTypes ==
    device \in [Devices -> [input : Int, changed : BOOLEAN, failing : BOOLEAN]]

JournalTypes ==
    /\ journal = [unread |-> journal.unread, removed |-> journal.removed,
                  position |-> journal.position]
    /\ journal.removed \subseteq Kinds

\* What the properties rest on: the devices of the two lists are of the two kinds.
PointersInv ==
    /\ SplitterTypes /\ DeviceTypes /\ JournalTypes
    /\ ListedAreOpen /\ SignalHasInput /\ MovementAddsUp

-----------------------------------------------------------------------------
(* Movement.                                                               *)

\* Movement in the splitter's units is a number, and none is none.
LEMMA ScaledFacts ==
    ASSUME PointersAssumption, NEW d \in Devices, NEW move \in Int
    PROVE  Scaled(move, d) \in Int /\ Scaled(0, d) = 0
  <1>1. Resolution[d] \in Nat /\ VirtualResolution \in Nat
    BY DEF PointersAssumption
  <1>2. CASE Resolution[d] = 0
    BY <1>2 DEF Scaled
  <1>3. CASE Resolution[d] # 0
    <2> DEFINE far == (IF move < 0 THEN -move ELSE move) * VirtualResolution
    <2>1. far \in Int
      BY <1>1
    <2>2. far \div Resolution[d] \in Int
      <3> HIDE DEF far
      <3> QED  BY <1>1, <1>3, <2>1
    <2>3. Scaled(move, d) = IF move < 0 THEN -(far \div Resolution[d])
                            ELSE far \div Resolution[d]
      BY <1>3 DEF Scaled
    <2>4. Scaled(0, d) = 0
      <3>1. 0 * VirtualResolution = 0 /\ 0 \div Resolution[d] = 0
        BY <1>1, <1>3
      <3> QED  BY <1>3, <3>1 DEF Scaled
    <2> HIDE DEF far
    <2> QED  BY <2>2, <2>3, <2>4
  <1> QED  BY <1>2, <1>3

LEMMA MovementsTypes ==
    ASSUME PointersAssumption, DeviceTypes
    PROVE  \A d \in Devices : Movements[d] \in Int
  <1> SUFFICES ASSUME NEW d \in Devices PROVE Movements[d] \in Int
    OBVIOUS
  <1>1. device[d].input \in Int
    BY DEF DeviceTypes
  <1>2. Scaled(device[d].input, d) \in Int
    BY <1>1, ScaledFacts
  <1> QED  BY <1>2 DEF Movements

LEMMA WaitingTypes ==
    ASSUME PointersAssumption, DeviceTypes, NEW ds \in SUBSET Devices
    PROVE  Waiting(ds) \in Int
  <1>1. IsFiniteSet(Devices)
    BY DEF PointersAssumption
  <1> QED  BY <1>1, MovementsTypes, SumType DEF Waiting

\* Emptied leaves the devices outside of ds alone.
LEMMA EmptiedFacts ==
    ASSUME DeviceTypes, NEW ds \in SUBSET Devices, device' = Emptied(ds)
    PROVE  /\ DeviceTypes'
           /\ \A d \in Devices \ ds : device'[d] = device[d]
           /\ \A d \in ds : device'[d].input = 0
  <1>1. ASSUME NEW d \in Devices
        PROVE  /\ device'[d] \in [input : Int, changed : BOOLEAN, failing : BOOLEAN]
               /\ d \notin ds => device'[d] = device[d]
               /\ d \in ds => device'[d].input = 0
    <2>1. device'[d] = IF d \notin ds THEN device[d]
                       ELSE [device[d] EXCEPT !.input = 0, !.changed = FALSE]
      BY DEF Emptied
    <2>2. device[d] \in [input : Int, changed : BOOLEAN, failing : BOOLEAN]
      BY DEF DeviceTypes
    <2>3. CASE d \in ds
      <3>1. device'[d] = [input |-> 0, changed |-> FALSE, failing |-> device[d].failing]
        BY <2>1, <2>2, <2>3, Zenon
      <3>2. device[d].failing \in BOOLEAN
        BY <2>2
      <3> QED  BY <2>3, <3>1, <3>2
    <2>4. CASE d \notin ds
      BY <2>1, <2>2, <2>4
    <2> QED  BY <2>3, <2>4
  <1>2. device' = [d \in Devices |-> device'[d]]
    BY DEF Emptied
  <1> QED  BY <1>1, <1>2 DEF DeviceTypes

\* So movement waits that waited, but for theirs.
LEMMA EmptiedWaiting ==
    ASSUME PointersAssumption, DeviceTypes, NEW ds \in SUBSET Devices,
           device' = Emptied(ds), NEW S \in SUBSET Devices
    PROVE  /\ ds \subseteq S => Waiting(S)' = Waiting(S) - Waiting(ds)
           /\ ds \cap S = {} => Waiting(S)' = Waiting(S)
  <1> DEFINE f == Movements
             g == [d \in Devices |-> Scaled(device'[d].input, d)]
  <1>1. IsFiniteSet(Devices) /\ \A d \in Devices : f[d] \in Int
    BY MovementsTypes DEF PointersAssumption
  <1>2. \A d \in Devices : g[d] = IF d \in ds THEN 0 ELSE f[d]
    <2> SUFFICES ASSUME NEW d \in Devices PROVE g[d] = IF d \in ds THEN 0 ELSE f[d]
      OBVIOUS
    <2>1. CASE d \in ds
      <3>1. device'[d].input = 0
        BY <2>1, EmptiedFacts
      <3>2. Scaled(0, d) = 0
        BY ScaledFacts
      <3> QED  BY <2>1, <3>1, <3>2
    <2>2. CASE d \notin ds
      <3>1. device'[d] = device[d]
        BY <2>2, EmptiedFacts
      <3> QED  BY <2>2, <3>1 DEF Movements
    <2> QED  BY <2>1, <2>2
  <1>3. \A T : Waiting(T) = SumFunctionOnSet(f, T) /\ Waiting(T)' = SumFunctionOnSet(g, T)
    BY DEF Waiting, Movements
  <1> HIDE DEF f, g
  <1>4. ASSUME ds \subseteq S
        PROVE  SumFunctionOnSet(g, S) = SumFunctionOnSet(f, S) - SumFunctionOnSet(f, ds)
    <2>1. \A d \in S : g[d] = IF d \in ds THEN 0 ELSE f[d]
      BY <1>2
    <2> QED  BY <1>1, <1>4, <2>1, SumZeroed
  <1>5. ASSUME ds \cap S = {}
        PROVE  SumFunctionOnSet(g, S) = SumFunctionOnSet(f, S)
    <2>1. \A d \in S : g[d] = f[d]
      BY <1>2, <1>5
    <2> QED  BY <1>1, <2>1, SumAgree
  <1> QED  BY <1>3, <1>4, <1>5

-----------------------------------------------------------------------------
(* Lists.                                                                  *)

Splitters == [list : Seq(Devices), capacity : Nat, signalled : BOOLEAN,
              opened : SUBSET Devices]

\* The list of a kind is in order.
ListOK(kind, s) ==
    /\ s \in Splitters /\ s.opened \subseteq KindOf(kind)
    /\ ToSet(s.list) \subseteq s.opened /\ IsInjective(s.list) /\ Len(s.list) <= s.capacity

LEMMA ListsOK ==
    ASSUME SplitterTypes, ListedAreOpen, NEW kind \in Kinds
    PROVE  ListOK(kind, splitter[kind])
  BY DEF SplitterTypes, ListedAreOpen, ListOK, Splitters

\* One kind changes, and the other does not.
LEMMA ListChanges ==
    ASSUME SplitterTypes, ListedAreOpen, NEW kind \in Kinds, NEW s, ListOK(kind, s),
           splitter' = [splitter EXCEPT ![kind] = s]
    PROVE  /\ SplitterTypes' /\ ListedAreOpen' /\ splitter'[kind] = s
           /\ \A k \in Kinds \ {kind} : splitter'[k] = splitter[k]
  <1>1. splitter \in [Kinds -> Splitters]
    BY DEF SplitterTypes, Splitters
  <1>2. /\ splitter'[kind] = s
        /\ \A k \in Kinds \ {kind} : splitter'[k] = splitter[k]
    BY <1>1
  <1>3. \A k \in Kinds : ListOK(k, splitter'[k])
    BY <1>2, ListsOK
  <1>4. splitter' \in [Kinds -> Splitters]
    BY <1>1 DEF ListOK
  <1>5. SplitterTypes'
    BY <1>3, <1>4 DEF SplitterTypes, Splitters, ListOK
  <1>6. ListedAreOpen'
    BY <1>3 DEF ListedAreOpen, ListOK
  <1> QED  BY <1>2, <1>5, <1>6

LEMMA ListedFacts ==
    ASSUME SplitterTypes, ListedAreOpen, NEW kind \in Kinds
    PROVE  Listed(kind) \subseteq KindOf(kind) /\ Listed(kind) \subseteq Devices
  BY ListsOK DEF ListOK, Listed, KindOf

\* The functions for sequences and for functions agree on what is once each.
LEMMA OnceEach ==
    ASSUME NEW list \in Seq(Devices)
    PROVE  IsInjective(list) <=> Distinct(list)
  <1>1. DOMAIN list = 1 .. Len(list)
    OBVIOUS
  <1> QED  BY <1>1 DEF IsInjective, Distinct

\* A reset and a read take the flag of a list, and nothing else of it.
LEMMA FlagCleared ==
    ASSUME SplitterTypes, ListedAreOpen, NEW kind \in Kinds, NEW flag \in BOOLEAN,
           splitter' = [splitter EXCEPT ![kind].signalled = flag]
    PROVE  /\ SplitterTypes' /\ ListedAreOpen'
           /\ splitter'[kind].signalled = flag
           /\ \A k \in Kinds : splitter'[k].list = splitter[k].list
           /\ \A k \in Kinds \ {kind} : splitter'[k] = splitter[k]
  <1> DEFINE s == splitter[kind]
             r == [list |-> s.list, capacity |-> s.capacity, signalled |-> flag,
                   opened |-> s.opened]
  <1>1. ListOK(kind, s)
    BY ListsOK
  <1>2. s = [list |-> s.list, capacity |-> s.capacity, signalled |-> s.signalled,
             opened |-> s.opened]
    BY <1>1 DEF ListOK, Splitters
  <1>3. [s EXCEPT !.signalled = flag] = r
    <2> HIDE DEF s
    <2> QED  BY <1>2
  <1>4. splitter' = [splitter EXCEPT ![kind] = r]
    BY <1>3, Zenon
  <1>5. ListOK(kind, r)
    <2>1. /\ s.list \in Seq(Devices) /\ s.capacity \in Nat /\ s.opened \in SUBSET Devices
          /\ s.opened \subseteq KindOf(kind) /\ ToSet(s.list) \subseteq s.opened
          /\ IsInjective(s.list) /\ Len(s.list) <= s.capacity
      BY <1>1 DEF ListOK, Splitters
    <2>2. /\ r.list = s.list /\ r.capacity = s.capacity /\ r.opened = s.opened
          /\ r.signalled = flag
      OBVIOUS
    <2>3. r \in Splitters
      BY <2>1 DEF Splitters
    <2> HIDE DEF s, r
    <2> QED  BY <2>1, <2>2, <2>3 DEF ListOK
  <1> HIDE DEF r
  <1>6. /\ SplitterTypes' /\ ListedAreOpen' /\ splitter'[kind] = r
        /\ \A k \in Kinds \ {kind} : splitter'[k] = splitter[k]
    BY <1>4, <1>5, ListChanges
  <1>7. r.list = s.list /\ r.signalled = flag
    BY DEF r
  <1> QED  BY <1>6, <1>7

-----------------------------------------------------------------------------
(* Each step.                                                              *)

\* Movement does not depend on the lists.
LEMMA SameMovements ==
    ASSUME device' = device
    PROVE  \A ds : Waiting(ds)' = Waiting(ds)
  BY DEF Waiting, Movements, Scaled

\* The record of a kind, with its list and what it opened replaced.
SplitterOf(list, capacity, signalled, opened) ==
    [list |-> list, capacity |-> capacity, signalled |-> signalled, opened |-> opened]
Put(s, opened, list) == [s EXCEPT !.opened = opened, !.list = list]
Plus(s, d) == [s EXCEPT !.opened = @ \union {d}, !.list = Append(@, d)]

LEMMA PutFacts ==
    ASSUME NEW l, NEW c, NEW b, NEW o, NEW s, s = SplitterOf(l, c, b, o), NEW p, NEW q
    PROVE  Put(s, p, q) = SplitterOf(q, c, b, p)
  <1> DEFINE t == [s EXCEPT !.opened = p]
  <1>1. t = SplitterOf(l, c, b, p)
    BY DEF SplitterOf
  <1>2. Put(s, p, q) = [t EXCEPT !.list = q]
    BY DEF Put
  <1> HIDE DEF t
  <1>3. [t EXCEPT !.list = q] = SplitterOf(q, c, b, p)
    BY <1>1 DEF SplitterOf
  <1> QED  BY <1>2, <1>3

LEMMA PlusFacts ==
    ASSUME NEW l, NEW c, NEW b, NEW o, NEW s, s = SplitterOf(l, c, b, o), NEW d
    PROVE  Plus(s, d) = SplitterOf(Append(l, d), c, b, o \union {d})
  <1>1. s.list = l /\ s.opened = o
    BY DEF SplitterOf
  <1>2. Put(s, o \union {d}, Append(l, d)) = SplitterOf(Append(l, d), c, b, o \union {d})
    BY PutFacts
  <1>3. Plus(s, d) = Put(s, s.opened \union {d}, Append(s.list, d))
    BY Zenon DEF Put, Plus
  <1> QED  BY <1>1, <1>2, <1>3, Zenon

LEMMA StartInv ==
    ASSUME PointersAssumption, PointersInv, NEW d \in Devices, NEW memory \in BOOLEAN,
           DriverBindingStart(d, memory)
    PROVE  PointersInv'
  <1> DEFINE kind == PointerOf[d]
             s == splitter[kind]
             Added(list, capacity) ==
                 SplitterOf(list, capacity, s.signalled, s.opened \union {d})
  <1>1. /\ kind \in Kinds /\ AllocUnit \in Nat \ {0} /\ d \in KindOf(kind)
        /\ SplitterTypes /\ ListedAreOpen /\ SignalHasInput
    BY DEF PointersAssumption, PointersInv, KindOf
  <1>2. ListOK(kind, s)
    BY <1>1, ListsOK
  <1>3. /\ s.list \in Seq(Devices) /\ s.capacity \in Nat /\ s.signalled \in BOOLEAN
        /\ s.opened \in SUBSET Devices /\ s.opened \subseteq KindOf(kind)
        /\ ToSet(s.list) \subseteq s.opened /\ Distinct(s.list)
        /\ Len(s.list) <= s.capacity /\ Len(s.list) \in Nat
        /\ s = SplitterOf(s.list, s.capacity, s.signalled, s.opened)
    BY <1>2, OnceEach DEF ListOK, Splitters, SplitterOf
  <1>4. d \notin s.opened /\ UNCHANGED <<device, journal>>
    BY DEF DriverBindingStart
  <1>5. /\ Append(s.list, d) \in Seq(Devices) /\ Distinct(Append(s.list, d))
        /\ Len(Append(s.list, d)) = Len(s.list) + 1
        /\ ToSet(Append(s.list, d)) = ToSet(s.list) \union {d}
    <2>1. d \notin ToSet(s.list)
      BY <1>3, <1>4
    <2>2. s.list \in Seq(Devices) /\ Distinct(s.list)
      BY <1>3
    <2> HIDE DEF s
    <2> QED  BY <2>1, <2>2, DistinctAppend, ToSetFacts
  <1>6. ASSUME NEW list \in {s.list, Append(s.list, d)}, NEW capacity \in Nat,
               Len(list) <= capacity
        PROVE  ListOK(kind, Added(list, capacity))
    <2> DEFINE r == Added(list, capacity)
    <2>1. /\ r.list = list /\ r.capacity = capacity /\ r.signalled = s.signalled
          /\ r.opened = s.opened \union {d}
      BY DEF SplitterOf
    <2>2. list \in Seq(Devices) /\ Distinct(list) /\ ToSet(list) \subseteq s.opened \union {d}
      BY <1>3, <1>5, <1>6
    <2>3. IsInjective(list)
      BY <2>2, OnceEach
    <2>4. r \in Splitters
      BY <1>3, <2>2 DEF Splitters, SplitterOf
    <2>5. s.opened \union {d} \subseteq KindOf(kind)
      BY <1>1, <1>3
    <2>6. /\ r.opened \subseteq KindOf(kind) /\ ToSet(r.list) \subseteq r.opened
          /\ IsInjective(r.list) /\ Len(r.list) <= r.capacity
      <3> HIDE DEF s, r, kind
      <3> QED  BY <1>6, <2>1, <2>2, <2>3, <2>5
    <2>7. ListOK(kind, r)
      <3> HIDE DEF s, r, kind
      <3> QED  BY <2>4, <2>6, Zenon DEF ListOK
    <2> QED  BY <2>7
  <1>7. \E list \in {s.list, Append(s.list, d)}, capacity \in Nat :
            Len(list) <= capacity /\ splitter' = [splitter EXCEPT ![kind] = Added(list, capacity)]
    <2>1. CASE Len(s.list) >= s.capacity /\ ~memory
      <3>1. splitter' = [splitter EXCEPT ![kind] = [s EXCEPT !.opened = @ \union {d}]]
        BY <2>1, Zenon DEF DriverBindingStart, AddDevice
      <3>2. [s EXCEPT !.opened = @ \union {d}] = Added(s.list, s.capacity)
        <4>1. s = SplitterOf(s.list, s.capacity, s.signalled, s.opened)
          BY <1>3
        <4> HIDE DEF s
        <4> QED  BY <4>1 DEF SplitterOf
      <3> QED  BY <1>3, <3>1, <3>2
    <2>2. CASE Len(s.list) >= s.capacity /\ memory
      <3>1. splitter' = [splitter EXCEPT ![kind] = Plus([s EXCEPT !.capacity = @ + AllocUnit], d)]
        BY <2>2, Zenon DEF DriverBindingStart, AddDevice, Plus
      <3>2. Plus([s EXCEPT !.capacity = @ + AllocUnit], d)
            = Added(Append(s.list, d), s.capacity + AllocUnit)
        <4> DEFINE t == [s EXCEPT !.capacity = @ + AllocUnit]
        <4>1. t = SplitterOf(s.list, s.capacity + AllocUnit, s.signalled, s.opened)
          <5> HIDE DEF s
          <5> QED  BY <1>3 DEF SplitterOf
        <4> HIDE DEF t, s
        <4>2. Plus(t, d) = SplitterOf(Append(s.list, d), s.capacity + AllocUnit, s.signalled,
                                      s.opened \union {d})
          BY <4>1, PlusFacts
        <4> QED  BY <4>2 DEF t
      <3>3. s.capacity + AllocUnit \in Nat /\ Len(Append(s.list, d)) <= s.capacity + AllocUnit
        BY <1>1, <1>3, <1>5
      <3> QED  BY <3>1, <3>2, <3>3
    <2>3. CASE ~(Len(s.list) >= s.capacity)
      <3>1. splitter' = [splitter EXCEPT ![kind] = Plus(s, d)]
        BY <2>3, Zenon DEF DriverBindingStart, AddDevice, Plus
      <3>2. Plus(s, d) = Added(Append(s.list, d), s.capacity)
        <4> HIDE DEF s
        <4> QED  BY <1>3, PlusFacts
      <3>3. Len(Append(s.list, d)) <= s.capacity
        BY <1>3, <1>5, <2>3
      <3> QED  BY <1>3, <3>1, <3>2, <3>3
    <2> QED  BY <2>1, <2>2, <2>3
  <1>8. PICK list \in {s.list, Append(s.list, d)}, capacity \in Nat :
            Len(list) <= capacity /\ splitter' = [splitter EXCEPT ![kind] = Added(list, capacity)]
    BY <1>7
  <1>9. ListOK(kind, Added(list, capacity))
    BY <1>6, <1>8
  <1>10. Added(list, capacity).list = list /\ Added(list, capacity).signalled = s.signalled
    BY DEF SplitterOf
  <1>11. ToSet(s.list) \subseteq ToSet(list)
    BY <1>5
  <1> HIDE DEF Added
  <1>12. /\ SplitterTypes' /\ ListedAreOpen' /\ splitter'[kind] = Added(list, capacity)
         /\ \A k \in Kinds \ {kind} : splitter'[k] = splitter[k]
    BY <1>1, <1>8, <1>9, ListChanges
  <1>13. \A k \in Kinds : splitter'[k].signalled = splitter[k].signalled
                          /\ Listed(k) \subseteq Listed(k)'
    BY <1>10, <1>11, <1>12 DEF Listed
  <1>14. SignalHasInput'
    BY <1>1, <1>4, <1>13 DEF SignalHasInput, HasInput
  <1>15. MovementAddsUp'
    BY <1>4, SameMovements DEF PointersInv, MovementAddsUp
  <1> QED  BY <1>4, <1>12, <1>14, <1>15 DEF PointersInv, DeviceTypes, JournalTypes

LEMMA StopInv ==
    ASSUME PointersAssumption, PointersInv, NEW d \in Devices, DriverBindingStop(d)
    PROVE  PointersInv'
  <1> DEFINE kind == PointerOf[d]
             s == splitter[kind]
             list == DeleteDevice(s.list, d)
             r == SplitterOf(list, s.capacity, s.signalled, s.opened \ {d})
  <1>1. kind \in Kinds /\ SplitterTypes /\ ListedAreOpen /\ SignalHasInput /\ JournalTypes
    BY DEF PointersAssumption, PointersInv
  <1>2. ListOK(kind, s)
    BY <1>1, ListsOK
  <1>3. /\ s.list \in Seq(Devices) /\ s.capacity \in Nat /\ s.signalled \in BOOLEAN
        /\ s.opened \in SUBSET Devices /\ s.opened \subseteq KindOf(kind)
        /\ ToSet(s.list) \subseteq s.opened /\ Distinct(s.list)
        /\ Len(s.list) <= s.capacity /\ Len(s.list) \in Nat
        /\ s = SplitterOf(s.list, s.capacity, s.signalled, s.opened)
    BY <1>2, OnceEach DEF ListOK, Splitters, SplitterOf
  <1>4. /\ list \in Seq(Devices) /\ Distinct(list) /\ Len(list) <= Len(s.list)
        /\ Len(list) \in Nat /\ ToSet(list) = ToSet(s.list) \ {d}
    <2>1. s.list \in Seq(Devices) /\ Distinct(s.list) /\ Len(s.list) \in Nat
      BY <1>3
    <2>2. CASE d \in ToSet(s.list)
      <3>1. /\ list \in Seq(Devices) /\ Distinct(list) /\ Len(list) = Len(s.list) - 1
            /\ ToSet(list) = ToSet(s.list) \ {d}
        <4> HIDE DEF s
        <4> QED  BY <2>1, <2>2, RemoveFirstFacts DEF DeleteDevice
      <3> QED  BY <2>1, <3>1
    <2>3. CASE d \notin ToSet(s.list)
      <3>1. ~ \E i \in 1 .. Len(s.list) : s.list[i] = d
        <4> HIDE DEF s
        <4> QED  BY <2>1, <2>3, ToSetFacts
      <3>2. list = s.list
        BY <3>1, Zenon DEF DeleteDevice, RemoveFirst
      <3> QED  BY <2>1, <2>3, <3>2
    <2> QED  BY <2>2, <2>3
  <1>5. splitter' = [splitter EXCEPT ![kind] = r]
    <2>1. splitter \in [Kinds -> Splitters]
      BY <1>1 DEF SplitterTypes, Splitters
    <2>2. splitter' = [splitter EXCEPT ![kind] = Put(s, s.opened \ {d}, list)]
      BY <1>1, <2>1 DEF DriverBindingStop, Put
    <2>3. Put(s, s.opened \ {d}, list) = r
      <3> HIDE DEF s, list
      <3> QED  BY <1>3, PutFacts
    <2> QED  BY <2>2, <2>3, Zenon
  <1>6. ListOK(kind, r)
    <2>1. /\ r.list = list /\ r.capacity = s.capacity /\ r.opened = s.opened \ {d}
      BY DEF SplitterOf
    <2>2. IsInjective(list)
      BY <1>4, OnceEach
    <2>3. r \in Splitters
      BY <1>3, <1>4 DEF Splitters, SplitterOf
    <2>4. s.opened \ {d} \subseteq KindOf(kind) /\ ToSet(list) \subseteq s.opened \ {d}
          /\ Len(list) <= s.capacity
      BY <1>3, <1>4
    <2> HIDE DEF s, r, list
    <2> QED  BY <2>1, <2>2, <2>3, <2>4 DEF ListOK
  <1> HIDE DEF r
  <1>7. /\ SplitterTypes' /\ ListedAreOpen'
        /\ \A k \in Kinds \ {kind} : splitter'[k] = splitter[k]
    BY <1>1, <1>5, <1>6, ListChanges
  <1>8. device' = device /\ journal' = [journal EXCEPT !.removed = @ \union {kind}]
    BY DEF DriverBindingStop
  <1>9. journal' = [unread |-> journal.unread, removed |-> journal.removed \union {kind},
                    position |-> journal.position]
    BY <1>1, <1>8 DEF JournalTypes
  <1>10. SignalHasInput'
    BY <1>1, <1>7, <1>8, <1>9 DEF SignalHasInput, HasInput, Listed
  <1>11. MovementAddsUp'
    BY <1>8, <1>9, SameMovements DEF PointersInv, MovementAddsUp
  <1>12. JournalTypes'
    BY <1>1, <1>9 DEF JournalTypes
  <1> QED  BY <1>7, <1>8, <1>10, <1>11, <1>12 DEF PointersInv, DeviceTypes

\* What a reset and a read of a kind do: its flag falls, and the devices in ds, of
\* its list, are empty.
LEMMA ReadInv ==
    ASSUME PointersAssumption, PointersInv, NEW kind \in Kinds, NEW ds \in SUBSET Listed(kind),
           splitter' = [splitter EXCEPT ![kind].signalled = FALSE],
           device' = Emptied(ds),
           journal'.removed = journal.removed \ {kind},
           journal'.unread = journal.unread - (IF kind = "simple" THEN Waiting(ds) ELSE 0),
           journal' = [unread |-> journal'.unread, removed |-> journal'.removed,
                       position |-> journal'.position]
    PROVE  PointersInv'
  <1>1. SplitterTypes /\ DeviceTypes /\ JournalTypes /\ ListedAreOpen /\ SignalHasInput
    BY DEF PointersInv
  <1>2. /\ SplitterTypes' /\ ListedAreOpen' /\ splitter'[kind].signalled = FALSE
        /\ \A k \in Kinds : splitter'[k].list = splitter[k].list
        /\ \A k \in Kinds \ {kind} : splitter'[k] = splitter[k]
    BY <1>1, FlagCleared
  <1>3. ds \subseteq KindOf(kind) /\ ds \in SUBSET Devices
    BY <1>1, ListedFacts
  <1>4. DeviceTypes' /\ \A d \in Devices \ ds : device'[d] = device[d]
    BY <1>1, <1>3, EmptiedFacts
  <1>5. SignalHasInput'
    <2> SUFFICES ASSUME NEW k \in Kinds, splitter'[k].signalled, k \notin journal'.removed
                 PROVE  \E d \in Listed(k)' : HasInput(d)'
      BY DEF SignalHasInput
    <2>1. k # kind /\ k \notin journal.removed /\ splitter'[k] = splitter[k]
      BY <1>2
    <2>2. PICK d \in Listed(k) : HasInput(d)
      BY <1>1, <2>1 DEF SignalHasInput
    <2>3. d \in KindOf(k) /\ d \in Devices
      BY <1>1, ListedFacts
    <2>4. d \notin ds
      BY <1>3, <2>1, <2>3 DEF KindOf
    <2>5. device'[d] = device[d]
      BY <1>4, <2>3, <2>4
    <2> QED  BY <2>1, <2>2, <2>5 DEF Listed, HasInput
  <1>6. MovementAddsUp'
    <2> DEFINE S == {d \in Devices : PointerOf[d] = "simple"}
    <2>1. journal.unread = Waiting(S) /\ S \in SUBSET Devices
      BY DEF PointersInv, MovementAddsUp
    <2>2. /\ ds \subseteq S => Waiting(S)' = Waiting(S) - Waiting(ds)
          /\ ds \cap S = {} => Waiting(S)' = Waiting(S)
      BY <1>1, <1>3, <2>1, EmptiedWaiting
    <2>3. Waiting(S) \in Int
      BY <1>1, <2>1, WaitingTypes
    <2>4. IF kind = "simple" THEN ds \subseteq S ELSE ds \cap S = {}
      BY <1>3 DEF KindOf
    <2>5. journal'.unread = Waiting(S)'
      <3> HIDE DEF S
      <3> QED  BY <2>1, <2>2, <2>3, <2>4
    <2> QED  BY <2>5 DEF MovementAddsUp
  <1>7. JournalTypes'
    BY <1>1 DEF JournalTypes
  <1> QED  BY <1>2, <1>4, <1>5, <1>6, <1>7 DEF PointersInv

\* The journal, after a step that changes some of it.
LEMMA JournalChanges ==
    ASSUME JournalTypes, NEW u, NEW r, NEW p,
           journal' = [journal EXCEPT !.removed = r, !.unread = u, !.position = p]
    PROVE  journal' = [unread |-> u, removed |-> r, position |-> p]
  <1> DEFINE j == [journal EXCEPT !.removed = r]
             k == [j EXCEPT !.unread = u]
  <1>1. j = [unread |-> journal.unread, removed |-> r, position |-> journal.position]
    BY DEF JournalTypes
  <1> HIDE DEF j
  <1>2. k = [unread |-> u, removed |-> r, position |-> journal.position]
    BY <1>1
  <1>3. journal' = [k EXCEPT !.position = p]
    BY DEF j
  <1> HIDE DEF k
  <1> QED  BY <1>2, <1>3

LEMMA ResetInv ==
    ASSUME PointersAssumption, PointersInv, NEW kind \in Kinds, Reset(kind)
    PROVE  PointersInv'
  <1> DEFINE lost == IF kind = "simple" THEN Waiting(Listed(kind)) ELSE 0
  <1>1. /\ splitter' = [splitter EXCEPT ![kind].signalled = FALSE]
        /\ device' = Emptied(Listed(kind))
        /\ journal' = [journal EXCEPT !.removed = @ \ {kind}, !.unread = @ - lost]
    BY DEF Reset
  <1>2. journal' = [unread |-> journal.unread - lost, removed |-> journal.removed \ {kind},
                    position |-> journal.position]
    <2> DEFINE u == journal.unread - lost
               r == journal.removed \ {kind}
               j == [journal EXCEPT !.removed = r]
    <2>1. j = [unread |-> journal.unread, removed |-> r, position |-> journal.position]
      BY DEF PointersInv, JournalTypes
    <2>2. journal' = [j EXCEPT !.unread = u]
      BY <1>1
    <2> HIDE DEF j, r, u
    <2>3. journal' = [unread |-> u, removed |-> r, position |-> journal.position]
      BY <2>1, <2>2
    <2> QED  BY <2>3 DEF u, r
  <1> HIDE DEF lost
  <1>3. /\ journal'.removed = journal.removed \ {kind} /\ journal'.unread = journal.unread - lost
        /\ journal' = [unread |-> journal'.unread, removed |-> journal'.removed,
                       position |-> journal'.position]
    BY <1>2
  <1> QED  BY <1>1, <1>3, ReadInv DEF lost

LEMMA GetStateInv ==
    ASSUME PointersAssumption, PointersInv, NEW kind \in Kinds, GetState(kind)
    PROVE  PointersInv'
  <1> DEFINE ds == Answers(kind)
             read == IF kind = "simple" THEN Movement ELSE 0
             u == journal.unread - read
             r == journal.removed \ {kind}
             p == IF kind = "absolute" /\ StatusOf(kind) = "success" THEN Position
                  ELSE journal.position
  <1>1. /\ splitter' = [splitter EXCEPT ![kind].signalled = FALSE]
        /\ device' = Emptied(ds)
        /\ journal' = [journal EXCEPT !.removed = r, !.unread = u, !.position = p]
    BY Zenon DEF GetState, ClearsFlag
  <1>2. read = IF kind = "simple" THEN Waiting(ds) ELSE 0
    BY DEF Movement
  <1>3. ds \in SUBSET Listed(kind)
    BY DEF Answers
  <1> HIDE DEF read, p, ds
  <1>4. journal' = [unread |-> u, removed |-> r, position |-> p]
    <2>1. JournalTypes
      BY DEF PointersInv
    <2> HIDE DEF u, r
    <2> QED  BY <1>1, <2>1, JournalChanges
  <1>5. /\ journal'.removed = journal.removed \ {kind} /\ journal'.unread = journal.unread - read
        /\ journal' = [unread |-> journal'.unread, removed |-> journal'.removed,
                       position |-> journal'.position]
    BY <1>4
  <1> QED  BY <1>1, <1>2, <1>3, <1>5, ReadInv

LEMMA WaitForInputInv ==
    ASSUME PointersAssumption, PointersInv, NEW kind \in Kinds, WaitForInput(kind)
    PROVE  PointersInv'
  <1>1. SplitterTypes /\ DeviceTypes /\ JournalTypes /\ ListedAreOpen /\ SignalHasInput
    BY DEF PointersInv
  <1>2. /\ splitter' = [splitter EXCEPT ![kind].signalled = TRUE] /\ device' = device
        /\ journal' = [journal EXCEPT !.removed = @ \ {kind}]
        /\ \E d \in Listed(kind) : HasInput(d)
    BY DEF WaitForInput
  <1>3. /\ SplitterTypes' /\ ListedAreOpen'
        /\ \A k \in Kinds : splitter'[k].list = splitter[k].list
        /\ \A k \in Kinds \ {kind} : splitter'[k] = splitter[k]
    BY <1>1, <1>2, FlagCleared
  <1>4. journal' = [unread |-> journal.unread, removed |-> journal.removed \ {kind},
                    position |-> journal.position]
    BY <1>1, <1>2 DEF JournalTypes
  <1>5. SignalHasInput'
    BY <1>1, <1>2, <1>3, <1>4 DEF SignalHasInput, HasInput, Listed
  <1>6. MovementAddsUp'
    BY <1>2, <1>4, SameMovements DEF PointersInv, MovementAddsUp
  <1>7. JournalTypes'
    BY <1>1, <1>4 DEF JournalTypes
  <1> QED  BY <1>1, <1>2, <1>3, <1>5, <1>6, <1>7 DEF PointersInv, DeviceTypes

\* A device that changes keeps its type, and the signals their input.
LEMMA DeviceChanges ==
    ASSUME PointersInv, NEW d \in Devices, NEW i \in Int, NEW c \in BOOLEAN, NEW b \in BOOLEAN,
           device[d].changed => c,
           device' = [device EXCEPT ![d] = [input |-> i, changed |-> c, failing |-> b]],
           splitter' = splitter, journal'.removed = journal.removed
    PROVE  /\ DeviceTypes' /\ SplitterTypes' /\ ListedAreOpen' /\ SignalHasInput'
           /\ device'[d].input = i
           /\ \A e \in Devices \ {d} : device'[e] = device[e]
  <1> DEFINE q == [input |-> i, changed |-> c, failing |-> b]
  <1>1. DeviceTypes /\ SplitterTypes /\ ListedAreOpen /\ SignalHasInput
    BY DEF PointersInv
  <1>2. q \in [input : Int, changed : BOOLEAN, failing : BOOLEAN] /\ q.input = i /\ q.changed = c
    OBVIOUS
  <1>3. device' = [device EXCEPT ![d] = q]
    OBVIOUS
  <1> HIDE DEF q
  <1>4. DeviceTypes' /\ device'[d] = q /\ \A e \in Devices \ {d} : device'[e] = device[e]
    BY <1>1, <1>2, <1>3 DEF DeviceTypes
  <1>5. \A e \in Devices : HasInput(e) => HasInput(e)'
    BY <1>2, <1>4 DEF HasInput
  <1>6. \A kind \in Kinds : Listed(kind) \subseteq Devices
    BY <1>1, ListedFacts
  <1>7. SignalHasInput'
    BY <1>1, <1>5, <1>6 DEF SignalHasInput, Listed
  <1>8. SplitterTypes' /\ ListedAreOpen'
    BY <1>1 DEF SplitterTypes, ListedAreOpen
  <1> QED  BY <1>2, <1>4, <1>7, <1>8

LEMMA FailsInv ==
    ASSUME PointersAssumption, PointersInv, NEW d \in Devices, Fails(d)
    PROVE  PointersInv'
  <1> DEFINE i == device[d].input
             c == device[d].changed
             b == ~device[d].failing
  <1>1. DeviceTypes /\ device[d] \in [input : Int, changed : BOOLEAN, failing : BOOLEAN]
    BY DEF PointersInv, DeviceTypes
  <1>2. i \in Int /\ c \in BOOLEAN /\ b \in BOOLEAN
    BY <1>1
  <1>3. device' = [device EXCEPT ![d] = [input |-> i, changed |-> c, failing |-> b]]
    <2>1. device' = [device EXCEPT ![d] = [device[d] EXCEPT !.failing = b]]
      BY <1>1 DEF Fails, DeviceTypes
    <2>2. device[d] = [input |-> i, changed |-> c, failing |-> device[d].failing]
      BY <1>1
    <2>3. \A v, x, y, z, w : v = [input |-> x, changed |-> y, failing |-> z]
              => [v EXCEPT !.failing = w] = [input |-> x, changed |-> y, failing |-> w]
      OBVIOUS
    <2>4. [device[d] EXCEPT !.failing = b] = [input |-> i, changed |-> c, failing |-> b]
      <3> HIDE DEF i, c, b
      <3> QED  BY <2>2, <2>3
    <2> QED  BY <2>1, <2>4, Zenon
  <1>4. splitter' = splitter /\ journal' = journal
    BY DEF Fails
  <1>5. device[d].changed => c
    OBVIOUS
  <1> HIDE DEF i, c, b
  <1>6. /\ DeviceTypes' /\ SplitterTypes' /\ ListedAreOpen' /\ SignalHasInput'
        /\ device'[d].input = i
        /\ \A e \in Devices \ {d} : device'[e] = device[e]
    BY <1>2, <1>3, <1>4, <1>5, DeviceChanges
  <1>7. \A e \in Devices : device'[e].input = device[e].input
    BY <1>6 DEF i
  <1>8. MovementAddsUp'
    <2>1. \A e \in Devices : Scaled(device'[e].input, e) = Scaled(device[e].input, e)
      BY <1>7, Zenon
    <2>2. Movements' = Movements
      <3>1. Movements' = [e \in Devices |-> Scaled(device'[e].input, e)]
        BY DEF Movements, Scaled
      <3> QED  BY <2>1, <3>1, Zenon DEF Movements
    <2> QED  BY <1>4, <2>2 DEF PointersInv, MovementAddsUp, Waiting
  <1> QED  BY <1>4, <1>6, <1>8 DEF PointersInv, JournalTypes

\* The record of a device, and of one that has moved.
DeviceOf(input, changed, failing) ==
    [input |-> input, changed |-> changed, failing |-> failing]
Moved(v, i, q) == [v EXCEPT !.input = i, !.changed = q]

LEMMA MovedFacts ==
    ASSUME NEW x, NEW c, NEW b, NEW v, v = DeviceOf(x, c, b), NEW i, NEW q
    PROVE  Moved(v, i, q) = DeviceOf(i, q, b)
  <1> DEFINE w == [v EXCEPT !.input = i]
  <1>1. w = DeviceOf(i, c, b)
    BY DEF DeviceOf
  <1>2. Moved(v, i, q) = [w EXCEPT !.changed = q]
    BY DEF Moved
  <1> HIDE DEF w
  <1>3. [w EXCEPT !.changed = q] = DeviceOf(i, q, b)
    BY <1>1 DEF DeviceOf
  <1> QED  BY <1>2, <1>3

LEMMA MovesInv ==
    ASSUME PointersAssumption, PointersInv, NEW d \in Devices, Moves(d)
    PROVE  PointersInv'
  <1>1. PICK step \in {-1, 1} :
          /\ device' = [device EXCEPT ![d] = [device[d] EXCEPT !.input = @ + step, !.changed = TRUE]]
          /\ journal' = IF PointerOf[d] = "simple"
                        THEN [journal EXCEPT !.unread =
                                @ + Scaled(device[d].input + step, d) - Movements[d]]
                        ELSE journal
          /\ UNCHANGED splitter
    BY Zenon DEF Moves
  <1> DEFINE i == device[d].input + step
             b == device[d].failing
             u == journal.unread + Scaled(i, d) - Movements[d]
             S == {e \in Devices : PointerOf[e] = "simple"}
             f == Movements
             g == [e \in Devices |-> Scaled(device'[e].input, e)]
  <1>2. /\ DeviceTypes /\ JournalTypes /\ S \in SUBSET Devices
        /\ device[d] \in [input : Int, changed : BOOLEAN, failing : BOOLEAN]
    BY DEF PointersInv, DeviceTypes
  <1>3. i \in Int /\ b \in BOOLEAN
    BY <1>2
  <1>4. device' = [device EXCEPT ![d] = [input |-> i, changed |-> TRUE, failing |-> b]]
    <2>1. device[d] = DeviceOf(device[d].input, device[d].changed, b)
      BY <1>2 DEF DeviceOf
    <2>2. Moved(device[d], i, TRUE) = DeviceOf(i, TRUE, b)
      <3> DEFINE yes == TRUE
      <3> HIDE DEF i, b, yes
      <3>1. Moved(device[d], i, yes) = DeviceOf(i, yes, b)
        BY <2>1, MovedFacts
      <3> QED  BY <3>1, Zenon DEF yes
    <2>3. device' = [device EXCEPT ![d] = Moved(device[d], i, TRUE)]
      <3>1. device' = [device EXCEPT ![d] = [device[d] EXCEPT !.input = @ + step, !.changed = TRUE]]
        BY <1>1
      <3> QED  BY <3>1, Zenon DEF Moved
    <2> QED  BY <2>2, <2>3, Zenon DEF DeviceOf
  <1>5. /\ PointerOf[d] = "simple" =>
             journal' = [unread |-> u, removed |-> journal.removed, position |-> journal.position]
        /\ PointerOf[d] # "simple" => journal' = journal
    <2>1. PointerOf[d] = "simple" => journal' = [journal EXCEPT !.unread = u]
      BY <1>1
    <2>2. journal = [unread |-> journal.unread, removed |-> journal.removed,
                     position |-> journal.position]
      BY <1>2 DEF JournalTypes
    <2>3. [journal EXCEPT !.unread = u]
              = [unread |-> u, removed |-> journal.removed, position |-> journal.position]
      <3> HIDE DEF u
      <3> QED  BY <2>2
    <2> QED  BY <1>1, <2>1, <2>3, Zenon
  <1>6. splitter' = splitter
    BY <1>1
  <1> HIDE DEF i, b, u
  <1>7. JournalTypes' /\ journal'.removed = journal.removed
    BY <1>2, <1>5 DEF JournalTypes
  <1>8. /\ DeviceTypes' /\ SplitterTypes' /\ ListedAreOpen' /\ SignalHasInput'
        /\ device'[d].input = i
        /\ \A e \in Devices \ {d} : device'[e] = device[e]
    BY <1>3, <1>4, <1>6, <1>7, DeviceChanges
  <1>9. /\ IsFiniteSet(Devices)
        /\ \A e \in Devices : f[e] \in Int /\ g[e] \in Int
    <2>1. IsFiniteSet(Devices) /\ \A e \in Devices : f[e] \in Int
      BY <1>2, MovementsTypes DEF PointersAssumption
    <2>2. ASSUME NEW e \in Devices PROVE g[e] \in Int
      <3>1. device'[e].input \in Int
        BY <1>8 DEF DeviceTypes
      <3>2. Scaled(device'[e].input, e) \in Int
        BY <3>1, ScaledFacts
      <3> QED  BY <3>2
    <2> HIDE DEF f, g
    <2> QED  BY <2>1, <2>2
  <1>10. g[d] = Scaled(i, d) /\ \A e \in Devices \ {d} : g[e] = f[e]
    BY <1>8 DEF Movements
  <1>11. /\ journal.unread = SumFunctionOnSet(f, S)
         /\ \A T : Waiting(T)' = SumFunctionOnSet(g, T)
    <2>1. Movements' = g
      BY DEF Movements, Scaled
    <2> HIDE DEF g
    <2> QED  BY <2>1 DEF PointersInv, MovementAddsUp, Waiting
  <1> HIDE DEF f, g
  <1>12. journal'.unread = SumFunctionOnSet(g, S)
    <2>1. CASE PointerOf[d] = "simple"
      <3>1. d \in S
        BY <2>1
      <3>2. \A e \in S : e # d => f[e] = g[e]
        BY <1>10
      <3> HIDE DEF S
      <3>3. SumFunctionOnSet(g, S) = SumFunctionOnSet(f, S) + g[d] - f[d]
        BY <1>2, <1>9, <3>1, <3>2, SumChange
      <3>4. SumFunctionOnSet(f, S) \in Int /\ f[d] \in Int /\ g[d] \in Int
        BY <1>2, <1>9, SumType
      <3>5. journal'.unread = journal.unread + g[d] - f[d]
        BY <1>5, <1>10, <2>1 DEF u, f
      <3> QED  BY <1>11, <3>3, <3>4, <3>5
    <2>2. CASE PointerOf[d] # "simple"
      <3>1. \A e \in S : f[e] = g[e]
        BY <1>10, <2>2
      <3> HIDE DEF S
      <3>2. SumFunctionOnSet(f, S) = SumFunctionOnSet(g, S)
        BY <1>2, <1>9, <3>1, SumAgree
      <3> QED  BY <1>5, <1>11, <2>2, <3>2
    <2> QED  BY <2>1, <2>2
  <1>13. MovementAddsUp'
    BY <1>11, <1>12 DEF MovementAddsUp
  <1> QED  BY <1>7, <1>8, <1>13 DEF PointersInv

\* PointersInv is inductive.
LEMMA PointersInitInv ==
    ASSUME PointersAssumption, Init
    PROVE  PointersInv
  <1>1. /\ \A kind \in Kinds : splitter[kind] =
               [list |-> << >>, capacity |-> 0, signalled |-> FALSE, opened |-> {}]
        /\ \A d \in Devices : device[d] = [input |-> 0, changed |-> FALSE, failing |-> FALSE]
        /\ journal = [unread |-> 0, removed |-> {}, position |-> 0]
    BY DEF Init
  <1>2. SplitterTypes
    BY DEF Init, SplitterTypes
  <1>3. DeviceTypes /\ JournalTypes
    BY DEF Init, DeviceTypes, JournalTypes
  <1>4. ListedAreOpen /\ SignalHasInput
    BY <1>1 DEF ListedAreOpen, SignalHasInput, ToSet, IsInjective
  <1>5. MovementAddsUp
    <2> DEFINE S == {d \in Devices : PointerOf[d] = "simple"}
    <2>1. IsFiniteSet(Devices) /\ S \in SUBSET Devices
      BY DEF PointersAssumption
    <2>2. \A d \in Devices : Movements[d] = 0
      <3> SUFFICES ASSUME NEW d \in Devices PROVE Movements[d] = 0
        OBVIOUS
      <3>1. device[d].input = 0 /\ Scaled(0, d) = 0
        BY <1>1, ScaledFacts
      <3> QED  BY <3>1 DEF Movements
    <2>3. SumFunctionOnSet(Movements, S)
              = SumFunctionOnSet(Movements, S) - SumFunctionOnSet(Movements, S)
      <3>1. \A d \in S : Movements[d] = IF d \in S THEN 0 ELSE Movements[d]
        BY <2>2
      <3>2. \A d \in Devices : Movements[d] \in Int
        BY <2>2
      <3> HIDE DEF S
      <3> QED  BY <2>1, <3>1, <3>2, SumZeroed
    <2>4. SumFunctionOnSet(Movements, S) \in Int
      <3> HIDE DEF S
      <3> QED  BY <1>3, <2>1, WaitingTypes DEF Waiting
    <2>5. SumFunctionOnSet(Movements, S) = 0
      <3> HIDE DEF S
      <3> QED  BY <2>3, <2>4
    <2> QED  BY <1>1, <2>5 DEF MovementAddsUp, Waiting
  <1> QED  BY <1>2, <1>3, <1>4, <1>5 DEF PointersInv

LEMMA PointersStepInv ==
    ASSUME PointersAssumption, PointersInv, [Next]_pointerVars
    PROVE  PointersInv'
  <1>1. ASSUME NEW d \in Devices, NEW memory \in BOOLEAN, DriverBindingStart(d, memory)
        PROVE  PointersInv'
    BY <1>1, StartInv
  <1>2. ASSUME NEW d \in Devices, DriverBindingStop(d) PROVE PointersInv'
    BY <1>2, StopInv
  <1>3. ASSUME NEW d \in Devices, Moves(d) PROVE PointersInv'
    BY <1>3, MovesInv
  <1>4. ASSUME NEW d \in Devices, Fails(d) PROVE PointersInv'
    BY <1>4, FailsInv
  <1>5. ASSUME NEW kind \in Kinds, Reset(kind) PROVE PointersInv'
    BY <1>5, ResetInv
  <1>6. ASSUME NEW kind \in Kinds, GetState(kind) PROVE PointersInv'
    BY <1>6, GetStateInv
  <1>7. ASSUME NEW kind \in Kinds, WaitForInput(kind) PROVE PointersInv'
    BY <1>7, WaitForInputInv
  <1>8. CASE UNCHANGED pointerVars
    <2>1. splitter' = splitter /\ device' = device /\ journal' = journal
      BY <1>8 DEF pointerVars
    <2>2. MovementAddsUp'
      BY <2>1, SameMovements DEF PointersInv, MovementAddsUp
    <2> QED  BY <2>1, <2>2 DEF PointersInv, SplitterTypes, DeviceTypes, JournalTypes,
                 ListedAreOpen, SignalHasInput, Listed, HasInput
  <1> QED  BY <1>1, <1>2, <1>3, <1>4, <1>5, <1>6, <1>7, <1>8 DEF Next

\* Movement of simple pointers is neither lost nor read twice, a signal has input,
\* and the lists fit their buffers: for any devices, resolutions and units.
THEOREM PointersSafe ==
    ASSUME PointersAssumption
    PROVE  Spec => [](MovementAddsUp /\ SignalHasInput /\ ListedAreOpen)
<1>1. Init => PointersInv
  BY PointersInitInv
<1>2. PointersInv /\ [Next]_pointerVars => PointersInv'
  BY PointersStepInv
<1>3. PointersInv => MovementAddsUp /\ SignalHasInput /\ ListedAreOpen
  BY DEF PointersInv
<1> QED
  BY <1>1, <1>2, <1>3, PTL DEF Spec
=============================================================================
