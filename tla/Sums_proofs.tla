------------------------------ MODULE Sums_proofs ------------------------------
(***************************************************************************)
(* What the other proofs need of numbers, of finite sets of numbers and of *)
(* the folds of the community modules.  A fold over a set is a recursive   *)
(* function of the subsets of the set; what is known of it follows by      *)
(* induction on their sizes, with a set of sizes, or of subsets, in the    *)
(* place of a predicate.                                                   *)
(***************************************************************************)
EXTENDS Integers, FiniteSets, FiniteSetsExt, FiniteSetTheorems,
        WellFoundedInduction, TLAPS

(***************************************************************************)
(* The smallest and the largest of a set of numbers                        *)
(***************************************************************************)
Before == {p \in Nat \X Nat : p[1] < p[2]}

LEMMA FirstExists ==
  ASSUME NEW T, T \subseteq Nat, T # {}
  PROVE  \E x \in T : \A y \in T : x <= y
PROOF
<1>1. IsWellFoundedOn(Before, Nat)
  BY NatLessThanWellFounded DEF OpToRel, Before
<1>2. PICK x \in T : \A y \in T : ~(<<y, x>> \in Before)
  BY <1>1, WFMin
<1>3. ASSUME NEW y \in T, ~(x <= y) PROVE FALSE
  <2>1. x \in Nat /\ y \in Nat /\ y < x
    BY <1>3
  <2>2. <<y, x>> \in Nat \X Nat /\ <<y, x>>[1] = y /\ <<y, x>>[2] = x
    BY <2>1
  <2>3. <<y, x>> \in Before
    BY <2>1, <2>2 DEF Before
  <2>4. QED
    BY <1>2, <2>3
<1>4. QED
  BY <1>3

LEMMA LastExists ==
  ASSUME NEW N \in Nat, NEW T, T \subseteq 0 .. N, T # {}
  PROVE  \E x \in T : \A y \in T : y <= x
PROOF
<1> DEFINE back == {N - x : x \in T}
<1>1. \A x \in T : x \in 0 .. N /\ N - x \in Nat
  OBVIOUS
<1>2. back \subseteq Nat /\ back # {} /\ \A x \in T : N - x \in back
  BY <1>1
<1>3. PICK b \in back : \A c \in back : b <= c
  <2> HIDE DEF back
  <2> QED
    BY <1>2, FirstExists
<1>4. PICK x \in T : b = N - x
  BY DEF back
<1>5. ASSUME NEW y \in T PROVE y <= x
  <2>1. N - x <= N - y
    BY <1>2, <1>3, <1>4
  <2>2. x \in Int /\ y \in Int
    OBVIOUS
  <2> HIDE DEF back
  <2>3. QED
    BY <2>1, <2>2
<1>6. QED
  BY <1>5

(***************************************************************************)
(* Induction                                                               *)
(***************************************************************************)
LEMMA AllNumbers ==
  ASSUME NEW P, P \subseteq Nat, 0 \in P, \A n \in P : n + 1 \in P
  PROVE  P = Nat
PROOF
<1> SUFFICES ASSUME Nat \ P # {} PROVE FALSE
  OBVIOUS
<1>1. PICK n \in Nat \ P : \A m \in Nat \ P : n <= m
  BY FirstExists
<1>2. n # 0 /\ n - 1 \in Nat /\ n - 1 < n
  BY <1>1
<1>3. n - 1 \in P
  BY <1>1, <1>2
<1>4. (n - 1) + 1 \in P /\ (n - 1) + 1 = n
  BY <1>2, <1>3
<1>5. QED
  BY <1>1, <1>4

(* A collection of subsets of a finite set that holds the empty one and    *)
(* that no further element leaves holds the whole set.                     *)
LEMMA AllElements ==
  ASSUME NEW S, IsFiniteSet(S), NEW Q, Q \subseteq SUBSET S, {} \in Q,
         \A s \in Q : \A x \in S \ s : s \cup {x} \in Q
  PROVE  S \in Q
PROOF
<1> DEFINE P == {n \in Nat : \A s \in SUBSET S : Cardinality(s) = n => s \in Q}
<1>1. \A s \in SUBSET S : IsFiniteSet(s) /\ Cardinality(s) \in Nat
  BY FS_Subset, FS_CardinalityType
<1>2. 0 \in P
  BY <1>1, FS_EmptySet
<1>3. ASSUME NEW n \in P PROVE n + 1 \in P
  <2>1. ASSUME NEW s \in SUBSET S, Cardinality(s) = n + 1 PROVE s \in Q
    <3>1. s # {}
      BY <2>1, FS_EmptySet
    <3>2. PICK x \in s : TRUE
      BY <3>1
    <3>3. PICK rest : rest = s \ {x}
      OBVIOUS
    <3>4. Cardinality(rest) = Cardinality(s) - 1
      BY <1>1, <3>2, <3>3, FS_RemoveElement
    <3>5. rest \in SUBSET S /\ Cardinality(rest) = n
      BY <2>1, <3>3, <3>4
    <3>6. rest \in Q
      BY <1>3, <3>5
    <3>7. x \in S \ rest /\ rest \cup {x} = s
      BY <3>2, <3>3
    <3>8. QED
      BY <3>6, <3>7
  <2>2. QED
    BY <2>1
<1> HIDE DEF P
<1>4. P \subseteq Nat
  BY DEF P
<1>5. P = Nat
  BY <1>2, <1>3, <1>4, AllNumbers
<1>6. Cardinality(S) \in P /\ S \in SUBSET S
  BY <1>5, FS_CardinalityType
<1>7. QED
  BY <1>6 DEF P

LEMMA ImageIsFinite ==
  ASSUME NEW S, IsFiniteSet(S), NEW f
  PROVE  IsFiniteSet({f[x] : x \in S})
PROOF
<1> DEFINE Image(s) == {f[x] : x \in s}
           Q == {s \in SUBSET S : IsFiniteSet(Image(s))}
<1>1. ASSUME NEW s \in Q, NEW x \in S \ s PROVE s \cup {x} \in Q
  <2>1. PICK more : more = s \cup {x}
    OBVIOUS
  <2>2. Image(more) = Image(s) \cup {f[x]}
    BY <2>1
  <2>3. PICK old, y : old = Image(s) /\ y = f[x]
    OBVIOUS
  <2>4. IsFiniteSet(old) /\ more \in SUBSET S /\ Image(more) = old \cup {y}
    BY <2>1, <2>2, <2>3
  <2>5. IsFiniteSet(Image(more))
    <3> HIDE DEF Image
    <3> QED
      BY <2>4, FS_AddElement
  <2>6. QED
    BY <2>1, <2>4, <2>5
<1>2. {} \in Q /\ Q \subseteq SUBSET S
  <2>1. Image({}) = {}
    OBVIOUS
  <2>2. QED
    BY <2>1, FS_EmptySet
<1> HIDE DEF Q
<1>3. S \in Q
  BY <1>1, <1>2, AllElements
<1>4. QED
  BY <1>3 DEF Q

LEMMA SmallestAndLargest ==
  ASSUME NEW S, S \subseteq Int, IsFiniteSet(S), S # {}
  PROVE  /\ Min(S) \in S /\ \A y \in S : Min(S) <= y
         /\ Max(S) \in S /\ \A y \in S : y <= Max(S)
PROOF
<1> DEFINE Q == {s \in SUBSET S : s # {} => /\ \E x \in s : \A y \in s : x <= y
                                            /\ \E x \in s : \A y \in s : y <= x}
<1>1. ASSUME NEW s \in Q, NEW x \in S \ s PROVE s \cup {x} \in Q
  <2>1. CASE s = {}
    BY <2>1
  <2>2. CASE s # {}
    <3>1. PICK lo \in s, hi \in s : \A y \in s : lo <= y /\ y <= hi
      BY <2>2
    <3>2. \E z \in s \cup {x} : \A y \in s \cup {x} : z <= y
      <4>1. CASE x <= lo
        BY <3>1, <4>1
      <4>2. CASE ~(x <= lo)
        BY <3>1, <4>2
      <4>3. QED
        BY <4>1, <4>2
    <3>3. \E z \in s \cup {x} : \A y \in s \cup {x} : y <= z
      <4>1. CASE hi <= x
        BY <3>1, <4>1
      <4>2. CASE ~(hi <= x)
        BY <3>1, <4>2
      <4>3. QED
        BY <4>1, <4>2
    <3>4. QED
      BY <3>2, <3>3
  <2>3. QED
    BY <2>1, <2>2
<1>2. {} \in Q /\ Q \subseteq SUBSET S
  OBVIOUS
<1> HIDE DEF Q
<1>3. S \in Q
  BY <1>1, <1>2, AllElements
<1>4. /\ \E x \in S : \A y \in S : x <= y
      /\ \E x \in S : \A y \in S : y <= x
  BY <1>3 DEF Q
<1>5. /\ \E x \in S : \A y \in S : x <= y
      /\ \E x \in S : \A y \in S : x >= y
  BY <1>4
<1>6. Min(S) \in S /\ \A y \in S : Min(S) <= y
  BY <1>5 DEF Min
<1>7. Max(S) \in S /\ \A y \in S : Max(S) >= y
  BY <1>5 DEF Max
<1>8. QED
  BY <1>6, <1>7

(***************************************************************************)
(* Sums                                                                    *)
(***************************************************************************)
First(s) == CHOOSE x \in s : TRUE

SummedOver(f, D, g) ==
  g = [s \in D |-> IF s = {} THEN 0 ELSE f[First(s)] + g[s \ {First(s)}]]

SumsOf(f, S) == CHOOSE g : SummedOver(f, SUBSET S, g)

SumOver(f, S) == SumsOf(f, S)[S]

LEMMA FirstFacts ==
  ASSUME NEW s, IsFiniteSet(s), s # {}
  PROVE  /\ First(s) \in s
         /\ IsFiniteSet(s \ {First(s)})
         /\ Cardinality(s \ {First(s)}) = Cardinality(s) - 1
         /\ Cardinality(s) \in Nat /\ Cardinality(s) # 0
PROOF
<1>1. First(s) \in s
  BY DEF First
<1>2. QED
  BY <1>1, FS_RemoveElement, FS_CardinalityType, FS_EmptySet

SmallSubsets(S, n) == {s \in SUBSET S : Cardinality(s) <= n}

(* The recursive function exists: it is built for larger and larger        *)
(* subsets.                                                                *)
LEMMA SumsExist ==
  ASSUME NEW f, NEW S, IsFiniteSet(S)
  PROVE  SummedOver(f, SUBSET S, SumsOf(f, S))
PROOF
<1> DEFINE P == {n \in Nat : \E g : SummedOver(f, SmallSubsets(S, n), g)}
<1>1. \A s \in SUBSET S : IsFiniteSet(s) /\ Cardinality(s) \in Nat /\ Cardinality(s) <= Cardinality(S)
  BY FS_Subset, FS_CardinalityType
<1>2. 0 \in P
  <2>1. \A s \in SmallSubsets(S, 0) : s = {}
    BY <1>1, FS_EmptySet DEF SmallSubsets
  <2>2. PICK g : g = [s \in SmallSubsets(S, 0) |-> 0]
    OBVIOUS
  <2>3. SummedOver(f, SmallSubsets(S, 0), g)
    BY <2>1, <2>2 DEF SummedOver
  <2>4. QED
    BY <2>3
<1>3. ASSUME NEW n \in P PROVE n + 1 \in P
  <2>1. n \in Nat /\ n + 1 \in Nat
    OBVIOUS
  <2>2. PICK g : SummedOver(f, SmallSubsets(S, n), g)
    BY <1>3
  <2>3. PICK more : more = [s \in SmallSubsets(S, n + 1) |->
                              IF s = {} THEN 0 ELSE f[First(s)] + g[s \ {First(s)}]]
    OBVIOUS
  <2>4. ASSUME NEW s \in SmallSubsets(S, n) PROVE more[s] = g[s]
    <3>1. s \in SmallSubsets(S, n + 1)
      BY <1>1, <2>1 DEF SmallSubsets
    <3>2. g[s] = IF s = {} THEN 0 ELSE f[First(s)] + g[s \ {First(s)}]
      BY <2>2 DEF SummedOver
    <3>3. QED
      BY <3>1, <3>2, <2>3
  <2>5. ASSUME NEW s \in SmallSubsets(S, n + 1), s # {}
        PROVE  s \ {First(s)} \in SmallSubsets(S, n)
    <3>1. s \in SUBSET S /\ Cardinality(s) <= n + 1
      BY DEF SmallSubsets
    <3>2. Cardinality(s \ {First(s)}) = Cardinality(s) - 1 /\ Cardinality(s) \in Nat
      BY <3>1, <1>1, <2>5, FirstFacts
    <3>3. Cardinality(s \ {First(s)}) <= n
      BY <3>1, <3>2, <2>1
    <3>4. QED
      BY <3>1, <3>3 DEF SmallSubsets
  <2>6. more = [s \in SmallSubsets(S, n + 1) |->
                  IF s = {} THEN 0 ELSE f[First(s)] + more[s \ {First(s)}]]
    BY <2>3, <2>4, <2>5
  <2>7. QED
    BY <2>1, <2>6 DEF SummedOver
<1> HIDE DEF P
<1>4. P \subseteq Nat
  BY DEF P
<1>5. P = Nat
  BY <1>2, <1>3, <1>4, AllNumbers
<1>6. Cardinality(S) \in P
  BY <1>5, FS_CardinalityType
<1>7. SmallSubsets(S, Cardinality(S)) = SUBSET S
  BY <1>1 DEF SmallSubsets
<1>8. \E g : SummedOver(f, SUBSET S, g)
  BY <1>6, <1>7 DEF P
<1>9. QED
  BY <1>8 DEF SumsOf

LEMMA SumsStep ==
  ASSUME NEW f, NEW S, IsFiniteSet(S), NEW s \in SUBSET S
  PROVE  /\ s = {} => SumsOf(f, S)[s] = 0
         /\ s # {} => SumsOf(f, S)[s] = f[First(s)] + SumsOf(f, S)[s \ {First(s)}]
PROOF
<1>1. PICK g : g = SumsOf(f, S)
  OBVIOUS
<1>2. SummedOver(f, SUBSET S, g)
  BY <1>1, SumsExist
<1>3. g = [t \in SUBSET S |-> IF t = {} THEN 0 ELSE f[First(t)] + g[t \ {First(t)}]]
  BY <1>2 DEF SummedOver
<1>4. g[s] = IF s = {} THEN 0 ELSE f[First(s)] + g[s \ {First(s)}]
  BY <1>3
<1>5. QED
  BY <1>1, <1>4

(* The sum over a subset does not depend on the set it is a subset of.     *)
LEMMA SumsOfSubsets ==
  ASSUME NEW f, NEW S, IsFiniteSet(S), NEW s \in SUBSET S
  PROVE  SumsOf(f, S)[s] = SumOver(f, s)
PROOF
<1> DEFINE P == {n \in Nat : \A t, u \in SUBSET S :
                   t \subseteq u /\ Cardinality(t) = n => SumsOf(f, u)[t] = SumOver(f, t)}
<1>1. \A t \in SUBSET S : IsFiniteSet(t) /\ Cardinality(t) \in Nat
  BY FS_Subset, FS_CardinalityType
<1>2. 0 \in P
  <2>1. ASSUME NEW t \in SUBSET S, NEW u \in SUBSET S, t \subseteq u, Cardinality(t) = 0
        PROVE  SumsOf(f, u)[t] = SumOver(f, t)
    <3>1. t = {}
      BY <1>1, <2>1, FS_EmptySet
    <3>2. SumsOf(f, u)[t] = 0
      BY <1>1, <2>1, <3>1, SumsStep
    <3>3. t \in SUBSET t
      OBVIOUS
    <3>4. SumsOf(f, t)[t] = 0
      BY <1>1, <3>1, <3>3, SumsStep
    <3>5. QED
      BY <3>2, <3>4 DEF SumOver
  <2>2. QED
    BY <2>1
<1>3. ASSUME NEW n \in P PROVE n + 1 \in P
  <2>1. ASSUME NEW t \in SUBSET S, NEW u \in SUBSET S, t \subseteq u, Cardinality(t) = n + 1
        PROVE  SumsOf(f, u)[t] = SumOver(f, t)
    <3>1. PICK rest : rest = t \ {First(t)}
      OBVIOUS
    <3>2. t # {}
      BY <2>1, FS_EmptySet
    <3>3. rest \in SUBSET S /\ rest \subseteq u /\ rest \subseteq t /\ Cardinality(rest) = n
      BY <1>1, <2>1, <3>1, <3>2, FirstFacts
    <3>4. SumsOf(f, u)[rest] = SumOver(f, rest) /\ SumsOf(f, t)[rest] = SumOver(f, rest)
      BY <1>3, <3>3
    <3>5. t \in SUBSET u /\ IsFiniteSet(u)
      BY <1>1, <2>1
    <3>6. SumsOf(f, u)[t] = f[First(t)] + SumsOf(f, u)[rest]
      <4>1. SumsOf(f, u)[t] = f[First(t)] + SumsOf(f, u)[t \ {First(t)}]
        BY <3>2, <3>5, SumsStep
      <4>2. QED
        BY <3>1, <4>1
    <3>7. t \in SUBSET t
      OBVIOUS
    <3>8. SumsOf(f, t)[t] = f[First(t)] + SumsOf(f, t)[rest]
      BY <1>1, <3>1, <3>2, <3>7, SumsStep
    <3>9. QED
      BY <3>4, <3>6, <3>8 DEF SumOver
  <2>2. QED
    BY <2>1
<1> HIDE DEF P
<1>4. P \subseteq Nat
  BY DEF P
<1>5. P = Nat
  BY <1>2, <1>3, <1>4, AllNumbers
<1>6. Cardinality(s) \in P /\ S \in SUBSET S
  BY <1>1, <1>5
<1>7. QED
  BY <1>6 DEF P

LEMMA SumStep ==
  ASSUME NEW f, NEW S, IsFiniteSet(S)
  PROVE  /\ S = {} => SumOver(f, S) = 0
         /\ S # {} => SumOver(f, S) = f[First(S)] + SumOver(f, S \ {First(S)})
PROOF
<1>1. S \in SUBSET S /\ S \ {First(S)} \in SUBSET S
  OBVIOUS
<1>2. SumOver(f, S) = SumsOf(f, S)[S]
  BY DEF SumOver
<1>3. SumsOf(f, S)[S \ {First(S)}] = SumOver(f, S \ {First(S)})
  BY <1>1, SumsOfSubsets
<1>4. QED
  BY <1>1, <1>2, <1>3, SumsStep

(* Any two functions that satisfy the recursion agree: a fold that is      *)
(* written with another operator is the sum.                               *)
LEMMA SumsAreUnique ==
  ASSUME NEW f, NEW S, IsFiniteSet(S), NEW g, SummedOver(f, SUBSET S, g)
  PROVE  g[S] = SumOver(f, S)
PROOF
<1> DEFINE P == {n \in Nat : \A s \in SUBSET S : Cardinality(s) = n => g[s] = SumOver(f, s)}
<1>1. \A s \in SUBSET S : IsFiniteSet(s) /\ Cardinality(s) \in Nat
  BY FS_Subset, FS_CardinalityType
<1>2. ASSUME NEW s \in SUBSET S
      PROVE  g[s] = IF s = {} THEN 0 ELSE f[First(s)] + g[s \ {First(s)}]
  BY DEF SummedOver
<1>3. 0 \in P
  <2>1. ASSUME NEW s \in SUBSET S, Cardinality(s) = 0 PROVE g[s] = SumOver(f, s)
    <3>1. s = {}
      BY <1>1, <2>1, FS_EmptySet
    <3>2. QED
      BY <1>1, <1>2, <3>1, SumStep
  <2>2. QED
    BY <2>1
<1>4. ASSUME NEW n \in P PROVE n + 1 \in P
  <2>1. ASSUME NEW s \in SUBSET S, Cardinality(s) = n + 1 PROVE g[s] = SumOver(f, s)
    <3>1. PICK rest : rest = s \ {First(s)}
      OBVIOUS
    <3>2. s # {}
      <4>1. n \in Nat /\ n + 1 # 0
        OBVIOUS
      <4>2. QED
        BY <2>1, <4>1, FS_EmptySet
    <3>3. rest \in SUBSET S /\ Cardinality(rest) = n
      BY <1>1, <2>1, <3>1, <3>2, FirstFacts
    <3>4. SumOver(f, s) = f[First(s)] + SumOver(f, rest)
      BY <1>1, <3>1, <3>2, SumStep
    <3>5. g[s] = f[First(s)] + g[rest]
      BY <1>2, <3>1, <3>2
    <3>6. g[rest] = SumOver(f, rest)
      BY <1>4, <3>3
    <3>7. QED
      BY <3>4, <3>5, <3>6
  <2>2. QED
    BY <2>1
<1> HIDE DEF P
<1>5. P \subseteq Nat
  BY DEF P
<1>6. P = Nat
  BY <1>3, <1>4, <1>5, AllNumbers
<1>7. Cardinality(S) \in P /\ S \in SUBSET S
  BY <1>6, FS_CardinalityType
<1>8. QED
  BY <1>7 DEF P

LEMMA SumIsInteger ==
  ASSUME NEW f, NEW S, IsFiniteSet(S), \A x \in S : f[x] \in Int
  PROVE  SumOver(f, S) \in Int
PROOF
<1> DEFINE P == {n \in Nat : \A s \in SUBSET S : Cardinality(s) = n => SumOver(f, s) \in Int}
<1>1. \A s \in SUBSET S : IsFiniteSet(s) /\ Cardinality(s) \in Nat
  BY FS_Subset, FS_CardinalityType
<1>2. 0 \in P
  <2>1. ASSUME NEW s \in SUBSET S, Cardinality(s) = 0 PROVE SumOver(f, s) \in Int
    <3>1. s = {}
      BY <1>1, <2>1, FS_EmptySet
    <3>2. SumOver(f, s) = 0
      BY <1>1, <3>1, SumStep
    <3>3. QED
      BY <3>2
  <2>2. QED
    BY <2>1
<1>3. ASSUME NEW n \in P PROVE n + 1 \in P
  <2>1. ASSUME NEW s \in SUBSET S, Cardinality(s) = n + 1 PROVE SumOver(f, s) \in Int
    <3>1. PICK rest : rest = s \ {First(s)}
      OBVIOUS
    <3>2. s # {}
      BY <2>1, FS_EmptySet
    <3>3. rest \in SUBSET S /\ Cardinality(rest) = n /\ First(s) \in S
      BY <1>1, <2>1, <3>1, <3>2, FirstFacts
    <3>4. SumOver(f, s) = f[First(s)] + SumOver(f, rest)
      BY <1>1, <3>1, <3>2, SumStep
    <3>5. f[First(s)] \in Int /\ SumOver(f, rest) \in Int
      BY <1>3, <3>3
    <3>6. QED
      BY <3>4, <3>5
  <2>2. QED
    BY <2>1
<1> HIDE DEF P
<1>4. P \subseteq Nat
  BY DEF P
<1>5. P = Nat
  BY <1>2, <1>3, <1>4, AllNumbers
<1>6. Cardinality(S) \in P /\ S \in SUBSET S
  BY <1>5, FS_CardinalityType
<1>7. QED
  BY <1>6 DEF P

(* Any element may be taken out of a sum.                                  *)
LEMMA SumWithout ==
  ASSUME NEW f, NEW S, IsFiniteSet(S), \A x \in S : f[x] \in Int, NEW x \in S
  PROVE  SumOver(f, S) = f[x] + SumOver(f, S \ {x})
PROOF
<1> DEFINE P == {n \in Nat : \A s \in SUBSET S : Cardinality(s) = n =>
                   \A y \in s : SumOver(f, s) = f[y] + SumOver(f, s \ {y})}
<1>1. \A s \in SUBSET S : /\ IsFiniteSet(s) /\ Cardinality(s) \in Nat
                          /\ SumOver(f, s) \in Int
  <2> SUFFICES ASSUME NEW s \in SUBSET S
               PROVE  IsFiniteSet(s) /\ Cardinality(s) \in Nat /\ SumOver(f, s) \in Int
    OBVIOUS
  <2>1. IsFiniteSet(s) /\ Cardinality(s) \in Nat
    BY FS_Subset, FS_CardinalityType
  <2>2. \A y \in s : f[y] \in Int
    OBVIOUS
  <2>3. QED
    BY <2>1, <2>2, SumIsInteger
<1>2. 0 \in P
  BY <1>1, FS_EmptySet
<1>3. ASSUME NEW n \in P PROVE n + 1 \in P
  <2>1. ASSUME NEW s \in SUBSET S, Cardinality(s) = n + 1, NEW y \in s
        PROVE  SumOver(f, s) = f[y] + SumOver(f, s \ {y})
    <3>1. PICK z : z = First(s)
      OBVIOUS
    <3>2. z \in s /\ SumOver(f, s) = f[z] + SumOver(f, s \ {z})
      BY <1>1, <2>1, <3>1, FirstFacts, SumStep
    <3>3. CASE y = z
      BY <3>2, <3>3
    <3>4. CASE y # z
      <4>1. PICK noZ, noY, rest : noZ = s \ {z} /\ noY = s \ {y} /\ rest = noZ \ {y}
        OBVIOUS
      <4>2. /\ noZ \in SUBSET S /\ noY \in SUBSET S /\ rest \in SUBSET S
            /\ y \in noZ /\ z \in noY /\ rest = noY \ {z}
        BY <3>2, <3>4, <4>1
      <4>3. Cardinality(noZ) = n /\ Cardinality(noY) = n
        <5>1. Cardinality(noZ) = Cardinality(s) - 1 /\ Cardinality(noY) = Cardinality(s) - 1
          BY <1>1, <2>1, <3>2, <4>1, FS_RemoveElement
        <5>2. QED
          BY <5>1, <2>1
      <4>4. SumOver(f, noZ) = f[y] + SumOver(f, rest) /\ SumOver(f, noY) = f[z] + SumOver(f, rest)
        <5>1. \A t \in SUBSET S : Cardinality(t) = n =>
                \A v \in t : SumOver(f, t) = f[v] + SumOver(f, t \ {v})
          BY <1>3
        <5>2. QED
          BY <5>1, <4>1, <4>2, <4>3
      <4>5. f[y] \in Int /\ f[z] \in Int /\ SumOver(f, rest) \in Int
        BY <1>1, <2>1, <3>2, <4>2
      <4>6. QED
        BY <3>2, <4>1, <4>4, <4>5
    <3>5. QED
      BY <3>3, <3>4
  <2>2. QED
    BY <2>1
<1> HIDE DEF P
<1>4. P \subseteq Nat
  BY DEF P
<1>5. P = Nat
  BY <1>2, <1>3, <1>4, AllNumbers
<1>6. Cardinality(S) \in P /\ S \in SUBSET S
  BY <1>5, FS_CardinalityType
<1>7. QED
  BY <1>6 DEF P

LEMMA SumOfOneMore ==
  ASSUME NEW f, NEW S, IsFiniteSet(S), NEW x, x \notin S,
         \A y \in S \cup {x} : f[y] \in Int
  PROVE  /\ SumOver(f, S \cup {x}) = f[x] + SumOver(f, S)
         /\ f[x] \in Int /\ SumOver(f, S) \in Int
PROOF
<1>1. PICK all : all = S \cup {x}
  OBVIOUS
<1>2. IsFiniteSet(all) /\ x \in all /\ all \ {x} = S /\ \A y \in all : f[y] \in Int
  BY <1>1, FS_AddElement
<1>3. SumOver(f, all) = f[x] + SumOver(f, all \ {x})
  BY <1>2, SumWithout
<1>4. SumOver(f, S) \in Int
  BY SumIsInteger
<1>5. QED
  BY <1>1, <1>2, <1>3, <1>4

LEMMA SumIsNatural ==
  ASSUME NEW f, NEW S, IsFiniteSet(S), \A x \in S : f[x] \in Nat
  PROVE  SumOver(f, S) \in Nat
PROOF
<1> DEFINE Q == {s \in SUBSET S : SumOver(f, s) \in Nat}
<1>1. ASSUME NEW s \in Q, NEW x \in S \ s PROVE s \cup {x} \in Q
  <2>1. IsFiniteSet(s) /\ \A y \in s \cup {x} : f[y] \in Int
    BY FS_Subset
  <2>2. SumOver(f, s \cup {x}) = f[x] + SumOver(f, s)
    BY <2>1, SumOfOneMore
  <2>3. QED
    BY <2>2
<1>2. {} \in Q /\ Q \subseteq SUBSET S
  <2>1. SumOver(f, {}) = 0
    BY FS_EmptySet, SumStep
  <2>2. QED
    BY <2>1
<1> HIDE DEF Q
<1>3. S \in Q
  BY <1>1, <1>2, AllElements
<1>4. QED
  BY <1>3 DEF Q

LEMMA SumCompares ==
  ASSUME NEW f, NEW g, NEW S, IsFiniteSet(S),
         \A x \in S : f[x] \in Int /\ g[x] \in Int /\ f[x] <= g[x]
  PROVE  SumOver(f, S) <= SumOver(g, S)
PROOF
<1> DEFINE Q == {s \in SUBSET S : SumOver(f, s) <= SumOver(g, s)}
<1>1. ASSUME NEW s \in Q, NEW x \in S \ s PROVE s \cup {x} \in Q
  <2>1. IsFiniteSet(s) /\ \A y \in s \cup {x} : f[y] \in Int /\ g[y] \in Int
    BY FS_Subset
  <2>2. /\ SumOver(f, s \cup {x}) = f[x] + SumOver(f, s)
        /\ f[x] \in Int /\ SumOver(f, s) \in Int
    BY <2>1, SumOfOneMore
  <2>3. /\ SumOver(g, s \cup {x}) = g[x] + SumOver(g, s)
        /\ g[x] \in Int /\ SumOver(g, s) \in Int
    BY <2>1, SumOfOneMore
  <2>4. f[x] <= g[x] /\ SumOver(f, s) <= SumOver(g, s)
    OBVIOUS
  <2>5. QED
    BY <2>2, <2>3, <2>4
<1>2. {} \in Q /\ Q \subseteq SUBSET S
  <2>1. SumOver(f, {}) = 0 /\ SumOver(g, {}) = 0
    BY FS_EmptySet, SumStep
  <2>2. QED
    BY <2>1
<1> HIDE DEF Q
<1>3. S \in Q
  BY <1>1, <1>2, AllElements
<1>4. QED
  BY <1>3 DEF Q

LEMMA SumsAgree ==
  ASSUME NEW f, NEW g, NEW S, IsFiniteSet(S), \A x \in S : f[x] \in Int /\ f[x] = g[x]
  PROVE  SumOver(f, S) = SumOver(g, S)
PROOF
<1>1. SumOver(f, S) <= SumOver(g, S) /\ SumOver(g, S) <= SumOver(f, S)
  BY SumCompares
<1>2. SumOver(f, S) \in Int /\ SumOver(g, S) \in Int
  BY SumIsInteger
<1>3. QED
  BY <1>1, <1>2

LEMMA SumOfUnion ==
  ASSUME NEW f, NEW A, NEW B, IsFiniteSet(A), IsFiniteSet(B), A \cap B = {},
         \A x \in A \cup B : f[x] \in Int
  PROVE  SumOver(f, A \cup B) = SumOver(f, A) + SumOver(f, B)
PROOF
<1> DEFINE Q == {s \in SUBSET B : SumOver(f, A \cup s) = SumOver(f, A) + SumOver(f, s)}
<1>1. SumOver(f, A) \in Int
  BY SumIsInteger
<1>2. ASSUME NEW s \in Q, NEW x \in B \ s PROVE s \cup {x} \in Q
  <2>1. IsFiniteSet(s) /\ IsFiniteSet(A \cup s)
    BY FS_Subset, FS_Union
  <2>2. /\ SumOver(f, s \cup {x}) = f[x] + SumOver(f, s)
        /\ f[x] \in Int /\ SumOver(f, s) \in Int
    <3>1. \A y \in s \cup {x} : f[y] \in Int
      OBVIOUS
    <3>2. QED
      BY <2>1, <3>1, SumOfOneMore
  <2>3. PICK t : t = A \cup s
    OBVIOUS
  <2>4. x \notin t /\ IsFiniteSet(t) /\ (\A y \in t \cup {x} : f[y] \in Int)
    BY <2>1, <2>3
  <2>5. SumOver(f, t \cup {x}) = f[x] + SumOver(f, t)
    BY <2>4, SumOfOneMore
  <2>6. t \cup {x} = A \cup (s \cup {x})
    BY <2>3
  <2>7. SumOver(f, t) = SumOver(f, A) + SumOver(f, s)
    BY <2>3
  <2>8. PICK more : more = s \cup {x}
    OBVIOUS
  <2>9. SumOver(f, A \cup more) = SumOver(f, A) + SumOver(f, more)
    <3>1. SumOver(f, A \cup more) = f[x] + SumOver(f, t)
      BY <2>5, <2>6, <2>8
    <3>2. SumOver(f, more) = f[x] + SumOver(f, s)
      BY <2>2, <2>8
    <3>3. QED
      BY <1>1, <2>2, <2>7, <3>1, <3>2
  <2>10. more \in SUBSET B
    BY <2>8
  <2>11. QED
    BY <2>8, <2>9, <2>10
<1>3. {} \in Q /\ Q \subseteq SUBSET B
  <2>1. SumOver(f, {}) = 0 /\ A \cup {} = A
    BY FS_EmptySet, SumStep
  <2>2. QED
    BY <1>1, <2>1
<1> HIDE DEF Q
<1>4. B \in Q
  BY <1>2, <1>3, AllElements
<1>5. QED
  BY <1>4 DEF Q

LEMMA SumGrows ==
  ASSUME NEW f, NEW B, IsFiniteSet(B), NEW A, A \subseteq B, \A x \in B : f[x] \in Nat
  PROVE  SumOver(f, A) <= SumOver(f, B)
PROOF
<1>1. PICK rest : rest = B \ A
  OBVIOUS
<1>2. IsFiniteSet(A) /\ IsFiniteSet(rest)
  BY <1>1, FS_Subset
<1>3. A \cap rest = {} /\ A \cup rest = B
  BY <1>1
<1>4. \A x \in A \cup rest : f[x] \in Int
  BY <1>3
<1>5. SumOver(f, B) = SumOver(f, A) + SumOver(f, rest)
  BY <1>2, <1>3, <1>4, SumOfUnion
<1>6. (\A x \in A : f[x] \in Nat) /\ (\A x \in rest : f[x] \in Nat)
  BY <1>3
<1>7. SumOver(f, A) \in Nat /\ SumOver(f, rest) \in Nat
  BY <1>2, <1>6, SumIsNatural
<1>8. QED
  BY <1>5, <1>7

LEMMA Distribution ==
  /\ \A n, M \in Int : n * M \in Int /\ (n + 1) * M = n * M + M /\ 0 * M = 0
  /\ \A a, b, c \in Int : a * (b + c) = a * b + a * c /\ (b + c) * a = b * a + c * a
PROOF OBVIOUS

LEMMA ProductFacts ==
  ASSUME NEW M \in Nat, NEW n \in Nat
  PROVE  /\ n * M \in Nat /\ (n + 1) * M = n * M + M /\ 0 * M = 0
         /\ \A k \in Nat : k <= n => k * M <= n * M
PROOF OBVIOUS

LEMMA SumOfConstant ==
  ASSUME NEW f, NEW S, IsFiniteSet(S), NEW c \in Int, \A x \in S : f[x] = c
  PROVE  SumOver(f, S) = Cardinality(S) * c
PROOF
<1> DEFINE Q == {s \in SUBSET S : SumOver(f, s) = Cardinality(s) * c}
<1>1. ASSUME NEW s \in Q, NEW x \in S \ s PROVE s \cup {x} \in Q
  <2>1. IsFiniteSet(s) /\ Cardinality(s) \in Nat /\ \A y \in s \cup {x} : f[y] \in Int
    BY FS_Subset, FS_CardinalityType
  <2>2. SumOver(f, s \cup {x}) = c + SumOver(f, s)
    BY <2>1, SumOfOneMore
  <2>3. Cardinality(s \cup {x}) = Cardinality(s) + 1
    BY <2>1, FS_AddElement
  <2>4. SumOver(f, s) = Cardinality(s) * c
    OBVIOUS
  <2>5. PICK k \in Int : k = Cardinality(s)
    BY <2>1
  <2>6. (k + 1) * c = k * c + c /\ k * c \in Int
    BY Distribution
  <2>7. SumOver(f, s \cup {x}) = Cardinality(s \cup {x}) * c
    BY <2>2, <2>3, <2>4, <2>5, <2>6
  <2>8. QED
    BY <2>7
<1>2. {} \in Q /\ Q \subseteq SUBSET S
  <2>1. SumOver(f, {}) = 0 /\ Cardinality({}) = 0
    BY FS_EmptySet, SumStep
  <2>2. QED
    BY <2>1
<1> HIDE DEF Q
<1>3. S \in Q
  BY <1>1, <1>2, AllElements
<1>4. QED
  BY <1>3 DEF Q

LEMMA SumIsBounded ==
  ASSUME NEW f, NEW S, IsFiniteSet(S), NEW M \in Int,
         \A x \in S : f[x] \in Int /\ f[x] <= M
  PROVE  SumOver(f, S) <= Cardinality(S) * M
PROOF
<1>1. PICK g : g = [x \in S |-> M]
  OBVIOUS
<1>2. SumOver(f, S) <= SumOver(g, S)
  BY <1>1, SumCompares
<1>3. \A x \in S : g[x] = M
  BY <1>1
<1>4. SumOver(g, S) = Cardinality(S) * M
  BY <1>3, SumOfConstant
<1>5. QED
  BY <1>2, <1>4

LEMMA SumIsBoundedBelow ==
  ASSUME NEW f, NEW S, IsFiniteSet(S), NEW M \in Int,
         \A x \in S : f[x] \in Int /\ M <= f[x]
  PROVE  Cardinality(S) * M <= SumOver(f, S)
PROOF
<1>1. PICK g : g = [x \in S |-> M]
  OBVIOUS
<1>2. SumOver(g, S) <= SumOver(f, S)
  BY <1>1, SumCompares
<1>3. \A x \in S : g[x] = M
  BY <1>1
<1>4. SumOver(g, S) = Cardinality(S) * M
  BY <1>3, SumOfConstant
<1>5. QED
  BY <1>2, <1>4

(* A sum over what is cut into parts that have nothing in common is the    *)
(* sum of the sums over the parts.                                         *)
Parted(whole, part, S) ==
  /\ \A x \in S : IsFiniteSet(part[x])
  /\ \A x, y \in S : x # y => part[x] \cap part[y] = {}
  /\ whole = UNION {part[x] : x \in S}

SumsOfParts(f, g, part, S) ==
  \A x \in S : g[x] = SumOver(f, part[x]) /\ \A u \in part[x] : f[u] \in Int

LEMMA SumByParts ==
  ASSUME NEW S, IsFiniteSet(S), NEW whole, NEW part, Parted(whole, part, S),
         NEW f, NEW g, SumsOfParts(f, g, part, S)
  PROVE  SumOver(g, S) = SumOver(f, whole)
PROOF
<1> DEFINE All(s) == UNION {part[x] : x \in s}
           Q == {s \in SUBSET S : IsFiniteSet(All(s)) /\ SumOver(g, s) = SumOver(f, All(s))}
<1>1. ASSUME NEW x \in S
      PROVE  /\ IsFiniteSet(part[x]) /\ g[x] = SumOver(f, part[x]) /\ g[x] \in Int
             /\ \A u \in part[x] : f[u] \in Int
  <2>1. IsFiniteSet(part[x]) /\ g[x] = SumOver(f, part[x]) /\ \A u \in part[x] : f[u] \in Int
    BY DEF Parted, SumsOfParts
  <2>2. QED
    BY <2>1, SumIsInteger
<1>2. ASSUME NEW s \in Q, NEW x \in S \ s PROVE s \cup {x} \in Q
  <2>1. IsFiniteSet(s) /\ \A y \in s \cup {x} : g[y] \in Int
    BY <1>1, FS_Subset
  <2>2. SumOver(g, s \cup {x}) = g[x] + SumOver(g, s) /\ g[x] \in Int /\ SumOver(g, s) \in Int
    BY <2>1, SumOfOneMore
  <2>3. PICK A, B : A = All(s) /\ B = part[x]
    OBVIOUS
  <2>4. A \cap B = {}
    BY <2>3 DEF Parted
  <2>5. \A u \in A \cup B : f[u] \in Int
    BY <1>1, <2>3
  <2>6. IsFiniteSet(A) /\ IsFiniteSet(B) /\ SumOver(g, s) = SumOver(f, A) /\ g[x] = SumOver(f, B)
    BY <1>1, <2>3
  <2>7. IsFiniteSet(A \cup B)
    BY <2>6, FS_Union
  <2>8. SumOver(f, A \cup B) = SumOver(f, A) + SumOver(f, B)
    BY <2>4, <2>5, <2>6, SumOfUnion
  <2>9. SumOver(g, s \cup {x}) = SumOver(f, A \cup B)
    BY <2>2, <2>6, <2>8
  <2>10. PICK more : more = s \cup {x}
    OBVIOUS
  <2>11. All(more) = A \cup B
    BY <2>3, <2>10
  <2>12. SumOver(g, more) = SumOver(f, All(more)) /\ IsFiniteSet(All(more))
    BY <2>7, <2>9, <2>10, <2>11
  <2>13. more \in SUBSET S
    BY <2>10
  <2>14. QED
    BY <2>10, <2>12, <2>13
<1>3. {} \in Q /\ Q \subseteq SUBSET S
  <2>1. All({}) = {} /\ IsFiniteSet({})
    BY FS_EmptySet
  <2>2. SumOver(g, {}) = 0 /\ SumOver(f, {}) = 0
    BY <2>1, SumStep
  <2>3. QED
    BY <2>1, <2>2
<1> HIDE DEF Q
<1>4. S \in Q
  BY <1>2, <1>3, AllElements
<1>5. SumOver(g, S) = SumOver(f, All(S)) /\ All(S) = whole
  BY <1>4 DEF Q, Parted
<1>6. QED
  BY <1>5

(* A set may be renamed under a sum.                                       *)
LEMMA SumOfImage ==
  ASSUME NEW f, NEW S, IsFiniteSet(S), NEW k, NEW g,
         \A x, y \in S : k[x] = k[y] => x = y,
         \A x \in S : f[x] \in Int /\ g[k[x]] = f[x]
  PROVE  SumOver(g, {k[x] : x \in S}) = SumOver(f, S)
PROOF
<1> DEFINE Image(s) == {k[x] : x \in s}
           Q == {s \in SUBSET S : SumOver(g, Image(s)) = SumOver(f, s)}
<1>1. ASSUME NEW s \in Q, NEW x \in S \ s PROVE s \cup {x} \in Q
  <2>1. PICK more, old, z : more = s \cup {x} /\ old = Image(s) /\ z = k[x]
    OBVIOUS
  <2>2. Image(more) = old \cup {z} /\ z \notin old
    BY <2>1
  <2>3. IsFiniteSet(s) /\ IsFiniteSet(old)
    <3>1. s \subseteq S
      OBVIOUS
    <3>2. IsFiniteSet(s)
      BY <3>1, FS_Subset
    <3>3. IsFiniteSet({k[y] : y \in s})
      BY <3>2, ImageIsFinite
    <3>4. QED
      BY <2>1, <3>2, <3>3
  <2>4. (\A y \in s \cup {x} : f[y] \in Int) /\ (\A y \in old \cup {z} : g[y] \in Int) /\ g[z] = f[x]
    BY <2>1
  <2>5. SumOver(f, s \cup {x}) = f[x] + SumOver(f, s)
    BY <2>3, <2>4, SumOfOneMore
  <2>6. SumOver(g, old \cup {z}) = g[z] + SumOver(g, old)
    BY <2>2, <2>3, <2>4, SumOfOneMore
  <2>7. SumOver(g, old) = SumOver(f, s)
    BY <2>1
  <2>8. SumOver(g, Image(more)) = SumOver(f, more) /\ more \in SUBSET S
    BY <2>1, <2>2, <2>4, <2>5, <2>6, <2>7
  <2>9. QED
    BY <2>1, <2>8
<1>2. {} \in Q /\ Q \subseteq SUBSET S
  <2>1. Image({}) = {}
    OBVIOUS
  <2>2. SumOver(g, {}) = 0 /\ SumOver(f, {}) = 0
    BY FS_EmptySet, SumStep
  <2>3. QED
    BY <2>1, <2>2
<1> HIDE DEF Q
<1>3. S \in Q
  BY <1>1, <1>2, AllElements
<1>4. QED
  BY <1>3 DEF Q

LEMMA SumOfMultiples ==
  ASSUME NEW f, NEW g, NEW S, IsFiniteSet(S), NEW c \in Int,
         \A x \in S : f[x] \in Int /\ g[x] = c * f[x]
  PROVE  SumOver(g, S) = c * SumOver(f, S)
PROOF
<1> DEFINE Q == {s \in SUBSET S : SumOver(g, s) = c * SumOver(f, s)}
<1>1. \A x \in S : g[x] \in Int
  OBVIOUS
<1>2. ASSUME NEW s \in Q, NEW x \in S \ s PROVE s \cup {x} \in Q
  <2>1. IsFiniteSet(s) /\ \A y \in s \cup {x} : f[y] \in Int /\ g[y] \in Int
    BY <1>1, FS_Subset
  <2>2. SumOver(f, s \cup {x}) = f[x] + SumOver(f, s) /\ f[x] \in Int /\ SumOver(f, s) \in Int
    BY <2>1, SumOfOneMore
  <2>3. SumOver(g, s \cup {x}) = g[x] + SumOver(g, s)
    BY <2>1, SumOfOneMore
  <2>4. PICK a, b \in Int : a = f[x] /\ b = SumOver(f, s)
    BY <2>2
  <2>5. g[x] = c * a /\ SumOver(g, s) = c * b
    BY <2>4
  <2>6. c * (a + b) = c * a + c * b
    BY Distribution
  <2>7. SumOver(g, s \cup {x}) = c * SumOver(f, s \cup {x})
    BY <2>2, <2>3, <2>4, <2>5, <2>6
  <2>8. QED
    BY <2>7
<1>3. {} \in Q /\ Q \subseteq SUBSET S
  <2>1. SumOver(f, {}) = 0 /\ SumOver(g, {}) = 0
    BY FS_EmptySet, SumStep
  <2>2. QED
    BY <2>1
<1> HIDE DEF Q
<1>4. S \in Q
  BY <1>2, <1>3, AllElements
<1>5. QED
  BY <1>4 DEF Q

(* The sum of the steps is the distance.                                   *)
LEMMA SumOfSteps ==
  ASSUME NEW N \in Nat, NEW m, \A i \in 1 .. (N + 1) : m[i] \in Int,
         NEW f, \A i \in 1 .. N : f[i] = m[i + 1] - m[i]
  PROVE  SumOver(f, 1 .. N) = m[N + 1] - m[1]
PROOF
<1> DEFINE P == {n \in Nat : n <= N => SumOver(f, 1 .. n) = m[n + 1] - m[1]}
<1>1. 0 \in P
  <2>1. 1 .. 0 = {} /\ m[0 + 1] = m[1] /\ m[1] \in Int
    OBVIOUS
  <2>2. SumOver(f, {}) = 0
    BY FS_EmptySet, SumStep
  <2>3. QED
    BY <2>1, <2>2
<1>2. ASSUME NEW n \in P PROVE n + 1 \in P
  <2>1. n \in Nat
    OBVIOUS
  <2>2. ASSUME n + 1 <= N PROVE SumOver(f, 1 .. (n + 1)) = m[(n + 1) + 1] - m[1]
    <3>1. SumOver(f, 1 .. n) = m[n + 1] - m[1]
      BY <2>1, <2>2
    <3>2. PICK S, x : S = 1 .. n /\ x = n + 1
      OBVIOUS
    <3>3. S \cup {x} = 1 .. (n + 1) /\ x \notin S /\ IsFiniteSet(S)
      BY <2>1, <3>2, FS_Interval
    <3>4. \A i \in S \cup {x} : m[i] \in Int /\ m[i + 1] \in Int /\ f[i] = m[i + 1] - m[i]
      BY <2>1, <2>2, <3>3
    <3>5. \A i \in S \cup {x} : f[i] \in Int
      BY <3>4
    <3>6. SumOver(f, S \cup {x}) = f[x] + SumOver(f, S)
      BY <3>3, <3>5, SumOfOneMore
    <3>7. f[x] = m[(n + 1) + 1] - m[n + 1] /\ m[(n + 1) + 1] \in Int /\ m[n + 1] \in Int
      BY <3>2, <3>4
    <3>8. PICK a, b, c \in Int : a = m[1] /\ b = m[n + 1] /\ c = m[(n + 1) + 1]
      BY <3>7
    <3>9. SumOver(f, S) = b - a /\ f[x] = c - b
      BY <3>1, <3>2, <3>7, <3>8
    <3>10. SumOver(f, S \cup {x}) = c - a
      BY <3>6, <3>8, <3>9
    <3>11. QED
      BY <3>3, <3>8, <3>10
  <2>3. QED
    BY <2>1, <2>2
<1> HIDE DEF P
<1>3. P \subseteq Nat
  BY DEF P
<1>4. P = Nat
  BY <1>1, <1>2, <1>3, AllNumbers
<1>5. QED
  BY <1>4 DEF P
=============================================================================
