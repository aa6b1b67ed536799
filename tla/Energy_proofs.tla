------------------------------ MODULE Energy_proofs ------------------------------
(***************************************************************************)
(* Proofs about how energy and money are computed: what EnergyChecks       *)
(* evaluates for all inputs within bounds, for every input.                *)
(***************************************************************************)
EXTENDS EnergyAccounting, Sums_proofs, FiniteSetTheorems, TLAPS

LEMMA TheOne == \A x : The({x}) = x
PROOF BY DEF The

(***************************************************************************)
(* The sums of the module are sums                                         *)
(***************************************************************************)
LEMMA CoveredIsSum ==
  ASSUME NEW S, IsFiniteSet(S), NEW f, \A s \in S : f[s] = Length(s)
  PROVE  Covered(S) = SumOver(f, S)
PROOF
<1> DEFINE Recursion(h) == h = [s \in SUBSET S |->
             IF s = {} THEN 0 ELSE Length(First(s)) + h[s \ {First(s)}]]
           fold == CHOOSE h : Recursion(h)
<1>1. Covered(S) = fold[S]
  BY DEF Covered, MapThenSumSet, MapThenFoldSet, First
<1>2. \A s \in SUBSET S : s # {} => f[First(s)] = Length(First(s))
  BY DEF First
<1>3. \A h : SummedOver(f, SUBSET S, h) <=> Recursion(h)
  BY <1>2 DEF SummedOver
<1>4. \E h : Recursion(h)
  BY <1>3, SumsExist
<1>5. Recursion(fold)
  BY <1>4
<1> HIDE DEF Recursion, fold
<1>6. SummedOver(f, SUBSET S, fold)
  BY <1>3, <1>5
<1>7. QED
  BY <1>1, <1>6, SumsAreUnique

LEMMA WeightedIsSum ==
  ASSUME NEW S, IsFiniteSet(S), NEW f, \A s \in S : f[s] = s.value * Length(s)
  PROVE  Weighted(S) = SumOver(f, S)
PROOF
<1> DEFINE Recursion(h) == h = [s \in SUBSET S |->
             IF s = {} THEN 0 ELSE First(s).value * Length(First(s)) + h[s \ {First(s)}]]
           fold == CHOOSE h : Recursion(h)
<1>1. Weighted(S) = fold[S]
  BY DEF Weighted, MapThenSumSet, MapThenFoldSet, First
<1>2. \A s \in SUBSET S : s # {} => f[First(s)] = First(s).value * Length(First(s))
  BY DEF First
<1>3. \A h : SummedOver(f, SUBSET S, h) <=> Recursion(h)
  BY <1>2 DEF SummedOver
<1>4. \E h : Recursion(h)
  BY <1>3, SumsExist
<1>5. Recursion(fold)
  BY <1>4
<1> HIDE DEF Recursion, fold
<1>6. SummedOver(f, SUBSET S, fold)
  BY <1>3, <1>5
<1>7. QED
  BY <1>1, <1>6, SumsAreUnique

(***************************************************************************)
(* Integrals of power: each unit of time that is covered lies in just one  *)
(* segment, the one of the newest sample, so that a sum over the segments  *)
(* is a sum over the units.                                                *)
(***************************************************************************)
HeldAt(power, n) ==
  LET past == {t \in DOMAIN power : t <= n}
  IN IF past # {} /\ n < Max(past) + HoldFor THEN {power[Max(past)]} ELSE {}

HeldOver(power, start, end) == {n \in start .. (end - 1) : HeldAt(power, n) # {}}

Samples == UNION {[times -> Int] : times \in {T \in SUBSET Int : IsFiniteSet(T)}}
Units(s) == s.from .. (s.to - 1)

Reach(power, t) == Min({t + HoldFor} \cup {u \in DOMAIN power : u > t})
SegmentOf(power, start, end, t) ==
  [from |-> Max({t, start}), to |-> Min({Reach(power, t), end}), value |-> power[t]]

LEMMA SamplesAre ==
  ASSUME NEW power \in Samples
  PROVE  /\ DOMAIN power \subseteq Int /\ IsFiniteSet(DOMAIN power)
         /\ \A t \in DOMAIN power : power[t] \in Int
PROOF BY DEF Samples

LEMMA OfTwo ==
  ASSUME NEW a \in Int, NEW b \in Int
  PROVE  /\ Max({a, b}) = IF a >= b THEN a ELSE b
         /\ Min({a, b}) = IF a <= b THEN a ELSE b
PROOF
<1>1. IsFiniteSet({a, b}) /\ {a, b} # {} /\ {a, b} \subseteq Int
  <2>1. IsFiniteSet({a}) /\ {a, b} = {a} \cup {b}
    BY FS_Singleton
  <2>2. IsFiniteSet({a} \cup {b})
    BY <2>1, FS_AddElement
  <2>3. QED
    BY <2>1, <2>2
<1>2. /\ Min({a, b}) \in {a, b} /\ \A y \in {a, b} : Min({a, b}) <= y
      /\ Max({a, b}) \in {a, b} /\ \A y \in {a, b} : y <= Max({a, b})
  BY <1>1, SmallestAndLargest
<1>3. QED
  BY <1>2

LEMMA ReachFacts ==
  ASSUME NEW power \in Samples, NEW t \in DOMAIN power
  PROVE  /\ Reach(power, t) \in Int /\ t < Reach(power, t) /\ Reach(power, t) <= t + HoldFor
         /\ \A u \in DOMAIN power : u > t => Reach(power, t) <= u
         /\ Reach(power, t) = t + HoldFor \/ Reach(power, t) \in DOMAIN power
PROOF
<1>1. PICK ends : ends = {t + HoldFor} \cup {u \in DOMAIN power : u > t}
  OBVIOUS
<1>2. t \in Int /\ HoldFor \in Int /\ HoldFor > 0
  BY SamplesAre, EnergyAssumption
<1>3. ends \subseteq Int /\ ends # {}
  BY <1>1, <1>2, SamplesAre
<1>4. IsFiniteSet(ends)
  <2>1. IsFiniteSet({t + HoldFor}) /\ IsFiniteSet({u \in DOMAIN power : u > t})
    BY SamplesAre, FS_Singleton, FS_Subset
  <2>2. QED
    BY <1>1, <2>1, FS_Union
<1>5. Min(ends) \in ends /\ \A y \in ends : Min(ends) <= y
  BY <1>3, <1>4, SmallestAndLargest
<1>6. Reach(power, t) = Min(ends)
  BY <1>1 DEF Reach
<1>7. \A y \in ends : y > t
  BY <1>1, <1>2
<1>8. QED
  BY <1>1, <1>2, <1>3, <1>5, <1>6, <1>7

(* The segment of a sample is where that sample is the newest and held.    *)
LEMMA InSegment ==
  ASSUME NEW power \in Samples, NEW start \in Int, NEW end \in Int,
         NEW t \in DOMAIN power, NEW n \in Int
  PROVE  /\ n \in Units(SegmentOf(power, start, end, t))
              <=> start <= n /\ n < end /\ t <= n /\ n < Reach(power, t)
         /\ SegmentOf(power, start, end, t).from \in Int
         /\ SegmentOf(power, start, end, t).to \in Int
         /\ SegmentOf(power, start, end, t).value = power[t]
PROOF
<1>1. t \in Int /\ Reach(power, t) \in Int
  BY SamplesAre, ReachFacts
<1>2. PICK s : s = SegmentOf(power, start, end, t)
  OBVIOUS
<1>3. /\ s.from = (IF t >= start THEN t ELSE start)
      /\ s.to = (IF Reach(power, t) <= end THEN Reach(power, t) ELSE end)
      /\ s.value = power[t]
  BY <1>1, <1>2, OfTwo DEF SegmentOf
<1>4. n \in Units(s) <=> s.from <= n /\ n <= s.to - 1
  BY <1>1, <1>3 DEF Units
<1>5. QED
  BY <1>1, <1>2, <1>3, <1>4

LEMMA NewestIsHeld ==
  ASSUME NEW power \in Samples, NEW n \in Int
  PROVE  /\ \A t \in DOMAIN power : t <= n /\ n < Reach(power, t) =>
              HeldAt(power, n) = {power[t]} /\ t = Max({u \in DOMAIN power : u <= n})
         /\ HeldAt(power, n) # {} =>
              \E t \in DOMAIN power : t <= n /\ n < Reach(power, t)
PROOF
<1>1. PICK past : past = {u \in DOMAIN power : u <= n}
  OBVIOUS
<1>2. past \subseteq Int /\ IsFiniteSet(past) /\ HoldFor \in Int
  BY <1>1, SamplesAre, FS_Subset, EnergyAssumption
<1>3. HeldAt(power, n) = IF past # {} /\ n < Max(past) + HoldFor THEN {power[Max(past)]} ELSE {}
  BY <1>1 DEF HeldAt
<1>4. ASSUME past # {} PROVE Max(past) \in past /\ \A y \in past : y <= Max(past)
  BY <1>2, <1>4, SmallestAndLargest
<1>5. ASSUME NEW t \in DOMAIN power, t <= n, n < Reach(power, t)
      PROVE  HeldAt(power, n) = {power[t]} /\ t = Max(past)
  <2>1. t \in Int /\ t \in past
    BY <1>1, <1>5, SamplesAre
  <2>2. /\ Reach(power, t) \in Int /\ Reach(power, t) <= t + HoldFor
        /\ \A u \in DOMAIN power : u > t => Reach(power, t) <= u
    BY ReachFacts
  <2>3. Max(past) \in past /\ t <= Max(past)
    BY <1>4, <2>1
  <2>4. Max(past) = t
    BY <1>1, <1>2, <1>5, <2>1, <2>2, <2>3
  <2>5. QED
    BY <1>2, <1>3, <1>5, <2>1, <2>2, <2>4
<1>6. ASSUME HeldAt(power, n) # {}
      PROVE  \E t \in DOMAIN power : t <= n /\ n < Reach(power, t)
  <2>1. past # {} /\ n < Max(past) + HoldFor
    BY <1>3, <1>6
  <2>2. PICK t : t = Max(past)
    OBVIOUS
  <2>3. t \in DOMAIN power /\ t \in Int /\ t <= n /\ \A y \in past : y <= t
    BY <1>1, <1>2, <1>4, <2>1, <2>2
  <2>4. /\ Reach(power, t) \in Int /\ t < Reach(power, t)
        /\ Reach(power, t) = t + HoldFor \/ Reach(power, t) \in DOMAIN power
    BY <2>3, ReachFacts
  <2>5. n < Reach(power, t)
    BY <1>1, <1>2, <2>1, <2>2, <2>3, <2>4
  <2>6. QED
    BY <2>3, <2>5
<1>7. QED
  BY <1>1, <1>5, <1>6

LEMMA SegmentFacts ==
  ASSUME NEW power \in Samples, NEW start \in Int, NEW end \in Int,
         NEW S, S = Segments(power, start, end)
  PROVE  /\ IsFiniteSet(S)
         /\ \A s \in S : /\ s.from \in Int /\ s.to \in Int /\ s.value \in Int /\ s.from < s.to
                         /\ \A n \in Units(s) : HeldAt(power, n) = {s.value}
         /\ \A r, s \in S : r # s => Units(r) \cap Units(s) = {}
         /\ UNION {Units(s) : s \in S} = HeldOver(power, start, end)
PROOF
<1> DEFINE segment(t) == SegmentOf(power, start, end, t)
<1>1. S = {s \in {segment(t) : t \in DOMAIN power} : s.to > s.from}
  BY DEF Segments, SegmentOf, Reach
<1>2. IsFiniteSet(S)
  <2>1. PICK f : f = [t \in DOMAIN power |-> segment(t)]
    OBVIOUS
  <2>2. IsFiniteSet({f[t] : t \in DOMAIN power})
    BY SamplesAre, ImageIsFinite
  <2>3. S \subseteq {f[t] : t \in DOMAIN power}
    BY <1>1, <2>1
  <2>4. QED
    BY <2>2, <2>3, FS_Subset
<1>3. \A s \in S : \E t \in DOMAIN power : s = segment(t)
  BY <1>1
<1>4. ASSUME NEW s \in S
      PROVE  s.from \in Int /\ s.to \in Int /\ s.value \in Int /\ s.from < s.to
  <2>1. PICK t \in DOMAIN power : s = segment(t)
    BY <1>3
  <2>2. s.from \in Int /\ s.to \in Int /\ s.value = power[t]
    BY <2>1, InSegment
  <2>3. s.to > s.from
    BY <1>1
  <2>4. QED
    BY <2>2, <2>3, SamplesAre
<1>5. ASSUME NEW s \in S, NEW n \in Units(s)
      PROVE  /\ HeldAt(power, n) = {s.value} /\ n \in start .. (end - 1)
             /\ s = segment(Max({u \in DOMAIN power : u <= n}))
  <2>1. PICK t \in DOMAIN power : s = segment(t)
    BY <1>3
  <2>2. n \in Int
    BY <1>4 DEF Units
  <2>3. start <= n /\ n < end /\ t <= n /\ n < Reach(power, t) /\ s.value = power[t]
    BY <2>1, <2>2, InSegment
  <2>4. HeldAt(power, n) = {power[t]} /\ t = Max({u \in DOMAIN power : u <= n})
    BY <2>2, <2>3, NewestIsHeld
  <2>5. QED
    BY <2>1, <2>2, <2>3, <2>4
<1>6. \A r, s \in S : r # s => Units(r) \cap Units(s) = {}
  <2> HIDE DEF segment
  <2> QED
    BY <1>5
<1>7. ASSUME NEW n \in HeldOver(power, start, end) PROVE \E s \in S : n \in Units(s)
  <2>1. n \in Int /\ start <= n /\ n < end /\ HeldAt(power, n) # {}
    BY DEF HeldOver
  <2>2. PICK t \in DOMAIN power : t <= n /\ n < Reach(power, t)
    BY <2>1, NewestIsHeld
  <2>3. PICK s : s = segment(t)
    OBVIOUS
  <2>4. n \in Units(s) /\ s.from \in Int /\ s.to \in Int
    BY <2>1, <2>2, <2>3, InSegment
  <2>5. s.to > s.from
    BY <2>1, <2>4 DEF Units
  <2>6. QED
    BY <1>1, <2>3, <2>4, <2>5
<1>8. UNION {Units(s) : s \in S} = HeldOver(power, start, end)
  <2>1. ASSUME NEW s \in S, NEW n \in Units(s) PROVE n \in HeldOver(power, start, end)
    <3>1. HeldAt(power, n) # {} /\ n \in start .. (end - 1)
      BY <1>5
    <3>2. QED
      BY <3>1 DEF HeldOver
  <2>2. \A n \in HeldOver(power, start, end) : n \in UNION {Units(s) : s \in S}
    BY <1>7
  <2>3. QED
    BY <2>1, <2>2
<1>9. QED
  BY <1>2, <1>4, <1>5, <1>6, <1>8

HeldPower(power, start, end) == [n \in HeldOver(power, start, end) |-> The(HeldAt(power, n))]

EnergyHeld(power, S) == MapThenSumSet(LAMBDA n : The(HeldAt(power, n)), S)

LEMMA HeldIsSum ==
  ASSUME NEW power, NEW S, IsFiniteSet(S), NEW f, \A n \in S : f[n] = The(HeldAt(power, n))
  PROVE  EnergyHeld(power, S) = SumOver(f, S)
PROOF
<1> DEFINE Recursion(h) == h = [s \in SUBSET S |->
             IF s = {} THEN 0 ELSE The(HeldAt(power, First(s))) + h[s \ {First(s)}]]
           fold == CHOOSE h : Recursion(h)
<1>1. EnergyHeld(power, S) = fold[S]
  BY DEF EnergyHeld, MapThenSumSet, MapThenFoldSet, First
<1>2. \A s \in SUBSET S : s # {} => f[First(s)] = The(HeldAt(power, First(s)))
  BY DEF First
<1>3. \A h : SummedOver(f, SUBSET S, h) <=> Recursion(h)
  BY <1>2 DEF SummedOver
<1>4. \E h : Recursion(h)
  BY <1>3, SumsExist
<1>5. Recursion(fold)
  BY <1>4
<1> HIDE DEF Recursion, fold
<1>6. SummedOver(f, SUBSET S, fold)
  BY <1>3, <1>5
<1>7. QED
  BY <1>1, <1>6, SumsAreUnique

LEMMA HeldFacts ==
  ASSUME NEW power \in Samples, NEW start \in Int, NEW end \in Int
  PROVE  /\ IsFiniteSet(HeldOver(power, start, end))
         /\ \A n \in HeldOver(power, start, end) :
              /\ HeldAt(power, n) = {HeldPower(power, start, end)[n]}
              /\ HeldPower(power, start, end)[n] \in Int
PROOF
<1>1. IsFiniteSet(HeldOver(power, start, end))
  <2>1. IsFiniteSet(start .. (end - 1)) /\ HeldOver(power, start, end) \subseteq start .. (end - 1)
    BY FS_Interval DEF HeldOver
  <2>2. QED
    BY <2>1, FS_Subset
<1>2. PICK S : S = Segments(power, start, end)
  OBVIOUS
<1>3. ASSUME NEW n \in HeldOver(power, start, end)
      PROVE  /\ HeldAt(power, n) = {HeldPower(power, start, end)[n]}
             /\ HeldPower(power, start, end)[n] \in Int
  <2>1. PICK s \in S : n \in Units(s)
    BY <1>2, SegmentFacts
  <2>2. HeldAt(power, n) = {s.value} /\ s.value \in Int
    BY <1>2, <2>1, SegmentFacts
  <2>3. HeldPower(power, start, end)[n] = s.value
    BY <2>2, TheOne DEF HeldPower
  <2>4. QED
    BY <2>2, <2>3
<1>4. QED
  BY <1>1, <1>3

(* A sum over some of the segments is the sum over their units.            *)
LEMMA SumsOverUnits ==
  ASSUME NEW power \in Samples, NEW start \in Int, NEW end \in Int,
         NEW R, R \subseteq Segments(power, start, end),
         NEW U, U = UNION {Units(s) : s \in R}
  PROVE  /\ U \subseteq HeldOver(power, start, end) /\ IsFiniteSet(U)
         /\ Covered(R) = Cardinality(U)
         /\ Weighted(R) = SumOver(HeldPower(power, start, end), U)
PROOF
<1>1. PICK S : S = Segments(power, start, end)
  OBVIOUS
<1>2. IsFiniteSet(R)
  BY <1>1, SegmentFacts, FS_Subset
<1>3. \A s \in R : /\ s.from \in Int /\ s.to \in Int /\ s.value \in Int /\ s.from < s.to
                   /\ \A n \in Units(s) : HeldAt(power, n) = {s.value}
  BY <1>1, SegmentFacts
<1>4. \A r, s \in R : r # s => Units(r) \cap Units(s) = {}
  BY <1>1, SegmentFacts
<1>5. U \subseteq HeldOver(power, start, end)
  BY <1>1, SegmentFacts
<1>6. IsFiniteSet(U)
  BY <1>5, HeldFacts, FS_Subset
<1>7. PICK part, length, weight, one, held :
        /\ part = [s \in R |-> Units(s)]
        /\ length = [s \in R |-> Length(s)]
        /\ weight = [s \in R |-> s.value * Length(s)]
        /\ one = [n \in U |-> 1]
        /\ held = HeldPower(power, start, end)
  OBVIOUS
<1>8. ASSUME NEW s \in R
      PROVE  /\ IsFiniteSet(part[s]) /\ part[s] \subseteq U
             /\ length[s] = SumOver(one, part[s])
             /\ weight[s] = SumOver(held, part[s])
  <2>1. PICK u, c, v : u = Units(s) /\ c = Cardinality(u) /\ v = s.value
    OBVIOUS
  <2>2. IsFiniteSet(u) /\ c = Length(s) /\ c \in Int /\ v \in Int
    <3>1. PICK a, b : a = s.from /\ b = s.to - 1
      OBVIOUS
    <3>2. a \in Int /\ b \in Int /\ a <= b /\ v \in Int
      BY <1>3, <2>1, <3>1
    <3>3. u = a .. b /\ Length(s) = b - a + 1
      BY <1>3, <2>1, <3>1 DEF Units, Length
    <3>4. IsFiniteSet(a .. b) /\ Cardinality(a .. b) = b - a + 1
      BY <3>2, FS_Interval
    <3>5. QED
      BY <2>1, <3>2, <3>3, <3>4
  <2>3. u \subseteq U
    BY <2>1
  <2>4. \A n \in u : one[n] = 1
    BY <1>7, <2>3
  <2>5. SumOver(one, u) = c * 1
    <3>1. PICK k \in Int : k = 1
      OBVIOUS
    <3>2. SumOver(one, u) = Cardinality(u) * k
      BY <2>2, <2>4, <3>1, SumOfConstant
    <3>3. QED
      BY <2>1, <3>1, <3>2
  <2>6. \A n \in u : held[n] = v
    <3>1. \A n \in u : HeldAt(power, n) = {v}
      BY <1>3, <2>1
    <3>2. \A n \in u : HeldAt(power, n) = {held[n]}
      BY <1>5, <1>7, <2>3, HeldFacts
    <3>3. QED
      BY <3>1, <3>2
  <2>7. SumOver(held, u) = c * v
    BY <2>1, <2>2, <2>6, SumOfConstant
  <2>8. c * v = v * c /\ c * 1 = c
    BY <2>2
  <2>9. QED
    BY <1>7, <2>1, <2>2, <2>3, <2>5, <2>7, <2>8
<1>9. Parted(U, part, R)
  <2>1. \A x, y \in R : x # y => part[x] \cap part[y] = {}
    BY <1>4, <1>7
  <2>2. U = UNION {part[s] : s \in R}
    BY <1>7
  <2>3. QED
    BY <1>8, <2>1, <2>2 DEF Parted
<1>10. \A n \in U : one[n] = 1 /\ one[n] \in Int /\ held[n] \in Int
  BY <1>5, <1>7, HeldFacts
<1>11. SumsOfParts(one, length, part, R) /\ SumsOfParts(held, weight, part, R)
  BY <1>8, <1>10 DEF SumsOfParts
<1>12. Covered(R) = Cardinality(U)
  <2>1. SumOver(length, R) = SumOver(one, U)
    BY <1>2, <1>9, <1>11, SumByParts
  <2>2. Covered(R) = SumOver(length, R)
    BY <1>2, <1>7, CoveredIsSum
  <2>3. SumOver(one, U) = Cardinality(U) * 1
    BY <1>6, <1>10, SumOfConstant
  <2>4. QED
    BY <1>6, <2>1, <2>2, <2>3, FS_CardinalityType
<1>13. Weighted(R) = SumOver(held, U)
  <2>1. SumOver(weight, R) = SumOver(held, U)
    BY <1>2, <1>9, <1>11, SumByParts
  <2>2. Weighted(R) = SumOver(weight, R)
    BY <1>2, <1>7, WeightedIsSum
  <2>3. QED
    BY <2>1, <2>2
<1>14. QED
  BY <1>5, <1>6, <1>7, <1>12, <1>13

LEMMA AllSegments ==
  ASSUME NEW power \in Samples, NEW start \in Int, NEW end \in Int
  PROVE  /\ Covered(Segments(power, start, end)) = Cardinality(HeldOver(power, start, end))
         /\ Weighted(Segments(power, start, end))
              = SumOver(HeldPower(power, start, end), HeldOver(power, start, end))
         /\ Segments(power, start, end) = {} <=> HeldOver(power, start, end) = {}
PROOF
<1>1. PICK S : S = Segments(power, start, end)
  OBVIOUS
<1>2. UNION {Units(s) : s \in S} = HeldOver(power, start, end)
  BY <1>1, SegmentFacts
<1>3. \A s \in S : Units(s) # {}
  <2>1. \A s \in S : s.from \in Int /\ s.to \in Int /\ s.from < s.to
    BY <1>1, SegmentFacts
  <2>2. \A s \in S : s.from \in Units(s)
    BY <2>1 DEF Units
  <2>3. QED
    BY <2>2
<1>4. S = {} <=> HeldOver(power, start, end) = {}
  BY <1>2, <1>3
<1>5. QED
  BY <1>1, <1>2, <1>4, SumsOverUnits

(* The segments of any samples are apart and cover what is held: the       *)
(* energy is the sum over the units of time of the power that is held in   *)
(* them, the coverage is the number of the units with a value, and the     *)
(* energy is unknown just when nothing is covered (_integrate).            *)
THEOREM IntegralIsPointwise ==
  ASSUME NEW power \in Samples, NEW start \in Int, NEW end \in Int
  PROVE  LET held == HeldOver(power, start, end)
             i == Integral(power, start, end)
         IN /\ i.covered = Cardinality(held)
            /\ i.energy = IF held = {} THEN {} ELSE {EnergyHeld(power, held)}
PROOF
<1>1. PICK held : held = HeldOver(power, start, end)
  OBVIOUS
<1>2. /\ Integral(power, start, end).covered = Cardinality(held)
      /\ Integral(power, start, end).energy =
           IF held = {} THEN {} ELSE {SumOver(HeldPower(power, start, end), held)}
  BY <1>1, AllSegments DEF Integral
<1>3. EnergyHeld(power, held) = SumOver(HeldPower(power, start, end), held)
  <2>1. IsFiniteSet(held)
    BY <1>1, HeldFacts
  <2>2. \A n \in held : HeldPower(power, start, end)[n] = The(HeldAt(power, n))
    BY <1>1 DEF HeldPower
  <2>3. QED
    BY <2>1, <2>2, HeldIsSum
<1>4. QED
  BY <1>1, <1>2, <1>3

(* What comes in less what goes out is the integral, and neither is        *)
(* negative, for any samples (_integrate_signed_split).                    *)
THEOREM SplitIsConsistent ==
  ASSUME NEW power \in Samples, NEW start \in Int, NEW end \in Int
  PROVE  LET split == SignedSplit(power, start, end)
             whole == Integral(power, start, end)
         IN /\ split.covered = whole.covered
            /\ (split.in = {}) = (whole.energy = {}) /\ (split.out = {}) = (whole.energy = {})
            /\ \A e \in whole.energy, gained \in split.in, lost \in split.out :
                 gained \in Nat /\ lost \in Nat /\ gained - lost = e
PROOF
<1>1. PICK S, weight : S = Segments(power, start, end) /\ weight = [s \in S |-> s.value * Length(s)]
  OBVIOUS
<1>2. PICK gained, lost : gained = {s \in S : s.value >= 0} /\ lost = S \ gained
  OBVIOUS
<1>3. IsFiniteSet(S) /\ IsFiniteSet(gained) /\ IsFiniteSet(lost)
  BY <1>1, <1>2, SegmentFacts, FS_Subset
<1>4. ASSUME NEW s \in S
      PROVE  /\ weight[s] \in Int
             /\ s \in gained => 0 <= weight[s]
             /\ s \in lost => weight[s] <= 0
  <2>1. PICK v, c : v = s.value /\ c = Length(s)
    OBVIOUS
  <2>2. v \in Int /\ c \in Nat
    BY <1>1, <2>1, SegmentFacts DEF Length
  <2>3. v * c \in Int /\ (v >= 0 => 0 <= v * c) /\ (v <= 0 => v * c <= 0)
    BY <2>2
  <2>4. (s \in gained => v >= 0) /\ (s \in lost => v <= 0)
    BY <1>2, <2>1, <2>2
  <2>5. QED
    BY <1>1, <2>1, <2>3, <2>4
<1>5. /\ gained \subseteq S /\ lost \subseteq S
      /\ gained \cap lost = {} /\ gained \cup lost = S
  BY <1>2
<1>6. /\ Weighted(S) = SumOver(weight, S)
      /\ Weighted(gained) = SumOver(weight, gained)
      /\ Weighted(lost) = SumOver(weight, lost)
  BY <1>1, <1>3, <1>5, WeightedIsSum
<1>7. SumOver(weight, S) = SumOver(weight, gained) + SumOver(weight, lost)
  BY <1>3, <1>4, <1>5, SumOfUnion
<1>8. SumOver(weight, gained) \in Int /\ 0 <= SumOver(weight, gained)
  <2>1. \A s \in gained : weight[s] \in Int /\ 0 <= weight[s]
    BY <1>4, <1>5
  <2>2. Cardinality(gained) * 0 <= SumOver(weight, gained) /\ SumOver(weight, gained) \in Int
    BY <1>3, <2>1, SumIsBoundedBelow, SumIsInteger
  <2>3. Cardinality(gained) \in Int
    BY <1>3, FS_CardinalityType
  <2>4. QED
    BY <2>2, <2>3
<1>9. SumOver(weight, lost) \in Int /\ SumOver(weight, lost) <= 0
  <2>1. \A s \in lost : weight[s] \in Int /\ weight[s] <= 0
    BY <1>4, <1>5
  <2>2. SumOver(weight, lost) <= Cardinality(lost) * 0 /\ SumOver(weight, lost) \in Int
    BY <1>3, <2>1, SumIsBounded, SumIsInteger
  <2>3. Cardinality(lost) \in Int
    BY <1>3, FS_CardinalityType
  <2>4. QED
    BY <2>2, <2>3
<1>10. PICK split, whole : /\ split = SignedSplit(power, start, end)
                           /\ whole = Integral(power, start, end)
  OBVIOUS
<1>11. /\ split.covered = Covered(S) /\ whole.covered = Covered(S)
       /\ split.in = (IF S = {} THEN {} ELSE {Weighted(gained)})
       /\ split.out = (IF S = {} THEN {} ELSE {-Weighted(lost)})
       /\ whole.energy = (IF S = {} THEN {} ELSE {Weighted(S)})
  BY <1>1, <1>2, <1>10 DEF SignedSplit, Integral
<1>12. ASSUME NEW e \in whole.energy, NEW i \in split.in, NEW o \in split.out
       PROVE  i \in Nat /\ o \in Nat /\ i - o = e
  <2>1. e = Weighted(S) /\ i = Weighted(gained) /\ o = -Weighted(lost)
    BY <1>11
  <2>2. QED
    BY <1>6, <1>7, <1>8, <1>9, <2>1
<1>13. QED
  BY <1>10, <1>11, <1>12

(* The mean lies between the least and the greatest value that was held,   *)
(* and is unknown, not zero, when none was: time that nothing covers does  *)
(* not count (_time_weighted_average).                                     *)
THEOREM AverageIsBetween ==
  ASSUME NEW charge \in Samples, NEW start \in Int, NEW end \in Int
  PROVE  LET mean == Average(charge, start, end)
             values == UNION {HeldAt(charge, n) : n \in start .. (end - 1)}
         IN /\ (mean.weighted = {}) = (values = {})
            /\ \A w \in mean.weighted :
                 mean.covered * Min(values) <= w /\ w <= mean.covered * Max(values)
PROOF
<1>1. PICK held, f, values :
        /\ held = HeldOver(charge, start, end)
        /\ f = HeldPower(charge, start, end)
        /\ values = UNION {HeldAt(charge, n) : n \in start .. (end - 1)}
  OBVIOUS
<1>2. IsFiniteSet(held) /\ \A n \in held : HeldAt(charge, n) = {f[n]} /\ f[n] \in Int
  BY <1>1, HeldFacts
<1>3. values = {f[n] : n \in held}
  <2>1. \A n \in start .. (end - 1) : HeldAt(charge, n) # {} => n \in held
    BY <1>1 DEF HeldOver
  <2>2. \A n \in held : n \in start .. (end - 1)
    BY <1>1 DEF HeldOver
  <2>3. \A v \in values : v \in {f[n] : n \in held}
    BY <1>1, <1>2, <2>1
  <2>4. \A n \in held : f[n] \in values
    BY <1>1, <1>2, <2>2
  <2>5. QED
    BY <2>3, <2>4
<1>4. IsFiniteSet(values) /\ values \subseteq Int
  BY <1>2, <1>3, ImageIsFinite
<1>5. PICK mean : mean = Average(charge, start, end)
  OBVIOUS
<1>6. /\ mean.weighted = (IF held = {} THEN {} ELSE {SumOver(f, held)})
      /\ mean.covered = Cardinality(held)
  BY <1>1, <1>5, AllSegments DEF Average
<1>7. ASSUME held # {}
      PROVE  /\ Cardinality(held) * Min(values) <= SumOver(f, held)
             /\ SumOver(f, held) <= Cardinality(held) * Max(values)
  <2>1. values # {}
    BY <1>3, <1>7
  <2>2. PICK lo, hi : lo = Min(values) /\ hi = Max(values)
    OBVIOUS
  <2>3. lo \in Int /\ hi \in Int /\ \A v \in values : lo <= v /\ v <= hi
    BY <1>4, <2>1, <2>2, SmallestAndLargest
  <2>4. \A n \in held : f[n] \in Int /\ lo <= f[n] /\ f[n] <= hi
    BY <1>2, <1>3, <2>3
  <2>5. Cardinality(held) * lo <= SumOver(f, held) /\ SumOver(f, held) <= Cardinality(held) * hi
    BY <1>2, <2>3, <2>4, SumIsBounded, SumIsBoundedBelow
  <2>6. QED
    BY <2>2, <2>5
<1>8. (mean.weighted = {}) = (values = {})
  BY <1>3, <1>6
<1>9. QED
  BY <1>1, <1>5, <1>6, <1>7, <1>8

(***************************************************************************)
(* Counters                                                                *)
(***************************************************************************)
Comparable(before, after) ==
  /\ after.device = before.device /\ after.at > before.at
  /\ after.reset = before.reset /\ before.trusted /\ after.trusted

(* Two readings of a counter that ran for less than one turn between them  *)
(* give back how far it ran or nothing, whatever its turn: nothing if it   *)
(* was started over, whatever it shows then, and nothing if it passed the  *)
(* end of a turn that is not declared (counter_delta).                     *)
THEOREM CounterDeltaIsAdvance ==
  ASSUME NEW turn \in Nat \ {0}, NEW run \in 0 .. (turn - 1), NEW before, NEW after,
         before.at \in Int, after.at \in Int, before.value \in 0 .. (turn - 1),
         after.reset = before.reset => after.value = (before.value + run) % turn,
         after.rollover = before.rollover, before.rollover \in {{}, {turn}}
  PROVE  /\ CounterDelta(before, after) \subseteq {run}
         /\ ~Comparable(before, after) => CounterDelta(before, after) = {}
         /\ Comparable(before, after) =>
              (CounterDelta(before, after) = {run} <=>
                 before.rollover = {turn} \/ before.value + run < turn)
PROOF
<1>1. PICK v, w : v = before.value /\ w = after.value
  OBVIOUS
<1>2. v \in 0 .. (turn - 1)
  BY <1>1
<1>3. ASSUME Comparable(before, after)
      PROVE  w = IF v + run < turn THEN v + run ELSE v + run - turn
  <2>1. w = (v + run) % turn
    BY <1>1, <1>3 DEF Comparable
  <2>2. QED
    BY <1>2, <2>1
<1>4. Comparable(before, after) => (w >= v <=> v + run < turn)
  BY <1>2, <1>3
<1>5. Comparable(before, after) /\ w >= v => w - v = run
  BY <1>2, <1>3, <1>4
<1>6. Comparable(before, after) /\ ~(w >= v) => w - v + turn = run
  BY <1>2, <1>3, <1>4
<1>7. CounterDelta(before, after) =
        IF ~Comparable(before, after) THEN {}
        ELSE IF w >= v THEN {w - v}
        ELSE IF before.rollover = {turn} THEN {w - v + turn} ELSE {}
  <2>1. ~Comparable(before, after) <=>
          \/ after.device # before.device \/ after.at <= before.at
          \/ after.reset # before.reset \/ ~(before.trusted /\ after.trusted)
    BY DEF Comparable
  <2>2. before.rollover = {turn} => The(after.rollover) = turn
    BY TheOne
  <2>3. before.rollover # {} <=> before.rollover = {turn}
    OBVIOUS
  <2>4. QED
    BY <1>1, <2>1, <2>2, <2>3 DEF CounterDelta
<1>8. QED
  BY <1>1, <1>4, <1>5, <1>6, <1>7

(***************************************************************************)
(* Prices                                                                  *)
(***************************************************************************)
Options(S) == {{}} \cup {{x} : x \in S}
TariffVersions ==
  [fixed : Options(Int), margin : Options(Int), variable : Int, regulated : Int, fee : Nat,
   vat : Options(Nat), direction : {"import", "export"}, disabled : BOOLEAN, supported : BOOLEAN]

LEMMA OptionFacts ==
  ASSUME NEW S, NEW o \in Options(S)
  PROVE  (\A x, y \in o : x = y) /\ (\A x \in o : x \in S /\ o = {x} /\ The(o) = x)
PROOF
<1>1. CASE o = {}
  BY <1>1
<1>2. ASSUME NEW x \in S, o = {x}
      PROVE  (\A y, z \in o : y = z) /\ (\A y \in o : y \in S /\ o = {y} /\ The(o) = y)
  BY <1>2, TheOne
<1>3. QED
  BY <1>1, <1>2 DEF Options

(* An hour without a market price has no indexed price, an hour with one   *)
(* follows it with VAT, and a fixed price ignores it; what a version       *)
(* charges for the network never reaches the price of exported energy, and *)
(* an invoice is never less than its energy (compute_effective_price and   *)
(* build_invoice_preview).  For any amounts.                               *)
THEOREM PriceFollowsMarket ==
  ASSUME NEW v \in TariffVersions, NEW market \in Options(Int), NEW other \in Options(Int)
  PROVE  LET p == EffectivePrice(v, market)
             q == EffectivePrice(v, other)
             rate == 100 + (IF v.vat = {} THEN 0 ELSE The(v.vat))
         IN /\ p \in Options(Int)
            /\ p # {} => ~v.disabled /\ v.supported /\ (v.fixed # {} \/ (v.margin # {} /\ market # {}))
            /\ v.fixed # {} => p = q
            /\ v.direction = "export" =>
                 \A n \in Int : p = EffectivePrice([v EXCEPT !.regulated = n], market)
            /\ v.fixed = {} => \A x \in p, y \in q, m \in market, o \in other :
                 x - y = (m - o) * rate
            /\ \A x \in p, n \in Nat : \A total \in InvoicePreview(v, market, n) : total >= n * x
PROOF
<1>1. PICK rate : rate = IF v.vat = {} THEN 100 ELSE 100 + The(v.vat)
  OBVIOUS
<1>2. /\ v.fixed \in Options(Int) /\ v.margin \in Options(Int) /\ v.vat \in Options(Nat)
      /\ v.variable \in Int /\ v.regulated \in Int /\ v.fee \in Nat
  BY DEF TariffVersions
<1>3. rate \in Nat /\ rate = 100 + (IF v.vat = {} THEN 0 ELSE The(v.vat))
  <2>1. CASE v.vat = {}
    BY <1>1, <2>1
  <2>2. CASE v.vat # {}
    <3>1. PICK x : x \in v.vat
      BY <2>2
    <3>2. x \in Nat /\ The(v.vat) = x
      BY <1>2, <3>1, OptionFacts
    <3>3. QED
      BY <1>1, <2>2, <3>2
  <2>3. QED
    BY <2>1, <2>2
<1> DEFINE Energy(m) == IF v.fixed # {} THEN v.fixed ELSE {a + b : a \in v.margin, b \in m}
           network == IF v.direction = "export" THEN 0 ELSE v.regulated
           Price(e) == (e + v.variable + network) * rate
<1>4. \A m : EffectivePrice(v, m) =
        IF v.disabled \/ ~v.supported THEN {} ELSE {Price(e) : e \in Energy(m)}
  BY <1>1 DEF EffectivePrice
<1>5. ASSUME NEW m \in Options(Int)
      PROVE  /\ Energy(m) \in Options(Int)
             /\ Energy(m) # {} => v.fixed # {} \/ (v.margin # {} /\ m # {})
             /\ v.fixed = {} => \A e \in Energy(m), b \in m : e - b \in v.margin
             /\ v.fixed # {} => Energy(m) = v.fixed
  <2>1. CASE v.fixed # {}
    BY <1>2, <2>1
  <2>2. CASE v.fixed = {} /\ (v.margin = {} \/ m = {})
    BY <2>2 DEF Options
  <2>3. CASE v.fixed = {} /\ v.margin # {} /\ m # {}
    <3>1. PICK a, b : a \in v.margin /\ b \in m
      BY <2>3
    <3>2. a \in Int /\ b \in Int /\ v.margin = {a} /\ m = {b}
      BY <1>2, <3>1, OptionFacts
    <3>3. Energy(m) = {a + b} /\ a + b \in Int
      BY <2>3, <3>2
    <3>4. (a + b) - b = a
      BY <3>2
    <3>5. QED
      BY <2>3, <3>2, <3>3, <3>4 DEF Options
  <2> HIDE DEF Energy
  <2>4. CASE v.fixed = {}
    BY <2>2, <2>3, <2>4
  <2>5. QED
    BY <2>1, <2>4
<1>6. PICK p, q : p = EffectivePrice(v, market) /\ q = EffectivePrice(v, other)
  OBVIOUS
<1>7. network \in Int
  BY <1>2
<1>8. \A e \in Int : Price(e) \in Int
  BY <1>2, <1>3, <1>7
<1> HIDE DEF Energy, Price, network
<1>9. p \in Options(Int)
  <2>1. CASE p = {}
    BY <2>1 DEF Options
  <2>2. CASE p # {}
    <3>1. PICK e \in Energy(market) : TRUE
      BY <1>4, <1>6, <2>2
    <3>2. Energy(market) = {e} /\ e \in Int
      BY <1>5, OptionFacts
    <3>3. p = {Price(e)}
      BY <1>4, <1>6, <2>2, <3>2
    <3>4. QED
      BY <1>8, <3>2, <3>3 DEF Options
  <2>3. QED
    BY <2>1, <2>2
<1>10. p # {} => ~v.disabled /\ v.supported /\ (v.fixed # {} \/ (v.margin # {} /\ market # {}))
  BY <1>4, <1>5, <1>6
<1>11. v.fixed # {} => p = q
  BY <1>4, <1>5, <1>6
<1>12. ASSUME v.direction = "export", NEW n \in Int
       PROVE  p = EffectivePrice([v EXCEPT !.regulated = n], market)
  <2>1. PICK u : u = [v EXCEPT !.regulated = n]
    OBVIOUS
  <2>2. /\ u.fixed = v.fixed /\ u.margin = v.margin /\ u.vat = v.vat /\ u.variable = v.variable
        /\ u.direction = v.direction /\ u.disabled = v.disabled /\ u.supported = v.supported
    BY <2>1 DEF TariffVersions
  <2>3. EffectivePrice(u, market) = EffectivePrice(v, market)
    BY <1>12, <2>2 DEF EffectivePrice
  <2>4. QED
    BY <1>6, <2>1, <2>3
<1>13. ASSUME v.fixed = {}, NEW x \in p, NEW y \in q, NEW m \in market, NEW o \in other
       PROVE  x - y = (m - o) * rate
  <2>1. PICK e \in Energy(market), f \in Energy(other) : x = Price(e) /\ y = Price(f)
    BY <1>4, <1>6
  <2>2. e \in Int /\ f \in Int /\ m \in Int /\ o \in Int
    BY <1>5, OptionFacts
  <2>3. e - m \in v.margin /\ f - o \in v.margin
    BY <1>5, <1>13
  <2>4. e - m = f - o
    BY <1>2, <2>3, OptionFacts
  <2>5. PICK c \in Int : c = v.variable + network
    BY <1>2, <1>7
  <2>6. x = (e + c) * rate /\ y = (f + c) * rate
    <3>1. e + v.variable + network = e + c /\ f + v.variable + network = f + c
      BY <1>2, <1>7, <2>2, <2>5
    <3>2. QED
      BY <2>1, <3>1 DEF Price
  <2>7. e = f + (m - o)
    BY <2>2, <2>4
  <2>8. PICK g, d \in Int : g = f + c /\ d = m - o
    BY <2>2, <2>5
  <2>9. x = (g + d) * rate /\ y = g * rate
    BY <2>2, <2>6, <2>7, <2>8
  <2>10. (g + d) * rate = g * rate + d * rate /\ g * rate \in Int /\ d * rate \in Int
    BY <1>3, <2>8, Distribution
  <2>11. QED
    BY <2>8, <2>9, <2>10
<1>14. ASSUME NEW x \in p, NEW n \in Nat, NEW total \in InvoicePreview(v, market, n)
       PROVE  total >= n * x
  <2>1. total \in {n * price + v.fee * rate : price \in p}
    BY <1>1, <1>6 DEF InvoicePreview
  <2>2. x \in Int /\ p = {x}
    BY <1>9, OptionFacts
  <2>3. total = n * x + v.fee * rate
    BY <2>1, <2>2
  <2>4. v.fee * rate \in Nat /\ n * x \in Int
    BY <1>2, <1>3, <2>2
  <2>5. QED
    BY <2>3, <2>4
<1>15. QED
  BY <1>3, <1>6, <1>9, <1>10, <1>11, <1>12, <1>13, <1>14

(***************************************************************************)
(* The parts of a segment: each is a stretch at one price, they are apart, *)
(* and just one of them ends where the segment ends.                       *)
(***************************************************************************)
LEMMA PartFacts ==
  ASSUME NEW edges \in SUBSET Int, IsFiniteSet(edges), NEW price,
         NEW start \in Int, NEW end \in Int, start < end,
         NEW parts, parts = PriceParts(edges, price, start, end)
  PROVE  /\ IsFiniteSet(parts)
         /\ \A p \in parts : /\ p.from \in Int /\ p.to \in Int
                             /\ start <= p.from /\ p.from < p.to /\ p.to <= end
         /\ \A p, q \in parts : p # q => Units(p) \cap Units(q) = {}
         /\ \E p \in parts : p.to = end /\ \A q \in parts : q.to = end => q = p
PROOF
<1>1. PICK cuts : cuts = {start, end} \cup {t \in edges : start < t /\ t < end}
  OBVIOUS
<1>2. start \in cuts /\ end \in cuts /\ \A t \in cuts : t \in Int /\ start <= t /\ t <= end
  BY <1>1
<1>3. IsFiniteSet(cuts)
  <2>1. IsFiniteSet({start}) /\ IsFiniteSet({end})
    BY FS_Singleton
  <2>2. IsFiniteSet({t \in edges : start < t /\ t < end})
    BY FS_Subset
  <2>3. IsFiniteSet({start} \cup {end})
    BY <2>1, FS_Union
  <2>4. IsFiniteSet(({start} \cup {end}) \cup {t \in edges : start < t /\ t < end})
    BY <2>2, <2>3, FS_Union
  <2>5. cuts = ({start} \cup {end}) \cup {t \in edges : start < t /\ t < end}
    BY <1>1
  <2>6. QED
    BY <2>4, <2>5
<1> DEFINE next(t) == Min({u \in cuts : u > t})
           part(t) == [from |-> t, to |-> next(t), value |-> price[t]]
<1>4. parts = {part(t) : t \in cuts \ {end}}
  BY <1>1 DEF PriceParts
<1>5. ASSUME NEW t \in cuts \ {end}
      PROVE  next(t) \in cuts /\ t < next(t) /\ \A u \in cuts : u > t => next(t) <= u
  <2>1. PICK later : later = {u \in cuts : u > t}
    OBVIOUS
  <2>2. IsFiniteSet(later) /\ end \in later /\ later \subseteq Int
    <3>1. later \subseteq cuts /\ later \subseteq Int
      BY <1>2, <2>1
    <3>2. IsFiniteSet(later)
      BY <1>3, <3>1, FS_Subset
    <3>3. t \in Int /\ t <= end /\ t # end
      BY <1>2
    <3>4. QED
      BY <1>2, <2>1, <3>1, <3>2, <3>3
  <2>3. Min(later) \in later /\ \A u \in later : Min(later) <= u
    BY <2>2, SmallestAndLargest
  <2>4. QED
    BY <2>1, <2>3
<1> HIDE DEF next
<1>6. IsFiniteSet(parts)
  <2>1. PICK f : f = [t \in cuts \ {end} |-> part(t)]
    OBVIOUS
  <2>2. IsFiniteSet(cuts \ {end})
    BY <1>3, FS_Subset
  <2>3. IsFiniteSet({f[t] : t \in cuts \ {end}})
    BY <2>2, ImageIsFinite
  <2>4. parts = {f[t] : t \in cuts \ {end}}
    BY <1>4, <2>1
  <2>5. QED
    BY <2>3, <2>4
<1>7. ASSUME NEW p \in parts
      PROVE  /\ p.from \in cuts \ {end} /\ p = part(p.from) /\ p.to = next(p.from)
             /\ p.from \in Int /\ p.to \in Int
             /\ start <= p.from /\ p.from < p.to /\ p.to <= end
  <2>1. PICK t \in cuts \ {end} : p = part(t)
    BY <1>4
  <2>2. p.from = t /\ p.to = next(t)
    BY <2>1
  <2>3. QED
    BY <1>2, <1>5, <2>1, <2>2
<1>8. ASSUME NEW p \in parts, NEW q \in parts, p # q
      PROVE  p.to <= q.from \/ q.to <= p.from
  <2>1. p.from # q.from
    BY <1>7, <1>8
  <2>2. p.from \in Int /\ q.from \in Int
    BY <1>7
  <2>3. CASE p.from < q.from
    BY <1>5, <1>7, <2>3
  <2>4. CASE q.from < p.from
    BY <1>5, <1>7, <2>4
  <2>5. QED
    BY <2>1, <2>2, <2>3, <2>4
<1>9. ASSUME NEW p \in parts, NEW q \in parts, p # q PROVE Units(p) \cap Units(q) = {}
  <2>1. p.from \in Int /\ p.to \in Int /\ q.from \in Int /\ q.to \in Int
    BY <1>7
  <2>2. QED
    BY <1>8, <1>9, <2>1 DEF Units
<1>10. \E p \in parts : p.to = end /\ \A q \in parts : q.to = end => q = p
  <2>1. PICK before : before = cuts \ {end}
    OBVIOUS
  <2>2. start \in before /\ before \subseteq Int /\ IsFiniteSet(before)
    BY <1>2, <1>3, <2>1, FS_Subset
  <2>3. PICK t : t = Max(before)
    OBVIOUS
  <2>4. t \in before /\ \A u \in before : u <= t
    BY <2>2, <2>3, SmallestAndLargest
  <2>5. PICK p : p = part(t)
    OBVIOUS
  <2>6. p \in parts /\ p.from = t
    BY <1>4, <2>1, <2>4, <2>5
  <2>7. p.to = end
    <3>1. p.to \in cuts /\ t < p.to
      BY <1>5, <1>7, <2>6
    <3>2. p.to \notin before
      BY <1>7, <2>2, <2>4, <2>6, <3>1
    <3>3. QED
      BY <2>1, <3>1, <3>2
  <2>8. ASSUME NEW q \in parts, q.to = end PROVE q = p
    <3>1. q.from < end /\ p.from < end /\ q.from \in Int /\ p.from \in Int
      BY <1>7, <2>6, <2>7, <2>8
    <3>2. QED
      BY <1>8, <2>6, <2>7, <2>8, <3>1
  <2>9. QED
    BY <2>6, <2>7, <2>8
<1>11. QED
  BY <1>6, <1>7, <1>9, <1>10

Share(segment, p) == (The(segment.energy) * Length(p)) \div (segment.end - segment.start)

SumOfShares(segment, S) ==
  MapThenSumSet(
    LAMBDA p : (The(segment.energy) * Length(p)) \div (segment.end - segment.start), S)
SumOfPortions(segment, parts, S) == MapThenSumSet(LAMBDA p : Portion(segment, p, parts), S)
SumOfCosts(segment, parts, S) ==
  MapThenSumSet(LAMBDA p : Portion(segment, p, parts) * The(p.value), S)

LEMMA PortionIs ==
  ASSUME NEW segment, NEW part, NEW parts
  PROVE  Portion(segment, part, parts) =
           IF part.to = segment.end
           THEN The(segment.energy) - SumOfShares(segment, parts \ {part}) ELSE Share(segment, part)
PROOF BY DEF Portion, SumOfShares, Share, MapThenSumSet, MapThenFoldSet

Priced(parts) == {p \in parts : p.value # {}}

LEMMA CostIs ==
  ASSUME NEW edges, NEW price, NEW segment,
         NEW parts, parts = PriceParts(edges, price, segment.start, segment.end)
  PROVE  /\ CostOfOne(edges, price, segment).cost = SumOfCosts(segment, parts, Priced(parts))
         /\ CostOfOne(edges, price, segment).priced = SumOfPortions(segment, parts, Priced(parts))
PROOF
<1> DEFINE all == PriceParts(edges, price, segment.start, segment.end)
<1>1. CostOfOne(edges, price, segment).cost = SumOfCosts(segment, all, Priced(all))
  BY DEF CostOfOne, SumOfCosts, Priced
<1>2. CostOfOne(edges, price, segment).priced = SumOfPortions(segment, all, Priced(all))
  BY DEF CostOfOne, SumOfPortions, Priced
<1>3. QED
  BY <1>1, <1>2

LEMMA SharesAreSum ==
  ASSUME NEW segment, NEW S, IsFiniteSet(S), NEW f, \A p \in S : f[p] = Share(segment, p)
  PROVE  SumOfShares(segment, S) = SumOver(f, S)
PROOF
<1> DEFINE Recursion(h) == h = [s \in SUBSET S |->
             IF s = {} THEN 0
             ELSE Share(segment, First(s)) + h[s \ {First(s)}]]
           fold == CHOOSE h : Recursion(h)
<1>1. SumOfShares(segment, S) = fold[S]
  BY DEF SumOfShares, Share, MapThenSumSet, MapThenFoldSet, First
<1>2. \A s \in SUBSET S : s # {} => f[First(s)] = Share(segment, First(s))
  BY DEF First
<1>3. \A h : SummedOver(f, SUBSET S, h) <=> Recursion(h)
  BY <1>2 DEF SummedOver
<1>4. \E h : Recursion(h)
  BY <1>3, SumsExist
<1>5. Recursion(fold)
  BY <1>4
<1> HIDE DEF Recursion, fold
<1>6. SummedOver(f, SUBSET S, fold)
  BY <1>3, <1>5
<1>7. QED
  BY <1>1, <1>6, SumsAreUnique

LEMMA PortionsAreSum ==
  ASSUME NEW segment, NEW parts, NEW S, IsFiniteSet(S),
         NEW f, \A p \in S : f[p] = Portion(segment, p, parts)
  PROVE  SumOfPortions(segment, parts, S) = SumOver(f, S)
PROOF
<1> DEFINE Recursion(h) == h = [s \in SUBSET S |->
             IF s = {} THEN 0 ELSE Portion(segment, First(s), parts) + h[s \ {First(s)}]]
           fold == CHOOSE h : Recursion(h)
<1>1. SumOfPortions(segment, parts, S) = fold[S]
  BY DEF SumOfPortions, MapThenSumSet, MapThenFoldSet, First
<1>2. \A s \in SUBSET S : s # {} => f[First(s)] = Portion(segment, First(s), parts)
  BY DEF First
<1>3. \A h : SummedOver(f, SUBSET S, h) <=> Recursion(h)
  BY <1>2 DEF SummedOver
<1>4. \E h : Recursion(h)
  BY <1>3, SumsExist
<1>5. Recursion(fold)
  BY <1>4
<1> HIDE DEF Recursion, fold
<1>6. SummedOver(f, SUBSET S, fold)
  BY <1>3, <1>5
<1>7. QED
  BY <1>1, <1>6, SumsAreUnique

LEMMA CostIsSum ==
  ASSUME NEW segment, NEW parts, NEW S, IsFiniteSet(S),
         NEW f, \A p \in S : f[p] = Portion(segment, p, parts) * The(p.value)
  PROVE  SumOfCosts(segment, parts, S) = SumOver(f, S)
PROOF
<1> DEFINE Recursion(h) == h = [s \in SUBSET S |->
             IF s = {} THEN 0
             ELSE Portion(segment, First(s), parts) * The(First(s).value) + h[s \ {First(s)}]]
           fold == CHOOSE h : Recursion(h)
<1>1. SumOfCosts(segment, parts, S) = fold[S]
  BY DEF SumOfCosts, MapThenSumSet, MapThenFoldSet, First
<1>2. \A s \in SUBSET S : s # {} =>
        f[First(s)] = Portion(segment, First(s), parts) * The(First(s).value)
  BY DEF First
<1>3. \A h : SummedOver(f, SUBSET S, h) <=> Recursion(h)
  BY <1>2 DEF SummedOver
<1>4. \E h : Recursion(h)
  BY <1>3, SumsExist
<1>5. Recursion(fold)
  BY <1>4
<1> HIDE DEF Recursion, fold
<1>6. SummedOver(f, SUBSET S, fold)
  BY <1>3, <1>5
<1>7. QED
  BY <1>1, <1>6, SumsAreUnique

(* The lengths of parts that are apart add up to no more than what they    *)
(* are parts of.                                                           *)
LEMMA LengthsFit ==
  ASSUME NEW R, IsFiniteSet(R), NEW start \in Int, NEW end \in Int, start < end,
         \A p \in R : /\ p.from \in Int /\ p.to \in Int
                      /\ start <= p.from /\ p.from < p.to /\ p.to <= end,
         \A p, q \in R : p # q => Units(p) \cap Units(q) = {},
         NEW length, \A p \in R : length[p] = Length(p)
  PROVE  SumOver(length, R) <= end - start
PROOF
<1>1. PICK part, whole, one : /\ part = [p \in R |-> Units(p)]
                              /\ whole = start .. (end - 1)
                              /\ one = [n \in whole |-> 1]
  OBVIOUS
<1>2. IsFiniteSet(whole) /\ Cardinality(whole) = end - start
  BY <1>1, FS_Interval
<1>3. ASSUME NEW p \in R
      PROVE  part[p] \subseteq whole /\ IsFiniteSet(part[p]) /\ length[p] = SumOver(one, part[p])
  <2>1. PICK a, b : a = p.from /\ b = p.to - 1
    OBVIOUS
  <2>2. a \in Int /\ b \in Int /\ a <= b /\ start <= a /\ b <= end - 1
    BY <2>1
  <2>3. part[p] = a .. b /\ Length(p) = b - a + 1
    BY <1>1, <2>1 DEF Units, Length
  <2>4. PICK u : u = a .. b
    OBVIOUS
  <2>5. IsFiniteSet(u) /\ Cardinality(u) = b - a + 1 /\ u \subseteq whole
    BY <1>1, <2>2, <2>4, FS_Interval
  <2>6. PICK k \in Int : k = 1
    OBVIOUS
  <2>7. \A n \in u : one[n] = k
    BY <1>1, <2>5, <2>6
  <2>8. SumOver(one, u) = Cardinality(u) * k
    BY <2>5, <2>7, SumOfConstant
  <2>9. SumOver(one, u) = b - a + 1
    BY <2>2, <2>5, <2>6, <2>8
  <2>10. QED
    BY <2>3, <2>4, <2>5, <2>9
<1>4. PICK all : all = UNION {part[x] : x \in R}
  OBVIOUS
<1>5. all \subseteq whole
  BY <1>3, <1>4
<1>6. SumOver(length, R) = SumOver(one, all)
  <2>1. \A x, y \in R : x # y => part[x] \cap part[y] = {}
    BY <1>1
  <2>2. Parted(all, part, R)
    BY <1>3, <1>4, <2>1 DEF Parted
  <2>3. SumsOfParts(one, length, part, R)
    <3>1. \A n \in whole : one[n] \in Int
      BY <1>1
    <3>2. QED
      BY <1>3, <3>1 DEF SumsOfParts
  <2>4. QED
    BY <2>2, <2>3, SumByParts
<1>7. SumOver(one, all) <= SumOver(one, whole)
  <2>1. \A n \in whole : one[n] \in Nat
    BY <1>1
  <2>2. QED
    BY <1>2, <1>5, <2>1, SumGrows
<1>8. SumOver(one, whole) = end - start
  <2>1. PICK k \in Int : k = 1
    OBVIOUS
  <2>2. \A n \in whole : one[n] = k
    BY <1>1, <2>1
  <2>3. SumOver(one, whole) = Cardinality(whole) * k
    BY <1>2, <2>2, SumOfConstant
  <2>4. QED
    BY <1>2, <2>1, <2>3
<1>9. QED
  BY <1>6, <1>7, <1>8

LEMMA ShareFacts ==
  ASSUME NEW energy \in Nat, NEW width \in Nat \ {0}, NEW length \in Nat
  PROVE  /\ (energy * length) \div width \in Nat
         /\ width * ((energy * length) \div width) <= energy * length
         /\ energy * length \in Int
PROOF
<1>1. PICK product \in Nat : product = energy * length
  OBVIOUS
<1>2. product \div width \in Nat /\ width * (product \div width) <= product
  OBVIOUS
<1>3. QED
  BY <1>1, <1>2

LEMMA Cancel ==
  ASSUME NEW a \in Int, NEW b \in Int, NEW c \in Nat \ {0}, c * a <= c * b
  PROVE  a <= b
PROOF OBVIOUS

LEMMA Scaled ==
  ASSUME NEW a \in Int, NEW b \in Int, NEW c \in Nat, a <= b
  PROVE  c * a <= c * b
PROOF OBVIOUS

(* The portions of a segment: rounding loses no energy, and the last part, *)
(* which takes what the others leave, is not left less than nothing.       *)
LEMMA PortionFacts ==
  ASSUME NEW edges \in SUBSET Int, IsFiniteSet(edges), NEW price,
         NEW segment, NEW start \in Int, NEW end \in Int, NEW energy \in Nat,
         segment.start = start, segment.end = end, segment.energy = {energy}, start < end,
         NEW parts, parts = PriceParts(edges, price, start, end),
         NEW portion, portion = [p \in parts |-> Portion(segment, p, parts)]
  PROVE  /\ IsFiniteSet(parts) /\ \A p \in parts : portion[p] \in Nat
         /\ SumOver(portion, parts) = energy
PROOF
<1>1. PICK width : width = end - start
  OBVIOUS
<1>2. width \in Nat \ {0}
  BY <1>1
<1>3. IsFiniteSet(parts)
  BY PartFacts
<1>4. PICK last \in parts : last.to = end /\ \A q \in parts : q.to = end => q = last
  BY PartFacts
<1>5. PICK others, length, share, product :
        /\ others = parts \ {last}
        /\ length = [p \in parts |-> Length(p)]
        /\ share = [p \in parts |-> (energy * Length(p)) \div width]
        /\ product = [p \in parts |-> energy * length[p]]
  OBVIOUS
<1>6. ASSUME NEW p \in parts
      PROVE  /\ length[p] \in Nat /\ share[p] \in Nat /\ product[p] \in Int
             /\ width * share[p] <= product[p]
  <2>1. p.from \in Int /\ p.to \in Int /\ p.from < p.to
    BY PartFacts
  <2>2. Length(p) \in Nat /\ length[p] = Length(p)
    BY <1>5, <2>1 DEF Length
  <2>3. QED
    BY <1>2, <1>5, <2>2, ShareFacts
<1>7. IsFiniteSet(others) /\ others \subseteq parts
  BY <1>3, <1>5, FS_Subset
<1>8. ASSUME NEW p \in others PROVE portion[p] = share[p]
  <2>1. p \in parts /\ p.to # end
    BY <1>4, <1>5
  <2>2. Portion(segment, p, parts) = (energy * Length(p)) \div width
    BY <1>1, <2>1, TheOne, PortionIs DEF Share
  <2>3. QED
    BY <1>5, <2>1, <2>2
<1>9. portion[last] = energy - SumOver(share, others)
  <2>1. Portion(segment, last, parts) = energy - SumOfShares(segment, others)
    BY <1>4, <1>5, TheOne, PortionIs
  <2>2. \A p \in others : share[p] = Share(segment, p)
    BY <1>1, <1>5, <1>7, TheOne DEF Share
  <2>3. SumOfShares(segment, others) = SumOver(share, others)
    BY <1>7, <2>2, SharesAreSum
  <2>4. QED
    BY <2>1, <2>3
<1>10. SumOver(share, others) \in Nat /\ SumOver(share, others) <= energy
  <2>1. (\A p \in others : share[p] \in Nat) /\ (\A p \in others : length[p] \in Nat)
    BY <1>6, <1>7
  <2>2. PICK all, span : all = SumOver(share, others) /\ span = SumOver(length, others)
    OBVIOUS
  <2>3. all \in Nat /\ span \in Nat
    BY <1>7, <2>1, <2>2, SumIsNatural
  <2>4. PICK scaled : scaled = [p \in others |-> width * share[p]]
    OBVIOUS
  <2>5. \A p \in others : scaled[p] = width * share[p] /\ share[p] \in Int
    BY <2>1, <2>4
  <2>6. SumOver(scaled, others) = width * all
    BY <1>2, <1>7, <2>2, <2>5, SumOfMultiples
  <2>7. \A p \in others : product[p] = energy * length[p] /\ length[p] \in Int
    BY <1>5, <1>7, <2>1
  <2>8. SumOver(product, others) = energy * span
    BY <1>7, <2>2, <2>7, SumOfMultiples
  <2>9. SumOver(scaled, others) <= SumOver(product, others)
    <3>1. ASSUME NEW p \in others
          PROVE  scaled[p] \in Int /\ product[p] \in Int /\ scaled[p] <= product[p]
      <4>1. p \in parts /\ scaled[p] = width * share[p]
        BY <1>7, <2>4
      <4>2. share[p] \in Nat /\ product[p] \in Int /\ width * share[p] <= product[p]
        BY <1>6, <4>1
      <4>3. width * share[p] \in Int
        BY <1>2, <4>2
      <4>4. QED
        BY <4>1, <4>2, <4>3
    <3>2. QED
      BY <1>7, <3>1, SumCompares
  <2>10. span <= width
    <3>1. /\ \A p \in others : /\ p.from \in Int /\ p.to \in Int
                               /\ start <= p.from /\ p.from < p.to /\ p.to <= end
          /\ \A p, q \in others : p # q => Units(p) \cap Units(q) = {}
          /\ \A p \in others : length[p] = Length(p)
      BY <1>5, <1>7, PartFacts
    <3>2. QED
      BY <1>1, <1>7, <2>2, <3>1, LengthsFit
  <2>11. energy * span <= energy * width
    BY <1>2, <2>3, <2>10, Scaled
  <2>12. width * all <= width * energy
    <3>1. width * all <= energy * span
      BY <2>6, <2>8, <2>9
    <3>2. /\ width * all \in Int /\ energy * span \in Int /\ energy * width \in Int
          /\ energy * width = width * energy
      BY <1>2, <2>3
    <3>3. QED
      BY <2>11, <3>1, <3>2
  <2>13. all <= energy
    BY <1>2, <2>3, <2>12, Cancel
  <2>14. QED
    BY <2>2, <2>3, <2>13
<1>11. ASSUME NEW p \in parts PROVE portion[p] \in Nat
  <2>1. CASE p = last
    BY <1>9, <1>10, <2>1
  <2>2. CASE p # last
    BY <1>5, <1>6, <1>8, <2>2
  <2>3. QED
    BY <2>1, <2>2
<1>12. SumOver(portion, parts) = energy
  <2>1. \A p \in parts : portion[p] \in Int
    BY <1>11
  <2>2. SumOver(portion, parts) = portion[last] + SumOver(portion, others)
    BY <1>3, <1>5, <2>1, SumWithout
  <2>3. \A p \in others : portion[p] \in Int /\ portion[p] = share[p]
    BY <1>7, <1>8, <2>1
  <2>4. SumOver(portion, others) = SumOver(share, others)
    BY <1>7, <2>3, SumsAgree
  <2>5. QED
    BY <1>9, <1>10, <2>2, <2>4
<1>13. QED
  BY <1>3, <1>11, <1>12

(* At one price all along, a segment costs that price.                     *)
LEMMA AtOnePrice ==
  ASSUME NEW edges \in SUBSET Int, IsFiniteSet(edges), NEW price,
         NEW segment, NEW start \in Int, NEW end \in Int, NEW energy \in Nat,
         segment.start = start, segment.end = end, segment.energy = {energy}, start < end,
         NEW parts, parts = PriceParts(edges, price, start, end),
         NEW k \in Int, \A p \in parts : p.value = {k}
  PROVE  CostOfOne(edges, price, segment).cost = k * energy
PROOF
<1>1. PICK portion : portion = [p \in parts |-> Portion(segment, p, parts)]
  OBVIOUS
<1>2. /\ IsFiniteSet(parts) /\ \A p \in parts : portion[p] \in Nat
      /\ SumOver(portion, parts) = energy
  BY <1>1, PortionFacts
<1>3. PICK cost : cost = [p \in parts |-> Portion(segment, p, parts) * The(p.value)]
  OBVIOUS
<1>4. ASSUME NEW p \in parts PROVE portion[p] \in Int /\ cost[p] = k * portion[p]
  <2>1. portion[p] \in Int /\ portion[p] = Portion(segment, p, parts)
    BY <1>1, <1>2
  <2>2. The(p.value) = k
    BY TheOne
  <2>3. cost[p] = portion[p] * k
    BY <1>3, <2>1, <2>2
  <2>4. QED
    BY <2>1, <2>3
<1>5. SumOver(cost, parts) = k * SumOver(portion, parts)
  <2>1. IsFiniteSet(parts)
    BY <1>2
  <2>2. \A p \in parts : portion[p] \in Int /\ cost[p] = k * portion[p]
    BY <1>4
  <2>3. QED
    BY <2>1, <2>2, SumOfMultiples
<1>6. Priced(parts) = parts
  BY DEF Priced
<1>7. CostOfOne(edges, price, segment).cost = SumOfCosts(segment, parts, parts)
  <2>1. parts = PriceParts(edges, price, segment.start, segment.end)
    OBVIOUS
  <2>2. QED
    BY <1>6, <2>1, CostIs
<1>8. SumOfCosts(segment, parts, parts) = SumOver(cost, parts)
  BY <1>3, <1>2, CostIsSum
<1>9. QED
  BY <1>2, <1>5, <1>7, <1>8

(* Rounding loses no energy, for any energy, any prices and any instants   *)
(* at which they change: the portions of a segment are never negative and  *)
(* add up to its energy, so that what is priced never exceeds it and is    *)
(* all of it when every part has a price; and at one price all along, the  *)
(* segment costs that price (the last portion of cost_segments).           *)
THEOREM PortionsAddUp ==
  ASSUME NEW edges \in SUBSET Int, IsFiniteSet(edges), NEW price,
         NEW segment, NEW start \in Int, NEW end \in Int, NEW energy \in Nat,
         segment.start = start, segment.end = end, segment.energy = {energy}, start < end
  PROVE  LET parts == PriceParts(edges, price, start, end)
             c == CostOfOne(edges, price, segment)
         IN /\ SumOfPortions(segment, parts, parts) = energy
            /\ \A p \in parts : Portion(segment, p, parts) \in Nat
            /\ c.priced \in 0 .. energy
            /\ (\A p \in parts : p.value # {}) => c.priced = energy
            /\ \A k \in Int : (\A p \in parts : p.value = {k}) => c.cost = k * energy
PROOF
<1>1. PICK parts, portion, c : /\ parts = PriceParts(edges, price, start, end)
                               /\ portion = [p \in parts |-> Portion(segment, p, parts)]
                               /\ c = CostOfOne(edges, price, segment)
  OBVIOUS
<1>2. /\ IsFiniteSet(parts) /\ \A p \in parts : portion[p] \in Nat
      /\ SumOver(portion, parts) = energy
  BY <1>1, PortionFacts
<1>3. PICK priced : priced = Priced(parts)
  OBVIOUS
<1>4. priced \subseteq parts /\ IsFiniteSet(priced)
  <2>1. priced \subseteq parts
    BY <1>3 DEF Priced
  <2>2. QED
    BY <1>2, <2>1, FS_Subset
<1>5. c.cost = SumOfCosts(segment, parts, priced) /\ c.priced = SumOfPortions(segment, parts, priced)
  <2>1. parts = PriceParts(edges, price, segment.start, segment.end)
    BY <1>1
  <2>2. QED
    BY <1>1, <1>3, <2>1, CostIs
<1>6. SumOfPortions(segment, parts, parts) = SumOver(portion, parts)
  BY <1>1, <1>2, PortionsAreSum
<1>7. c.priced = SumOver(portion, priced)
  <2>1. \A p \in priced : portion[p] = Portion(segment, p, parts)
    BY <1>1, <1>4
  <2>2. QED
    BY <1>4, <1>5, <2>1, PortionsAreSum
<1>8. c.priced \in 0 .. energy
  <2>1. SumOver(portion, priced) <= SumOver(portion, parts)
    BY <1>2, <1>4, SumGrows
  <2>2. SumOver(portion, priced) \in Nat
    BY <1>2, <1>4, SumIsNatural
  <2>3. QED
    BY <1>2, <1>7, <2>1, <2>2
<1>9. ASSUME \A p \in parts : p.value # {} PROVE c.priced = energy
  <2>1. priced = parts
    BY <1>3, <1>9 DEF Priced
  <2>2. QED
    BY <1>2, <1>7, <2>1
<1>10. ASSUME NEW k \in Int, \A p \in parts : p.value = {k} PROVE c.cost = k * energy
  BY <1>1, <1>10, AtOnePrice
<1>11. QED
  BY <1>1, <1>2, <1>6, <1>8, <1>9, <1>10

(***************************************************************************)
(* Charging sessions                                                       *)
(***************************************************************************)
Qualities == {"measured", "estimated", "stale", "simulated"}
Observation ==
  [at : Int, meter : Options(Int), power : Options(Int), epoch : Int, quality : Qualities]
Observations ==
  {obs \in Seq(Observation) :
     \A i, j \in 1 .. Len(obs) : i < j => obs[i].at < obs[j].at}

ByPower(obs, i) == {} \in {obs[i].meter, obs[i + 1].meter} /\ EnergyOf(obs[i], obs[i + 1]) # {}
Stretch(obs, i) ==
  [start |-> obs[i].at, end |-> obs[i + 1].at, energy |-> EnergyOf(obs[i], obs[i + 1]),
   quality |-> Worst({obs[i].quality, obs[i + 1].quality}
                     \cup (IF ByPower(obs, i) THEN {"estimated"} ELSE {}))]

LEMMA WorstIs ==
  ASSUME NEW q
  PROVE  /\ Worst(q) \in Qualities
         /\ Worst(q) = "measured" <=> q \cap {"simulated", "stale", "estimated"} = {}
PROOF
<1>1. CASE "simulated" \in q
  BY <1>1 DEF Worst, Qualities
<1>2. CASE "simulated" \notin q /\ "stale" \in q
  BY <1>2 DEF Worst, Qualities
<1>3. CASE "simulated" \notin q /\ "stale" \notin q /\ "estimated" \in q
  BY <1>3 DEF Worst, Qualities
<1>4. CASE q \cap {"simulated", "stale", "estimated"} = {}
  <2>1. "simulated" \notin q /\ "stale" \notin q /\ "estimated" \notin q
    BY <1>4
  <2>2. QED
    BY <1>4, <2>1 DEF Worst, Qualities
<1>5. QED
  BY <1>1, <1>2, <1>3, <1>4

LEMMA EnergyInIsSum ==
  ASSUME NEW S, IsFiniteSet(S), \A s \in S : s.energy # {},
         NEW f, \A s \in S : f[s] = The(s.energy)
  PROVE  EnergyIn(S) = SumOver(f, S)
PROOF
<1> DEFINE Recursion(h) == h = [s \in SUBSET S |->
             IF s = {} THEN 0 ELSE The(First(s).energy) + h[s \ {First(s)}]]
           fold == CHOOSE h : Recursion(h)
           known(T) == {s \in T : s.energy # {}}
           sum(T) == MapThenSumSet(LAMBDA s : The(s.energy), T)
<1>1. EnergyIn(S) = sum(known(S))
  BY DEF EnergyIn
<1>2. known(S) = S
  OBVIOUS
<1>3. sum(S) = fold[S]
  BY DEF MapThenSumSet, MapThenFoldSet, First
<1>4. \A s \in SUBSET S : s # {} => f[First(s)] = The(First(s).energy)
  BY DEF First
<1>5. \A h : SummedOver(f, SUBSET S, h) <=> Recursion(h)
  BY <1>4 DEF SummedOver
<1>6. \E h : Recursion(h)
  BY <1>5, SumsExist
<1>7. Recursion(fold)
  BY <1>6
<1> HIDE DEF Recursion, fold, known, sum
<1>8. SummedOver(f, SUBSET S, fold)
  BY <1>5, <1>7
<1>9. QED
  BY <1>1, <1>2, <1>3, <1>8, SumsAreUnique

LEMMA StretchFacts ==
  ASSUME NEW obs \in Observations
  PROVE  /\ Len(obs) \in Nat
         /\ \A i \in 1 .. Len(obs) :
              /\ obs[i].at \in Int /\ obs[i].meter \in Options(Int) /\ obs[i].power \in Options(Int)
              /\ obs[i].epoch \in Int /\ obs[i].quality \in Qualities
         /\ SessionSegments(obs) = {Stretch(obs, i) : i \in 1 .. (Len(obs) - 1)}
         /\ \A i, j \in 1 .. (Len(obs) - 1) : Stretch(obs, i) = Stretch(obs, j) => i = j
PROOF
<1>1. /\ Len(obs) \in Nat
      /\ \A i \in 1 .. Len(obs) : obs[i] \in Observation
      /\ \A i, j \in 1 .. Len(obs) : i < j => obs[i].at < obs[j].at
  BY DEF Observations
<1>2. \A i \in 1 .. Len(obs) :
        /\ obs[i].at \in Int /\ obs[i].meter \in Options(Int) /\ obs[i].power \in Options(Int)
        /\ obs[i].epoch \in Int /\ obs[i].quality \in Qualities
  BY <1>1 DEF Observation
<1> DEFINE later == {i \in 1 .. (Len(obs) - 1) : obs[i + 1].at > obs[i].at}
<1>3. SessionSegments(obs) = {Stretch(obs, i) : i \in later}
  BY DEF SessionSegments, Stretch, ByPower
<1>4. later = 1 .. (Len(obs) - 1)
  <2>1. ASSUME NEW i \in 1 .. (Len(obs) - 1) PROVE obs[i + 1].at > obs[i].at
    <3>1. i \in 1 .. Len(obs) /\ i + 1 \in 1 .. Len(obs) /\ i < i + 1
      BY <1>1
    <3>2. QED
      BY <1>1, <1>2, <3>1
  <2>2. QED
    BY <2>1
<1>5. ASSUME NEW i \in 1 .. (Len(obs) - 1), NEW j \in 1 .. (Len(obs) - 1),
             Stretch(obs, i) = Stretch(obs, j)
      PROVE  i = j
  <2>1. obs[i].at = obs[j].at
    BY <1>5 DEF Stretch
  <2>2. i \in 1 .. Len(obs) /\ j \in 1 .. Len(obs)
    BY <1>1
  <2>3. ~(i < j) /\ ~(j < i)
    BY <1>1, <1>2, <2>1, <2>2
  <2>4. QED
    BY <2>2, <2>3
<1>6. QED
  BY <1>1, <1>2, <1>3, <1>4, <1>5

Steady(obs) ==
  \A i \in 1 .. (Len(obs) - 1) :
    obs[i + 1].epoch = obs[i].epoch /\ The(obs[i].meter) <= The(obs[i + 1].meter)

(* A session all of whose observations read the meter has the energy       *)
(* between its first and its last reading, however many there are, if the  *)
(* meter never starts over; after a reset or a reading that went back its  *)
(* energy is unknown (energy_segments).                                    *)
THEOREM MeterTelescopes ==
  ASSUME NEW obs \in Observations, Len(obs) >= 2, \A i \in 1 .. Len(obs) : obs[i].meter # {}
  PROVE  SessionTotal(obs) =
           IF Steady(obs) THEN {The(obs[Len(obs)].meter) - The(obs[1].meter)} ELSE {}
PROOF
<1>1. PICK n, m, S : /\ n = Len(obs) - 1
                     /\ m = [i \in 1 .. Len(obs) |-> The(obs[i].meter)]
                     /\ S = SessionSegments(obs)
  OBVIOUS
<1>2. n \in Nat /\ n >= 1 /\ Len(obs) = n + 1
  BY <1>1, StretchFacts
<1>3. \A i \in 1 .. (n + 1) : m[i] \in Int /\ obs[i].meter # {} /\ m[i] = The(obs[i].meter)
  <2>1. ASSUME NEW i \in 1 .. (n + 1) PROVE The(obs[i].meter) \in Int
    <3>1. obs[i].meter \in Options(Int) /\ obs[i].meter # {}
      BY <1>2, StretchFacts
    <3>2. PICK x : x \in obs[i].meter
      BY <3>1
    <3>3. QED
      BY <3>1, <3>2, OptionFacts
  <2>2. QED
    BY <1>1, <1>2, <2>1
<1> DEFINE Holds(i) == obs[i + 1].epoch = obs[i].epoch /\ m[i] <= m[i + 1]
<1>4. ASSUME NEW i \in 1 .. n
      PROVE  /\ i \in 1 .. (n + 1) /\ i + 1 \in 1 .. (n + 1)
             /\ m[i] \in Int /\ m[i + 1] \in Int
             /\ EnergyOf(obs[i], obs[i + 1]) = IF Holds(i) THEN {m[i + 1] - m[i]} ELSE {}
  <2>1. i \in 1 .. (n + 1) /\ i + 1 \in 1 .. (n + 1)
    BY <1>2
  <2>2. /\ obs[i].meter # {} /\ obs[i + 1].meter # {}
        /\ m[i] = The(obs[i].meter) /\ m[i + 1] = The(obs[i + 1].meter)
        /\ m[i] \in Int /\ m[i + 1] \in Int
    BY <1>3, <2>1
  <2>3. EnergyOf(obs[i], obs[i + 1]) = IF Holds(i) THEN {m[i + 1] - m[i]} ELSE {}
    BY <2>2 DEF EnergyOf
  <2>4. QED
    BY <2>1, <2>2, <2>3
<1>5. Steady(obs) <=> \A i \in 1 .. n : Holds(i)
  <2>1. \A i \in 1 .. n : m[i] = The(obs[i].meter) /\ m[i + 1] = The(obs[i + 1].meter)
    BY <1>3, <1>4
  <2>2. QED
    BY <1>1, <2>1 DEF Steady
<1>6. S = {Stretch(obs, i) : i \in 1 .. n}
  BY <1>1, StretchFacts
<1>7. \A i \in 1 .. n : Stretch(obs, i).energy = EnergyOf(obs[i], obs[i + 1])
  BY DEF Stretch
<1>8. SessionTotal(obs) = IF \A s \in S : s.energy # {} THEN {EnergyIn(S)} ELSE {}
  BY <1>1 DEF SessionTotal
<1>9. CASE ~Steady(obs)
  <2>1. PICK i \in 1 .. n : ~Holds(i)
    BY <1>5, <1>9
  <2>2. Stretch(obs, i) \in S /\ Stretch(obs, i).energy = {}
    BY <1>4, <1>6, <1>7, <2>1
  <2>3. QED
    BY <1>8, <1>9, <2>2
<1>10. CASE Steady(obs)
  <2>1. PICK step, k, energy : /\ step = [i \in 1 .. n |-> m[i + 1] - m[i]]
                               /\ k = [i \in 1 .. n |-> Stretch(obs, i)]
                               /\ energy = [s \in S |-> The(s.energy)]
    OBVIOUS
  <2>2. ASSUME NEW i \in 1 .. n
        PROVE  /\ k[i] \in S /\ k[i].energy = {step[i]} /\ step[i] \in Int
               /\ energy[k[i]] = step[i]
    <3>1. Holds(i) /\ k[i] = Stretch(obs, i) /\ k[i] \in S
      BY <1>5, <1>6, <1>10, <2>1
    <3>2. k[i].energy = {m[i + 1] - m[i]}
      BY <1>4, <1>7, <3>1
    <3>3. step[i] = m[i + 1] - m[i] /\ step[i] \in Int
      <4>1. step[i] = m[i + 1] - m[i]
        BY <2>1
      <4>2. m[i] \in Int /\ m[i + 1] \in Int
        BY <1>4
      <4>3. QED
        BY <4>1, <4>2
    <3>4. energy[k[i]] = The(k[i].energy)
      BY <2>1, <3>1
    <3>5. QED
      BY <3>1, <3>2, <3>3, <3>4, TheOne
  <2>3. S = {k[i] : i \in 1 .. n} /\ IsFiniteSet(S) /\ IsFiniteSet(1 .. n)
    <3>1. IsFiniteSet(1 .. n)
      BY <1>2, FS_Interval
    <3>2. S = {k[i] : i \in 1 .. n}
      BY <1>6, <2>1
    <3>3. QED
      BY <3>1, <3>2, ImageIsFinite
  <2>4. \A i, j \in 1 .. n : k[i] = k[j] => i = j
    BY <1>1, <2>1, StretchFacts
  <2>5. SumOver(energy, {k[i] : i \in 1 .. n}) = SumOver(step, 1 .. n)
    <3>1. PICK I : I = 1 .. n
      OBVIOUS
    <3>2. /\ IsFiniteSet(I) /\ \A x, y \in I : k[x] = k[y] => x = y
          /\ \A x \in I : step[x] \in Int /\ energy[k[x]] = step[x]
      BY <2>2, <2>3, <2>4, <3>1
    <3>3. SumOver(energy, {k[x] : x \in I}) = SumOver(step, I)
      BY <3>2, SumOfImage
    <3>4. QED
      BY <3>1, <3>3
  <2>6. SumOver(step, 1 .. n) = m[n + 1] - m[1]
    <3>1. \A i \in 1 .. n : step[i] = m[i + 1] - m[i]
      BY <2>1
    <3>2. \A i \in 1 .. (n + 1) : m[i] \in Int
      BY <1>3
    <3>3. QED
      BY <1>2, <3>1, <3>2, SumOfSteps
  <2>7. \A s \in S : s.energy # {} /\ energy[s] = The(s.energy)
    BY <2>1, <2>2, <2>3
  <2>8. EnergyIn(S) = SumOver(energy, S)
    BY <2>3, <2>7, EnergyInIsSum
  <2>9. EnergyIn(S) = m[n + 1] - m[1]
    BY <2>3, <2>5, <2>6, <2>8
  <2>10. m[n + 1] = The(obs[Len(obs)].meter) /\ m[1] = The(obs[1].meter)
    BY <1>2, <1>3
  <2>11. QED
    BY <1>8, <1>10, <2>7, <2>9, <2>10
<1>11. QED
  BY <1>9, <1>10

(* What is called measured is the difference of two readings of the meter: *)
(* power that was held, a simulated or a stale observation never leave a   *)
(* measured session, whatever the number and the order of the observations *)
(* (energy_segments and the quality of a session).                         *)
THEOREM MeasuredNeedsMeter ==
  ASSUME NEW obs \in Observations, SessionTotal(obs) # {}, SessionQuality(obs) = "measured"
  PROVE  /\ \A i \in 1 .. Len(obs) : obs[i].meter # {} /\ obs[i].quality = "measured"
         /\ SessionTotal(obs) = {The(obs[Len(obs)].meter) - The(obs[1].meter)}
PROOF
<1>1. PICK n, S : n = Len(obs) - 1 /\ S = SessionSegments(obs)
  OBVIOUS
<1>2. Len(obs) >= 2 /\ \A s \in S : s.energy # {}
  BY <1>1 DEF SessionTotal
<1>3. n \in Nat /\ n >= 1 /\ Len(obs) = n + 1
  BY <1>1, <1>2, StretchFacts
<1>4. S = {Stretch(obs, i) : i \in 1 .. n}
  BY <1>1, StretchFacts
<1>5. ASSUME NEW s \in S PROVE s.quality = "measured"
  <2>1. PICK all : all = {r.quality : r \in S}
    OBVIOUS
  <2>2. Worst(all) = "measured" /\ s.quality \in all
    BY <1>1, <2>1 DEF SessionQuality
  <2>3. all \cap {"simulated", "stale", "estimated"} = {}
    BY <2>2, WorstIs
  <2>4. s.quality \in Qualities
    <3>1. PICK i \in 1 .. n : s = Stretch(obs, i)
      BY <1>4
    <3>2. PICK q : s.quality = Worst(q)
      BY <3>1 DEF Stretch
    <3>3. QED
      BY <3>2, WorstIs
  <2>5. QED
    BY <2>2, <2>3, <2>4 DEF Qualities
<1>6. ASSUME NEW i \in 1 .. n
      PROVE  /\ obs[i].meter # {} /\ obs[i].quality = "measured"
             /\ obs[i + 1].meter # {} /\ obs[i + 1].quality = "measured"
  <2>1. PICK s \in S : s = Stretch(obs, i)
    BY <1>4
  <2>2. EnergyOf(obs[i], obs[i + 1]) # {}
    BY <1>2, <2>1 DEF Stretch
  <2>3. PICK q : q = {obs[i].quality, obs[i + 1].quality}
                     \cup (IF ByPower(obs, i) THEN {"estimated"} ELSE {})
    OBVIOUS
  <2>4. Worst(q) = "measured"
    BY <1>5, <2>1, <2>3 DEF Stretch
  <2>5. q \cap {"simulated", "stale", "estimated"} = {}
    BY <2>4, WorstIs
  <2>6. ~ByPower(obs, i)
    BY <2>3, <2>5
  <2>7. obs[i].meter # {} /\ obs[i + 1].meter # {}
    BY <2>2, <2>6 DEF ByPower
  <2>8. i \in 1 .. Len(obs) /\ i + 1 \in 1 .. Len(obs)
    BY <1>3
  <2>9. obs[i].quality \in Qualities /\ obs[i + 1].quality \in Qualities
    BY <2>8, StretchFacts
  <2>10. QED
    BY <2>3, <2>5, <2>7, <2>9 DEF Qualities
<1>7. ASSUME NEW i \in 1 .. Len(obs) PROVE obs[i].meter # {} /\ obs[i].quality = "measured"
  <2>1. CASE i \in 1 .. n
    BY <1>6, <2>1
  <2>2. CASE i = n + 1
    <3>1. n \in 1 .. n
      BY <1>3
    <3>2. QED
      BY <1>6, <2>2, <3>1
  <2>3. QED
    BY <1>3, <2>1, <2>2
<1>8. SessionTotal(obs) = IF Steady(obs) THEN {The(obs[Len(obs)].meter) - The(obs[1].meter)} ELSE {}
  BY <1>2, <1>7, MeterTelescopes
<1>9. QED
  BY <1>7, <1>8

(***************************************************************************)
(* Rows of intervals: what is counted is what was held in the intervals    *)
(* that have a sample of their own.                                        *)
(***************************************************************************)
NewestHeld(power, n, t) ==
  /\ t \in DOMAIN power /\ t <= n /\ n < t + HoldFor
  /\ \A u \in DOMAIN power : u <= n => u <= t

LEMMA HeldIsNewest ==
  ASSUME NEW power \in Samples, NEW n \in Int
  PROVE  /\ \A t : NewestHeld(power, n, t) => HeldAt(power, n) = {power[t]}
         /\ HeldAt(power, n) # {} => \E t : NewestHeld(power, n, t)
PROOF
<1>1. PICK past : past = {u \in DOMAIN power : u <= n}
  OBVIOUS
<1>2. past \subseteq Int /\ IsFiniteSet(past)
  <2>1. past \subseteq DOMAIN power /\ DOMAIN power \subseteq Int
    BY <1>1, SamplesAre
  <2>2. QED
    BY <2>1, SamplesAre, FS_Subset
<1>3. HeldAt(power, n) = IF past # {} /\ n < Max(past) + HoldFor THEN {power[Max(past)]} ELSE {}
  BY <1>1 DEF HeldAt
<1>4. past # {} => Max(past) \in past /\ \A y \in past : y <= Max(past)
  BY <1>2, SmallestAndLargest
<1>5. ASSUME NEW t, NewestHeld(power, n, t) PROVE HeldAt(power, n) = {power[t]}
  <2>1. t \in past /\ n < t + HoldFor /\ \A u \in past : u <= t
    BY <1>1, <1>5 DEF NewestHeld
  <2>2. Max(past) = t
    <3>1. PICK newest : newest = Max(past)
      OBVIOUS
    <3>2. newest \in past /\ t <= newest /\ newest <= t
      BY <1>4, <2>1, <3>1
    <3>3. newest \in Int /\ t \in Int
      BY <1>2, <2>1, <3>2
    <3>4. QED
      BY <3>1, <3>2, <3>3
  <2>3. QED
    BY <1>3, <2>1, <2>2
<1>6. ASSUME HeldAt(power, n) # {} PROVE NewestHeld(power, n, Max(past))
  <2>1. past # {} /\ n < Max(past) + HoldFor
    BY <1>3, <1>6
  <2>2. QED
    BY <1>1, <1>4, <2>1 DEF NewestHeld
<1>7. QED
  BY <1>5, <1>6

(* The samples that a row is computed from are enough for its interval.    *)
LEMMA RowSamples ==
  ASSUME NEW power \in Samples, NEW start \in Int, NEW end \in Int,
         NEW times, times = {t \in DOMAIN power : t >= start - HoldFor /\ t < end},
         NEW own, own = [t \in times |-> power[t]]
  PROVE  /\ own \in Samples
         /\ HeldOver(own, start, end) = HeldOver(power, start, end)
         /\ HeldPower(own, start, end) = HeldPower(power, start, end)
PROOF
<1>1. HoldFor \in Nat
  BY EnergyAssumption
<1>2. times \subseteq DOMAIN power /\ times \subseteq Int /\ IsFiniteSet(times)
  <2>1. times \subseteq DOMAIN power /\ DOMAIN power \subseteq Int
    BY SamplesAre
  <2>2. QED
    BY <2>1, SamplesAre, FS_Subset
<1>3. own \in Samples
  <2>1. \A t \in times : power[t] \in Int
    BY <1>2, SamplesAre
  <2>2. own \in [times -> Int] /\ times \in {T \in SUBSET Int : IsFiniteSet(T)}
    BY <1>2, <2>1
  <2>3. QED
    BY <2>2 DEF Samples
<1>4. ASSUME NEW n \in start .. (end - 1) PROVE HeldAt(own, n) = HeldAt(power, n)
  <2>1. n \in Int /\ start <= n /\ n < end
    OBVIOUS
  <2>2. DOMAIN own = times /\ \A t \in times : own[t] = power[t]
    OBVIOUS
  <2>3. \A t \in DOMAIN power : t \in Int
    BY SamplesAre
  <2>4. ASSUME NEW t, NewestHeld(power, n, t) PROVE NewestHeld(own, n, t)
    <3>1. t \in times
      BY <1>1, <2>1, <2>3, <2>4 DEF NewestHeld
    <3>2. QED
      BY <1>2, <2>2, <2>4, <3>1 DEF NewestHeld
  <2>5. ASSUME NEW t, NewestHeld(own, n, t) PROVE NewestHeld(power, n, t)
    <3>1. t \in times /\ t <= n /\ n < t + HoldFor /\ t \in Int
      BY <1>2, <2>2, <2>5 DEF NewestHeld
    <3>2. ASSUME NEW u \in DOMAIN power, u <= n PROVE u <= t
      <4>1. CASE u < start - HoldFor
        BY <1>1, <2>1, <2>3, <3>1, <4>1
      <4>2. CASE ~(u < start - HoldFor)
        <5>1. u \in times
          BY <1>1, <2>1, <2>3, <3>2, <4>2
        <5>2. QED
          BY <2>2, <2>5, <3>2, <5>1 DEF NewestHeld
      <4>3. QED
        BY <4>1, <4>2
    <3>3. QED
      BY <1>2, <3>1, <3>2 DEF NewestHeld
  <2>6. CASE HeldAt(power, n) # {}
    <3>1. PICK t : NewestHeld(power, n, t)
      BY <2>1, <2>6, HeldIsNewest
    <3>2. NewestHeld(own, n, t) /\ own[t] = power[t]
      BY <2>2, <2>4, <3>1 DEF NewestHeld
    <3>3. HeldAt(power, n) = {power[t]} /\ HeldAt(own, n) = {own[t]}
      BY <1>3, <2>1, <3>1, <3>2, HeldIsNewest
    <3>4. QED
      BY <3>2, <3>3
  <2>7. CASE HeldAt(power, n) = {}
    <3>1. ASSUME HeldAt(own, n) # {} PROVE FALSE
      <4>1. PICK t : NewestHeld(own, n, t)
        BY <1>3, <2>1, <3>1, HeldIsNewest
      <4>2. HeldAt(power, n) = {power[t]}
        BY <2>1, <2>5, <4>1, HeldIsNewest
      <4>3. QED
        BY <2>7, <4>2
    <3>2. QED
      BY <2>7, <3>1
  <2>8. QED
    BY <2>6, <2>7
<1>5. HeldOver(own, start, end) = HeldOver(power, start, end)
  BY <1>4 DEF HeldOver
<1>6. \A n \in HeldOver(power, start, end) : HeldAt(own, n) = HeldAt(power, n)
  BY <1>4 DEF HeldOver
<1>7. HeldPower(own, start, end) = HeldPower(power, start, end)
  BY <1>5, <1>6 DEF HeldPower
<1>8. QED
  BY <1>3, <1>5, <1>7

Sampled(power, start, end) == \E t \in DOMAIN power : start <= t /\ t < end

LEMMA RowIs ==
  ASSUME NEW power \in Samples, NEW start \in Int, NEW end \in Int,
         NEW held, held = HeldOver(power, start, end),
         NEW f, f = HeldPower(power, start, end)
  PROVE  /\ ~Sampled(power, start, end) => QuarterRow(power, start, end) = {}
         /\ Sampled(power, start, end) =>
              /\ held # {}
              /\ QuarterRow(power, start, end) =
                   {[energy |-> {SumOver(f, held)}, covered |-> Cardinality(held)]}
PROOF
<1>1. PICK times : times = {t \in DOMAIN power : t >= start - HoldFor /\ t < end}
  OBVIOUS
<1>2. PICK own : own = [t \in times |-> power[t]]
  OBVIOUS
<1>3. QuarterRow(power, start, end) =
        IF \A t \in times : t < start THEN {} ELSE {Integral(own, start, end)}
  BY <1>1, <1>2 DEF QuarterRow
<1>4. (\A t \in times : t < start) <=> ~Sampled(power, start, end)
  <2>1. HoldFor \in Nat /\ \A t \in DOMAIN power : t \in Int
    BY EnergyAssumption, SamplesAre
  <2>2. \A t \in DOMAIN power : start <= t /\ t < end => t \in times
    BY <1>1, <2>1
  <2>3. \A t \in times : t \in DOMAIN power /\ t \in Int /\ t < end
    BY <1>1, <2>1
  <2>4. QED
    BY <2>1, <2>2, <2>3 DEF Sampled
<1>5. /\ own \in Samples
      /\ HeldOver(own, start, end) = held /\ HeldPower(own, start, end) = f
  BY <1>1, <1>2, RowSamples
<1>6. Integral(own, start, end) =
        [energy |-> IF held = {} THEN {} ELSE {SumOver(f, held)}, covered |-> Cardinality(held)]
  BY <1>5, AllSegments DEF Integral
<1>7. ASSUME Sampled(power, start, end) PROVE held # {}
  <2>1. PICK t \in DOMAIN power : start <= t /\ t < end
    BY <1>7 DEF Sampled
  <2>2. t \in Int /\ HoldFor \in Nat \ {0}
    BY EnergyAssumption, SamplesAre
  <2>3. NewestHeld(power, t, t)
    BY <2>2 DEF NewestHeld
  <2>4. HeldAt(power, t) # {}
    BY <2>2, <2>3, HeldIsNewest
  <2>5. QED
    BY <2>1, <2>2, <2>4 DEF HeldOver
<1>8. QED
  BY <1>3, <1>4, <1>6, <1>7

LEMMA SumIs == ASSUME NEW f PROVE Sum(f) = SumOver(f, DOMAIN f)
PROOF BY DEF Sum, MapThenSumSet, MapThenFoldSet, SumOver, SumsOf, SummedOver, First

LEMMA TotalIs ==
  ASSUME NEW S, NEW f, NEW options, options = [i \in S |-> {f[i]}],
         f = [i \in S |-> f[i]]
  PROVE  TotalOf(options) = IF S = {} THEN {} ELSE {SumOver(f, S)}
PROOF
<1>1. PICK known : known = {i \in DOMAIN options : options[i] # {}}
  OBVIOUS
<1>2. known = S
  BY <1>1
<1>3. TotalOf(options) = IF known = {} THEN {} ELSE {Sum([i \in known |-> The(options[i])])}
  BY <1>1 DEF TotalOf
<1>4. [i \in known |-> The(options[i])] = f
  <2>1. \A i \in S : The(options[i]) = f[i]
    BY TheOne
  <2>2. QED
    BY <1>2, <2>1
<1>5. Sum(f) = SumOver(f, S)
  <2>1. DOMAIN f = S
    OBVIOUS
  <2>2. QED
    BY <2>1, SumIs
<1>6. QED
  BY <1>2, <1>3, <1>4, <1>5

LEMMA HeldIsInteger ==
  ASSUME NEW power \in Samples, NEW n \in Int, HeldAt(power, n) # {}
  PROVE  The(HeldAt(power, n)) \in Int
PROOF
<1>1. PICK t : NewestHeld(power, n, t)
  BY HeldIsNewest
<1>2. HeldAt(power, n) = {power[t]} /\ power[t] \in Int
  BY <1>1, HeldIsNewest, SamplesAre DEF NewestHeld
<1>3. QED
  BY <1>2, TheOne

Apart(D, width) == \A i, j \in D : i < j => i + width <= j

RowsOf(power, D, width) == [i \in D |-> QuarterRow(power, i, i + width)]
HeldIn(power, E, width) == UNION {HeldOver(power, i, i + width) : i \in E}

RowsCovered(rows, E) == Sum([i \in E |-> The(rows[i]).covered])
RowsEnergy(rows, E) == TotalOf([i \in E |-> The(rows[i]).energy])

LEMMA RowsAdd ==
  ASSUME NEW power \in Samples, NEW width \in Nat \ {0}, NEW D \in SUBSET Int, IsFiniteSet(D),
         Apart(D, width), NEW rows, rows = RowsOf(power, D, width),
         NEW E \in SUBSET D, \A i \in E : rows[i] # {},
         NEW U, U = HeldIn(power, E, width)
  PROVE  /\ IsFiniteSet(U)
         /\ RowsCovered(rows, E) = Cardinality(U)
         /\ RowsEnergy(rows, E) =
              IF E = {} THEN {} ELSE {EnergyHeld(power, U)}
PROOF
<1>1. IsFiniteSet(E) /\ \A i \in E : i \in Int /\ i + width \in Int
  <2>1. IsFiniteSet(E)
    BY FS_Subset
  <2>2. \A i \in E : i \in Int /\ i + width \in Int
    OBVIOUS
  <2>3. QED
    BY <2>1, <2>2
<1>2. PICK part, f, one, covered, energy :
        /\ part = [i \in E |-> HeldOver(power, i, i + width)]
        /\ f = [n \in U |-> The(HeldAt(power, n))]
        /\ one = [n \in U |-> 1]
        /\ covered = [i \in E |-> Cardinality(part[i])]
        /\ energy = [i \in E |-> SumOver(f, part[i])]
  OBVIOUS
<1>3. ASSUME NEW i \in E
      PROVE  /\ part[i] = HeldOver(power, i, i + width) /\ IsFiniteSet(part[i]) /\ part[i] \subseteq U
             /\ \A n \in part[i] : i <= n /\ n < i + width /\ n \in Int
             /\ \A n \in part[i] : f[n] \in Int /\ f[n] = The(HeldAt(power, n))
  <2>1. part[i] = HeldOver(power, i, i + width) /\ part[i] \subseteq U
    BY <1>2 DEF HeldIn
  <2>2. IsFiniteSet(part[i])
    <3>1. PICK end : end = i + width
      OBVIOUS
    <3>2. i \in Int /\ end \in Int /\ part[i] = HeldOver(power, i, end)
      BY <1>1, <2>1, <3>1
    <3>3. IsFiniteSet(HeldOver(power, i, end))
      BY <3>2, HeldFacts
    <3>4. QED
      BY <3>2, <3>3
  <2>3. \A n \in part[i] : i <= n /\ n < i + width /\ n \in Int /\ HeldAt(power, n) # {}
    BY <1>1, <2>1 DEF HeldOver
  <2>4. \A n \in part[i] : f[n] = The(HeldAt(power, n))
    BY <1>2, <2>1
  <2>5. \A n \in part[i] : f[n] \in Int
    BY <2>3, <2>4, HeldIsInteger
  <2>6. QED
    BY <2>1, <2>2, <2>3, <2>4, <2>5
<1>4. ASSUME NEW i \in E
      PROVE  /\ The(rows[i]).covered = covered[i]
             /\ The(rows[i]).energy = {energy[i]}
  <2>1. PICK end, row, held, g :
          /\ end = i + width /\ row = QuarterRow(power, i, end)
          /\ held = HeldOver(power, i, end) /\ g = HeldPower(power, i, end)
    OBVIOUS
  <2>2. rows[i] = row /\ row # {} /\ i \in Int /\ end \in Int
    BY <1>1, <2>1 DEF RowsOf
  <2>3. row = {[energy |-> {SumOver(g, held)}, covered |-> Cardinality(held)]}
    BY <2>1, <2>2, RowIs
  <2>4. The(rows[i]) = [energy |-> {SumOver(g, held)}, covered |-> Cardinality(held)]
    BY <2>2, <2>3, TheOne
  <2>5. held = part[i]
    BY <1>3, <2>1
  <2>6. SumOver(f, held) = SumOver(g, held)
    <3>1. \A n \in held : g[n] = The(HeldAt(power, n))
      BY <2>1 DEF HeldPower
    <3>2. \A n \in held : f[n] \in Int /\ f[n] = g[n]
      BY <1>3, <2>5, <3>1
    <3>3. IsFiniteSet(held)
      BY <1>3, <2>5
    <3>4. QED
      BY <3>2, <3>3, SumsAgree
  <2>7. QED
    BY <1>2, <2>4, <2>5, <2>6
<1>5. Parted(U, part, E)
  <2>1. ASSUME NEW i \in E, NEW j \in E, i # j PROVE part[i] \cap part[j] = {}
    <3>1. i + width <= j \/ j + width <= i
      BY <1>1, <2>1 DEF Apart
    <3>2. QED
      BY <1>1, <1>3, <3>1
  <2>2. U = UNION {part[i] : i \in E}
    BY <1>2 DEF HeldIn
  <2>3. QED
    BY <1>3, <2>1, <2>2 DEF Parted
<1>6. IsFiniteSet(U)
  <2>1. PICK all : all = {part[i] : i \in E}
    OBVIOUS
  <2>2. IsFiniteSet({part[i] : i \in E})
    BY <1>1, ImageIsFinite
  <2>3. \A T \in all : IsFiniteSet(T)
    BY <1>3, <2>1
  <2>4. U = UNION all
    BY <1>5, <2>1 DEF Parted
  <2>5. QED
    BY <2>1, <2>2, <2>3, <2>4, FS_UNION
<1>7. SumOver(energy, E) = SumOver(f, U)
  <2>1. SumsOfParts(f, energy, part, E)
    BY <1>2, <1>3 DEF SumsOfParts
  <2>2. QED
    BY <1>1, <1>5, <2>1, SumByParts
<1>8. SumOver(covered, E) = Cardinality(U)
  <2>1. PICK k \in Int : k = 1
    OBVIOUS
  <2>2. \A n \in U : one[n] = k
    BY <1>2, <2>1
  <2>3. ASSUME NEW i \in E PROVE covered[i] = SumOver(one, part[i])
    <3>1. \A n \in part[i] : one[n] = k
      BY <1>3, <2>2
    <3>2. SumOver(one, part[i]) = Cardinality(part[i]) * k /\ Cardinality(part[i]) \in Nat
      BY <1>3, <3>1, SumOfConstant, FS_CardinalityType
    <3>3. QED
      BY <1>2, <2>1, <3>2
  <2>4. SumsOfParts(one, covered, part, E)
    BY <1>3, <2>1, <2>2, <2>3 DEF SumsOfParts
  <2>5. SumOver(covered, E) = SumOver(one, U)
    BY <1>1, <1>5, <2>4, SumByParts
  <2>6. SumOver(one, U) = Cardinality(U) * k /\ Cardinality(U) \in Nat
    BY <1>6, <2>2, SumOfConstant, FS_CardinalityType
  <2>7. QED
    BY <2>1, <2>5, <2>6
<1>9. RowsCovered(rows, E) = Cardinality(U)
  <2>1. [i \in E |-> The(rows[i]).covered] = covered
    BY <1>2, <1>4
  <2>2. DOMAIN covered = E
    BY <1>2
  <2>3. QED
    BY <1>8, <2>1, <2>2, SumIs DEF RowsCovered
<1>10. RowsEnergy(rows, E) =
         IF E = {} THEN {} ELSE {EnergyHeld(power, U)}
  <2>1. [i \in E |-> The(rows[i]).energy] = [i \in E |-> {energy[i]}]
    BY <1>4
  <2>2. energy = [i \in E |-> energy[i]]
    BY <1>2
  <2>3. TotalOf([i \in E |-> {energy[i]}]) = IF E = {} THEN {} ELSE {SumOver(energy, E)}
    BY <2>2, TotalIs
  <2>4. EnergyHeld(power, U) = SumOver(f, U)
    BY <1>2, <1>6, HeldIsSum
  <2>5. QED
    BY <1>7, <2>1, <2>3, <2>4 DEF RowsEnergy
<1>11. QED
  BY <1>6, <1>9, <1>10

(* An hour that is rolled up from its intervals is the integral of the     *)
(* hour, but for what is held into an interval that has no sample of its   *)
(* own: that has no row, and is neither counted as energy nor as covered   *)
(* time.  For any samples and any intervals that do not overlap            *)
(* (aggregate_interval_15m and _rollup).                                   *)
THEOREM RollupLosesOnlyTails ==
  ASSUME NEW power \in Samples, NEW width \in Nat \ {0}, NEW D \in SUBSET Int, IsFiniteSet(D),
         Apart(D, width)
  PROVE  LET rows == RowsOf(power, D, width)
             sampled == {i \in D : Sampled(power, i, i + width)}
             counted == HeldIn(power, sampled, width)
         IN Rollup(rows) =
              IF sampled = {} THEN {}
              ELSE {[energy |-> {EnergyHeld(power, counted)}, covered |-> Cardinality(counted)]}
PROOF
<1>1. PICK rows, sampled, counted :
        /\ rows = RowsOf(power, D, width)
        /\ sampled = {i \in D : Sampled(power, i, i + width)}
        /\ counted = HeldIn(power, sampled, width)
  OBVIOUS
<1>2. ASSUME NEW i \in D PROVE rows[i] # {} <=> Sampled(power, i, i + width)
  <2>1. PICK end, row : end = i + width /\ row = QuarterRow(power, i, end)
    OBVIOUS
  <2>2. i \in Int /\ end \in Int /\ rows[i] = row
    BY <1>1, <2>1 DEF RowsOf
  <2>3. row # {} <=> Sampled(power, i, end)
    BY <2>1, <2>2, RowIs
  <2>4. QED
    BY <2>1, <2>2, <2>3
<1>3. sampled = {i \in DOMAIN rows : rows[i] # {}}
  BY <1>1, <1>2 DEF RowsOf
<1>4. Rollup(rows) =
        IF sampled = {} THEN {}
        ELSE {[energy |-> RowsEnergy(rows, sampled),
               covered |-> RowsCovered(rows, sampled)]}
  BY <1>3 DEF Rollup, RowsCovered, RowsEnergy
<1>5. sampled \in SUBSET D /\ \A i \in sampled : rows[i] # {}
  BY <1>1, <1>2
<1>6. /\ RowsCovered(rows, sampled) = Cardinality(counted)
      /\ RowsEnergy(rows, sampled) =
           IF sampled = {} THEN {} ELSE {EnergyHeld(power, counted)}
  <2>1. rows = RowsOf(power, D, width)
    BY <1>1
  <2>2. counted = HeldIn(power, sampled, width)
    BY <1>1
  <2>3. sampled \in SUBSET D
    BY <1>5
  <2>4. \A i \in sampled : rows[i] # {}
    BY <1>5
  <2>5. RowsCovered(rows, sampled) = Cardinality(counted)
    BY <2>1, <2>2, <2>3, <2>4, RowsAdd
  <2>6. QED
    BY <2>1, <2>2, <2>3, <2>4, <2>5, RowsAdd
<1>7. QED
  BY <1>1, <1>4, <1>6


(* A reader that asks for any range gets at most what was held in it: no   *)
(* interval is divided, and what is found never exceeds what is expected.  *)
(* For any samples, any range and any intervals that start at multiples of *)
(* their width (get_energy_kwh_for_interval).                              *)
THEOREM ReadsStayInside ==
  ASSUME NEW power \in Samples, NEW width \in Nat \ {0}, NEW D \in SUBSET Int, IsFiniteSet(D),
         \A i \in D : i % width = 0, NEW start \in Int, NEW end \in Int
  PROVE  LET read == EnergyBetween(RowsOf(power, D, width), width, start, end)
         IN /\ read.found <= read.expected
            /\ read.covered <= Cardinality(HeldOver(power, start, end))
            /\ \A e \in read.energy :
                 \E U \in SUBSET HeldOver(power, start, end) :
                   e = EnergyHeld(power, U) /\ read.covered = Cardinality(U)
PROOF
<1>1. PICK rows, inside, U :
        /\ rows = RowsOf(power, D, width)
        /\ inside = {i \in DOMAIN rows : rows[i] # {} /\ i >= start /\ i + width <= end}
        /\ U = HeldIn(power, inside, width)
  OBVIOUS
<1>2. PICK first, expected :
        /\ first = start - (start % width)
        /\ expected = IF end > start THEN (end - first) \div width ELSE 0
  OBVIOUS
<1>3. EnergyBetween(rows, width, start, end) =
        [energy |-> RowsEnergy(rows, inside), covered |-> RowsCovered(rows, inside),
         found |-> Cardinality(inside), expected |-> expected]
  BY <1>1, <1>2 DEF EnergyBetween, RowsEnergy, RowsCovered
<1>4. /\ inside \in SUBSET D
      /\ \A i \in inside : i \in Int /\ i % width = 0 /\ rows[i] # {} /\ i >= start /\ i + width <= end
  BY <1>1 DEF RowsOf
<1>5. IsFiniteSet(inside)
  BY <1>4, FS_Subset
<1>6. Apart(D, width)
  <2>1. ASSUME NEW i \in D, NEW j \in D, i < j PROVE i + width <= j
    <3>1. i \in Int /\ j \in Int /\ i % width = 0 /\ j % width = 0
      OBVIOUS
    <3>2. i \div width < j \div width
      BY <2>1, <3>1
    <3>3. i = width * (i \div width) /\ j = width * (j \div width)
      BY <3>1
    <3>4. PICK m \in Int, n \in Int : m = i \div width /\ n = j \div width
      BY <3>1
    <3>5. m + 1 <= n
      BY <3>2, <3>4
    <3>6. width * (m + 1) <= width * n
      BY <3>4, <3>5, Scaled
    <3>7. width * (m + 1) = width * m + width
      OBVIOUS
    <3>8. QED
      BY <3>1, <3>3, <3>4, <3>6, <3>7
  <2>2. QED
    BY <2>1 DEF Apart
<1>7. Cardinality(inside) <= expected
  <2>1. CASE inside = {}
    <3>1. Cardinality(inside) = 0
      BY <2>1, FS_EmptySet
    <3>2. expected >= 0
      <4>1. end > start => end - first \in Nat
        BY <1>2
      <4>2. QED
        BY <1>2, <4>1
    <3>3. QED
      BY <3>1, <3>2
  <2>2. CASE inside # {}
    <3>1. end > start
      BY <1>4, <2>2
    <3>2. PICK a, b : a = first \div width /\ b = (end \div width) - 1
      OBVIOUS
    <3>3. a \in Int /\ b \in Int /\ first \in Int
      BY <1>2, <3>2
    <3>4. PICK number : number = [i \in inside |-> i \div width]
      OBVIOUS
    <3>5. ASSUME NEW i \in inside PROVE number[i] \in a .. b /\ i = width * number[i]
      <4>1. i \in Int /\ i % width = 0 /\ i >= start /\ i + width <= end
        BY <1>4
      <4>2. i = width * (i \div width) /\ i \div width \in Int
        BY <4>1
      <4>3. first <= i
        BY <1>2, <4>1
      <4>4. a <= i \div width
        BY <3>2, <3>3, <4>1, <4>3
      <4>5. (i \div width) + 1 <= end \div width
        BY <4>1, <4>2
      <4>6. QED
        BY <3>2, <3>3, <3>4, <4>2, <4>4, <4>5
    <3>6. number \in [inside -> a .. b]
      BY <3>4, <3>5
    <3>7. \A i, j \in inside : number[i] = number[j] => i = j
      BY <3>5
    <3>8. IsFiniteSet(a .. b) /\ Cardinality(a .. b) = IF a > b THEN 0 ELSE b - a + 1
      BY <3>3, FS_Interval
    <3>9. Cardinality(inside) <= Cardinality(a .. b)
      <4>1. number \in Injection(inside, a .. b)
        BY <3>6, <3>7 DEF Injection, IsInjective
      <4>2. QED
        BY <3>8, <4>1, FS_Injection
    <3>10. a <= b
      BY <2>2, <3>3, <3>5
    <3>11. b - a + 1 = (end - first) \div width
      <4>1. PICK q \in Int : q = start \div width
        OBVIOUS
      <4>2. first = width * q
        BY <1>2, <4>1
      <4>3. a = q
        BY <3>2, <4>1, <4>2
      <4>4. end - first = end + width * (-q)
        BY <4>1, <4>2
      <4>5. (end + width * (-q)) \div width = (end \div width) - q
        BY <4>1
      <4>6. QED
        BY <3>2, <3>3, <4>1, <4>3, <4>4, <4>5
    <3>12. QED
      <4>1. expected = (end - first) \div width
        BY <1>2, <3>1
      <4>2. Cardinality(a .. b) = expected
        BY <3>3, <3>8, <3>10, <3>11, <4>1
      <4>3. QED
        BY <3>9, <4>2
  <2>3. QED
    BY <2>1, <2>2
<1>8. /\ RowsCovered(rows, inside) = Cardinality(U)
      /\ RowsEnergy(rows, inside) = IF inside = {} THEN {} ELSE {EnergyHeld(power, U)}
  <2>1. rows = RowsOf(power, D, width)
    BY <1>1
  <2>2. U = HeldIn(power, inside, width)
    BY <1>1
  <2>3. \A i \in inside : rows[i] # {}
    BY <1>4
  <2>4. inside \in SUBSET D
    BY <1>4
  <2>5. RowsCovered(rows, inside) = Cardinality(U)
    BY <1>6, <2>1, <2>2, <2>3, <2>4, RowsAdd
  <2>6. RowsEnergy(rows, inside) = IF inside = {} THEN {} ELSE {EnergyHeld(power, U)}
    BY <1>6, <2>1, <2>2, <2>3, <2>4, RowsAdd
  <2>7. QED
    BY <2>5, <2>6
<1>9. U \subseteq HeldOver(power, start, end)
  BY <1>1, <1>4 DEF HeldIn, HeldOver
<1>10. Cardinality(U) <= Cardinality(HeldOver(power, start, end))
  <2>1. IsFiniteSet(HeldOver(power, start, end))
    BY HeldFacts
  <2>2. QED
    BY <1>9, <2>1, FS_Subset
<1>11. QED
  <2>1. PICK read : read = EnergyBetween(rows, width, start, end)
    OBVIOUS
  <2>2. /\ read.energy = RowsEnergy(rows, inside) /\ read.covered = RowsCovered(rows, inside)
        /\ read.found = Cardinality(inside) /\ read.expected = expected
    BY <1>3, <2>1
  <2>3. \A e \in read.energy : e = EnergyHeld(power, U) /\ read.covered = Cardinality(U)
    BY <1>8, <2>2
  <2>4. QED
    BY <1>1, <1>7, <1>8, <1>9, <1>10, <2>1, <2>2, <2>3

(***************************************************************************)
(* The inputs of an inverter: a sample may be without a value              *)
(***************************************************************************)
InputSamples ==
  UNION {[times -> {{}} \cup {{x} : x \in Int}] : times \in {T \in SUBSET Int : IsFiniteSet(T)}}

Known(samples) == {t \in DOMAIN samples : samples[t] # {}}
Values(samples) == [t \in DOMAIN samples |-> IF samples[t] = {} THEN 0 ELSE The(samples[t])]
KnownOver(samples, start, end) == {n \in HeldOver(samples, start, end) : HeldAt(samples, n) # {{}}}

InputSegment(samples, start, end, t) ==
  [from |-> Max({t, start}), to |-> Min({t + HoldFor, end} \cup {u \in DOMAIN samples : u > t}),
   value |-> The(samples[t])]
InputSegments(samples, start, end) ==
  {s \in {InputSegment(samples, start, end, t) : t \in Known(samples)} : s.to > s.from}

LEMMA InputsAre ==
  ASSUME NEW samples \in InputSamples
  PROVE  /\ Values(samples) \in Samples /\ DOMAIN Values(samples) = DOMAIN samples
         /\ DOMAIN samples \subseteq Int /\ IsFiniteSet(DOMAIN samples)
         /\ \A t \in Known(samples) : samples[t] = {Values(samples)[t]}
PROOF
<1>1. PICK times \in {T \in SUBSET Int : IsFiniteSet(T)} :
        samples \in [times -> {{}} \cup {{x} : x \in Int}]
  BY DEF InputSamples
<1>2. DOMAIN samples = times /\ times \subseteq Int /\ IsFiniteSet(times)
  BY <1>1
<1>3. ASSUME NEW t \in times, samples[t] # {}
      PROVE  /\ The(samples[t]) \in Int /\ samples[t] = {The(samples[t])}
  <2>1. PICK x \in Int : samples[t] = {x}
    BY <1>1, <1>3
  <2>2. QED
    BY <2>1, TheOne
<1>4. Values(samples) \in [times -> Int]
  BY <1>2, <1>3 DEF Values
<1>5. Values(samples) \in Samples
  BY <1>2, <1>4 DEF Samples
<1>6. ASSUME NEW t \in Known(samples) PROVE samples[t] = {Values(samples)[t]}
  BY <1>2, <1>3 DEF Known, Values
<1>7. QED
  BY <1>2, <1>5, <1>6 DEF Values

LEMMA InputHeld ==
  ASSUME NEW samples \in InputSamples, NEW n \in Int, NEW t \in DOMAIN samples,
         t <= n, n < Reach(Values(samples), t)
  PROVE  HeldAt(samples, n) = {samples[t]}
PROOF
<1>1. PICK power : power = Values(samples)
  OBVIOUS
<1>2. power \in Samples /\ DOMAIN power = DOMAIN samples
  BY <1>1, InputsAre
<1>3. HeldAt(power, n) = {power[t]} /\ t = Max({u \in DOMAIN power : u <= n})
  BY <1>1, <1>2, NewestIsHeld
<1>4. PICK past : past = {u \in DOMAIN samples : u <= n}
  OBVIOUS
<1>5. Max(past) = t
  BY <1>2, <1>3, <1>4
<1>6. /\ HeldAt(power, n) = IF past # {} /\ n < t + HoldFor THEN {power[t]} ELSE {}
      /\ HeldAt(samples, n) = IF past # {} /\ n < t + HoldFor THEN {samples[t]} ELSE {}
  BY <1>2, <1>4, <1>5 DEF HeldAt
<1>7. past # {} /\ n < t + HoldFor
  BY <1>3, <1>6
<1>8. QED
  BY <1>6, <1>7

LEMMA InputSegmentIs ==
  ASSUME NEW samples \in InputSamples, NEW start \in Int, NEW end \in Int, NEW t \in Known(samples)
  PROVE  InputSegment(samples, start, end, t) = SegmentOf(Values(samples), start, end, t)
PROOF
<1>1. PICK power : power = Values(samples)
  OBVIOUS
<1>2. /\ power \in Samples /\ DOMAIN power = DOMAIN samples /\ t \in DOMAIN power /\ t \in Int
      /\ IsFiniteSet(DOMAIN samples) /\ DOMAIN samples \subseteq Int /\ samples[t] = {power[t]}
  BY <1>1, InputsAre DEF Known
<1>3. PICK later, ends, to, reach :
        /\ later = {u \in DOMAIN samples : u > t} /\ ends = {t + HoldFor, end} \cup later
        /\ to = Min(ends) /\ reach = Reach(power, t)
  OBVIOUS
<1>4. HoldFor \in Int
  BY EnergyAssumption
<1>5. IsFiniteSet(ends) /\ ends \subseteq Int /\ ends # {}
  <2>1. IsFiniteSet(later)
    BY <1>2, <1>3, FS_Subset
  <2>2. IsFiniteSet(later \cup {end})
    BY <2>1, FS_AddElement
  <2>3. IsFiniteSet((later \cup {end}) \cup {t + HoldFor})
    BY <2>2, FS_AddElement
  <2>4. ends = (later \cup {end}) \cup {t + HoldFor}
    BY <1>3
  <2>5. QED
    BY <1>2, <1>3, <1>4, <2>3, <2>4
<1>6. to \in ends /\ \A y \in ends : to <= y
  BY <1>3, <1>5, SmallestAndLargest
<1>7. /\ reach \in Int /\ reach <= t + HoldFor
      /\ \A u \in DOMAIN power : u > t => reach <= u
      /\ reach = t + HoldFor \/ (reach \in DOMAIN power /\ reach > t)
  BY <1>2, <1>3, ReachFacts
<1>8. reach \in ends /\ end \in ends
  BY <1>2, <1>3, <1>7
<1>9. \A y \in ends : y = end \/ reach <= y
  BY <1>2, <1>3, <1>7
<1>10. to = IF reach <= end THEN reach ELSE end
  BY <1>5, <1>6, <1>7, <1>8, <1>9
<1>11. to = Min({reach, end})
  BY <1>7, <1>10, OfTwo
<1>12. The(samples[t]) = power[t]
  BY <1>2, TheOne
<1>13. QED
  BY <1>1, <1>3, <1>11, <1>12 DEF InputSegment, SegmentOf

LEMMA InputUnits ==
  ASSUME NEW samples \in InputSamples, NEW start \in Int, NEW end \in Int,
         NEW R, R = InputSegments(samples, start, end)
  PROVE  /\ R \subseteq Segments(Values(samples), start, end)
         /\ UNION {Units(s) : s \in R} = KnownOver(samples, start, end)
         /\ R = {} <=> KnownOver(samples, start, end) = {}
PROOF
<1>1. PICK power, S : power = Values(samples) /\ S = Segments(power, start, end)
  OBVIOUS
<1>2. /\ power \in Samples /\ DOMAIN power = DOMAIN samples
      /\ \A t \in Known(samples) : samples[t] = {power[t]} /\ t \in DOMAIN power
  BY <1>1, InputsAre DEF Known
<1>3. S = {s \in {SegmentOf(power, start, end, t) : t \in DOMAIN power} : s.to > s.from}
  BY <1>1 DEF Segments, SegmentOf, Reach
<1>4. \A s : s \in R <=>
        s.to > s.from /\ \E t \in Known(samples) : s = SegmentOf(power, start, end, t)
  BY <1>1, InputSegmentIs DEF InputSegments
<1>5. R \subseteq S
  BY <1>2, <1>3, <1>4
<1>6. ASSUME NEW s \in R, NEW n \in Units(s) PROVE n \in KnownOver(samples, start, end)
  <2>1. PICK t \in Known(samples) : s = SegmentOf(power, start, end, t)
    BY <1>4
  <2>2. n \in Int
    BY <1>1, <1>2, <1>5, SegmentFacts DEF Units
  <2>3. start <= n /\ n < end /\ t <= n /\ n < Reach(power, t)
    BY <1>2, <2>1, <2>2, InSegment
  <2>4. HeldAt(samples, n) = {samples[t]} /\ samples[t] # {}
    BY <1>1, <1>2, <2>2, <2>3, InputHeld DEF Known
  <2>5. n \in start .. (end - 1) /\ HeldAt(samples, n) # {} /\ HeldAt(samples, n) # {{}}
    BY <2>2, <2>3, <2>4
  <2>6. QED
    BY <2>5 DEF KnownOver, HeldOver
<1>7. ASSUME NEW n \in KnownOver(samples, start, end) PROVE \E s \in R : n \in Units(s)
  <2>1. /\ n \in Int /\ start <= n /\ n < end
        /\ HeldAt(samples, n) # {} /\ HeldAt(samples, n) # {{}}
    BY DEF KnownOver, HeldOver
  <2>2. HeldAt(power, n) # {}
    BY <1>2, <2>1 DEF HeldAt
  <2>3. PICK t \in DOMAIN power : t <= n /\ n < Reach(power, t)
    BY <1>2, <2>1, <2>2, NewestIsHeld
  <2>4. HeldAt(samples, n) = {samples[t]}
    BY <1>1, <1>2, <2>1, <2>3, InputHeld
  <2>5. t \in Known(samples)
    BY <1>2, <2>1, <2>4 DEF Known
  <2>6. PICK s : s = SegmentOf(power, start, end, t)
    OBVIOUS
  <2>7. n \in Units(s) /\ s.from \in Int /\ s.to \in Int
    BY <1>2, <2>1, <2>3, <2>6, InSegment
  <2>8. s.to > s.from
    BY <2>1, <2>7 DEF Units
  <2>9. QED
    BY <1>4, <2>5, <2>6, <2>7, <2>8
<1>8. UNION {Units(s) : s \in R} = KnownOver(samples, start, end)
  BY <1>6, <1>7
<1>9. \A s \in R : Units(s) # {}
  <2>1. \A s \in R : s.from \in Int /\ s.to \in Int /\ s.from < s.to
    BY <1>1, <1>2, <1>5, SegmentFacts
  <2>2. \A s \in R : s.from \in Units(s)
    BY <2>1 DEF Units
  <2>3. QED
    BY <2>2
<1>10. R = {} <=> KnownOver(samples, start, end) = {}
  BY <1>7, <1>8, <1>9
<1>11. QED
  BY <1>1, <1>5, <1>8, <1>10

LEMMA InputIs ==
  ASSUME NEW samples \in InputSamples, NEW start \in Int, NEW end \in Int,
         NEW known, known = KnownOver(samples, start, end)
  PROVE  /\ IsFiniteSet(known) /\ known \subseteq start .. (end - 1)
         /\ \A n \in known : The(HeldAt(Values(samples), n)) \in Int
         /\ InputIntegral(samples, start, end) =
              [energy |-> IF known = {} THEN {} ELSE {EnergyHeld(Values(samples), known)},
               covered |-> Cardinality(known)]
PROOF
<1>1. PICK power, R, held, f :
        /\ power = Values(samples) /\ R = InputSegments(samples, start, end)
        /\ held = HeldOver(power, start, end) /\ f = HeldPower(power, start, end)
  OBVIOUS
<1>2. power \in Samples
  BY <1>1, InputsAre
<1>3. /\ R \subseteq Segments(power, start, end)
      /\ UNION {Units(s) : s \in R} = known
      /\ R = {} <=> known = {}
  BY <1>1, InputUnits
<1>4. /\ known \subseteq held /\ IsFiniteSet(known)
      /\ Covered(R) = Cardinality(known)
      /\ Weighted(R) = SumOver(f, known)
  BY <1>1, <1>2, <1>3, SumsOverUnits
<1>5. InputIntegral(samples, start, end) =
        [energy |-> IF R = {} THEN {} ELSE {Weighted(R)}, covered |-> Covered(R)]
  BY <1>1 DEF InputIntegral, InputSegments, InputSegment, Known
<1>6. \A n \in known : f[n] = The(HeldAt(power, n))
  BY <1>1, <1>4 DEF HeldPower
<1>7. EnergyHeld(power, known) = SumOver(f, known)
  BY <1>4, <1>6, HeldIsSum
<1>8. \A n \in known : f[n] \in Int
  BY <1>1, <1>2, <1>4, HeldFacts
<1>9. known \subseteq start .. (end - 1)
  BY DEF KnownOver, HeldOver
<1>10. QED
  BY <1>1, <1>3, <1>4, <1>5, <1>6, <1>7, <1>8, <1>9

(* The intervals of some width that start in D, end to end from start to end *)
Tiles(D, width, start, end) ==
  /\ Apart(D, width)
  /\ \A n \in Int : start <= n /\ n < end <=> \E i \in D : i <= n /\ n < i + width

QuartersOf(samples, D, width) == [i \in D |-> InputIntegral(samples, i, i + width)]
QuartersCovered(quarters, D) == Sum([i \in D |-> quarters[i].covered])
QuartersEnergy(quarters, D) == TotalOf([i \in D |-> quarters[i].energy])

LEMMA TotalOfSome ==
  ASSUME NEW S, NEW options, DOMAIN options = S,
         NEW E, E \subseteq S, \A i \in S : i \in E <=> options[i] # {},
         NEW f, f = [i \in E |-> f[i]], \A i \in E : options[i] = {f[i]}
  PROVE  TotalOf(options) = IF E = {} THEN {} ELSE {SumOver(f, E)}
PROOF
<1>1. PICK known : known = {i \in DOMAIN options : options[i] # {}}
  OBVIOUS
<1>2. known = E
  BY <1>1
<1>3. TotalOf(options) = IF known = {} THEN {} ELSE {Sum([i \in known |-> The(options[i])])}
  BY <1>1 DEF TotalOf
<1>4. [i \in known |-> The(options[i])] = f
  <2>1. \A i \in E : The(options[i]) = f[i]
    BY TheOne
  <2>2. QED
    BY <1>2, <2>1
<1>5. Sum(f) = SumOver(f, E)
  <2>1. DOMAIN f = E
    OBVIOUS
  <2>2. QED
    BY <2>1, SumIs
<1>6. QED
  BY <1>2, <1>3, <1>4, <1>5

(* A sample of an input without a value ends what the sample before it     *)
(* said, and a longer interval is the sum of those that it is made of,     *)
(* gaps included: an input, unlike a station, has a row for every          *)
(* interval.  For any samples and any intervals of one width               *)
(* (solar_service.integrate and reaggregate).                              *)
THEOREM InputQuartersAddUp ==
  ASSUME NEW samples \in InputSamples, NEW start \in Int, NEW end \in Int,
         NEW width \in Nat \ {0}, NEW D \in SUBSET Int, IsFiniteSet(D),
         Tiles(D, width, start, end)
  PROVE  LET quarters == QuartersOf(samples, D, width)
             whole == InputIntegral(samples, start, end)
             known == KnownOver(samples, start, end)
         IN /\ whole.covered = Cardinality(known)
            /\ whole.covered = QuartersCovered(quarters, D)
            /\ whole.energy = IF known = {} THEN {} ELSE {EnergyHeld(Values(samples), known)}
            /\ whole.energy = QuartersEnergy(quarters, D)
PROOF
<1>1. PICK power, known, quarters, whole :
        /\ power = Values(samples) /\ known = KnownOver(samples, start, end)
        /\ quarters = QuartersOf(samples, D, width)
        /\ whole = InputIntegral(samples, start, end)
  OBVIOUS
<1>2. PICK part, E, f, one, covered, energy :
        /\ part = [i \in D |-> KnownOver(samples, i, i + width)]
        /\ E = {i \in D : part[i] # {}}
        /\ f = [n \in known |-> The(HeldAt(power, n))]
        /\ one = [n \in known |-> 1]
        /\ covered = [i \in D |-> Cardinality(part[i])]
        /\ energy = [i \in E |-> SumOver(f, part[i])]
  OBVIOUS
<1>3. /\ IsFiniteSet(known) /\ known \subseteq Int
      /\ \A n \in known : f[n] \in Int /\ f[n] = The(HeldAt(power, n))
      /\ whole = [energy |-> IF known = {} THEN {} ELSE {EnergyHeld(power, known)},
                  covered |-> Cardinality(known)]
  <2>1. known \subseteq start .. (end - 1)
    BY <1>1, InputIs
  <2>2. QED
    BY <1>1, <1>2, <2>1, InputIs
<1>4. \A n : n \in known <=> \E i \in D : n \in part[i]
  <2>1. \A n : n \in known <=>
          /\ n \in Int /\ start <= n /\ n < end
          /\ HeldAt(samples, n) # {} /\ HeldAt(samples, n) # {{}}
    BY <1>1 DEF KnownOver, HeldOver
  <2>2. \A i \in D : \A n : n \in part[i] <=>
          /\ n \in Int /\ i <= n /\ n < i + width
          /\ HeldAt(samples, n) # {} /\ HeldAt(samples, n) # {{}}
    <3>1. ASSUME NEW i \in D
          PROVE  \A n : n \in part[i] <=>
                   /\ n \in Int /\ i <= n /\ n < i + width
                   /\ HeldAt(samples, n) # {} /\ HeldAt(samples, n) # {{}}
      <4>1. PICK last \in Int : last = i + width
        OBVIOUS
      <4>2. part[i] = KnownOver(samples, i, last) /\ i \in Int
        BY <1>2, <4>1
      <4>3. QED
        BY <4>1, <4>2 DEF KnownOver, HeldOver
    <3>2. QED
      BY <3>1
  <2>3. QED
    BY <2>1, <2>2 DEF Tiles
<1>5. ASSUME NEW i \in D
      PROVE  /\ IsFiniteSet(part[i]) /\ part[i] \subseteq known
             /\ \A n \in part[i] : n \in Int /\ i <= n /\ n < i + width
             /\ quarters[i].covered = covered[i]
             /\ part[i] = {} => quarters[i].energy = {}
             /\ part[i] # {} => quarters[i].energy = {SumOver(f, part[i])}
  <2>1. PICK last, row : last = i + width /\ row = InputIntegral(samples, i, last)
    OBVIOUS
  <2>2. i \in Int /\ last \in Int /\ part[i] = KnownOver(samples, i, last) /\ quarters[i] = row
    BY <1>1, <1>2, <2>1 DEF QuartersOf
  <2>3. /\ IsFiniteSet(part[i]) /\ part[i] \subseteq i .. (last - 1)
        /\ row = [energy |-> IF part[i] = {} THEN {} ELSE {EnergyHeld(power, part[i])},
                  covered |-> Cardinality(part[i])]
    <3>1. PICK piece : piece = KnownOver(samples, i, last)
      OBVIOUS
    <3>2. piece = part[i]
      BY <2>2, <3>1
    <3>3. IsFiniteSet(piece) /\ piece \subseteq i .. (last - 1)
      BY <2>2, <3>1, InputIs
    <3>4. InputIntegral(samples, i, last) =
            [energy |-> IF piece = {} THEN {} ELSE {EnergyHeld(Values(samples), piece)},
             covered |-> Cardinality(piece)]
      BY <2>2, <3>1, InputIs
    <3>5. QED
      BY <1>1, <2>1, <3>2, <3>3, <3>4
  <2>4. part[i] \subseteq known
    BY <1>4
  <2>5. EnergyHeld(power, part[i]) = SumOver(f, part[i])
    <3>1. \A n \in part[i] : f[n] = The(HeldAt(power, n))
      BY <1>3, <2>4
    <3>2. QED
      BY <2>3, <3>1, HeldIsSum
  <2>6. \A n \in part[i] : n \in Int /\ i <= n /\ n < i + width
    BY <2>1, <2>2, <2>3
  <2>7. QED
    BY <1>2, <2>2, <2>3, <2>4, <2>5, <2>6
<1>6. \A i, j \in D : i # j => part[i] \cap part[j] = {}
  <2>1. ASSUME NEW i \in D, NEW j \in D, i # j PROVE part[i] \cap part[j] = {}
    <3>1. i + width <= j \/ j + width <= i
      BY <2>1 DEF Tiles, Apart
    <3>2. QED
      BY <1>5, <3>1
  <2>2. QED
    BY <2>1
<1>7. Parted(known, part, D)
  <2>1. known = UNION {part[i] : i \in D}
    BY <1>4
  <2>2. QED
    BY <1>5, <1>6, <2>1 DEF Parted
<1>8. IsFiniteSet(E) /\ E \subseteq D
  BY <1>2, FS_Subset
<1>9. Parted(known, part, E)
  <2>1. \A n : n \in known <=> \E i \in E : n \in part[i]
    BY <1>2, <1>4
  <2>2. known = UNION {part[i] : i \in E}
    BY <2>1
  <2>3. QED
    BY <1>5, <1>6, <1>8, <2>2 DEF Parted
<1>10. SumOver(energy, E) = SumOver(f, known)
  <2>1. SumsOfParts(f, energy, part, E)
    BY <1>2, <1>3, <1>5, <1>8 DEF SumsOfParts
  <2>2. QED
    BY <1>8, <1>9, <2>1, SumByParts
<1>11. SumOver(covered, D) = Cardinality(known)
  <2>1. PICK k \in Int : k = 1
    OBVIOUS
  <2>2. \A n \in known : one[n] = k
    BY <1>2, <2>1
  <2>3. ASSUME NEW i \in D PROVE covered[i] = SumOver(one, part[i])
    <3>1. \A n \in part[i] : one[n] = k
      BY <1>5, <2>2
    <3>2. SumOver(one, part[i]) = Cardinality(part[i]) * k /\ Cardinality(part[i]) \in Nat
      BY <1>5, <3>1, SumOfConstant, FS_CardinalityType
    <3>3. QED
      BY <1>2, <2>1, <3>2
  <2>4. SumsOfParts(one, covered, part, D)
    BY <1>5, <2>1, <2>2, <2>3 DEF SumsOfParts
  <2>5. SumOver(covered, D) = SumOver(one, known)
    BY <1>7, <2>4, SumByParts
  <2>6. SumOver(one, known) = Cardinality(known) * k /\ Cardinality(known) \in Nat
    BY <1>3, <2>2, SumOfConstant, FS_CardinalityType
  <2>7. QED
    BY <2>1, <2>5, <2>6
<1>12. QuartersCovered(quarters, D) = Cardinality(known)
  <2>1. [i \in D |-> quarters[i].covered] = covered
    BY <1>2, <1>5
  <2>2. DOMAIN covered = D
    BY <1>2
  <2>3. QED
    BY <1>11, <2>1, <2>2, SumIs DEF QuartersCovered
<1>13. QuartersEnergy(quarters, D) = whole.energy
  <2>1. PICK options : options = [i \in D |-> quarters[i].energy]
    OBVIOUS
  <2>2. E \subseteq D /\ \A i \in D : i \in E <=> options[i] # {}
    BY <1>2, <1>5, <2>1
  <2>3. \A i \in E : options[i] = {energy[i]}
    BY <1>2, <1>5, <2>1
  <2>4. energy = [i \in E |-> energy[i]] /\ DOMAIN options = D
    BY <1>2, <2>1
  <2>5. TotalOf(options) = IF E = {} THEN {} ELSE {SumOver(energy, E)}
    BY <2>2, <2>3, <2>4, TotalOfSome
  <2>6. E = {} <=> known = {}
    BY <1>2, <1>4
  <2>7. EnergyHeld(power, known) = SumOver(f, known)
    BY <1>3, HeldIsSum
  <2>8. QED
    BY <1>3, <1>10, <2>1, <2>5, <2>6, <2>7 DEF QuartersEnergy
<1>14. QED
  BY <1>1, <1>3, <1>12, <1>13

(***************************************************************************)
(* Costs, unit by unit                                                     *)
(***************************************************************************)
(* The instants at which the price changes are among the edges.            *)
ChangesAtEdges(edges, price, start, end) ==
  \A n \in Int : start < n /\ n < end /\ price[n] # price[n - 1] => n \in edges

LEMMA PartsCover ==
  ASSUME NEW edges \in SUBSET Int, IsFiniteSet(edges), NEW price,
         NEW start \in Int, NEW end \in Int, start < end,
         NEW parts, parts = PriceParts(edges, price, start, end)
  PROVE  /\ \A p \in parts : /\ p.value = price[p.from]
                             /\ \A t \in edges : ~(p.from < t /\ t < p.to)
         /\ \A n \in start .. (end - 1) : \E p \in parts : n \in Units(p)
PROOF
<1>1. PICK cuts : cuts = {start, end} \cup {t \in edges : start < t /\ t < end}
  OBVIOUS
<1>2. start \in cuts /\ end \in cuts /\ \A t \in cuts : t \in Int /\ start <= t /\ t <= end
  BY <1>1
<1>3. IsFiniteSet(cuts)
  <2>1. IsFiniteSet({start} \cup {end})
    BY FS_Singleton, FS_Union
  <2>2. IsFiniteSet({t \in edges : start < t /\ t < end})
    BY FS_Subset
  <2>3. IsFiniteSet(({start} \cup {end}) \cup {t \in edges : start < t /\ t < end})
    BY <2>1, <2>2, FS_Union
  <2>4. cuts = ({start} \cup {end}) \cup {t \in edges : start < t /\ t < end}
    BY <1>1
  <2>5. QED
    BY <2>3, <2>4
<1> DEFINE next(t) == Min({u \in cuts : u > t})
           part(t) == [from |-> t, to |-> next(t), value |-> price[t]]
<1>4. parts = {part(t) : t \in cuts \ {end}}
  BY <1>1 DEF PriceParts
<1>5. ASSUME NEW t \in cuts \ {end}
      PROVE  next(t) \in cuts /\ t < next(t) /\ \A u \in cuts : u > t => next(t) <= u
  <2>1. PICK later : later = {u \in cuts : u > t}
    OBVIOUS
  <2>2. t \in Int /\ t < end /\ later \subseteq cuts /\ later \subseteq Int
    <3>1. t \in Int /\ t <= end /\ t # end /\ end \in Int
      BY <1>2
    <3>2. later \subseteq cuts
      BY <2>1
    <3>3. QED
      BY <1>2, <3>1, <3>2
  <2>3. IsFiniteSet(later) /\ end \in later
    BY <1>2, <1>3, <2>1, <2>2, FS_Subset
  <2>4. Min(later) \in later /\ \A u \in later : Min(later) <= u
    BY <2>2, <2>3, SmallestAndLargest
  <2>5. QED
    BY <2>1, <2>4
<1> HIDE DEF next
<1>6. ASSUME NEW p \in parts
      PROVE  /\ p.value = price[p.from]
             /\ \A t \in edges : ~(p.from < t /\ t < p.to)
  <2>1. PICK t \in cuts \ {end} : p = part(t)
    BY <1>4
  <2>2. p.from = t /\ p.to = next(t) /\ p.value = price[t]
    BY <2>1
  <2>3. ASSUME NEW u \in edges, t < u, u < next(t) PROVE FALSE
    <3>1. t \in Int /\ start <= t /\ next(t) \in Int /\ next(t) <= end
      BY <1>2, <1>5
    <3>2. u \in cuts
      BY <1>1, <2>3, <3>1
    <3>3. QED
      BY <1>5, <2>3, <3>1, <3>2
  <2>4. QED
    BY <2>2, <2>3
<1>7. ASSUME NEW n \in start .. (end - 1) PROVE \E p \in parts : n \in Units(p)
  <2>1. PICK past : past = {u \in cuts : u <= n}
    OBVIOUS
  <2>2. past \subseteq cuts /\ past \subseteq Int /\ start \in past /\ end \notin past
    <3>1. past \subseteq cuts
      BY <2>1
    <3>2. n \in Int /\ start <= n /\ n < end
      OBVIOUS
    <3>3. start \in past /\ end \notin past
      BY <1>2, <2>1, <3>2
    <3>4. QED
      BY <1>2, <3>1, <3>3
  <2>3. IsFiniteSet(past)
    BY <1>3, <2>2, FS_Subset
  <2>4. PICK t : t = Max(past)
    OBVIOUS
  <2>5. t \in past /\ \A u \in past : u <= t
    BY <2>2, <2>3, <2>4, SmallestAndLargest
  <2>6. t \in cuts \ {end} /\ t \in Int /\ t <= n
    BY <2>1, <2>2, <2>5
  <2>7. next(t) \in cuts /\ t < next(t) /\ next(t) \in Int
    BY <1>2, <1>5, <2>6
  <2>8. n < next(t)
    <3>1. next(t) \notin past
      BY <2>5, <2>6, <2>7
    <3>2. QED
      BY <2>1, <2>7, <3>1
  <2>9. PICK p : p = part(t)
    OBVIOUS
  <2>10. p \in parts /\ p.from = t /\ p.to = next(t)
    BY <1>4, <2>6, <2>9
  <2>11. n \in Units(p)
    BY <2>6, <2>7, <2>8, <2>10 DEF Units
  <2>12. QED
    BY <2>10, <2>11
<1>8. QED
  BY <1>6, <1>7

LEMMA PartHasOnePrice ==
  ASSUME NEW edges \in SUBSET Int, IsFiniteSet(edges), NEW price,
         NEW start \in Int, NEW end \in Int, start < end,
         ChangesAtEdges(edges, price, start, end),
         NEW p \in PriceParts(edges, price, start, end)
  PROVE  \A n \in Units(p) : price[n] = p.value
PROOF
<1>1. PICK from, to : from = p.from /\ to = p.to
  OBVIOUS
<1>2. /\ from \in Int /\ to \in Int /\ start <= from /\ from < to /\ to <= end
      /\ p.value = price[from] /\ \A t \in edges : ~(from < t /\ t < to)
  <2>1. PICK parts : parts = PriceParts(edges, price, start, end)
    OBVIOUS
  <2>2. p \in parts
    BY <2>1
  <2>3. from \in Int /\ to \in Int /\ start <= from /\ from < to /\ to <= end
    BY <1>1, <2>1, <2>2, PartFacts
  <2>4. p.value = price[from] /\ \A t \in edges : ~(from < t /\ t < to)
    BY <1>1, <2>1, <2>2, PartsCover
  <2>5. QED
    BY <2>3, <2>4
<1>3. PICK far : far = {d \in Nat : from + d < to /\ price[from + d] # p.value}
  OBVIOUS
<1>4. ASSUME far # {} PROVE FALSE
  <2>1. PICK d \in far : \A e \in far : d <= e
    <3>1. far \subseteq Nat
      BY <1>3
    <3>2. QED
      BY <1>4, <3>1, FirstExists
  <2>2. d \in Nat /\ from + d < to /\ price[from + d] # p.value
    BY <1>3
  <2>3. d # 0
    <3>1. from + 0 = from
      BY <1>2
    <3>2. QED
      BY <1>2, <2>2, <3>1
  <2>4. d - 1 \in Nat /\ from + (d - 1) < to /\ d - 1 \notin far
    BY <1>2, <2>1, <2>2, <2>3
  <2>5. price[from + (d - 1)] = p.value
    BY <1>3, <2>4
  <2>6. PICK n \in Int : n = from + d
    BY <1>2, <2>2
  <2>7. n - 1 = from + (d - 1) /\ start < n /\ n < end /\ from < n /\ n < to
    BY <1>2, <2>2, <2>3, <2>6
  <2>8. price[n] # price[n - 1]
    BY <2>2, <2>5, <2>6, <2>7
  <2>9. n \in edges
    BY <2>7, <2>8 DEF ChangesAtEdges
  <2>10. QED
    BY <1>2, <2>7, <2>9
<1>5. ASSUME NEW n \in Units(p) PROVE price[n] = p.value
  <2>1. n \in Int /\ from <= n /\ n < to
    BY <1>1, <1>2 DEF Units
  <2>2. PICK d \in Nat : d = n - from
    BY <1>2, <2>1
  <2>3. n = from + d /\ d \notin far
    BY <1>2, <1>4, <2>1, <2>2
  <2>4. QED
    BY <1>3, <2>1, <2>2, <2>3
<1>6. QED
  BY <1>5

CostAt(price, rate, S) == MapThenSumSet(LAMBDA n : rate * The(price[n]), S)

LEMMA CostAtIsSum ==
  ASSUME NEW price, NEW rate, NEW S, IsFiniteSet(S), NEW f, \A n \in S : f[n] = rate * The(price[n])
  PROVE  CostAt(price, rate, S) = SumOver(f, S)
PROOF
<1> DEFINE Recursion(h) == h = [s \in SUBSET S |->
             IF s = {} THEN 0 ELSE rate * The(price[First(s)]) + h[s \ {First(s)}]]
           fold == CHOOSE h : Recursion(h)
<1>1. CostAt(price, rate, S) = fold[S]
  BY DEF CostAt, MapThenSumSet, MapThenFoldSet, First
<1>2. \A s \in SUBSET S : s # {} => f[First(s)] = rate * The(price[First(s)])
  BY DEF First
<1>3. \A h : SummedOver(f, SUBSET S, h) <=> Recursion(h)
  BY <1>2 DEF SummedOver
<1>4. \E h : Recursion(h)
  BY <1>3, SumsExist
<1>5. Recursion(fold)
  BY <1>4
<1> HIDE DEF Recursion, fold
<1>6. SummedOver(f, SUBSET S, fold)
  BY <1>3, <1>5
<1>7. QED
  BY <1>1, <1>6, SumsAreUnique

(* The units of a part, as a set and as a number.                          *)
LEMMA UnitsOfPart ==
  ASSUME NEW p, p.from \in Int, p.to \in Int, p.from < p.to
  PROVE  /\ IsFiniteSet(Units(p)) /\ Cardinality(Units(p)) = Length(p) /\ Length(p) \in Nat
         /\ Units(p) # {}
PROOF
<1>1. PICK a, b : a = p.from /\ b = p.to - 1
  OBVIOUS
<1>2. a \in Int /\ b \in Int /\ a <= b
  BY <1>1
<1>3. Units(p) = a .. b /\ Length(p) = b - a + 1
  BY <1>1 DEF Units, Length
<1>4. IsFiniteSet(a .. b) /\ Cardinality(a .. b) = b - a + 1
  BY <1>2, FS_Interval
<1>5. a \in a .. b /\ b - a + 1 \in Nat
  BY <1>2
<1>6. QED
  BY <1>3, <1>4, <1>5

(* Energy that is spread evenly over its segment costs what it costs unit  *)
(* by unit, wherever and however often the price changes inside, and it is *)
(* priced in full just when every unit has a price (split_prices and       *)
(* cost_segments).  For any segment, any prices and any edges that the     *)
(* changes of the price are among.                                         *)
THEOREM CostIsPointwise ==
  ASSUME NEW edges \in SUBSET Int, IsFiniteSet(edges), NEW price,
         NEW segment, NEW start \in Int, NEW end \in Int, NEW rate \in Nat,
         segment.start = start, segment.end = end, start < end,
         segment.energy = {rate * (end - start)},
         ChangesAtEdges(edges, price, start, end),
         \A n \in start .. (end - 1) : price[n] \in Options(Int)
  PROVE  LET some == {n \in start .. (end - 1) : price[n] # {}}
             c == CostOfOne(edges, price, segment)
         IN /\ c.cost = CostAt(price, rate, some)
            /\ c.priced = Cardinality(some) * rate
            /\ rate > 0 => (c.priced = rate * (end - start) <=> some = start .. (end - 1))
PROOF
<1>1. PICK units, some, parts, priced, c :
        /\ units = start .. (end - 1) /\ some = {n \in units : price[n] # {}}
        /\ parts = PriceParts(edges, price, start, end) /\ priced = Priced(parts)
        /\ c = CostOfOne(edges, price, segment)
  OBVIOUS
<1>2. PICK width, energy : width = end - start /\ energy = rate * width
  OBVIOUS
<1>3. width \in Nat \ {0} /\ energy \in Nat /\ segment.energy = {energy}
  <2>1. width \in Nat \ {0}
    BY <1>2
  <2>2. energy \in Nat
    BY <1>2, <2>1, ProductFacts
  <2>3. QED
    BY <1>2, <2>1, <2>2
<1>4. IsFiniteSet(units) /\ Cardinality(units) = width /\ some \subseteq units /\ IsFiniteSet(some)
  <2>1. IsFiniteSet(units) /\ Cardinality(units) = width
    BY <1>1, <1>2, FS_Interval
  <2>2. some \subseteq units
    BY <1>1
  <2>3. QED
    BY <2>1, <2>2, FS_Subset
<1>5. /\ IsFiniteSet(parts)
      /\ \A p \in parts : /\ p.from \in Int /\ p.to \in Int
                          /\ start <= p.from /\ p.from < p.to /\ p.to <= end
      /\ \A p, q \in parts : p # q => Units(p) \cap Units(q) = {}
  BY <1>1, PartFacts
<1>6. \A n \in units : \E p \in parts : n \in Units(p)
  BY <1>1, PartsCover
<1>7. ASSUME NEW p \in parts
      PROVE  /\ Units(p) \subseteq units /\ IsFiniteSet(Units(p)) /\ Units(p) # {}
             /\ Cardinality(Units(p)) = Length(p) /\ Length(p) \in Nat
             /\ \A n \in Units(p) : price[n] = p.value
             /\ p.value \in Options(Int)
  <2>1. p.from \in Int /\ p.to \in Int /\ start <= p.from /\ p.from < p.to /\ p.to <= end
    BY <1>5
  <2>2. /\ IsFiniteSet(Units(p)) /\ Units(p) # {}
        /\ Cardinality(Units(p)) = Length(p) /\ Length(p) \in Nat
    BY <2>1, UnitsOfPart
  <2>3. Units(p) \subseteq units
    BY <1>1, <2>1 DEF Units
  <2>4. \A n \in Units(p) : price[n] = p.value
    BY <1>1, PartHasOnePrice
  <2>5. PICK n : n \in Units(p)
    BY <2>2
  <2>6. p.value \in Options(Int)
    BY <1>1, <2>3, <2>4, <2>5
  <2>7. QED
    BY <2>2, <2>3, <2>4, <2>6
<1>8. PICK part, one, length, portion, f, cost :
        /\ part = [p \in parts |-> Units(p)]
        /\ one = [n \in units |-> 1]
        /\ length = [p \in parts |-> Length(p)]
        /\ portion = [p \in parts |-> Portion(segment, p, parts)]
        /\ f = [n \in units |-> rate * The(price[n])]
        /\ cost = [p \in parts |-> Portion(segment, p, parts) * The(p.value)]
  OBVIOUS
<1>9. SumOver(length, parts) = width
  <2>1. PICK k \in Int : k = 1
    OBVIOUS
  <2>2. \A n \in units : one[n] = k
    BY <1>8, <2>1
  <2>3. ASSUME NEW p \in parts PROVE length[p] = SumOver(one, part[p])
    <3>1. \A n \in Units(p) : one[n] = k
      BY <1>7, <2>2
    <3>2. SumOver(one, Units(p)) = Cardinality(Units(p)) * k
      BY <1>7, <3>1, SumOfConstant
    <3>3. QED
      BY <1>7, <1>8, <2>1, <3>2
  <2>4. Parted(units, part, parts)
    <3>1. units = UNION {part[p] : p \in parts}
      BY <1>6, <1>7, <1>8
    <3>2. \A p, q \in parts : p # q => part[p] \cap part[q] = {}
      BY <1>5, <1>8
    <3>3. \A p \in parts : IsFiniteSet(part[p])
      BY <1>7, <1>8
    <3>4. QED
      BY <3>1, <3>2, <3>3 DEF Parted
  <2>5. SumsOfParts(one, length, part, parts)
    BY <1>7, <1>8, <2>1, <2>2, <2>3 DEF SumsOfParts
  <2>6. SumOver(length, parts) = SumOver(one, units)
    BY <1>5, <2>4, <2>5, SumByParts
  <2>7. SumOver(one, units) = Cardinality(units) * k
    BY <1>4, <2>2, SumOfConstant
  <2>8. QED
    BY <1>3, <1>4, <2>1, <2>6, <2>7
<1>10. ASSUME NEW p \in parts PROVE portion[p] = rate * length[p] /\ portion[p] \in Nat
  <2>1. PICK last \in parts : last.to = end /\ \A q \in parts : q.to = end => q = last
    BY <1>1, PartFacts
  <2>2. ASSUME NEW q \in parts PROVE Share(segment, q) = rate * length[q] /\ length[q] \in Nat
    <3>1. PICK l \in Nat : l = Length(q)
      BY <1>7
    <3>2. Share(segment, q) = (energy * l) \div width
      BY <1>2, <1>3, <3>1, TheOne DEF Share
    <3>3. PICK x \in Nat : x = rate * l
      BY <3>1, ProductFacts
    <3>4. energy * l = width * x
      BY <1>2, <1>3, <3>1, <3>3
    <3>5. (width * x) \div width = x
      BY <1>3, <3>3
    <3>6. QED
      BY <1>8, <3>1, <3>2, <3>3, <3>4, <3>5
  <2>3. CASE p # last
    <3>1. p.to # end
      BY <2>1, <2>3
    <3>2. portion[p] = Share(segment, p)
      BY <1>8, <3>1, PortionIs
    <3>3. rate * length[p] \in Nat
      BY <2>2, ProductFacts
    <3>4. QED
      BY <2>2, <3>2, <3>3
  <2>4. CASE p = last
    <3>1. PICK others : others = parts \ {p}
      OBVIOUS
    <3>2. IsFiniteSet(others) /\ others \subseteq parts
      BY <1>5, <3>1, FS_Subset
    <3>3. PICK share : share = [q \in parts |-> Share(segment, q)]
      OBVIOUS
    <3>4. portion[p] = energy - SumOver(share, others)
      <4>1. Portion(segment, p, parts) = energy - SumOfShares(segment, others)
        BY <1>3, <2>1, <2>4, <3>1, TheOne, PortionIs
      <4>2. \A q \in others : share[q] = Share(segment, q)
        BY <3>2, <3>3
      <4>3. SumOfShares(segment, others) = SumOver(share, others)
        BY <3>2, <4>2, SharesAreSum
      <4>4. QED
        BY <1>8, <4>1, <4>3
    <3>5. \A q \in parts : length[q] \in Int
      BY <2>2
    <3>6. PICK rest \in Int : rest = SumOver(length, others)
      BY <3>2, <3>5, SumIsInteger
    <3>7. SumOver(share, others) = rate * rest
      <4>1. \A q \in others : length[q] \in Int /\ share[q] = rate * length[q]
        BY <2>2, <3>2, <3>3
      <4>2. QED
        BY <3>2, <3>6, <4>1, SumOfMultiples
    <3>8. width = length[p] + rest
      BY <1>5, <1>9, <3>1, <3>5, <3>6, SumWithout
    <3>9. PICK l \in Nat : l = length[p]
      BY <2>2
    <3>10. energy = rate * l + rate * rest
      <4>1. width = l + rest
        BY <3>8, <3>9
      <4>2. rate \in Int /\ l \in Int /\ rest \in Int
        BY <3>6, <3>9
      <4>3. rate * (l + rest) = rate * l + rate * rest
        BY <4>2, Distribution
      <4>4. QED
        BY <1>2, <4>1, <4>3
    <3>11. rate * l \in Nat /\ rate * rest \in Int
      BY <3>9, ProductFacts
    <3>12. QED
      BY <3>4, <3>7, <3>9, <3>10, <3>11
  <2>5. QED
    BY <2>3, <2>4
<1>11. /\ IsFiniteSet(priced) /\ priced \subseteq parts
       /\ \A p \in parts : p \in priced <=> p.value # {}
  <2>1. priced \subseteq parts /\ \A p \in parts : p \in priced <=> p.value # {}
    BY <1>1 DEF Priced
  <2>2. QED
    BY <1>5, <2>1, FS_Subset
<1>12. Parted(some, part, priced)
  <2>1. ASSUME NEW n \in units PROVE n \in some <=> \E p \in priced : n \in Units(p)
    <3>1. n \in some <=> price[n] # {}
      BY <1>1
    <3>2. \A p \in parts : n \in Units(p) => (p \in priced <=> price[n] # {})
      BY <1>7, <1>11
    <3>3. QED
      BY <1>6, <1>11, <3>1, <3>2
  <2>2. \A p \in priced : part[p] = Units(p) /\ Units(p) \subseteq units
    BY <1>7, <1>8, <1>11
  <2>3. \A n : n \in some <=> \E p \in priced : n \in part[p]
    BY <1>4, <2>1, <2>2
  <2>4. some = UNION {part[p] : p \in priced}
    BY <2>3
  <2>5. \A p, q \in priced : p # q => part[p] \cap part[q] = {}
    BY <1>5, <1>11, <2>2
  <2>6. \A p \in priced : IsFiniteSet(part[p])
    BY <1>7, <1>11, <2>2
  <2>7. QED
    BY <2>4, <2>5, <2>6 DEF Parted
<1>13. c.cost = SumOfCosts(segment, parts, priced) /\ c.priced = SumOfPortions(segment, parts, priced)
  <2>1. parts = PriceParts(edges, price, segment.start, segment.end)
    BY <1>1
  <2>2. QED
    BY <1>1, <2>1, CostIs
<1>14. c.priced = Cardinality(some) * rate
  <2>1. PICK r : r = [n \in units |-> rate]
    OBVIOUS
  <2>2. \A n \in units : r[n] = rate
    BY <2>1
  <2>3. ASSUME NEW p \in priced
        PROVE  portion[p] = SumOver(r, part[p]) /\ \A n \in part[p] : r[n] \in Int
    <3>1. p \in parts /\ part[p] = Units(p) /\ length[p] = Length(p)
      BY <1>8, <1>11
    <3>2. \A n \in Units(p) : r[n] = rate
      BY <1>7, <2>2, <3>1
    <3>3. SumOver(r, Units(p)) = Cardinality(Units(p)) * rate
      BY <1>7, <3>1, <3>2, SumOfConstant
    <3>4. PICK l \in Nat : l = Length(p)
      BY <1>7, <3>1
    <3>5. portion[p] = rate * l /\ SumOver(r, part[p]) = l * rate
      BY <1>7, <1>10, <3>1, <3>3, <3>4
    <3>6. QED
      BY <3>1, <3>2, <3>5
  <2>4. SumsOfParts(r, portion, part, priced)
    BY <2>3 DEF SumsOfParts
  <2>5. SumOver(portion, priced) = SumOver(r, some)
    BY <1>11, <1>12, <2>4, SumByParts
  <2>6. SumOver(r, some) = Cardinality(some) * rate
    <3>1. \A n \in some : r[n] = rate
      BY <1>4, <2>2
    <3>2. QED
      BY <1>4, <3>1, SumOfConstant
  <2>7. SumOfPortions(segment, parts, priced) = SumOver(portion, priced)
    <3>1. \A p \in priced : portion[p] = Portion(segment, p, parts)
      BY <1>8, <1>11
    <3>2. QED
      BY <1>11, <3>1, PortionsAreSum
  <2>8. QED
    BY <1>13, <2>5, <2>6, <2>7
<1>15. c.cost = CostAt(price, rate, some)
  <2>1. ASSUME NEW p \in priced
        PROVE  cost[p] = SumOver(f, part[p]) /\ \A n \in part[p] : f[n] \in Int
    <3>1. p \in parts /\ part[p] = Units(p) /\ length[p] = Length(p) /\ p.value # {}
      BY <1>8, <1>11
    <3>2. PICK v \in Int : v = The(p.value)
      <4>1. PICK x : x \in p.value
        BY <3>1
      <4>2. QED
        BY <1>7, <3>1, <4>1, OptionFacts
    <3>3. PICK y \in Int : y = rate * v
      BY <3>2
    <3>4. \A n \in Units(p) : f[n] = y
      <4>1. \A n \in Units(p) : n \in units /\ price[n] = p.value
        BY <1>7, <3>1
      <4>2. QED
        BY <1>8, <3>2, <3>3, <4>1
    <3>5. SumOver(f, Units(p)) = Cardinality(Units(p)) * y
      BY <1>7, <3>1, <3>4, SumOfConstant
    <3>6. PICK l \in Nat : l = Length(p)
      BY <1>7, <3>1
    <3>7. cost[p] = portion[p] * v /\ portion[p] = rate * l
      BY <1>8, <1>10, <3>1, <3>2, <3>6
    <3>8. (rate * l) * v = l * (rate * v)
      BY <3>2, <3>6
    <3>9. cost[p] = SumOver(f, part[p])
      BY <1>7, <3>1, <3>3, <3>5, <3>6, <3>7, <3>8
    <3>10. QED
      BY <3>1, <3>4, <3>9
  <2>2. SumsOfParts(f, cost, part, priced)
    BY <2>1 DEF SumsOfParts
  <2>3. SumOver(cost, priced) = SumOver(f, some)
    BY <1>11, <1>12, <2>2, SumByParts
  <2>4. SumOfCosts(segment, parts, priced) = SumOver(cost, priced)
    <3>1. \A p \in priced : cost[p] = Portion(segment, p, parts) * The(p.value)
      BY <1>8, <1>11
    <3>2. QED
      BY <1>11, <3>1, CostIsSum
  <2>5. CostAt(price, rate, some) = SumOver(f, some)
    <3>1. \A n \in some : f[n] = rate * The(price[n])
      BY <1>4, <1>8
    <3>2. QED
      BY <1>4, <3>1, CostAtIsSum
  <2>6. QED
    BY <1>13, <2>3, <2>4, <2>5
<1>16. ASSUME rate > 0 PROVE c.priced = energy <=> some = units
  <2>1. PICK n \in Nat : n = Cardinality(some)
    BY <1>4, FS_CardinalityType
  <2>2. n = width <=> some = units
    BY <1>4, <2>1, FS_Subset
  <2>3. n * rate = rate * width <=> n = width
    <3>1. rate \in Nat \ {0} /\ rate * n = n * rate
      BY <1>16, <2>1
    <3>2. rate * n = rate * width => rate * n <= rate * width /\ rate * width <= rate * n
      BY <1>3, <2>1
    <3>3. rate * n <= rate * width => n <= width
      BY <1>3, <2>1, <3>1, Cancel
    <3>4. rate * width <= rate * n => width <= n
      BY <1>3, <2>1, <3>1, Cancel
    <3>5. QED
      BY <1>3, <2>1, <3>1, <3>2, <3>3, <3>4
  <2>4. QED
    BY <1>2, <1>14, <2>1, <2>2, <2>3
<1>17. QED
  BY <1>1, <1>2, <1>14, <1>15, <1>16

(***************************************************************************)
(* What a charging session saves                                           *)
(***************************************************************************)
(* Sums that are equal of terms that compare are sums of equal terms.      *)
LEMMA SumsEqual ==
  ASSUME NEW f, NEW g, NEW S, IsFiniteSet(S),
         \A x \in S : f[x] \in Int /\ g[x] \in Int /\ f[x] <= g[x],
         SumOver(f, S) = SumOver(g, S), NEW x \in S
  PROVE  f[x] = g[x]
PROOF
<1>1. PICK rest : rest = S \ {x}
  OBVIOUS
<1>2. IsFiniteSet(rest) /\ \A y \in rest : f[y] \in Int /\ g[y] \in Int /\ f[y] <= g[y]
  BY <1>1, FS_Subset
<1>3. PICK a \in Int, b \in Int : a = SumOver(f, rest) /\ b = SumOver(g, rest)
  BY <1>2, SumIsInteger
<1>4. a <= b
  BY <1>2, <1>3, SumCompares
<1>5. SumOver(f, S) = f[x] + a /\ SumOver(g, S) = g[x] + b
  BY <1>1, <1>3, SumWithout
<1>6. PICK u \in Int, v \in Int : u = f[x] /\ v = g[x]
  OBVIOUS
<1>7. u <= v /\ u + a = v + b
  BY <1>5, <1>6
<1>8. u = v
  BY <1>3, <1>4, <1>7
<1>9. QED
  BY <1>6, <1>8

(* A segment is priced in full when no energy falls into a part without a  *)
(* price, and never more than in full.                                     *)
FullyPriced(edges, price, segment) ==
  LET parts == PriceParts(edges, price, segment.start, segment.end)
  IN \A p \in parts : p.value # {} \/ Portion(segment, p, parts) = 0

(* A price that never changes. *)
Flat(price, k) == \A n \in Int : price[n] = {k}

LEMMA PricedInFull ==
  ASSUME NEW edges \in SUBSET Int, IsFiniteSet(edges), NEW price,
         NEW segment, NEW start \in Int, NEW end \in Int, NEW energy \in Nat,
         segment.start = start, segment.end = end, segment.energy = {energy}, start < end
  PROVE  LET c == CostOfOne(edges, price, segment)
         IN /\ c.priced \in 0 .. energy
            /\ c.priced = energy => FullyPriced(edges, price, segment)
PROOF
<1>1. PICK parts, portion :
        /\ parts = PriceParts(edges, price, start, end)
        /\ portion = [p \in parts |-> Portion(segment, p, parts)]
  OBVIOUS
<1>2. /\ IsFiniteSet(parts) /\ \A p \in parts : portion[p] \in Nat
      /\ SumOver(portion, parts) = energy
  BY <1>1, PortionFacts
<1>3. PICK priced, c :
        /\ parts = PriceParts(edges, price, start, end)
        /\ portion = [p \in parts |-> Portion(segment, p, parts)]
        /\ priced = Priced(parts) /\ c = CostOfOne(edges, price, segment)
  BY <1>1
<1>4. c.priced \in 0 .. energy
  BY <1>3, PortionsAddUp
<1>5. priced \subseteq parts /\ \A p \in parts : p \in priced <=> p.value # {}
  BY <1>3 DEF Priced
<1>6. IsFiniteSet(priced)
  BY <1>2, <1>5, FS_Subset
<1>7. c.priced = SumOver(portion, priced)
  <2>1. parts = PriceParts(edges, price, segment.start, segment.end)
    BY <1>3
  <2>2. c.priced = SumOfPortions(segment, parts, priced)
    BY <1>3, <2>1, CostIs
  <2>3. \A p \in priced : portion[p] = Portion(segment, p, parts)
    BY <1>3, <1>5
  <2>4. QED
    BY <1>6, <2>2, <2>3, PortionsAreSum
<1>8. ASSUME c.priced = energy, NEW p \in parts, p.value = {}
      PROVE  Portion(segment, p, parts) = 0
  <2>1. PICK rest : rest = parts \ {p}
    OBVIOUS
  <2>2. IsFiniteSet(rest) /\ priced \subseteq rest /\ \A q \in rest : portion[q] \in Nat
    BY <1>2, <1>5, <1>8, <2>1, FS_Subset
  <2>3. SumOver(portion, parts) = portion[p] + SumOver(portion, rest)
    BY <1>2, <2>1, SumWithout
  <2>4. SumOver(portion, priced) <= SumOver(portion, rest)
    BY <2>2, SumGrows
  <2>5. SumOver(portion, rest) \in Nat
    BY <2>2, SumIsNatural
  <2>6. portion[p] = 0
    BY <1>2, <1>7, <1>8, <2>3, <2>4, <2>5
  <2>7. QED
    BY <1>3, <2>6
<1>9. c.priced = energy => FullyPriced(edges, price, segment)
  BY <1>3, <1>8 DEF FullyPriced
<1>10. QED
  BY <1>3, <1>4, <1>9

(* At a price that never changes, a segment costs that price. *)
LEMMA FlatSegment ==
  ASSUME NEW edges \in SUBSET Int, IsFiniteSet(edges), NEW price, NEW k \in Int, Flat(price, k),
         NEW segment, segment.start \in Int, segment.end \in Int, segment.start < segment.end,
         NEW energy \in Nat, segment.energy = {energy}, NEW cost, cost = k * energy
  PROVE  CostOfOne(edges, price, segment).cost = cost
PROOF
<1>1. PICK start \in Int, end \in Int : start = segment.start /\ end = segment.end /\ start < end
  OBVIOUS
<1>2. PICK parts : parts = PriceParts(edges, price, start, end)
  OBVIOUS
<1>3. \A p \in parts : p.from \in Int
  BY <1>1, <1>2, PartFacts
<1>4. \A p \in parts : p.value = price[p.from]
  BY <1>1, <1>2, PartsCover
<1>5. \A p \in parts : p.value = {k}
  BY <1>3, <1>4 DEF Flat
<1>6. CostOfOne(edges, price, segment).cost = k * energy
  BY <1>1, <1>2, <1>5, AtOnePrice
<1>7. QED
  BY <1>6

SumOfCost(edges, price, S) == MapThenSumSet(LAMBDA s : CostOfOne(edges, price, s).cost, S)
SumOfPriced(edges, price, S) == MapThenSumSet(LAMBDA s : CostOfOne(edges, price, s).priced, S)

LEMMA CostOfIsSum ==
  ASSUME NEW edges, NEW price, NEW S, IsFiniteSet(S),
         NEW f, \A s \in S : f[s] = CostOfOne(edges, price, s).cost
  PROVE  SumOfCost(edges, price, S) = SumOver(f, S)
PROOF
<1> DEFINE Recursion(h) == h = [s \in SUBSET S |->
             IF s = {} THEN 0 ELSE CostOfOne(edges, price, First(s)).cost + h[s \ {First(s)}]]
           fold == CHOOSE h : Recursion(h)
<1>1. SumOfCost(edges, price, S) = fold[S]
  BY DEF SumOfCost, MapThenSumSet, MapThenFoldSet, First
<1>2. \A s \in SUBSET S : s # {} => f[First(s)] = CostOfOne(edges, price, First(s)).cost
  BY DEF First
<1>3. \A h : SummedOver(f, SUBSET S, h) <=> Recursion(h)
  BY <1>2 DEF SummedOver
<1>4. \E h : Recursion(h)
  BY <1>3, SumsExist
<1>5. Recursion(fold)
  BY <1>4
<1> HIDE DEF Recursion, fold
<1>6. SummedOver(f, SUBSET S, fold)
  BY <1>3, <1>5
<1>7. QED
  BY <1>1, <1>6, SumsAreUnique

LEMMA PricedOfIsSum ==
  ASSUME NEW edges, NEW price, NEW S, IsFiniteSet(S),
         NEW f, \A s \in S : f[s] = CostOfOne(edges, price, s).priced
  PROVE  SumOfPriced(edges, price, S) = SumOver(f, S)
PROOF
<1> DEFINE Recursion(h) == h = [s \in SUBSET S |->
             IF s = {} THEN 0 ELSE CostOfOne(edges, price, First(s)).priced + h[s \ {First(s)}]]
           fold == CHOOSE h : Recursion(h)
<1>1. SumOfPriced(edges, price, S) = fold[S]
  BY DEF SumOfPriced, MapThenSumSet, MapThenFoldSet, First
<1>2. \A s \in SUBSET S : s # {} => f[First(s)] = CostOfOne(edges, price, First(s)).priced
  BY DEF First
<1>3. \A h : SummedOver(f, SUBSET S, h) <=> Recursion(h)
  BY <1>2 DEF SummedOver
<1>4. \E h : Recursion(h)
  BY <1>3, SumsExist
<1>5. Recursion(fold)
  BY <1>4
<1> HIDE DEF Recursion, fold
<1>6. SummedOver(f, SUBSET S, fold)
  BY <1>3, <1>5
<1>7. QED
  BY <1>1, <1>6, SumsAreUnique

(* A session that counts as complete: every segment has its energy, which  *)
(* is not negative, and none is simulated or stale.                        *)
LEMMA CompleteSession ==
  ASSUME NEW obs \in Observations, \A i \in 1 .. Len(obs) : obs[i].power \subseteq Nat,
         NEW S, S = SessionSegments(obs), NEW e \in CompleteEnergy(obs)
  PROVE  /\ IsFiniteSet(S) /\ SessionTotal(obs) = {e} /\ CompleteEnergy(obs) = {e}
         /\ e = EnergyIn(S)
         /\ \A s \in S : /\ s.start \in Int /\ s.end \in Int /\ s.start < s.end
                         /\ The(s.energy) \in Nat /\ s.energy = {The(s.energy)}
                         /\ s.quality \in {"measured", "estimated"}
PROOF
<1>1. SessionQuality(obs) \in {"measured", "estimated"} /\ CompleteEnergy(obs) = SessionTotal(obs)
  BY DEF CompleteEnergy
<1>2. Len(obs) >= 2 /\ (\A s \in S : s.energy # {}) /\ SessionTotal(obs) = {EnergyIn(S)}
  BY <1>1 DEF SessionTotal
<1>3. PICK n : n = Len(obs) - 1
  OBVIOUS
<1>4. n \in Nat /\ n >= 1 /\ Len(obs) = n + 1
  BY <1>2, <1>3, StretchFacts
<1>5. S = {Stretch(obs, i) : i \in 1 .. n}
  BY <1>3, StretchFacts
<1>6. IsFiniteSet(S)
  <2>1. PICK k : k = [i \in 1 .. n |-> Stretch(obs, i)]
    OBVIOUS
  <2>2. 1 \in Int /\ n \in Int
    BY <1>4
  <2>3. IsFiniteSet(1 .. n)
    BY <2>2, FS_Interval
  <2>4. IsFiniteSet({k[i] : i \in 1 .. n})
    BY <2>3, ImageIsFinite
  <2>5. S = {k[i] : i \in 1 .. n}
    BY <1>5, <2>1
  <2>6. QED
    BY <2>4, <2>5
<1>7. ASSUME NEW s \in S
      PROVE  /\ s.start \in Int /\ s.end \in Int /\ s.start < s.end
             /\ The(s.energy) \in Nat /\ s.energy = {The(s.energy)}
             /\ s.quality \in Qualities
  <2>1. PICK i \in 1 .. n : s = Stretch(obs, i)
    BY <1>5
  <2>2. i \in 1 .. Len(obs) /\ i + 1 \in 1 .. Len(obs) /\ i < i + 1
    BY <1>4
  <2>3. PICK before, after : before = obs[i] /\ after = obs[i + 1]
    OBVIOUS
  <2>4. /\ before.at \in Int /\ before.meter \in Options(Int) /\ before.power \subseteq Nat
        /\ before.power \in Options(Int) /\ after.meter \in Options(Int) /\ after.at \in Int
    BY <2>2, <2>3, StretchFacts
  <2>5. before.at < after.at
    BY <2>2, <2>3 DEF Observations
  <2>6. s.start = before.at /\ s.end = after.at /\ s.energy = EnergyOf(before, after)
    BY <2>1, <2>3 DEF Stretch
  <2>7. PICK x : x \in EnergyOf(before, after)
    BY <1>2, <2>6
  <2>8. x \in Nat /\ EnergyOf(before, after) = {x}
    <3>1. CASE before.meter # {} /\ after.meter # {}
      <4>1. /\ The(after.meter) >= The(before.meter)
            /\ EnergyOf(before, after) = {The(after.meter) - The(before.meter)}
        BY <2>7, <3>1 DEF EnergyOf
      <4>2. The(before.meter) \in Int /\ The(after.meter) \in Int
        <5>1. PICK y, z : y \in before.meter /\ z \in after.meter
          BY <3>1
        <5>2. QED
          BY <2>4, <5>1, OptionFacts
      <4>3. The(after.meter) - The(before.meter) \in Nat
        BY <4>1, <4>2
      <4>4. QED
        BY <2>7, <4>1, <4>3
    <3>2. CASE ~(before.meter # {} /\ after.meter # {})
      <4>1. EnergyOf(before, after) = {power * (after.at - before.at) : power \in before.power}
        BY <2>7, <3>2 DEF EnergyOf
      <4>2. PICK power \in before.power : x = power * (after.at - before.at)
        BY <2>7, <4>1
      <4>3. before.power = {power} /\ power \in Nat
        BY <2>4, OptionFacts
      <4>4. after.at - before.at \in Nat
        BY <2>4, <2>5
      <4>5. x \in Nat
        BY <4>2, <4>3, <4>4, ProductFacts
      <4>6. EnergyOf(before, after) = {x}
        BY <4>1, <4>2, <4>3
      <4>7. QED
        BY <4>5, <4>6
    <3>3. QED
      BY <3>1, <3>2
  <2>9. s.quality \in Qualities
    <3>1. PICK q : s.quality = Worst(q)
      BY <2>1 DEF Stretch
    <3>2. QED
      BY <3>1, WorstIs
  <2>10. QED
    BY <2>4, <2>5, <2>6, <2>8, <2>9, TheOne
<1>8. ASSUME NEW s \in S PROVE s.quality \in {"measured", "estimated"}
  <2>1. PICK all : all = {r.quality : r \in S}
    OBVIOUS
  <2>2. Worst(all) \in {"measured", "estimated"} /\ s.quality \in all
    BY <1>1, <2>1 DEF SessionQuality
  <2>3. "simulated" \notin all /\ "stale" \notin all
    BY <2>2 DEF Worst
  <2>4. QED
    BY <1>7, <2>2, <2>3 DEF Qualities
<1>9. QED
  BY <1>1, <1>2, <1>6, <1>7, <1>8

(* The energy of a complete session is the sum over its segments. *)
LEMMA SessionEnergyIs ==
  ASSUME NEW obs \in Observations, \A i \in 1 .. Len(obs) : obs[i].power \subseteq Nat,
         NEW S, S = SessionSegments(obs), NEW e \in CompleteEnergy(obs),
         NEW energy, \A s \in S : energy[s] = The(s.energy)
  PROVE  e \in Nat /\ e = SumOver(energy, S)
PROOF
<1>1. IsFiniteSet(S) /\ e = EnergyIn(S)
  BY CompleteSession
<1>2. \A s \in S : The(s.energy) \in Nat /\ s.energy = {The(s.energy)}
  BY CompleteSession
<1>3. \A s \in S : energy[s] \in Nat
  BY <1>2
<1>4. e = SumOver(energy, S)
  <2>1. \A s \in S : s.energy # {} /\ energy[s] = The(s.energy)
    BY <1>2
  <2>2. EnergyIn(S) = SumOver(energy, S)
    BY <1>1, <2>1, EnergyInIsSum
  <2>3. QED
    BY <1>1, <2>2
<1>5. QED
  BY <1>1, <1>3, <1>4, SumIsNatural

(* No segment of a complete session is left out of its cost. *)
LEMMA AllUsable ==
  ASSUME NEW obs \in Observations, \A i \in 1 .. Len(obs) : obs[i].power \subseteq Nat,
         NEW S, S = SessionSegments(obs), CompleteEnergy(obs) # {}, NEW edges, NEW price
  PROVE  LET c == CostOf(edges, price, S)
         IN c.cost = SumOfCost(edges, price, S) /\ c.priced = SumOfPriced(edges, price, S)
PROOF
<1> DEFINE usable(T) == {s \in T : s.energy # {} /\ s.quality \in {"measured", "estimated"}}
           c == CostOf(edges, price, S)
<1>1. c.cost = SumOfCost(edges, price, usable(S)) /\ c.priced = SumOfPriced(edges, price, usable(S))
  BY DEF CostOf, SumOfCost, SumOfPriced
<1>2. \A s \in S : s.energy = {The(s.energy)} /\ s.quality \in {"measured", "estimated"}
  BY CompleteSession
<1>3. usable(S) = S
  BY <1>2
<1> HIDE DEF usable
<1>4. QED
  BY <1>1, <1>3

(* When the priced energy is all of it, it is all of each segment. *)
LEMMA SessionPricedInFull ==
  ASSUME NEW obs \in Observations, \A i \in 1 .. Len(obs) : obs[i].power \subseteq Nat,
         NEW edges \in SUBSET Int, IsFiniteSet(edges), NEW price,
         NEW S, S = SessionSegments(obs), NEW e \in CompleteEnergy(obs),
         CostOf(edges, price, S).priced = e, NEW s \in S
  PROVE  FullyPriced(edges, price, s)
PROOF
<1>1. /\ IsFiniteSet(S)
      /\ \A r \in S : /\ r.start \in Int /\ r.end \in Int /\ r.start < r.end
                      /\ The(r.energy) \in Nat /\ r.energy = {The(r.energy)}
  BY CompleteSession
<1>2. PICK c, energy, priced, cost :
        /\ c = CostOf(edges, price, S)
        /\ energy = [r \in S |-> The(r.energy)]
        /\ priced = [r \in S |-> CostOfOne(edges, price, r).priced]
        /\ cost = [r \in S |-> CostOfOne(edges, price, r).cost]
  OBVIOUS
<1>3. e = SumOver(energy, S) /\ c.priced = SumOver(priced, S)
  <2>1. \A r \in S : energy[r] = The(r.energy)
    BY <1>2
  <2>2. e = SumOver(energy, S)
    BY <2>1, SessionEnergyIs
  <2>3. \A r \in S : priced[r] = CostOfOne(edges, price, r).priced
    BY <1>2
  <2>4. SumOfPriced(edges, price, S) = SumOver(priced, S)
    BY <1>1, <2>3, PricedOfIsSum
  <2>5. c.priced = SumOfPriced(edges, price, S)
    BY <1>2, AllUsable
  <2>6. QED
    BY <2>2, <2>4, <2>5
<1>4. ASSUME NEW r \in S
      PROVE  /\ energy[r] \in Nat /\ priced[r] \in 0 .. energy[r]
             /\ priced[r] = energy[r] => FullyPriced(edges, price, r)
  <2>1. PICK start, end, x : start = r.start /\ end = r.end /\ x = The(r.energy)
    OBVIOUS
  <2>2. start \in Int /\ end \in Int /\ start < end /\ x \in Nat
    BY <1>1, <2>1
  <2>3. r.start = start /\ r.end = end /\ r.energy = {x}
    BY <1>1, <2>1
  <2>4. PICK one : one = CostOfOne(edges, price, r)
    OBVIOUS
  <2>5. one.priced \in 0 .. x /\ (one.priced = x => FullyPriced(edges, price, r))
    BY <2>2, <2>3, <2>4, PricedInFull
  <2>6. energy[r] = x /\ priced[r] = one.priced
    BY <1>2, <2>1, <2>4
  <2>7. QED
    BY <2>2, <2>5, <2>6
<1>5. \A r \in S : priced[r] \in Int /\ energy[r] \in Int /\ priced[r] <= energy[r]
  BY <1>4
<1>6. SumOver(priced, S) = SumOver(energy, S)
  BY <1>2, <1>3
<1>7. IsFiniteSet(S)
  BY <1>1
<1>8. priced[s] = energy[s]
  BY <1>5, <1>6, <1>7, SumsEqual
<1>9. QED
  BY <1>4, <1>8

(* At a price that never changes, a session costs that price. *)
LEMMA FlatSession ==
  ASSUME NEW obs \in Observations, \A i \in 1 .. Len(obs) : obs[i].power \subseteq Nat,
         NEW edges \in SUBSET Int, IsFiniteSet(edges), NEW price,
         NEW S, S = SessionSegments(obs), NEW e \in CompleteEnergy(obs),
         NEW k \in Int, Flat(price, k)
  PROVE  CostOf(edges, price, S).cost = k * e
PROOF
<1>1. /\ IsFiniteSet(S)
      /\ \A r \in S : /\ r.start \in Int /\ r.end \in Int /\ r.start < r.end
                      /\ The(r.energy) \in Nat /\ r.energy = {The(r.energy)}
  BY CompleteSession
<1>2. PICK c, energy, priced, cost :
        /\ c = CostOf(edges, price, S)
        /\ energy = [r \in S |-> The(r.energy)]
        /\ priced = [r \in S |-> CostOfOne(edges, price, r).priced]
        /\ cost = [r \in S |-> CostOfOne(edges, price, r).cost]
  OBVIOUS
<1>3. e = SumOver(energy, S) /\ c.cost = SumOver(cost, S)
  <2>1. \A r \in S : energy[r] = The(r.energy)
    BY <1>2
  <2>2. e = SumOver(energy, S)
    BY <2>1, SessionEnergyIs
  <2>3. \A r \in S : cost[r] = CostOfOne(edges, price, r).cost
    BY <1>2
  <2>4. SumOfCost(edges, price, S) = SumOver(cost, S)
    BY <1>1, <2>3, CostOfIsSum
  <2>5. c.cost = SumOfCost(edges, price, S)
    BY <1>2, AllUsable
  <2>6. QED
    BY <2>2, <2>4, <2>5
<1>4. ASSUME NEW r \in S PROVE energy[r] \in Int /\ cost[r] = k * energy[r]
  <2>1. PICK x, y : x = The(r.energy) /\ y = k * x
    OBVIOUS
  <2>2. x \in Nat /\ r.energy = {x}
    BY <1>1, <2>1
  <2>3. r.start \in Int /\ r.end \in Int /\ r.start < r.end
    BY <1>1
  <2>4. y = k * x
    BY <2>1
  <2>5. CostOfOne(edges, price, r).cost = y
    BY <2>2, <2>3, <2>4, FlatSegment
  <2>6. energy[r] = x /\ cost[r] = CostOfOne(edges, price, r).cost
    BY <1>2, <2>1
  <2>7. QED
    BY <2>2, <2>4, <2>5, <2>6
<1>5. IsFiniteSet(S)
  BY <1>1
<1>6. SumOver(cost, S) = k * SumOver(energy, S)
  BY <1>4, <1>5, SumOfMultiples
<1>7. QED
  BY <1>2, <1>3, <1>6

(* What a session is compared with: all of its energy at full power from   *)
(* its start.                                                              *)
WholeOf(started, maxPower, e) == [start |-> started, end |-> started + e \div maxPower, energy |-> {e}]

(* What a known baseline tells. *)
LEMMA BaselineIs ==
  ASSUME NEW obs, NEW edges, NEW price, NEW started, NEW maxPower \in Int,
         NEW b \in BaselineCost(edges, price, obs, started, maxPower)
  PROVE  /\ maxPower > 0
         /\ \E e \in CompleteEnergy(obs) :
              /\ e \div maxPower > 0
              /\ CostOfOne(edges, price, WholeOf(started, maxPower, e)).priced = e
              /\ b = CostOfOne(edges, price, WholeOf(started, maxPower, e)).cost
PROOF
<1> DEFINE cost(e) == CostOfOne(edges, price, WholeOf(started, maxPower, e))
           all(M) == {cost(e).cost : e \in {x \in M : x \div maxPower > 0 /\ cost(x).priced = x}}
<1>1. BaselineCost(edges, price, obs, started, maxPower)
        = IF maxPower <= 0 THEN {} ELSE all(CompleteEnergy(obs))
  BY Zenon DEF BaselineCost, WholeOf
<1>2. \A M : \A y \in all(M) : \E e \in M : e \div maxPower > 0 /\ cost(e).priced = e /\ y = cost(e).cost
  OBVIOUS
<1> HIDE DEF all
<1>3. ~(maxPower <= 0) /\ b \in all(CompleteEnergy(obs))
  BY <1>1
<1>4. maxPower > 0
  BY <1>3
<1>5. QED
  BY <1>2, <1>3, <1>4

(* What a saving that is claimed tells. *)
LEMMA SavingIs ==
  ASSUME NEW obs \in Observations, \A i \in 1 .. Len(obs) : obs[i].power \subseteq Nat,
         NEW edges, NEW price, NEW started, NEW maxPower \in Int,
         NEW x \in TimingSavings(edges, price, obs, started, maxPower),
         NEW c, c = CostOf(edges, price, SessionSegments(obs))
  PROVE  /\ maxPower > 0
         /\ \E e \in CompleteEnergy(obs) :
              /\ e \div maxPower > 0 /\ c.priced = e
              /\ CostOfOne(edges, price, WholeOf(started, maxPower, e)).priced = e
              /\ x = CostOfOne(edges, price, WholeOf(started, maxPower, e)).cost - c.cost
PROOF
<1>1. PICK b \in BaselineCost(edges, price, obs, started, maxPower),
           d \in SessionCost(edges, price, obs) : x = b - d
  BY DEF TimingSavings
<1>2. PICK total \in CompleteEnergy(obs) : c.priced = total /\ d = c.cost
  BY DEF SessionCost
<1>3. CompleteEnergy(obs) = {total}
  BY CompleteSession
<1>4. PICK e \in CompleteEnergy(obs) :
        /\ e \div maxPower > 0
        /\ CostOfOne(edges, price, WholeOf(started, maxPower, e)).priced = e
        /\ b = CostOfOne(edges, price, WholeOf(started, maxPower, e)).cost
  BY BaselineIs
<1>5. maxPower > 0
  BY BaselineIs
<1>6. e = total
  BY <1>3, <1>4
<1>7. QED
  BY <1>1, <1>2, <1>4, <1>5, <1>6

(* A saving is claimed only when every bit of the energy is priced, that   *)
(* of the session and that of what it is compared with; and where the      *)
(* price never changes no timing of a session saves anything, whatever     *)
(* was observed and however the energy is split (session_summary).  For    *)
(* any observations whose power is not negative.                           *)
THEOREM SavingsNeedPrices ==
  ASSUME NEW obs \in Observations, \A i \in 1 .. Len(obs) : obs[i].power \subseteq Nat,
         NEW edges \in SUBSET Int, IsFiniteSet(edges), NEW price,
         NEW started \in Int, NEW maxPower \in Int,
         NEW x \in TimingSavings(edges, price, obs, started, maxPower)
  PROVE  /\ maxPower > 0
         /\ \A s \in SessionSegments(obs) : FullyPriced(edges, price, s)
         /\ \A e \in CompleteEnergy(obs) :
              FullyPriced(edges, price, WholeOf(started, maxPower, e))
         /\ \A k \in Int : Flat(price, k) => x = 0
PROOF
<1>1. PICK S, c : S = SessionSegments(obs) /\ c = CostOf(edges, price, S)
  OBVIOUS
<1>2. maxPower > 0
  BY SavingIs
<1>3. PICK e \in CompleteEnergy(obs) :
        /\ e \div maxPower > 0 /\ c.priced = e
        /\ CostOfOne(edges, price, WholeOf(started, maxPower, e)).priced = e
        /\ x = CostOfOne(edges, price, WholeOf(started, maxPower, e)).cost - c.cost
  BY <1>1, SavingIs
<1>4. CompleteEnergy(obs) = {e}
  BY CompleteSession
<1>5. e \in Nat
  <2>1. PICK energy : energy = [s \in S |-> The(s.energy)]
    OBVIOUS
  <2>2. \A s \in S : energy[s] = The(s.energy)
    BY <2>1
  <2>3. QED
    BY <1>1, <2>2, SessionEnergyIs
<1>6. PICK whole, end : whole = WholeOf(started, maxPower, e) /\ end = started + e \div maxPower
  OBVIOUS
<1>7. whole.start = started /\ whole.end = end /\ whole.energy = {e} /\ end \in Int /\ started < end
  <2>1. maxPower > 0 /\ e \div maxPower > 0 /\ e \in Nat
    BY <1>2, <1>3, <1>5
  <2>2. e \div maxPower \in Int
    BY <2>1
  <2>3. end \in Int /\ started < end
    BY <1>6, <2>1, <2>2
  <2>4. QED
    BY <1>6, <2>3 DEF WholeOf
<1>8. \A s \in S : FullyPriced(edges, price, s)
  BY <1>1, <1>3, SessionPricedInFull
<1>9. FullyPriced(edges, price, whole)
  <2>1. CostOfOne(edges, price, whole).priced = e
    BY <1>3, <1>6
  <2>2. QED
    BY <1>5, <1>7, <2>1, PricedInFull
<1>10. ASSUME NEW k \in Int, Flat(price, k) PROVE x = 0
  <2>1. PICK y : y = k * e
    OBVIOUS
  <2>2. whole.start \in Int /\ whole.end \in Int /\ whole.start < whole.end /\ whole.energy = {e}
    BY <1>7
  <2>3. CostOfOne(edges, price, whole).cost = y
    BY <1>5, <1>10, <2>1, <2>2, FlatSegment
  <2>4. y \in Int
    BY <1>5, <2>1
  <2>5. c.cost = y
    BY <1>1, <1>3, <1>10, <2>1, FlatSession
  <2>6. QED
    BY <1>3, <1>6, <2>3, <2>4, <2>5
<1>11. QED
  BY <1>1, <1>2, <1>4, <1>6, <1>8, <1>9, <1>10

(* Every part of a segment has a price.                                    *)
AllPriced(edges, price, segment) ==
  \A p \in PriceParts(edges, price, segment.start, segment.end) : p.value # {}

LEMMA AllPricedIsFull ==
  ASSUME NEW edges \in SUBSET Int, IsFiniteSet(edges), NEW price,
         NEW segment, segment.start \in Int, segment.end \in Int, segment.start < segment.end,
         NEW energy \in Nat, segment.energy = {energy}, AllPriced(edges, price, segment)
  PROVE  CostOfOne(edges, price, segment).priced = energy
PROOF
<1>1. PICK start \in Int, end \in Int : start = segment.start /\ end = segment.end /\ start < end
  OBVIOUS
<1>2. PICK parts : parts = PriceParts(edges, price, start, end)
  OBVIOUS
<1>3. \A p \in parts : p.value # {}
  BY <1>1, <1>2 DEF AllPriced
<1>4. PICK portion : portion = [p \in parts |-> Portion(segment, p, parts)]
  OBVIOUS
<1>5. IsFiniteSet(parts) /\ SumOver(portion, parts) = energy
  BY <1>1, <1>2, <1>4, PortionFacts
<1>6. Priced(parts) = parts
  BY <1>3 DEF Priced
<1>7. CostOfOne(edges, price, segment).priced = SumOfPortions(segment, parts, parts)
  <2>1. parts = PriceParts(edges, price, segment.start, segment.end)
    BY <1>1, <1>2
  <2>2. CostOfOne(edges, price, segment).priced = SumOfPortions(segment, parts, Priced(parts))
    BY <2>1, CostIs
  <2>3. QED
    BY <1>6, <2>2
<1>8. \A p \in parts : portion[p] = Portion(segment, p, parts)
  BY <1>4
<1>9. QED
  BY <1>5, <1>7, <1>8, PortionsAreSum

(* Nor is a saving withheld without a reason: it is known when the energy  *)
(* of the session is complete and lasts for a unit at full power, and      *)
(* every part of the session and of what it is compared with has a price   *)
(* (session_summary).                                                      *)
THEOREM PricesGiveSavings ==
  ASSUME NEW obs \in Observations, \A i \in 1 .. Len(obs) : obs[i].power \subseteq Nat,
         NEW edges \in SUBSET Int, IsFiniteSet(edges), NEW price,
         NEW started \in Int, NEW maxPower \in Int, maxPower > 0,
         NEW e \in CompleteEnergy(obs), e \div maxPower > 0,
         \A s \in SessionSegments(obs) : AllPriced(edges, price, s),
         AllPriced(edges, price, WholeOf(started, maxPower, e))
  PROVE  TimingSavings(edges, price, obs, started, maxPower) # {}
PROOF
<1>1. PICK S, c : S = SessionSegments(obs) /\ c = CostOf(edges, price, S)
  OBVIOUS
<1>2. PICK energy, priced :
        /\ energy = [s \in S |-> The(s.energy)]
        /\ priced = [s \in S |-> CostOfOne(edges, price, s).priced]
  OBVIOUS
<1>3. /\ IsFiniteSet(S)
      /\ \A r \in S : /\ r.start \in Int /\ r.end \in Int /\ r.start < r.end
                      /\ The(r.energy) \in Nat /\ r.energy = {The(r.energy)}
  BY <1>1, CompleteSession
<1>4. e \in Nat /\ e = SumOver(energy, S)
  <2>1. \A s \in S : energy[s] = The(s.energy)
    BY <1>2
  <2>2. QED
    BY <1>1, <2>1, SessionEnergyIs
<1>5. c.priced = SumOver(priced, S)
  <2>1. \A r \in S : priced[r] = CostOfOne(edges, price, r).priced
    BY <1>2
  <2>2. SumOfPriced(edges, price, S) = SumOver(priced, S)
    BY <1>3, <2>1, PricedOfIsSum
  <2>3. c.priced = SumOfPriced(edges, price, S)
    BY <1>1, AllUsable
  <2>4. QED
    BY <2>2, <2>3
<1>6. ASSUME NEW r \in S PROVE priced[r] = energy[r]
  <2>1. PICK x : x = The(r.energy)
    OBVIOUS
  <2>2. x \in Nat /\ r.energy = {x} /\ r.start \in Int /\ r.end \in Int /\ r.start < r.end
    BY <1>3, <2>1
  <2>3. AllPriced(edges, price, r)
    BY <1>1
  <2>4. CostOfOne(edges, price, r).priced = x
    BY <2>2, <2>3, AllPricedIsFull
  <2>5. QED
    BY <1>2, <2>1, <2>4
<1>7. c.priced = e
  <2>1. \A r \in S : energy[r] \in Int /\ priced[r] = energy[r]
    BY <1>2, <1>3, <1>6
  <2>2. SumOver(priced, S) = SumOver(energy, S)
    BY <1>3, <2>1, SumsAgree
  <2>3. QED
    BY <1>4, <1>5, <2>2
<1>8. c.cost \in SessionCost(edges, price, obs)
  BY <1>1, <1>7 DEF SessionCost
<1>9. PICK whole : whole = WholeOf(started, maxPower, e)
  OBVIOUS
<1>10. CostOfOne(edges, price, whole).priced = e
  <2>1. e \div maxPower \in Int
    BY <1>4
  <2>2. whole.start \in Int /\ whole.end \in Int /\ whole.start < whole.end /\ whole.energy = {e}
    BY <1>9, <2>1 DEF WholeOf
  <2>3. AllPriced(edges, price, whole)
    BY <1>9
  <2>4. QED
    BY <1>4, <2>2, <2>3, AllPricedIsFull
<1>11. CostOfOne(edges, price, whole).cost \in BaselineCost(edges, price, obs, started, maxPower)
  <2> DEFINE cost(x) == CostOfOne(edges, price, WholeOf(started, maxPower, x))
             all(M) == {cost(x).cost : x \in {y \in M : y \div maxPower > 0 /\ cost(y).priced = y}}
  <2>1. BaselineCost(edges, price, obs, started, maxPower)
          = IF maxPower <= 0 THEN {} ELSE all(CompleteEnergy(obs))
    BY Zenon DEF BaselineCost, WholeOf
  <2>2. cost(e).priced = e /\ cost(e).cost = CostOfOne(edges, price, whole).cost
    BY <1>9, <1>10
  <2>3. cost(e).cost \in all(CompleteEnergy(obs))
    BY <2>2
  <2> HIDE DEF all, cost
  <2>4. ~(maxPower <= 0)
    OBVIOUS
  <2>5. QED
    BY <2>1, <2>2, <2>3, <2>4
<1>12. PICK b, d : b = CostOfOne(edges, price, whole).cost /\ d = c.cost
  OBVIOUS
<1>13. b \in BaselineCost(edges, price, obs, started, maxPower) /\ d \in SessionCost(edges, price, obs)
  BY <1>8, <1>11, <1>12
<1>14. b - d \in TimingSavings(edges, price, obs, started, maxPower)
  BY <1>13 DEF TimingSavings
<1>15. QED
  BY <1>14
=============================================================================
