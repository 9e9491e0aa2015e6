--------------------- MODULE ObservationProducer_proofs ---------------------
(* The channel of a Gateway for any number of publishers, any capacities and  *)
(* any number of faults: the worker and the store settle every number once    *)
(* and in order, no record whose publisher was told Dropped is ever stored,   *)
(* nothing is stranded in the worker's buffer, and every reserved byte is     *)
(* held by exactly one record on its way.                                     *)
(*                                                                            *)
(* What the store and the worker settle does not depend on the list of        *)
(* losses, because the store checks a declaration before it takes it.  The    *)
(* records on their way and their bytes do: a range that named a number not   *)
(* handed out yet would make the worker give up a record still to be made.    *)
EXTENDS ObservationProducer, Integers, Functions, SequenceTheorems, FiniteSetTheorems,
        WellFoundedInduction, TLAPS

-----------------------------------------------------------------------------
(* Sums over finite sets.  SumFunctionOnSet folds in an order that CHOOSE     *)
(* fixes; the lemmas show that the order does not matter.  Each induction is  *)
(* by the least number of elements that would refute the statement.           *)

\* Every set of natural numbers that is not empty has a least element.
LEMMA LeastNumber ==
  ASSUME NEW T, T \subseteq Nat, T # {}
  PROVE  \E n \in T : \A m \in T : n <= m
<1>1. PICK n \in T : \A m \in T : <<m, n>> \notin OpToRel(<, Nat)
  BY NatLessThanWellFounded, WFMin
<1>2. \A m \in T : ~(m < n)
  BY <1>1 DEF OpToRel
<1> QED BY <1>2

\* The element the fold takes first.
First(s) == CHOOSE x \in s : TRUE

Body(f, g, s) == IF s = {} THEN 0 ELSE f[First(s)] + g[s \ {First(s)}]

Adder(f, U) == CHOOSE g : g = [s \in SUBSET U |-> Body(f, g, s)]

LEMMA FirstIn ==
  ASSUME NEW s, s # {}
  PROVE  First(s) \in s
BY DEF First

\* Without its first element a finite set is smaller by one.
LEMMA RestSmaller ==
  ASSUME NEW s, IsFiniteSet(s), NEW x \in s
  PROVE  /\ IsFiniteSet(s \ {x})
         /\ Cardinality(s) \in Nat /\ Cardinality(s \ {x}) \in Nat
         /\ Cardinality(s \ {x}) = Cardinality(s) - 1
BY FS_RemoveElement, FS_CardinalityType

LEMMA SumIsAdder ==
  ASSUME NEW f, NEW U
  PROVE  SumFunctionOnSet(f, U) = Adder(f, U)[U]
BY DEF SumFunctionOnSet, FoldFunctionOnSet, MapThenFoldSet, Adder, Body, First

\* The recursive definition has a solution.
LEMMA AdderExists ==
  ASSUME NEW f, NEW U, IsFiniteSet(U)
  PROVE  \E g : g = [s \in SUBSET U |-> Body(f, g, s)]
<1> DEFINE Level(n) == {s \in SUBSET U : Cardinality(s) <= n}
           Solved(n) == \E g : g = [s \in Level(n) |-> Body(f, g, s)]
           Bad == {n \in Nat : ~Solved(n)}
<1>1. \A s \in SUBSET U : IsFiniteSet(s) /\ Cardinality(s) \in Nat
                            /\ Cardinality(s) <= Cardinality(U)
  BY FS_Subset, FS_CardinalityType
<1>2. Solved(0)
  <2>1. \A s \in Level(0) : s = {}
    BY <1>1, FS_EmptySet
  <2> DEFINE g == [s \in Level(0) |-> 0]
  <2>2. g = [s \in Level(0) |-> Body(f, g, s)]
    BY <2>1 DEF Body
  <2> QED BY <2>2
<1>3. ASSUME NEW n \in Nat, Solved(n) PROVE Solved(n + 1)
  <2>1. PICK h : h = [s \in Level(n) |-> Body(f, h, s)]
    BY <1>3
  <2> DEFINE g == [s \in Level(n + 1) |-> Body(f, h, s)]
  <2>2. ASSUME NEW s \in Level(n + 1) PROVE Body(f, h, s) = Body(f, g, s)
    <3>1. CASE s = {}
      BY <3>1 DEF Body
    <3>2. CASE s # {}
      <4> DEFINE w == s \ {First(s)}
      <4>1. First(s) \in s
        BY <3>2, FirstIn
      <4>2. Cardinality(w) = Cardinality(s) - 1 /\ Cardinality(s) \in Nat
        BY <4>1, <1>1, RestSmaller
      <4>3. w \in Level(n) /\ w \in Level(n + 1)
        BY <4>2
      <4>4. h[w] = Body(f, h, w)
        BY <2>1, <4>3
      <4>5. g[w] = Body(f, h, w)
        BY <4>3
      <4> QED BY <3>2, <4>4, <4>5 DEF Body
    <3> QED BY <3>1, <3>2
  <2>3. g = [s \in Level(n + 1) |-> Body(f, g, s)]
    BY <2>2
  <2> QED BY <2>3
<1>4. Bad = {}
  <2>1. SUFFICES ASSUME Bad # {} PROVE FALSE
    OBVIOUS
  <2>2. PICK n \in Bad : \A m \in Bad : n <= m
    <3> HIDE DEF Solved
    <3> QED BY <2>1, LeastNumber
  <2>3. n # 0
    BY <1>2
  <2>4. n - 1 \in Nat /\ n - 1 \notin Bad
    <3> HIDE DEF Solved
    <3> QED BY <2>2, <2>3
  <2>5. Solved((n - 1) + 1)
    <3>1. Solved(n - 1)
      BY <2>4
    <3> HIDE DEF Solved
    <3> QED BY <3>1, <2>4, <1>3
  <2>6. (n - 1) + 1 = n
    BY <2>4
  <2> HIDE DEF Solved
  <2> QED BY <2>2, <2>5, <2>6
<1>5. Cardinality(U) \in Nat
  BY FS_CardinalityType
<1>6. Solved(Cardinality(U))
  BY <1>4, <1>5
<1>7. Level(Cardinality(U)) = SUBSET U
  BY <1>1
<1> QED BY <1>6, <1>7

LEMMA AdderUnfolds ==
  ASSUME NEW f, NEW U, IsFiniteSet(U), NEW s \in SUBSET U
  PROVE  Adder(f, U)[s] = Body(f, Adder(f, U), s)
<1>1. Adder(f, U) = [t \in SUBSET U |-> Body(f, Adder(f, U), t)]
  BY AdderExists DEF Adder
<1> QED BY <1>1

\* The sum of a part does not depend on the whole it was taken from.
LEMMA AdderRestricts ==
  ASSUME NEW f, NEW U, IsFiniteSet(U), NEW V \in SUBSET U, NEW s \in SUBSET V
  PROVE  Adder(f, V)[s] = Adder(f, U)[s]
<1> DEFINE Bad == {n \in Nat : \E t \in SUBSET V :
                     Cardinality(t) = n /\ Adder(f, V)[t] # Adder(f, U)[t]}
<1>1. IsFiniteSet(V)
  BY FS_Subset
<1>2. \A t \in SUBSET V : IsFiniteSet(t) /\ Cardinality(t) \in Nat
  BY <1>1, FS_Subset, FS_CardinalityType
<1>3. SUFFICES ASSUME Bad # {} PROVE FALSE
  BY <1>2
<1>4. PICK n \in Bad : \A m \in Bad : n <= m
  BY <1>3, LeastNumber
<1>5. PICK t \in SUBSET V : Cardinality(t) = n /\ Adder(f, V)[t] # Adder(f, U)[t]
  BY <1>4
<1>6. /\ Adder(f, V)[t] = Body(f, Adder(f, V), t)
      /\ Adder(f, U)[t] = Body(f, Adder(f, U), t)
  BY <1>1, <1>5, AdderUnfolds
<1>7. t # {}
  BY <1>5, <1>6 DEF Body
<1> DEFINE w == t \ {First(t)}
<1>8. /\ w \in SUBSET V /\ Cardinality(w) = n - 1
      /\ Cardinality(w) \in Nat
  BY <1>2, <1>5, <1>7, FirstIn, RestSmaller
<1>9. Adder(f, V)[w] = Adder(f, U)[w]
  BY <1>4, <1>8
<1> QED BY <1>5, <1>6, <1>7, <1>9 DEF Body

\* The sum of nothing.
LEMMA SumEmpty == ASSUME NEW f PROVE SumFunctionOnSet(f, {}) = 0
<1>1. Adder(f, {})[{}] = Body(f, Adder(f, {}), {})
  BY AdderUnfolds, FS_EmptySet
<1> QED BY <1>1, SumIsAdder DEF Body

\* One step of the fold.
LEMMA SumTakesFirst ==
  ASSUME NEW f, NEW S, IsFiniteSet(S), S # {}
  PROVE  SumFunctionOnSet(f, S) = f[First(S)] + SumFunctionOnSet(f, S \ {First(S)})
<1>1. Adder(f, S)[S] = f[First(S)] + Adder(f, S)[S \ {First(S)}]
  BY AdderUnfolds DEF Body
<1>2. Adder(f, S \ {First(S)})[S \ {First(S)}] = Adder(f, S)[S \ {First(S)}]
  BY AdderRestricts
<1> QED BY <1>1, <1>2, SumIsAdder

\* A sum of numbers is a number.
LEMMA SumIsNumber ==
  ASSUME NEW f, NEW S, IsFiniteSet(S), \A x \in S : f[x] \in Nat
  PROVE  SumFunctionOnSet(f, S) \in Nat
<1> DEFINE Bad == {n \in Nat : \E t \in SUBSET S :
                     Cardinality(t) = n /\ SumFunctionOnSet(f, t) \notin Nat}
<1>1. \A t \in SUBSET S : IsFiniteSet(t) /\ Cardinality(t) \in Nat
  BY FS_Subset, FS_CardinalityType
<1>2. SUFFICES ASSUME Bad # {} PROVE FALSE
  BY <1>1
<1>3. PICK n \in Bad : \A m \in Bad : n <= m
  BY <1>2, LeastNumber
<1>4. PICK t \in SUBSET S : Cardinality(t) = n /\ SumFunctionOnSet(f, t) \notin Nat
  BY <1>3
<1>5. t # {}
  BY <1>4, SumEmpty
<1>6. SumFunctionOnSet(f, t) = f[First(t)] + SumFunctionOnSet(f, t \ {First(t)})
  BY <1>1, <1>5, SumTakesFirst
<1>7. /\ t \ {First(t)} \in SUBSET S /\ First(t) \in S
      /\ Cardinality(t \ {First(t)}) = n - 1 /\ n - 1 \in Nat
  BY <1>1, <1>4, <1>5, FirstIn, RestSmaller
<1>8. SumFunctionOnSet(f, t \ {First(t)}) \in Nat
  BY <1>3, <1>7
<1> QED BY <1>4, <1>6, <1>7, <1>8

\* It does not matter which element is taken first.
LEMMA SumTakesAny ==
  ASSUME NEW f, NEW S, IsFiniteSet(S), \A x \in S : f[x] \in Nat, NEW y \in S
  PROVE  SumFunctionOnSet(f, S) = f[y] + SumFunctionOnSet(f, S \ {y})
<1> DEFINE Bad == {n \in Nat : \E t \in SUBSET S : \E z \in t :
             /\ Cardinality(t) = n
             /\ SumFunctionOnSet(f, t) # f[z] + SumFunctionOnSet(f, t \ {z})}
<1>1. \A t \in SUBSET S : IsFiniteSet(t) /\ Cardinality(t) \in Nat
  BY FS_Subset, FS_CardinalityType
<1>2. SUFFICES ASSUME Bad # {} PROVE FALSE
  BY <1>1
<1>3. PICK n \in Bad : \A m \in Bad : n <= m
  BY <1>2, LeastNumber
<1>8. PICK t \in SUBSET S : \E z \in t :
        /\ Cardinality(t) = n
        /\ SumFunctionOnSet(f, t) # f[z] + SumFunctionOnSet(f, t \ {z})
  BY <1>3
<1>4. PICK z \in t :
        /\ Cardinality(t) = n
        /\ SumFunctionOnSet(f, t) # f[z] + SumFunctionOnSet(f, t \ {z})
  BY <1>8
<1> DEFINE a == First(t)
<1>5. a \in t
  BY <1>4, FirstIn
<1>6. SumFunctionOnSet(f, t) = f[a] + SumFunctionOnSet(f, t \ {a})
  BY <1>1, <1>4, SumTakesFirst
<1> HIDE DEF a
<1>7. a # z
  BY <1>4, <1>6
<1>9. /\ Cardinality(t \ {a}) = n - 1 /\ Cardinality(t \ {z}) = n - 1
      /\ n - 1 \in Nat
  BY <1>1, <1>4, <1>5, RestSmaller
<1>10. \A u \in SUBSET S : Cardinality(u) = n - 1 =>
         \A x \in u : SumFunctionOnSet(f, u) = f[x] + SumFunctionOnSet(f, u \ {x})
  <2>1. n - 1 \notin Bad
    <3>1. n \in Nat /\ \A m \in Bad : n <= m
      BY <1>3
    <3> HIDE DEF Bad
    <3> QED BY <1>9, <3>1
  <2> QED BY <1>9, <2>1
<1>11. SumFunctionOnSet(f, t \ {a})
         = f[z] + SumFunctionOnSet(f, (t \ {a}) \ {z})
  BY <1>5, <1>7, <1>9, <1>10
<1>12. SumFunctionOnSet(f, t \ {z})
         = f[a] + SumFunctionOnSet(f, (t \ {a}) \ {z})
  <2>1. (t \ {a}) \ {z} = (t \ {z}) \ {a}
    OBVIOUS
  <2>2. SumFunctionOnSet(f, t \ {z})
          = f[a] + SumFunctionOnSet(f, (t \ {z}) \ {a})
    BY <1>5, <1>7, <1>9, <1>10
  <2> QED BY <2>1, <2>2
<1>14. SumFunctionOnSet(f, (t \ {a}) \ {z}) \in Nat
  <2>1. IsFiniteSet((t \ {a}) \ {z})
    BY <1>1
  <2> QED BY <2>1, SumIsNumber
<1>15. f[a] \in Nat /\ f[z] \in Nat
  BY <1>4, <1>5
<1> QED BY <1>4, <1>6, <1>11, <1>12, <1>14, <1>15

\* The sum with one element more.
LEMMA SumAdds ==
  ASSUME NEW f, NEW S, IsFiniteSet(S), NEW y, y \notin S,
         \A x \in S \cup {y} : f[x] \in Nat
  PROVE  SumFunctionOnSet(f, S \cup {y}) = SumFunctionOnSet(f, S) + f[y]
<1>1. IsFiniteSet(S \cup {y})
  BY FS_AddElement
<1>2. SumFunctionOnSet(f, S \cup {y})
        = f[y] + SumFunctionOnSet(f, (S \cup {y}) \ {y})
  BY <1>1, SumTakesAny
<1>3. (S \cup {y}) \ {y} = S
  OBVIOUS
<1>4. SumFunctionOnSet(f, S) \in Nat /\ f[y] \in Nat
  BY SumIsNumber
<1> QED BY <1>2, <1>3, <1>4

\* The sum depends on the values at the elements summed only.
LEMMA SumAgrees ==
  ASSUME NEW f, NEW g, NEW S, IsFiniteSet(S), \A x \in S : f[x] = g[x]
  PROVE  SumFunctionOnSet(f, S) = SumFunctionOnSet(g, S)
<1> DEFINE Bad == {n \in Nat : \E t \in SUBSET S :
             Cardinality(t) = n /\ SumFunctionOnSet(f, t) # SumFunctionOnSet(g, t)}
<1>1. \A t \in SUBSET S : IsFiniteSet(t) /\ Cardinality(t) \in Nat
  BY FS_Subset, FS_CardinalityType
<1>2. SUFFICES ASSUME Bad # {} PROVE FALSE
  BY <1>1
<1>3. PICK n \in Bad : \A m \in Bad : n <= m
  BY <1>2, LeastNumber
<1>4. PICK t \in SUBSET S :
        Cardinality(t) = n /\ SumFunctionOnSet(f, t) # SumFunctionOnSet(g, t)
  BY <1>3
<1>5. t # {}
  BY <1>4, SumEmpty
<1>6. /\ SumFunctionOnSet(f, t) = f[First(t)] + SumFunctionOnSet(f, t \ {First(t)})
      /\ SumFunctionOnSet(g, t) = g[First(t)] + SumFunctionOnSet(g, t \ {First(t)})
  BY <1>1, <1>5, SumTakesFirst
<1>7. /\ t \ {First(t)} \in SUBSET S /\ First(t) \in S
      /\ Cardinality(t \ {First(t)}) = n - 1 /\ n - 1 \in Nat
  BY <1>1, <1>4, <1>5, FirstIn, RestSmaller
<1>8. SumFunctionOnSet(f, t \ {First(t)}) = SumFunctionOnSet(g, t \ {First(t)})
  BY <1>3, <1>7
<1> QED BY <1>4, <1>6, <1>7, <1>8

\* What is taken away and what is left add up to the whole.
LEMMA SumSplits ==
  ASSUME NEW f, NEW S, IsFiniteSet(S), NEW T \in SUBSET S, \A x \in S : f[x] \in Nat
  PROVE  /\ SumFunctionOnSet(f, S)
              = SumFunctionOnSet(f, S \ T) + SumFunctionOnSet(f, T)
         /\ SumFunctionOnSet(f, S) \in Nat
         /\ SumFunctionOnSet(f, S \ T) \in Nat
         /\ SumFunctionOnSet(f, T) \in Nat
<1> DEFINE Bad == {n \in Nat : \E t \in SUBSET S :
             /\ Cardinality(t) = n
             /\ SumFunctionOnSet(f, S)
                  # SumFunctionOnSet(f, S \ t) + SumFunctionOnSet(f, t)}
<1>1. \A t \in SUBSET S : IsFiniteSet(t) /\ Cardinality(t) \in Nat
  BY FS_Subset, FS_CardinalityType
<1>2. \A t \in SUBSET S : SumFunctionOnSet(f, t) \in Nat
  BY <1>1, SumIsNumber
<1>3. Bad = {}
  <2>1. SUFFICES ASSUME Bad # {} PROVE FALSE
    OBVIOUS
  <2>2. PICK n \in Bad : \A m \in Bad : n <= m
    BY <2>1, LeastNumber
  <2>3. PICK t \in SUBSET S :
          /\ Cardinality(t) = n
          /\ SumFunctionOnSet(f, S)
               # SumFunctionOnSet(f, S \ t) + SumFunctionOnSet(f, t)
    BY <2>2
  <2>4. t # {}
    <3>1. S \ {} = S
      OBVIOUS
    <3>2. SumFunctionOnSet(f, S) \in Nat
      BY <1>2
    <3> QED BY <2>3, <3>1, <3>2, SumEmpty
  <2> DEFINE a == First(t)
             w == t \ {a}
  <2>5. a \in t
    BY <2>4, FirstIn
  <2> HIDE DEF a
  <2>6. Cardinality(w) = n - 1 /\ n - 1 \in Nat
    BY <1>1, <2>3, <2>5, RestSmaller
  <2>7. w \in SUBSET S /\ n - 1 \notin Bad
    BY <2>2, <2>6
  <2>8. SumFunctionOnSet(f, S)
          = SumFunctionOnSet(f, S \ w) + SumFunctionOnSet(f, w)
    BY <2>6, <2>7
  <2>9. SumFunctionOnSet(f, t) = f[a] + SumFunctionOnSet(f, w)
    BY <1>1, <2>5, SumTakesAny
  <2>10. S \ w = (S \ t) \cup {a} /\ a \notin S \ t
    BY <2>5
  <2>11. SumFunctionOnSet(f, S \ w) = SumFunctionOnSet(f, S \ t) + f[a]
    <3>1. IsFiniteSet(S \ t)
      BY <1>1
    <3>2. \A x \in (S \ t) \cup {a} : f[x] \in Nat
      BY <2>5
    <3> HIDE DEF w
    <3> QED BY <2>10, <3>1, <3>2, SumAdds
  <2>12. /\ SumFunctionOnSet(f, S \ t) \in Nat /\ f[a] \in Nat
         /\ SumFunctionOnSet(f, w) \in Nat
    BY <1>2, <2>5
  <2> QED BY <2>3, <2>8, <2>9, <2>11, <2>12
<1>4. S \ T \in SUBSET S
  OBVIOUS
<1> QED BY <1>1, <1>2, <1>3, <1>4

-----------------------------------------------------------------------------
(* The list of losses: whatever is recorded, merged, compacted or taken, it   *)
(* keeps to ranges of numbers that were handed out, and to its limit.         *)

Reasons == {"too large", "bytes", "events", "sink", "compacted"}

\* The losses of numbers below n.
Ranges(n) ==
  {w \in [first : Nat \ {0}, last : Nat, reason : Reasons] : w.first <= w.last /\ w.last < n}

LEMMA RangeFacts ==
  ASSUME NEW n \in Nat, NEW w \in Ranges(n)
  PROVE  /\ w.first \in Nat \ {0} /\ w.last \in Nat /\ w.reason \in Reasons
         /\ w.first <= w.last /\ w.last < n
BY DEF Ranges

LEMMA NewRange ==
  ASSUME NEW n \in Nat, NEW f \in Nat \ {0}, NEW l \in Nat, f <= l, l < n, NEW r \in Reasons
  PROVE  LossRange(f, l, r) \in Ranges(n)
BY DEF LossRange, Ranges

\* A finite set of numbers that is not empty has a least and a greatest element.
LEMMA GreatestNumber ==
  ASSUME NEW n \in Nat, NEW T, T \subseteq 0..n, T # {}
  PROVE  Max(T) \in T /\ \A m \in T : m <= Max(T)
<1> DEFINE B == {b \in Nat : \A m \in T : m <= b}
<1>1. n \in B
  OBVIOUS
<1>2. PICK b \in B : \A c \in B : b <= c
  <2>1. B \subseteq Nat /\ B # {}
    BY <1>1
  <2> HIDE DEF B
  <2> QED BY <2>1, LeastNumber
<1>3. b \in T
  <2>1. SUFFICES ASSUME b \notin T PROVE FALSE
    OBVIOUS
  <2>2. PICK t \in T : TRUE
    OBVIOUS
  <2>3. b - 1 \in Nat /\ b - 1 \in B
    BY <1>2, <2>1, <2>2
  <2> QED BY <1>2, <2>3
<1>4. \A m \in T : b >= m
  BY <1>2
<1>5. \E x \in T : \A y \in T : x >= y
  BY <1>3, <1>4
<1>6. Max(T) \in T /\ \A y \in T : Max(T) >= y
  BY <1>5 DEF Max
<1> QED BY <1>6

LEMMA SmallestNumber ==
  ASSUME NEW T, T \subseteq Nat, T # {}
  PROVE  Min(T) \in T /\ \A m \in T : Min(T) <= m
BY LeastNumber DEF Min

LEMMA InsertRanges ==
  ASSUME NEW n \in Nat, NEW ranges \in Seq(Ranges(n)), NEW loss \in Ranges(n)
  PROVE  Insert(ranges, loss) \in Seq(Ranges(n)) /\ Insert(ranges, loss) # <<>>
<1> DEFINE earlier == {i \in DOMAIN ranges : ranges[i].first <= loss.first}
           k == Cardinality(earlier)
<1>1. earlier \subseteq 1..Len(ranges)
  OBVIOUS
<1>2. IsFiniteSet(1..Len(ranges)) /\ Cardinality(1..Len(ranges)) = Len(ranges)
  BY FS_Interval
<1>3. k \in Nat /\ k <= Len(ranges)
  BY <1>1, <1>2, FS_Subset, FS_CardinalityType
<1> HIDE DEF earlier
<1>4. SubSeq(ranges, 1, (k + 1) - 1) \in Seq(Ranges(n)) /\ SubSeq(ranges, k + 1, Len(ranges)) \in Seq(Ranges(n))
  BY <1>3, SubSeqProperties
<1>5. Insert(ranges, loss)
        = SubSeq(ranges, 1, (k + 1) - 1) \o <<loss>> \o SubSeq(ranges, k + 1, Len(ranges))
  BY DEF Insert, InsertAt, earlier
<1> HIDE DEF k
<1> DEFINE a == SubSeq(ranges, 1, (k + 1) - 1)
           b == SubSeq(ranges, k + 1, Len(ranges))
<1>6. a \in Seq(Ranges(n)) /\ b \in Seq(Ranges(n)) /\ Insert(ranges, loss) = a \o <<loss>> \o b
  BY <1>4, <1>5
<1> HIDE DEF a, b
<1>7. a \o <<loss>> \in Seq(Ranges(n)) /\ Len(a \o <<loss>>) = Len(a) + 1
  BY <1>6
<1>8. (a \o <<loss>>) \o b \in Seq(Ranges(n)) /\ Len((a \o <<loss>>) \o b) = Len(a) + 1 + Len(b)
  BY <1>6, <1>7
<1> QED BY <1>6, <1>7, <1>8

LEMMA JoinRanges ==
  ASSUME NEW n \in Nat, NEW merged \in Seq(Ranges(n)), NEW w \in Ranges(n)
  PROVE  Join(merged, w) \in Seq(Ranges(n)) /\ Join(merged, w) # <<>>
<1>1. CASE /\ merged # <<>>
           /\ Last(merged).reason = w.reason
           /\ Last(merged).last + 1 >= w.first
  <2> DEFINE v == [Last(merged) EXCEPT !.last = Larger(@, w.last)]
  <2>1. Last(merged) \in Ranges(n)
    BY <1>1 DEF Last
  <2>2. v \in Ranges(n)
    <3>1. PICK u \in Ranges(n) : u = Last(merged)
      BY <2>1
    <3>2. v = [u EXCEPT !.last = Larger(u.last, w.last)]
      BY <3>1
    <3>3. /\ v.first = u.first /\ v.last = Larger(u.last, w.last) /\ v.reason = u.reason
          /\ v \in [first : Nat \ {0}, last : Nat, reason : Reasons]
      BY <3>2, RangeFacts DEF Ranges, Larger
    <3>4. v.first <= v.last /\ v.last < n
      BY <3>3, RangeFacts DEF Larger
    <3> QED BY <3>3, <3>4 DEF Ranges
  <2> HIDE DEF v
  <2>3. Front(merged) \in Seq(Ranges(n))
    BY <1>1, SubSeqProperties DEF Front
  <2>4. Join(merged, w) = Front(merged) \o <<v>>
    BY <1>1 DEF Join, v
  <2>5. Front(merged) \o <<v>> \in Seq(Ranges(n)) /\ Len(Front(merged) \o <<v>>) = Len(Front(merged)) + 1
    BY <2>2, <2>3
  <2> QED BY <2>4, <2>5, <2>3
<1>2. CASE ~(/\ merged # <<>>
             /\ Last(merged).reason = w.reason
             /\ Last(merged).last + 1 >= w.first)
  <2>1. Join(merged, w) = Append(merged, w)
    BY <1>2 DEF Join
  <2> QED BY <2>1
<1> QED BY <1>1, <1>2

\* The fold of Merged: what it makes of a set of positions.
JoinBody(g, ranges, s) ==
  IF s = {} THEN <<>> ELSE Join(g[s \ {Max(s)}], ranges[Max(s)])

Joiner(ranges) ==
  CHOOSE g : g = [s \in SUBSET (DOMAIN ranges) |-> JoinBody(g, ranges, s)]

LEMMA MergedIsJoiner ==
  ASSUME NEW ranges
  PROVE  Merged(ranges) = Joiner(ranges)[DOMAIN ranges]
BY DEF Merged, FoldLeft, MapThenFoldSet, Joiner, JoinBody

\* A set of positions is finite.
LEMMA PositionCount ==
  ASSUME NEW n \in Nat, NEW s \in SUBSET (1..n)
  PROVE  IsFiniteSet(s) /\ Cardinality(s) \in Nat /\ Cardinality(s) <= n
<1>1. IsFiniteSet(1..n) /\ Cardinality(1..n) = n
  BY FS_Interval
<1>2. IsFiniteSet(s) /\ Cardinality(s) <= Cardinality(1..n)
  BY <1>1, FS_Subset
<1> QED BY <1>1, <1>2, FS_CardinalityType

LEMMA NoPosition ==
  ASSUME NEW n \in Nat, NEW s \in SUBSET (1..n), Cardinality(s) <= 0
  PROVE  s = {}
<1>1. IsFiniteSet(s) /\ Cardinality(s) = 0
  BY PositionCount
<1> QED BY <1>1, FS_EmptySet

\* Without its last position it is smaller by one.
LEMMA LastPosition ==
  ASSUME NEW n \in Nat, NEW s \in SUBSET (1..n), s # {}
  PROVE  /\ Max(s) \in s /\ Max(s) \in 1..n
         /\ s \ {Max(s)} \in SUBSET (1..n)
         /\ Cardinality(s \ {Max(s)}) = Cardinality(s) - 1
         /\ Cardinality(s) - 1 \in Nat
<1>1. Max(s) \in s
  <2>1. s \subseteq 0..n
    OBVIOUS
  <2> QED BY <2>1, GreatestNumber
<1>2. IsFiniteSet(s)
  BY PositionCount
<1>3. PICK x \in s : x = Max(s)
  BY <1>1
<1>4. Cardinality(s \ {x}) = Cardinality(s) - 1 /\ Cardinality(s \ {x}) \in Nat
  BY <1>2, RestSmaller
<1> QED BY <1>1, <1>3, <1>4

LEMMA JoinerExists ==
  ASSUME NEW n \in Nat, NEW ranges, DOMAIN ranges = 1..n
  PROVE  \E g : g = [s \in SUBSET (DOMAIN ranges) |-> JoinBody(g, ranges, s)]
<1> DEFINE Level(k) == {s \in SUBSET (1..n) : Cardinality(s) <= k}
           Solved(k) == \E g : g = [s \in Level(k) |-> JoinBody(g, ranges, s)]
           Bad == {k \in Nat : ~Solved(k)}
<1>1. Solved(0)
  <2>1. \A s \in Level(0) : s = {}
    BY NoPosition
  <2> DEFINE g == [s \in Level(0) |-> <<>>]
  <2>2. g = [s \in Level(0) |-> JoinBody(g, ranges, s)]
    BY <2>1 DEF JoinBody
  <2> QED BY <2>2
<1>2. ASSUME NEW k \in Nat, Solved(k) PROVE Solved(k + 1)
  <2>1. PICK h : h = [s \in Level(k) |-> JoinBody(h, ranges, s)]
    BY <1>2
  <2> DEFINE g == [s \in Level(k + 1) |-> JoinBody(h, ranges, s)]
  <2>2. ASSUME NEW s \in Level(k + 1) PROVE JoinBody(h, ranges, s) = JoinBody(g, ranges, s)
    <3>1. CASE s = {}
      BY <3>1 DEF JoinBody
    <3>2. CASE s # {}
      <4> DEFINE w == s \ {Max(s)}
      <4>3. Cardinality(s) \in Nat /\ Cardinality(s) <= k + 1
        BY PositionCount
      <4>4. w \in SUBSET (1..n) /\ Cardinality(w) = Cardinality(s) - 1
        BY <3>2, LastPosition
      <4>1. w \in Level(k) /\ w \in Level(k + 1)
        BY <4>3, <4>4
      <4>2. h[w] = JoinBody(h, ranges, w)
        BY <2>1, <4>1
      <4>5. g[w] = JoinBody(h, ranges, w)
        BY <4>1
      <4> QED BY <3>2, <4>2, <4>5 DEF JoinBody
    <3> QED BY <3>1, <3>2
  <2>3. g = [s \in Level(k + 1) |-> JoinBody(g, ranges, s)]
    BY <2>2
  <2> QED BY <2>3
<1>3. Bad = {}
  <2>1. SUFFICES ASSUME Bad # {} PROVE FALSE
    OBVIOUS
  <2>2. PICK k \in Bad : \A m \in Bad : k <= m
    <3> HIDE DEF Solved
    <3> QED BY <2>1, LeastNumber
  <2>3. k # 0
    BY <1>1
  <2>4. k - 1 \in Nat /\ k - 1 \notin Bad
    <3> HIDE DEF Solved
    <3> QED BY <2>2, <2>3
  <2>5. Solved((k - 1) + 1)
    <3>1. Solved(k - 1)
      BY <2>4
    <3> HIDE DEF Solved
    <3> QED BY <3>1, <2>4, <1>2
  <2>6. (k - 1) + 1 = k
    BY <2>4
  <2> HIDE DEF Solved
  <2> QED BY <2>2, <2>5, <2>6
<1>4. Solved(n)
  BY <1>3
<1>5. Level(n) = SUBSET (DOMAIN ranges)
  BY PositionCount
<1> QED BY <1>4, <1>5

\* Joining the ranges of a list leaves a list of ranges.
LEMMA MergedRanges ==
  ASSUME NEW n \in Nat, NEW ranges \in Seq(Ranges(n))
  PROVE  /\ Merged(ranges) \in Seq(Ranges(n))
         /\ ranges # <<>> => Merged(ranges) # <<>>
<1> DEFINE D == DOMAIN ranges
           J == Joiner(ranges)
           Bad == {k \in Nat : \E s \in SUBSET D : Cardinality(s) = k /\ J[s] \notin Seq(Ranges(n))}
<1>1. D = 1..Len(ranges) /\ Len(ranges) \in Nat
  OBVIOUS
<1>2. J = [s \in SUBSET D |-> JoinBody(J, ranges, s)]
  BY <1>1, JoinerExists DEF Joiner
<1> HIDE DEF J
<1>3. Bad = {}
  <2>1. SUFFICES ASSUME Bad # {} PROVE FALSE
    OBVIOUS
  <2>2. PICK k \in Bad : \A m \in Bad : k <= m
    BY <2>1, LeastNumber
  <2>3. PICK s \in SUBSET D : Cardinality(s) = k /\ J[s] \notin Seq(Ranges(n))
    BY <2>2
  <2>4. J[s] = JoinBody(J, ranges, s)
    BY <1>2
  <2>5. s # {}
    BY <2>3, <2>4 DEF JoinBody
  <2> DEFINE w == s \ {Max(s)}
  <2>6. Max(s) \in D /\ w \in SUBSET D /\ Cardinality(w) = k - 1 /\ k - 1 \in Nat
    BY <1>1, <2>3, <2>5, LastPosition
  <2>7. J[w] \in Seq(Ranges(n))
    BY <2>2, <2>6
  <2>8. ranges[Max(s)] \in Ranges(n)
    BY <1>1, <2>6
  <2>9. J[s] = Join(J[w], ranges[Max(s)])
    BY <2>4, <2>5 DEF JoinBody
  <2> QED BY <2>3, <2>7, <2>8, <2>9, JoinRanges
<1>4. Merged(ranges) = J[D]
  BY MergedIsJoiner DEF J
<1>5. \A s \in SUBSET D : J[s] \in Seq(Ranges(n))
  <2>1. \A s \in SUBSET D : Cardinality(s) \in Nat
    BY <1>1, PositionCount
  <2> QED BY <1>3, <2>1
<1>6. ASSUME ranges # <<>> PROVE J[D] # <<>>
  <2>1. D \in SUBSET (1..Len(ranges)) /\ D # {}
    <3>1. Len(ranges) >= 1
      BY <1>6
    <3> QED BY <1>1, <3>1
  <2>2. Max(D) \in D /\ J[D \ {Max(D)}] \in Seq(Ranges(n))
    BY <1>1, <1>5, <2>1, LastPosition
  <2>3. J[D] = JoinBody(J, ranges, D)
    BY <1>2
  <2>4. J[D] = Join(J[D \ {Max(D)}], ranges[Max(D)]) /\ ranges[Max(D)] \in Ranges(n)
    BY <2>1, <2>2, <2>3 DEF JoinBody
  <2> QED BY <2>2, <2>4, JoinRanges
<1> QED BY <1>4, <1>5, <1>6

LEMMA CompactedRanges ==
  ASSUME NEW n \in Nat, NEW ranges \in Seq(Ranges(n)), MaxPendingLossRanges \in Nat \ {0}
  PROVE  /\ Compacted(ranges) \in Seq(Ranges(n))
         /\ Len(Compacted(ranges)) <= MaxPendingLossRanges
<1>1. CASE Len(ranges) <= MaxPendingLossRanges
  BY <1>1 DEF Compacted
<1>2. CASE ~(Len(ranges) <= MaxPendingLossRanges)
  <2> DEFINE ends == {ranges[i].last : i \in DOMAIN ranges}
  <2>1. Len(ranges) >= 1 /\ 1 \in DOMAIN ranges /\ Head(ranges) = ranges[1]
    BY <1>2
  <2>2. \A i \in DOMAIN ranges : ranges[i] \in Ranges(n)
    OBVIOUS
  <2>3. \A i \in DOMAIN ranges : ranges[i].last \in Nat /\ ranges[i].last < n
    BY <2>2, RangeFacts
  <2>4. ends \subseteq 0..n /\ ranges[1].last \in ends
    BY <2>1, <2>3
  <2>5. \A m \in ends : m \in Nat /\ m < n
    BY <2>3
  <2> HIDE DEF ends
  <2>6. Max(ends) \in ends /\ ranges[1].last <= Max(ends)
    BY <2>4, GreatestNumber
  <2>7. PICK h \in Ranges(n) : h = ranges[1]
    BY <2>1, <2>2
  <2>8. PICK l \in Nat : l = Max(ends) /\ l < n /\ h.last <= l
    BY <2>5, <2>6, <2>7
  <2>9. h.first <= l /\ h.first \in Nat \ {0}
    BY <2>8, RangeFacts
  <2>10. LossRange(h.first, l, "compacted") \in Ranges(n)
    BY <2>8, <2>9, NewRange DEF Reasons
  <2>11. Compacted(ranges) = <<LossRange(h.first, l, "compacted")>>
    BY <1>2, <2>1, <2>7, <2>8 DEF Compacted, ends
  <2> QED BY <2>10, <2>11
<1> QED BY <1>1, <1>2

\* Whatever was lost before, a recorded loss leaves a short list of ranges.
LEMMA RecordLossRanges ==
  ASSUME NEW n \in Nat, NEW ranges \in Seq(Ranges(n)), NEW loss \in Ranges(n),
         MaxPendingLossRanges \in Nat \ {0}
  PROVE  /\ RecordLoss(ranges, loss) \in Seq(Ranges(n))
         /\ Len(RecordLoss(ranges, loss)) <= MaxPendingLossRanges
<1>1. PICK a \in Seq(Ranges(n)) : a = Insert(ranges, loss)
  BY InsertRanges
<1>2. PICK b \in Seq(Ranges(n)) : b = Merged(a)
  BY MergedRanges
<1> QED BY <1>1, <1>2, CompactedRanges DEF RecordLoss

LEMMA UnsettledRanges ==
  ASSUME NEW n \in Nat, NEW ranges \in Seq(Ranges(n)), NEW e \in Nat
  PROVE  /\ Unsettled(ranges, e) \in Seq(Ranges(n))
         /\ Len(Unsettled(ranges, e)) <= Len(ranges)
         /\ Unsettled(ranges, e) # <<>> => Unsettled(ranges, e)[1].last >= e
<1> DEFINE I == {i \in 1..Len(ranges) : ranges[i].last >= e}
<1>1. CASE I = {}
  <2>1. Unsettled(ranges, e) = <<>>
    BY <1>1 DEF Unsettled, SelectInSeq
  <2> QED BY <2>1
<1>2. CASE I # {}
  <2>1. Min(I) \in I
    <3>1. I \subseteq Nat
      OBVIOUS
    <3> HIDE DEF I
    <3> QED BY <1>2, <3>1, SmallestNumber
  <2>2. PICK k \in 1..Len(ranges) : k = Min(I) /\ ranges[k].last >= e
    BY <2>1
  <2>3. Unsettled(ranges, e) = SubSeq(ranges, k, Len(ranges))
    <3> DEFINE ahead == IF I # {} THEN Min(I) ELSE 0
    <3>1. Unsettled(ranges, e)
            = IF ahead = 0 THEN <<>> ELSE SubSeq(ranges, ahead, Len(ranges))
      BY DEF Unsettled, SelectInSeq
    <3>2. ahead = k
      BY <1>2, <2>2
    <3>3. k # 0
      OBVIOUS
    <3> HIDE DEF ahead
    <3> QED BY <3>1, <3>2, <3>3
  <2>4. /\ SubSeq(ranges, k, Len(ranges)) \in Seq(Ranges(n))
        /\ Len(SubSeq(ranges, k, Len(ranges))) = Len(ranges) - k + 1
        /\ SubSeq(ranges, k, Len(ranges))[1] = ranges[k]
    BY SubSeqProperties
  <2> QED BY <2>2, <2>3, <2>4
<1> QED BY <1>1, <1>2

\* The loss the worker takes starts with the number it waits for; the others stay.
LEMMA TakingRanges ==
  ASSUME NEW n \in Nat, NEW ranges \in Seq(Ranges(n)), NEW e \in Nat \ {0}
  PROVE  /\ AfterTaking(ranges, e) \in Seq(Ranges(n))
         /\ Len(AfterTaking(ranges, e)) <= Len(ranges)
         /\ LossDue(ranges, e) => DueLoss(ranges, e) \in Ranges(n)
<1>1. PICK u \in Seq(Ranges(n)) :
        u = Unsettled(ranges, e) /\ Len(u) <= Len(ranges) /\ (u # <<>> => u[1].last >= e)
  BY UnsettledRanges
<1>2. CASE ~LossDue(ranges, e)
  BY <1>1, <1>2 DEF AfterTaking
<1>3. CASE LossDue(ranges, e)
  <2>1. u # <<>> /\ Len(u) >= 1 /\ Head(u) = u[1]
    BY <1>1, <1>3 DEF LossDue
  <2>2. Tail(u) \in Seq(Ranges(n)) /\ Len(Tail(u)) = Len(u) - 1
    BY <2>1
  <2>3. AfterTaking(ranges, e) = Tail(u)
    BY <1>1, <1>3 DEF AfterTaking
  <2>4. PICK h \in Ranges(n) : h = Head(u) /\ h.last >= e
    BY <1>1, <2>1
  <2> DEFINE d == [h EXCEPT !.first = e]
  <2>5. /\ d.first = e /\ d.last = h.last /\ d.reason = h.reason
        /\ d \in [first : Nat \ {0}, last : Nat, reason : Reasons]
    BY RangeFacts DEF Ranges
  <2>6. d \in Ranges(n)
    <3> HIDE DEF d
    <3> QED BY <2>4, <2>5, RangeFacts DEF Ranges
  <2>7. DueLoss(ranges, e) = d
    BY <1>1, <2>4 DEF DueLoss
  <2> QED BY <1>1, <2>2, <2>3, <2>6, <2>7
<1> QED BY <1>2, <1>3

\* What lies below n lies below n + 1.
LEMMA RangesGrow ==
  ASSUME NEW n \in Nat, NEW ranges \in Seq(Ranges(n))
  PROVE  ranges \in Seq(Ranges(n + 1))
<1>1. Ranges(n) \subseteq Ranges(n + 1)
  BY DEF Ranges
<1> QED BY <1>1

-----------------------------------------------------------------------------
(* The store and the worker                                                  *)

\* The store's tables agree with its checkpoint.
StoreInv ==
  /\ accounted \in Nat
  /\ contiguous \in Nat
  /\ contiguous <= accounted
  /\ SettledOnce
  /\ HonestFrontier

\* The worker is where the store is; once a gap was declared, no prefix the store
\* may still acknowledge reaches it.
WorkerInv ==
  /\ WorkerInStep
  /\ step = "record" => current.sequence = expected
  /\ \A c \in ceiling : c \in Nat /\ contiguous <= c /\ c < accounted

IInv == StoreInv /\ WorkerInv

\* What the publishers, the queue and the clock do leaves the invariant alone.
LEMMA Elsewhere ==
  ASSUME IInv, UNCHANGED <<store, step, current, expected, ceiling>>
  PROVE  IInv'
BY DEF IInv, StoreInv, WorkerInv, WorkerInStep, SettledOnce, HonestFrontier, store

\* Taking the next record keeps the tables in order.
LEMMA RecordKeepsStore ==
  ASSUME StoreInv, NEW n, IngestRecord(n)
  PROVE  StoreInv' /\ accounted' = accounted + 1 /\ n = accounted + 1
<1>1. /\ n = accounted + 1 /\ accounted' = n
      /\ contiguous' = IF contiguous = accounted THEN n ELSE contiguous
      /\ stored' = stored \cup {n} /\ gaps' = gaps \ {n}
  BY DEF IngestRecord, RecordIsNext, Prefix, Resolved
<1>2. /\ accounted \in Nat /\ contiguous \in Nat /\ contiguous <= accounted
      /\ stored \cap gaps = {} /\ stored \cup gaps = 1..accounted
      /\ 1..contiguous \subseteq stored
      /\ contiguous < accounted => contiguous + 1 \in gaps
  BY DEF StoreInv, SettledOnce, HonestFrontier
<1>3. n \notin gaps
  BY <1>1, <1>2
<1>4. stored' \cup gaps' = 1..accounted'
  BY <1>1, <1>2, <1>3
<1>5. stored' \cap gaps' = {}
  BY <1>1, <1>2
<1>6. 1..contiguous' \subseteq stored'
  <2>1. CASE contiguous = accounted
    BY <2>1, <1>1, <1>2
  <2>2. CASE contiguous # accounted
    BY <2>2, <1>1, <1>2
  <2> QED BY <2>1, <2>2
<1>7. contiguous' < accounted' => contiguous' + 1 \in gaps'
  BY <1>1, <1>2, <1>3
<1> QED
  BY <1>1, <1>2, <1>4, <1>5, <1>6, <1>7 DEF StoreInv, SettledOnce, HonestFrontier

\* So does a declared gap, and the complete prefix does not move.
LEMMA GapKeepsStore ==
  ASSUME StoreInv, NEW first, NEW last, IngestGap(first, last)
  PROVE  /\ StoreInv'
         /\ last \in Nat /\ first = accounted + 1
         /\ accounted' = last /\ accounted < last /\ contiguous' = contiguous
<1>1. /\ first = accounted + 1 /\ last \in Nat /\ accounted < last
      /\ accounted' = last /\ gaps' = gaps \cup (first..last)
      /\ contiguous' = contiguous /\ stored' = stored
  BY DEF IngestGap, GapIsNext, ValidRange, WithGap, StoreInv
<1>2. /\ accounted \in Nat /\ contiguous \in Nat /\ contiguous <= accounted
      /\ stored \cap gaps = {} /\ stored \cup gaps = 1..accounted
      /\ 1..contiguous \subseteq stored
      /\ contiguous < accounted => contiguous + 1 \in gaps
  BY DEF StoreInv, SettledOnce, HonestFrontier
<1>3. stored' \cup gaps' = 1..accounted'
  BY <1>1, <1>2
<1>4. stored' \cap gaps' = {}
  BY <1>1, <1>2
<1>5. contiguous' < accounted' => contiguous' + 1 \in gaps'
  BY <1>1, <1>2
<1> QED
  BY <1>1, <1>2, <1>3, <1>4, <1>5 DEF StoreInv, SettledOnce, HonestFrontier

LEMMA InitInv == Init => IInv
BY DEF Init, StoreInit, IInv, StoreInv, WorkerInv, WorkerInStep, SettledOnce,
       HonestFrontier, Nothing, Record

\* The acknowledgement of the next record always covers it, so the worker moves
\* on together with the store.
LEMMA DeliverRecordInv == ASSUME IInv, DeliverRecord PROVE IInv'
<1>1. StoreInv /\ WorkerInv
  BY DEF IInv
<1>2. step = "record" /\ IngestRecord(current.sequence) /\ step' = "drain"
        /\ ceiling' = ceiling
  BY DEF DeliverRecord
<1>3. /\ StoreInv' /\ accounted' = accounted + 1
      /\ current.sequence = accounted + 1
  BY <1>1, <1>2, RecordKeepsStore
<1>4. contiguous' = IF contiguous = accounted THEN accounted + 1 ELSE contiguous
  BY <1>2, <1>3 DEF IngestRecord, Prefix, Resolved
<1>5. \A c \in ceiling : c \in Nat /\ contiguous' <= c /\ c < accounted'
  BY <1>1, <1>3, <1>4 DEF WorkerInv, StoreInv
<1>6. RecordCovered
  BY <1>1, <1>3, <1>5 DEF RecordCovered, StoreInv
<1>7. expected' = current.sequence + 1
  BY <1>6 DEF DeliverRecord
<1> QED
  BY <1>1, <1>2, <1>3, <1>5, <1>7 DEF IInv, WorkerInv, WorkerInStep, StoreInv

\* The acknowledgement of the next declaration always covers it too.
LEMMA DeliverGapInv == ASSUME IInv, DeliverGap PROVE IInv'
<1>1. StoreInv /\ WorkerInv
  BY DEF IInv
<1>2. step = "gap" /\ IngestGap(current.first, current.last)
  BY DEF DeliverGap
<1>3. /\ StoreInv'
      /\ current.last \in Nat /\ current.first = accounted + 1
      /\ accounted' = current.last /\ accounted < current.last
      /\ contiguous' = contiguous
  BY <1>1, <1>2, GapKeepsStore
<1>4. GapCovered
  BY <1>1, <1>3 DEF GapCovered, WorkerInv, StoreInv
<1>5. expected' = current.last + 1 /\ Cap(current.first - 1) /\ step' = "drain"
  BY <1>4 DEF DeliverGap
<1>6. \A c \in ceiling' : c \in ceiling \/ c = accounted
  BY <1>1, <1>3, <1>5 DEF Cap, StoreInv
<1>7. \A c \in ceiling' : c \in Nat /\ contiguous' <= c /\ c < accounted'
  BY <1>1, <1>3, <1>6 DEF WorkerInv, StoreInv
<1> QED
  BY <1>1, <1>3, <1>5, <1>7 DEF IInv, WorkerInv, WorkerInStep, StoreInv

\* A refused record leaves the store where it was: it is the next one.
LEMMA RecordFailsInv == ASSUME IInv, RecordFails PROVE IInv'
<1>1. /\ step = "record" /\ RefuseRecord(current.sequence) /\ step' = "drain"
      /\ expected' = expected /\ ceiling' = ceiling
  BY DEF RecordFails, DeliveryFailed
<1>2. current.sequence = accounted + 1 /\ accounted \in Nat
  BY <1>1 DEF IInv, WorkerInv, WorkerInStep, StoreInv
<1>3. UNCHANGED store
  BY <1>1, <1>2 DEF RefuseRecord, WithGap, store
<1> QED
  BY <1>1, <1>3 DEF IInv, StoreInv, WorkerInv, WorkerInStep, SettledOnce,
                    HonestFrontier, store

\* The worker's steps that leave the store, the number it waits for and its
\* ceiling alone, and do not start the delivery of a record.
LEMMA WorkerMoves ==
  ASSUME IInv, UNCHANGED <<store, expected, ceiling>>, step' # "record"
  PROVE  IInv'
BY DEF IInv, StoreInv, WorkerInv, WorkerInStep, SettledOnce, HonestFrontier, store

LEMMA NextInv == IInv /\ [Next]_vars => IInv'
<1> SUFFICES ASSUME IInv, [Next]_vars PROVE IInv'
  OBVIOUS
<1>1. ASSUME NEW p \in Publishers, NEW size \in Sizes, Reserve(p, size) PROVE IInv'
  BY <1>1, Elsewhere DEF Reserve, worker
<1>2. ASSUME NEW p \in Publishers, Publish(p) PROVE IInv'
  BY <1>2, Elsewhere DEF Publish, DropOversized, DropForBytes, ReserveBytes,
     Enqueue, DropForEvents, Wake, worker
<1>3. CASE Close
  BY <1>3, Elsewhere DEF Close, worker
<1>4. CASE Elapse
  BY <1>4, Elsewhere DEF Elapse
<1>5. CASE Receive \/ ReceiveNothing
  BY <1>5, WorkerMoves DEF Receive, ReceiveNothing
<1>6. CASE WaitOut \/ FindNothing
  BY <1>6, WorkerMoves DEF WaitOut, FindNothing, Pause
<1>7. CASE TakeLoss
  BY <1>7, WorkerMoves DEF TakeLoss
<1>8. CASE TakeRecord
  BY <1>8 DEF TakeRecord, IInv, StoreInv, WorkerInv, WorkerInStep, SettledOnce,
     HonestFrontier, store
<1>9. CASE GapFails
  BY <1>9, WorkerMoves DEF GapFails, DeclareAgain, Pause
<1>10. CASE DeliverRecord
  BY <1>10, DeliverRecordInv
<1>11. CASE RecordFails
  BY <1>11, RecordFailsInv
<1>12. CASE DeliverGap
  BY <1>12, DeliverGapInv
<1>13. CASE UNCHANGED vars
  BY <1>13, Elsewhere DEF vars, worker
<1> QED
  BY <1>1, <1>2, <1>3, <1>4, <1>5, <1>6, <1>7, <1>8, <1>9, <1>10, <1>11, <1>12,
     <1>13 DEF Next, Work

\* A sequence number is settled once, as an event or as a gap, and in order: the
\* store's tables and its checkpoint agree, for every stream of publications.
THEOREM NumbersSettleOnce == Spec => []SettledOnce
<1>1. IInv => SettledOnce
  BY DEF IInv, StoreInv
<1> QED
  BY <1>1, InitInv, NextInv, PTL DEF Spec

\* The contiguous checkpoint never reaches over a loss.
THEOREM FrontierIsHonest == Spec => []HonestFrontier
<1>1. IInv => HonestFrontier
  BY DEF IInv, StoreInv
<1> QED
  BY <1>1, InitInv, NextInv, PTL DEF Spec

\* The worker waits for exactly the number the store accounts next, so neither
\* can refuse what the other brings.
THEOREM WorkerStaysInStep == Spec => []WorkerInStep
<1>1. IInv => WorkerInStep
  BY DEF IInv, WorkerInv
<1> QED
  BY <1>1, InitInv, NextInv, PTL DEF Spec

\* The store's part of a step is a step of the ledger or leaves it alone.
LEMMA LedgerStep == IInv /\ [Next]_vars => [Ledger!LedgerNext]_(Ledger!ledgerVars)
<1> SUFFICES ASSUME IInv, [Next]_vars
             PROVE  Ledger!LedgerNext \/ UNCHANGED <<accounted, stored>>
  BY DEF Ledger!ledgerVars
<1>1. StoreInv
  BY DEF IInv
<1>2. CASE DeliverRecord
  <2>1. IngestRecord(current.sequence)
    BY <1>2 DEF DeliverRecord
  <2>2. accounted' = accounted + 1 /\ current.sequence = accounted + 1
    BY <1>1, <2>1, RecordKeepsStore
  <2> QED
    BY <2>1, <2>2 DEF IngestRecord, Ledger!LedgerNext, Ledger!Store
<1>3. CASE DeliverGap
  <2>1. IngestGap(current.first, current.last)
    BY <1>3 DEF DeliverGap
  <2>2. /\ current.last \in Nat
        /\ accounted' = current.last /\ accounted < current.last
    BY <1>1, <2>1, GapKeepsStore
  <2> QED
    BY <1>1, <2>1, <2>2 DEF IngestGap, StoreInv, Ledger!LedgerNext, Ledger!Declare
<1>4. CASE RecordFails
  BY <1>4 DEF RecordFails, RefuseRecord
<1>5. CASE ~(DeliverRecord \/ DeliverGap \/ RecordFails)
  <2>1. UNCHANGED store
    BY <1>5 DEF Next, Work, Publish, vars, Reserve, DropOversized, DropForBytes,
       ReserveBytes, Enqueue, DropForEvents, Wake, Close, Elapse, Receive,
       ReceiveNothing, WaitOut, TakeLoss, TakeRecord, FindNothing, GapFails
  <2> QED
    BY <2>1 DEF store
<1> QED
  BY <1>2, <1>3, <1>4, <1>5

\* The channel implements the ledger: numbers are settled in order, and what is
\* settled stays as it is.
THEOREM ChannelImplementsLedger == Spec => ImplementsLedger
<1>1. Init => Ledger!LedgerInit
  BY DEF Init, StoreInit, Ledger!LedgerInit
<1> QED
  BY <1>1, InitInv, NextInv, LedgerStep, PTL
     DEF Spec, ImplementsLedger, Ledger!LedgerSpec

-----------------------------------------------------------------------------
(* The records on their way                                                  *)

Records == [sequence : Nat, size : Nat]

\* A publisher has the record in hand.
Making(p) == stage[p] \in {"build", "send"}

\* A record on its way has a number that was handed out, that nobody was told is
\* dropped, and that is no event of the store.
Live(r) ==
  /\ r.sequence \in 1..(next - 1)
  /\ r.sequence \notin dropped
  /\ r.sequence \notin stored
  /\ r.size \in Sizes

FlightTypes ==
  /\ next \in Nat \ {0}
  /\ stage \in [Publishers -> {"idle", "build", "send", "pulse"}]
  /\ message \in [Publishers -> Records]
  /\ dropped \subseteq 1..(next - 1)
  /\ queue \in Seq(Records)
  /\ held \subseteq Records /\ IsFiniteSet(held)
  /\ step = "record" => current \in Records

\* Where the records are: with a publisher, in the queue, in the worker's buffer
\* or in its hands.
AllLive ==
  /\ \A p \in Publishers : Making(p) => Live(message[p])
  /\ \A i \in 1..Len(queue) : queue[i] = Pulse \/ Live(queue[i])
  /\ \A r \in held : Live(r)
  /\ step = "record" => Live(current)
  /\ DroppedStaysLost

\* No two records on their way have one number.
Apart ==
  /\ \A p, q \in Publishers :
       Making(p) /\ Making(q) /\ message[p].sequence = message[q].sequence => p = q
  /\ \A i, j \in 1..Len(queue) :
       queue[i] # Pulse /\ queue[j] # Pulse /\ queue[i].sequence = queue[j].sequence => i = j
  /\ \A r, s \in held : r.sequence = s.sequence => r = s
  /\ \A p \in Publishers : Making(p) =>
       /\ \A i \in 1..Len(queue) : queue[i].sequence # message[p].sequence
       /\ \A r \in held : r.sequence # message[p].sequence
  /\ \A i \in 1..Len(queue) : queue[i] # Pulse =>
       \A r \in held : r.sequence # queue[i].sequence

\* Nor has the record the worker delivers.
CurrentApart == step = "record" =>
  /\ \A p \in Publishers : Making(p) => message[p].sequence # current.sequence
  /\ \A i \in 1..Len(queue) : queue[i].sequence # current.sequence
  /\ \A r \in held : r.sequence # current.sequence

\* What is recorded or declared as lost was handed out before.
LossInv ==
  /\ pending \in Seq(Ranges(next)) /\ Len(pending) <= MaxPendingLossRanges
  /\ step = "gap" => current \in Ranges(next)
  /\ accounted < next

FlightInv ==
  FlightTypes /\ AllLive /\ Apart /\ CurrentApart /\ NothingStranded

\* What a queue holds after a record was put in.
LEMMA QueueAppend ==
  ASSUME NEW q \in Seq(Records), NEW m \in Records
  PROVE  /\ Append(q, m) \in Seq(Records) /\ Len(Append(q, m)) = Len(q) + 1
         /\ \A i \in 1..(Len(q) + 1) : Append(q, m)[i] = IF i = Len(q) + 1 THEN m ELSE q[i]
OBVIOUS

\* What it holds after a record was taken out.
LEMMA QueueTail ==
  ASSUME NEW q \in Seq(Records), q # <<>>
  PROVE  /\ Len(q) \in Nat /\ Len(q) >= 1 /\ Head(q) = q[1] /\ q[1] \in Records
         /\ Tail(q) \in Seq(Records) /\ Len(Tail(q)) = Len(q) - 1
         /\ \A i \in 1..(Len(q) - 1) : Tail(q)[i] = q[i + 1]
OBVIOUS

LEMMA PulseFacts == Pulse \in Records /\ Pulse.sequence = 0 /\ Nothing = Pulse
BY DEF Pulse, Nothing, Record, Records

\* A record on its way is not the wake-up.
LEMMA LiveFacts ==
  ASSUME FlightTypes, NEW r \in Records, Live(r)
  PROVE  r # Pulse /\ r.sequence \in Nat /\ r.sequence >= 1 /\ r.sequence < next
           /\ r.size \in Nat \ {0}
<1>3. next \in Nat /\ r.sequence \in 1..(next - 1)
  BY DEF Live, FlightTypes
<1>4. r.size \in Nat \ {0}
  BY ProducerAssumption DEF Live
<1>1. /\ r.sequence \in Nat /\ r.sequence >= 1 /\ r.sequence < next
      /\ r.size \in Nat \ {0}
  BY <1>3, <1>4
<1>2. r # Pulse
  BY <1>1, PulseFacts
<1> QED BY <1>1, <1>2

LEMMA FlightInit == Init => FlightInv /\ LossInv
<1> SUFFICES ASSUME Init PROVE FlightInv /\ LossInv
  OBVIOUS
<1>1. FlightTypes
  <2>1. IsFiniteSet({})
    BY FS_EmptySet
  <2>2. Nothing \in Records
    BY PulseFacts
  <2> QED BY <2>1, <2>2 DEF Init, FlightTypes
<1>2. AllLive /\ Apart /\ CurrentApart /\ NothingStranded
  BY DEF Init, StoreInit, AllLive, Apart, CurrentApart, NothingStranded, DroppedStaysLost, Making
<1>3. LossInv
  BY ProducerAssumption DEF Init, StoreInit, LossInv
<1> QED BY <1>1, <1>2, <1>3 DEF FlightInv

\* The steps that touch no record, or give up records the worker holds.
LEMMA FlightKept ==
  ASSUME FlightInv, held' \subseteq held,
         UNCHANGED <<next, stage, message, dropped, queue, stored>>,
         expected' = expected \/ (\A r \in held' : r.sequence >= expected'),
         step' # "record" \/ (step' = step /\ current' = current)
  PROVE  FlightInv'
<1>1. FlightTypes'
  BY FS_Subset DEF FlightInv, FlightTypes
<1>2. AllLive'
  BY DEF FlightInv, AllLive, Making, Live, DroppedStaysLost
<1>3. Apart'
  BY DEF FlightInv, Apart, Making
<1>4. CurrentApart'
  BY DEF FlightInv, CurrentApart, Making
<1>5. NothingStranded'
  BY DEF FlightInv, NothingStranded
<1> QED BY <1>1, <1>2, <1>3, <1>4, <1>5 DEF FlightInv

LEMMA ReserveFlight ==
  ASSUME FlightInv, LossInv, IInv, NEW p \in Publishers, NEW size \in Sizes, Reserve(p, size)
  PROVE  FlightInv'
<1>0. PICK m : m = Record(next, size)
  OBVIOUS
<1>1. /\ next' = next + 1 /\ message' = [message EXCEPT ![p] = m]
      /\ stage' = [stage EXCEPT ![p] = "build"]
      /\ UNCHANGED <<dropped, queue, held, stored, expected, step, current>>
  BY <1>0 DEF Reserve, channel, worker, store
<1>2. m \in Records /\ m.sequence = next /\ m.size = size
  BY <1>0, ProducerAssumption DEF Record, Records, FlightInv, FlightTypes
<1>3. next \notin stored /\ next \notin dropped /\ next \in 1..(next' - 1) /\ next \in Nat
  BY <1>1 DEF IInv, StoreInv, SettledOnce, LossInv, FlightInv, FlightTypes
<1>4. FlightTypes'
  BY <1>1, <1>2 DEF FlightInv, FlightTypes
<1>5. Live(m)'
  BY <1>1, <1>2, <1>3 DEF Live
<1>6. ASSUME NEW r \in Records, Live(r)
      PROVE  r.sequence # next /\ Live(r)'
  BY <1>1, <1>3, <1>6, LiveFacts DEF Live, FlightInv, FlightTypes
<1>7. \A q \in Publishers : q # p => message'[q] = message[q] /\ (Making(q)' <=> Making(q))
  BY <1>1 DEF FlightInv, FlightTypes, Making
<1>8. message'[p] = m /\ Making(p)'
  BY <1>1 DEF FlightInv, FlightTypes, Making
<1>9. /\ \A q \in Publishers : Making(q) => message[q].sequence # next
      /\ \A i \in 1..Len(queue) : queue[i].sequence # next
      /\ \A r \in held : r.sequence # next
      /\ step = "record" => current.sequence # next
  <2>1. /\ \A q \in Publishers : message[q] \in Records
        /\ \A i \in 1..Len(queue) : queue[i] \in Records
        /\ held \subseteq Records
        /\ step = "record" => current \in Records
    BY DEF FlightInv, FlightTypes
  <2>2. Pulse.sequence # next
    BY <1>3, PulseFacts
  <2> QED BY <1>6, <2>1, <2>2 DEF FlightInv, AllLive
<1>10. AllLive'
  <2>1. \A q \in Publishers : Making(q)' => Live(message[q])'
    BY <1>1, <1>5, <1>6, <1>7, <1>8 DEF FlightInv, FlightTypes, AllLive
  <2>2. \A i \in 1..Len(queue) : queue[i] = Pulse \/ Live(queue[i])'
    BY <1>1, <1>6 DEF FlightInv, FlightTypes, AllLive
  <2>3. \A r \in held : Live(r)'
    BY <1>6 DEF FlightInv, FlightTypes, AllLive
  <2>4. step = "record" => Live(current)'
    BY <1>1, <1>6 DEF FlightInv, FlightTypes, AllLive
  <2> QED BY <1>1, <2>1, <2>2, <2>3, <2>4 DEF FlightInv, AllLive, DroppedStaysLost
<1>11. Apart'
  BY <1>1, <1>2, <1>7, <1>8, <1>9 DEF FlightInv, Apart
<1>12. CurrentApart'
  BY <1>1, <1>2, <1>7, <1>8, <1>9 DEF FlightInv, CurrentApart
<1>13. NothingStranded'
  BY <1>1 DEF FlightInv, NothingStranded
<1> QED BY <1>4, <1>10, <1>11, <1>12, <1>13 DEF FlightInv

\* The publisher is told that its record is dropped: nobody else has its number.
LEMMA DropFlight ==
  ASSUME FlightInv, NEW p \in Publishers, Making(p),
         dropped' = dropped \cup {message[p].sequence},
         stage' = [stage EXCEPT ![p] = "pulse"],
         UNCHANGED <<next, message, queue, held, stored, expected, step, current>>
  PROVE  FlightInv'
<1> DEFINE n == message[p].sequence
<1>1. Live(message[p]) /\ message[p] \in Records
  BY DEF FlightInv, FlightTypes, AllLive
<1>2. FlightTypes'
  BY <1>1 DEF FlightInv, FlightTypes, Live
<1>3. \A q \in Publishers : Making(q)' => q # p /\ Making(q)
  BY DEF FlightInv, FlightTypes, Making
<1>4. ASSUME NEW r, Live(r), r.sequence # n PROVE Live(r)'
  BY <1>4 DEF Live
<1>5. AllLive'
  <2>1. \A q \in Publishers : Making(q)' => Live(message[q])'
    BY <1>3, <1>4 DEF FlightInv, AllLive, Apart
  <2>2. \A i \in 1..Len(queue) : queue[i] = Pulse \/ Live(queue[i])'
    BY <1>4 DEF FlightInv, AllLive, Apart
  <2>3. \A r \in held : Live(r)'
    BY <1>4 DEF FlightInv, AllLive, Apart
  <2>4. step = "record" => Live(current)'
    BY <1>4 DEF FlightInv, AllLive, CurrentApart
  <2>5. DroppedStaysLost'
    BY <1>1 DEF FlightInv, AllLive, DroppedStaysLost, Live
  <2> QED BY <2>1, <2>2, <2>3, <2>4, <2>5 DEF AllLive
<1>6. Apart'
  BY <1>3 DEF FlightInv, Apart
<1>7. CurrentApart'
  BY <1>3 DEF FlightInv, CurrentApart
<1>8. NothingStranded'
  BY DEF FlightInv, NothingStranded
<1> QED BY <1>2, <1>5, <1>6, <1>7, <1>8 DEF FlightInv

\* A record that is not in the queue is put there by the publisher that has it.
LEMMA EnqueueFlight ==
  ASSUME FlightInv, NEW p \in Publishers, Enqueue(p)
  PROVE  FlightInv'
<1>1. PICK m \in Records : m = message[p]
  BY DEF FlightInv, FlightTypes
<1>2. /\ stage[p] = "send" /\ queue' = Append(queue, m)
      /\ stage' = [stage EXCEPT ![p] = "idle"]
      /\ message' = [message EXCEPT ![p] = Nothing]
      /\ UNCHANGED <<next, dropped, held, stored, expected, step, current>>
  BY <1>1 DEF Enqueue, worker, store
<1>3. Making(p) /\ Live(m)
  BY <1>1, <1>2 DEF FlightInv, AllLive, Making
<1>4. queue \in Seq(Records) /\ Len(queue) \in Nat
  BY DEF FlightInv, FlightTypes
<1>5. /\ queue' \in Seq(Records) /\ Len(queue') = Len(queue) + 1
      /\ \A i \in 1..(Len(queue) + 1) : queue'[i] = IF i = Len(queue) + 1 THEN m ELSE queue[i]
  BY <1>2, <1>4, QueueAppend
<1>6. \A q \in Publishers : Making(q)' => q # p /\ Making(q) /\ message'[q] = message[q]
  BY <1>2 DEF FlightInv, FlightTypes, Making
<1>7. /\ \A q \in Publishers : q # p /\ Making(q) => message[q].sequence # m.sequence
      /\ \A i \in 1..Len(queue) : queue[i].sequence # m.sequence
      /\ \A r \in held : r.sequence # m.sequence
      /\ step = "record" => m.sequence # current.sequence
  BY <1>1, <1>3 DEF FlightInv, Apart, CurrentApart
<1>8. FlightTypes'
  BY <1>2, <1>5, PulseFacts DEF FlightInv, FlightTypes
<1>9. AllLive'
  <2>1. \A r : Live(r) => Live(r)'
    BY <1>2 DEF Live
  <2> QED BY <1>2, <1>3, <1>5, <1>6, <2>1 DEF FlightInv, AllLive, DroppedStaysLost
<1>10. Apart'
  <2>1. \A q, w \in Publishers :
          Making(q)' /\ Making(w)' /\ message'[q].sequence = message'[w].sequence => q = w
    BY <1>6 DEF FlightInv, Apart
  <2>2. \A i, j \in 1..Len(queue') :
          queue'[i] # Pulse /\ queue'[j] # Pulse /\ queue'[i].sequence = queue'[j].sequence => i = j
    BY <1>4, <1>5, <1>7 DEF FlightInv, Apart
  <2>3. \A q \in Publishers : Making(q)' =>
          /\ \A i \in 1..Len(queue') : queue'[i].sequence # message'[q].sequence
          /\ \A r \in held : r.sequence # message'[q].sequence
    BY <1>4, <1>5, <1>6, <1>7 DEF FlightInv, Apart
  <2>4. \A i \in 1..Len(queue') : queue'[i] # Pulse =>
          \A r \in held : r.sequence # queue'[i].sequence
    BY <1>4, <1>5, <1>7 DEF FlightInv, Apart
  <2> QED BY <1>2, <2>1, <2>2, <2>3, <2>4 DEF FlightInv, Apart
<1>11. CurrentApart'
  BY <1>2, <1>4, <1>5, <1>6, <1>7 DEF FlightInv, CurrentApart
<1>12. NothingStranded'
  BY <1>2 DEF FlightInv, NothingStranded
<1> QED BY <1>8, <1>9, <1>10, <1>11, <1>12 DEF FlightInv

\* The wake-up carries no number.
LEMMA WakeFlight ==
  ASSUME FlightInv, NEW p \in Publishers, Wake(p)
  PROVE  FlightInv'
<1>1. /\ queue' = queue \/ queue' = Append(queue, Pulse)
      /\ stage[p] = "pulse"
      /\ stage' = [stage EXCEPT ![p] = "idle"]
      /\ message' = [message EXCEPT ![p] = Nothing]
      /\ UNCHANGED <<next, dropped, held, stored, expected, step, current>>
  BY DEF Wake, worker, store
<1>2. queue \in Seq(Records) /\ Len(queue) \in Nat
  BY DEF FlightInv, FlightTypes
<1>3. /\ queue' \in Seq(Records) /\ Len(queue') \in Nat
      /\ \A i \in 1..Len(queue') : queue'[i] = Pulse \/ (i \in 1..Len(queue) /\ queue'[i] = queue[i])
  <2>1. CASE queue' = queue
    BY <1>2, <2>1
  <2>2. CASE queue' = Append(queue, Pulse)
    <3>1. /\ queue' \in Seq(Records) /\ Len(queue') = Len(queue) + 1
          /\ \A i \in 1..(Len(queue) + 1) :
               queue'[i] = IF i = Len(queue) + 1 THEN Pulse ELSE queue[i]
      BY <1>2, <2>2, QueueAppend, PulseFacts
    <3>2. \A i \in 1..(Len(queue) + 1) : i = Len(queue) + 1 \/ i \in 1..Len(queue)
      BY <1>2
    <3> QED BY <1>2, <3>1, <3>2
  <2> QED BY <1>1, <2>1, <2>2
<1>4. \A q \in Publishers : Making(q)' => Making(q) /\ message'[q] = message[q]
  BY <1>1 DEF FlightInv, FlightTypes, Making
<1>5. FlightTypes'
  BY <1>1, <1>3, PulseFacts DEF FlightInv, FlightTypes
<1>6. \A r : Live(r) => Live(r)'
  BY <1>1 DEF Live
<1>7. AllLive'
  BY <1>1, <1>3, <1>4, <1>6 DEF FlightInv, AllLive, DroppedStaysLost
<1>8. /\ \A q \in Publishers : Making(q) => message[q].sequence # Pulse.sequence
      /\ step = "record" => current.sequence # Pulse.sequence
  BY PulseFacts, LiveFacts DEF FlightInv, FlightTypes, AllLive
<1>9. Apart'
  <2>1. \A q, w \in Publishers :
          Making(q)' /\ Making(w)' /\ message'[q].sequence = message'[w].sequence => q = w
    BY <1>4 DEF FlightInv, Apart
  <2>2. \A i, j \in 1..Len(queue') :
          queue'[i] # Pulse /\ queue'[j] # Pulse /\ queue'[i].sequence = queue'[j].sequence => i = j
    BY <1>3 DEF FlightInv, Apart
  <2>3. \A q \in Publishers : Making(q)' =>
          /\ \A i \in 1..Len(queue') : queue'[i].sequence # message'[q].sequence
          /\ \A r \in held : r.sequence # message'[q].sequence
    BY <1>3, <1>4, <1>8 DEF FlightInv, Apart
  <2>4. \A i \in 1..Len(queue') : queue'[i] # Pulse =>
          \A r \in held : r.sequence # queue'[i].sequence
    BY <1>3 DEF FlightInv, Apart
  <2> QED BY <1>1, <2>1, <2>2, <2>3, <2>4 DEF FlightInv, Apart
<1>10. CurrentApart'
  BY <1>1, <1>3, <1>4, <1>8 DEF FlightInv, CurrentApart
<1>11. NothingStranded'
  BY <1>1 DEF FlightInv, NothingStranded
<1> QED BY <1>5, <1>7, <1>9, <1>10, <1>11 DEF FlightInv

\* The record the worker receives moves to its buffer, or is too late.
LEMMA ReceiveFlight ==
  ASSUME FlightInv, IInv, Receive
  PROVE  FlightInv'
<1>1. queue \in Seq(Records) /\ queue # <<>>
  BY DEF FlightInv, FlightTypes, Receive
<1>2. PICK m \in Records : m = queue[1] /\ m = Head(queue)
  BY <1>1, QueueTail
<1>3. /\ queue' = Tail(queue) /\ step' = "drain"
      /\ held' = held \/ (m # Pulse /\ ~(m.sequence < expected) /\ held' = held \cup {m})
      /\ UNCHANGED <<next, stage, message, dropped, stored, expected, current>>
  BY <1>2 DEF Receive, publishing, store
<1>4. /\ Len(queue) \in Nat /\ Len(queue) >= 1 /\ queue' \in Seq(Records)
      /\ Len(queue') = Len(queue) - 1
      /\ \A i \in 1..(Len(queue) - 1) : queue'[i] = queue[i + 1]
  BY <1>1, <1>3, QueueTail
<1>5. m # Pulse => Live(m)
  BY <1>2, <1>4 DEF FlightInv, AllLive
<1>6. m # Pulse =>
        /\ \A q \in Publishers : Making(q) => message[q].sequence # m.sequence
        /\ \A i \in 1..(Len(queue) - 1) : queue'[i] # Pulse => queue'[i].sequence # m.sequence
        /\ \A r \in held : r.sequence # m.sequence
  <2>1. \A i \in 1..(Len(queue) - 1) : i + 1 \in 1..Len(queue) /\ i + 1 # 1
    BY <1>4
  <2> QED BY <1>2, <1>4, <2>1 DEF FlightInv, Apart
<1>7. \A i \in 1..(Len(queue) - 1) : i + 1 \in 1..Len(queue)
  BY <1>4
<1>8. FlightTypes'
  <2>1. held' \subseteq Records /\ IsFiniteSet(held')
    <3>1. IsFiniteSet(held) /\ held \subseteq Records
      BY DEF FlightInv, FlightTypes
    <3>2. IsFiniteSet(held \cup {m})
      BY <3>1, FS_AddElement
    <3> QED BY <1>3, <3>1, <3>2
  <2> QED BY <1>3, <1>4, <2>1 DEF FlightInv, FlightTypes
<1>9. \A r : Live(r) => Live(r)'
  BY <1>3 DEF Live
<1>10. AllLive'
  BY <1>3, <1>4, <1>5, <1>7, <1>9 DEF FlightInv, AllLive, DroppedStaysLost, Making
<1>11. Apart'
  <2>1. \A i, j \in 1..Len(queue') :
          queue'[i] # Pulse /\ queue'[j] # Pulse /\ queue'[i].sequence = queue'[j].sequence => i = j
    <3> SUFFICES ASSUME NEW i \in 1..Len(queue'), NEW j \in 1..Len(queue'),
                        queue'[i] # Pulse, queue'[j] # Pulse, queue'[i].sequence = queue'[j].sequence
                 PROVE  i = j
      OBVIOUS
    <3>1. i + 1 = j + 1
      BY <1>4, <1>7 DEF FlightInv, Apart
    <3> QED BY <1>4, <3>1
  <2>2. \A r, s \in held' : r.sequence = s.sequence => r = s
    BY <1>3, <1>6 DEF FlightInv, Apart
  <2>3. \A q \in Publishers : Making(q) =>
          /\ \A i \in 1..Len(queue') : queue'[i].sequence # message[q].sequence
          /\ \A r \in held' : r.sequence # message[q].sequence
    BY <1>3, <1>4, <1>6, <1>7 DEF FlightInv, Apart
  <2>4. \A i \in 1..Len(queue') : queue'[i] # Pulse =>
          \A r \in held' : r.sequence # queue'[i].sequence
    BY <1>3, <1>4, <1>6, <1>7 DEF FlightInv, Apart
  <2> QED BY <1>3, <2>1, <2>2, <2>3, <2>4 DEF FlightInv, Apart, Making
<1>12. CurrentApart'
  BY <1>3 DEF CurrentApart
<1>13. NothingStranded'
  <2>1. expected \in Nat
    BY DEF IInv, StoreInv, WorkerInv, WorkerInStep
  <2> QED BY <1>3, <2>1 DEF FlightInv, NothingStranded, Records
<1> QED BY <1>8, <1>10, <1>11, <1>12, <1>13 DEF FlightInv

\* The worker takes the record it waits for out of its buffer.
LEMMA TakeRecordFlight ==
  ASSUME FlightInv, TakeRecord
  PROVE  FlightInv'
<1>1. PICK r \in held : r.sequence = expected /\ current' = r /\ held' = held \ {r}
  BY DEF TakeRecord
<1>2. /\ step' = "record"
      /\ UNCHANGED <<next, stage, message, dropped, queue, stored, expected>>
  BY DEF TakeRecord, publishing, channel, store
<1>3. r \in Records /\ Live(r) /\ r # Pulse /\ r.sequence # 0
  BY LiveFacts DEF FlightInv, FlightTypes, AllLive
<1>4. FlightTypes'
  BY <1>1, <1>2, <1>3, FS_RemoveElement DEF FlightInv, FlightTypes
<1>5. \A s : Live(s) => Live(s)'
  BY <1>2 DEF Live
<1>6. AllLive'
  BY <1>1, <1>2, <1>3, <1>5 DEF FlightInv, AllLive, DroppedStaysLost, Making
<1>7. Apart'
  BY <1>1, <1>2 DEF FlightInv, Apart, Making
<1>8. CurrentApart'
  <2>1. \A q \in Publishers : Making(q) => message[q].sequence # r.sequence
    BY DEF FlightInv, Apart
  <2>2. \A i \in 1..Len(queue) : queue[i].sequence # r.sequence
    BY <1>3, PulseFacts DEF FlightInv, Apart
  <2>3. \A s \in held \ {r} : s.sequence # r.sequence
    BY DEF FlightInv, Apart
  <2> QED BY <1>1, <1>2, <2>1, <2>2, <2>3 DEF CurrentApart, Making
<1>9. NothingStranded'
  BY <1>1, <1>2 DEF FlightInv, NothingStranded
<1> QED BY <1>4, <1>6, <1>7, <1>8, <1>9 DEF FlightInv

\* The record is delivered, and what else is on its way has another number.
LEMMA DeliverRecordFlight ==
  ASSUME FlightInv, IInv, DeliverRecord, IInv'
  PROVE  FlightInv'
<1>1. /\ step = "record" /\ step' = "drain"
      /\ stored' = stored \cup {current.sequence} /\ accounted' = current.sequence
      /\ UNCHANGED <<next, stage, message, dropped, queue, held>>
  BY DEF DeliverRecord, IngestRecord, publishing
<1>2. current \in Records /\ Live(current) /\ current.sequence = expected /\ expected' = expected + 1
  BY <1>1 DEF FlightInv, FlightTypes, AllLive, IInv, WorkerInv, WorkerInStep
<1>3. FlightTypes'
  BY <1>1 DEF FlightInv, FlightTypes
<1>4. \A r : Live(r) /\ r.sequence # current.sequence => Live(r)'
  BY <1>1 DEF Live
<1>5. AllLive'
  <2>1. \A q \in Publishers : Making(q) => Live(message[q])'
    BY <1>1, <1>4 DEF FlightInv, AllLive, CurrentApart
  <2>2. \A i \in 1..Len(queue) : queue[i] = Pulse \/ Live(queue[i])'
    BY <1>1, <1>4 DEF FlightInv, AllLive, CurrentApart
  <2>3. \A r \in held : Live(r)'
    BY <1>1, <1>4 DEF FlightInv, AllLive, CurrentApart
  <2>4. DroppedStaysLost'
    BY <1>1, <1>2 DEF FlightInv, AllLive, DroppedStaysLost, Live
  <2> QED BY <1>1, <2>1, <2>2, <2>3, <2>4 DEF AllLive, Making
<1>6. Apart'
  BY <1>1 DEF FlightInv, Apart, Making
<1>7. CurrentApart'
  BY <1>1 DEF CurrentApart
<1>8. NothingStranded'
  <2>1. \A r \in held : r.sequence \in Nat /\ r.sequence >= expected /\ r.sequence # expected
    BY <1>1, <1>2 DEF FlightInv, FlightTypes, CurrentApart, NothingStranded, Records
  <2>2. expected \in Nat
    BY DEF IInv, StoreInv, WorkerInv, WorkerInStep
  <2> QED BY <1>1, <1>2, <2>1, <2>2 DEF NothingStranded
<1> QED BY <1>3, <1>5, <1>6, <1>7, <1>8 DEF FlightInv

-----------------------------------------------------------------------------
(* The losses                                                                *)

\* A loss that is recorded leaves a list of losses.
LEMMA LossRecorded ==
  ASSUME LossInv, next \in Nat, NEW l \in Ranges(next), pending' = RecordLoss(pending, l)
  PROVE  pending' \in Seq(Ranges(next)) /\ Len(pending') <= MaxPendingLossRanges
BY RecordLossRanges, ProducerAssumption DEF LossInv

\* One number that was handed out is a range.
LEMMA OneLost ==
  ASSUME NEW n \in 1..(next - 1), next \in Nat, NEW why \in Reasons
  PROVE  LossRange(n, n, why) \in Ranges(next)
BY NewRange

\* What the worker leaves after it took a loss, or dropped what is settled.
LEMMA LossTaken ==
  ASSUME LossInv, next \in Nat, expected \in Nat \ {0}, pending' = AfterTaking(pending, expected)
  PROVE  /\ pending' \in Seq(Ranges(next)) /\ Len(pending') <= MaxPendingLossRanges
         /\ LossDue(pending, expected) => DueLoss(pending, expected) \in Ranges(next)
<1>1. pending \in Seq(Ranges(next)) /\ Len(pending) <= MaxPendingLossRanges
  BY DEF LossInv
<1>2. /\ AfterTaking(pending, expected) \in Seq(Ranges(next))
      /\ Len(AfterTaking(pending, expected)) <= Len(pending)
      /\ LossDue(pending, expected) => DueLoss(pending, expected) \in Ranges(next)
  BY <1>1, TakingRanges
<1>3. MaxPendingLossRanges \in Nat /\ Len(pending) \in Nat /\ Len(AfterTaking(pending, expected)) \in Nat
  BY <1>1, <1>2, ProducerAssumption
<1> QED BY <1>1, <1>2, <1>3

LEMMA ReserveLoss ==
  ASSUME LossInv, FlightInv, IInv, NEW p \in Publishers, NEW size \in Sizes, Reserve(p, size)
  PROVE  LossInv'
<1>1. next' = next + 1 /\ UNCHANGED <<pending, step, current, accounted>>
  BY DEF Reserve, worker, store
<1>2. next \in Nat /\ accounted \in Nat
  BY DEF FlightInv, FlightTypes, IInv, StoreInv
<1>3. pending \in Seq(Ranges(next + 1))
  BY <1>2, RangesGrow DEF LossInv
<1>4. Ranges(next) \subseteq Ranges(next + 1)
  BY <1>2 DEF Ranges
<1> QED BY <1>1, <1>2, <1>3, <1>4 DEF LossInv

LEMMA DropLoss ==
  ASSUME LossInv, FlightInv, NEW p \in Publishers, Making(p), NEW why \in Reasons, Drop(p, why),
         UNCHANGED <<next, step, current, accounted>>
  PROVE  LossInv'
<1>1. next \in Nat /\ message[p].sequence \in 1..(next - 1)
  BY DEF FlightInv, FlightTypes, AllLive, Live
<1>2. LossRange(message[p].sequence, message[p].sequence, why) \in Ranges(next)
  BY <1>1, OneLost
<1>3. pending' \in Seq(Ranges(next)) /\ Len(pending') <= MaxPendingLossRanges
  BY <1>1, <1>2, LossRecorded DEF Drop
<1> QED BY <1>3 DEF LossInv

\* The worker's steps.
LEMMA WorkerLoss ==
  ASSUME LossInv, FlightInv, IInv, Work
  PROVE  LossInv'
<1>0. next \in Nat /\ expected \in Nat \ {0} /\ next' = next /\ accounted \in Nat
  BY DEF FlightInv, FlightTypes, IInv, StoreInv, WorkerInv, WorkerInStep, Work, Receive,
     ReceiveNothing, WaitOut, TakeLoss, TakeRecord, FindNothing, DeliverRecord, RecordFails,
     DeliverGap, GapFails, publishing
<1>1. CASE Receive \/ ReceiveNothing \/ WaitOut
  <2>1. UNCHANGED <<pending, accounted>> /\ step' # "gap"
    BY <1>1 DEF Receive, ReceiveNothing, WaitOut, Pause, store
  <2> QED BY <1>0, <2>1 DEF LossInv
<1>2. CASE TakeLoss
  <2>1. /\ LossDue(pending, expected) /\ pending' = AfterTaking(pending, expected)
        /\ current' = DueLoss(pending, expected) /\ accounted' = accounted
    BY <1>2 DEF TakeLoss, store
  <2> QED BY <1>0, <2>1, LossTaken DEF LossInv
<1>3. CASE TakeRecord \/ FindNothing
  <2>1. pending' = AfterTaking(pending, expected) /\ accounted' = accounted /\ step' # "gap"
    BY <1>3 DEF TakeRecord, FindNothing, Pause, store
  <2> QED BY <1>0, <2>1, LossTaken DEF LossInv
<1>4. CASE DeliverRecord \/ RecordFails
  <2>1. /\ step = "record" /\ step' = "drain"
        /\ accounted' \in {accounted, current.sequence}
        /\ pending' = pending
             \/ pending' = RecordLoss(pending, LossRange(current.sequence, current.sequence, "sink"))
    BY <1>4 DEF DeliverRecord, RecordFails, IngestRecord, RefuseRecord, DeliveryFailed
  <2>2. current.sequence \in 1..(next - 1)
    BY <2>1 DEF FlightInv, AllLive, Live
  <2>3. LossRange(current.sequence, current.sequence, "sink") \in Ranges(next)
    BY <1>0, <2>2, OneLost DEF Reasons
  <2>4. pending' \in Seq(Ranges(next)) /\ Len(pending') <= MaxPendingLossRanges
    BY <1>0, <2>1, <2>3, LossRecorded DEF LossInv
  <2> QED BY <1>0, <2>1, <2>2, <2>4 DEF LossInv
<1>5. CASE DeliverGap \/ GapFails
  <2>1. /\ step = "gap" /\ step' # "gap"
        /\ accounted' \in {accounted, current.last}
        /\ pending' = pending \/ pending' = RecordLoss(pending, current)
    BY <1>5 DEF DeliverGap, GapFails, IngestGap, DeclareAgain, Pause, store
  <2>2. current \in Ranges(next)
    BY <2>1 DEF LossInv
  <2>3. pending' \in Seq(Ranges(next)) /\ Len(pending') <= MaxPendingLossRanges
    BY <1>0, <2>1, <2>2, LossRecorded DEF LossInv
  <2>4. current.last < next
    BY <1>0, <2>2, RangeFacts
  <2> QED BY <1>0, <2>1, <2>3, <2>4 DEF LossInv
<1> QED BY <1>1, <1>2, <1>3, <1>4, <1>5 DEF Work

-----------------------------------------------------------------------------
(* Every step keeps the flight and the losses                                *)

LEMMA DeliverGapFlight ==
  ASSUME FlightInv, IInv, DeliverGap
  PROVE  FlightInv'
<1>1. /\ step = "gap" /\ step' # "record" /\ stored' = stored
      /\ UNCHANGED <<next, stage, message, dropped, queue>>
  BY DEF DeliverGap, IngestGap, DeclareAgain, Pause, publishing
<1>2. CASE GapCovered
  <2>1. /\ held' = held \ {r \in held : r.sequence <= current.last}
        /\ expected' = current.last + 1
    BY <1>2 DEF DeliverGap, Discard
  <2>2. current.last \in Nat
    BY DEF DeliverGap, IngestGap, GapIsNext, ValidRange
  <2>3. \A r \in held' : r.sequence \in Nat /\ ~(r.sequence <= current.last)
    BY <2>1 DEF FlightInv, FlightTypes, Records
  <2>4. \A r \in held' : r.sequence >= expected'
    BY <2>1, <2>2, <2>3
  <2> QED BY <1>1, <2>1, <2>4, FlightKept
<1>3. CASE ~GapCovered
  <2>1. expected' = expected /\ held' \subseteq held
    BY <1>3 DEF DeliverGap, DeclareAgain, Pause
  <2> QED BY <1>1, <2>1, FlightKept
<1> QED BY <1>2, <1>3

LEMMA PublishSafe ==
  ASSUME FlightInv, LossInv, NEW p \in Publishers, Publish(p)
  PROVE  FlightInv' /\ LossInv'
<1>1. CASE DropOversized(p) \/ DropForBytes(p) \/ DropForEvents(p)
  <2>1. PICK why \in Reasons : Drop(p, why)
    BY <1>1 DEF DropOversized, DropForBytes, DropForEvents, Reasons
  <2>2. /\ Making(p)
        /\ UNCHANGED <<next, message, queue, held, stored, expected, step, current, accounted>>
    BY <1>1 DEF DropOversized, DropForBytes, DropForEvents, Making, worker, store, channel
  <2>3. FlightInv'
    BY <2>1, <2>2, DropFlight DEF Drop
  <2> QED BY <2>1, <2>2, <2>3, DropLoss
<1>2. CASE ReserveBytes(p)
  <2>1. /\ stage[p] = "build" /\ stage' = [stage EXCEPT ![p] = "send"]
        /\ UNCHANGED <<next, message, dropped, queue, pending, held, stored, expected, step,
                       current, accounted>>
    BY <1>2 DEF ReserveBytes, worker, store
  <2>2. /\ stage' \in [Publishers -> {"idle", "build", "send", "pulse"}]
        /\ \A q \in Publishers : Making(q)' <=> Making(q)
    BY <2>1 DEF FlightInv, FlightTypes, Making
  <2>3. FlightTypes'
    BY <2>1, <2>2 DEF FlightInv, FlightTypes
  <2>4. AllLive'
    BY <2>1, <2>2 DEF FlightInv, AllLive, Live, DroppedStaysLost
  <2>5. Apart' /\ CurrentApart' /\ NothingStranded'
    BY <2>1, <2>2 DEF FlightInv, Apart, CurrentApart, NothingStranded
  <2> QED BY <2>1, <2>3, <2>4, <2>5 DEF FlightInv, LossInv
<1>3. CASE Enqueue(p)
  <2>1. UNCHANGED <<next, pending, step, current, accounted>>
    BY <1>3 DEF Enqueue, worker, store
  <2> QED BY <1>3, <2>1, EnqueueFlight DEF LossInv
<1>4. CASE Wake(p)
  <2>1. UNCHANGED <<next, pending, step, current, accounted>>
    BY <1>4 DEF Wake, worker, store
  <2> QED BY <1>4, <2>1, WakeFlight DEF LossInv
<1> QED BY <1>1, <1>2, <1>3, <1>4 DEF Publish

LEMMA WorkFlight ==
  ASSUME FlightInv, IInv, IInv', Work
  PROVE  FlightInv'
<1>1. CASE ReceiveNothing \/ WaitOut \/ TakeLoss \/ FindNothing \/ RecordFails \/ GapFails
  <2>1. /\ held' \subseteq held /\ step' # "record"
        /\ UNCHANGED <<next, stage, message, dropped, queue, stored, expected>>
    BY <1>1 DEF ReceiveNothing, WaitOut, TakeLoss, FindNothing, RecordFails, GapFails, Pause,
       DeclareAgain, DeliveryFailed, RefuseRecord, publishing, channel, store
  <2> QED BY <2>1, FlightKept
<1> QED BY <1>1, ReceiveFlight, TakeRecordFlight, DeliverRecordFlight, DeliverGapFlight DEF Work

\* The inductive invariant of the channel.
Safe == IInv /\ LossInv /\ FlightInv

LEMMA SafeStep == Safe /\ [Next]_vars => Safe'
<1> SUFFICES ASSUME IInv, LossInv, FlightInv, [Next]_vars PROVE LossInv' /\ FlightInv'
  BY NextInv DEF Safe
<1>1. IInv'
  BY NextInv
<1>2. ASSUME NEW p \in Publishers, NEW size \in Sizes, Reserve(p, size) PROVE LossInv' /\ FlightInv'
  BY <1>2, ReserveFlight, ReserveLoss
<1>3. ASSUME NEW p \in Publishers, Publish(p) PROVE LossInv' /\ FlightInv'
  BY <1>3, PublishSafe
<1>4. CASE Work
  BY <1>1, <1>4, WorkFlight, WorkerLoss
<1>5. CASE Close \/ Elapse \/ UNCHANGED vars
  <2>1. UNCHANGED <<next, stage, message, dropped, queue, held, stored, expected, step, current,
                    pending, accounted>>
    BY <1>5 DEF Close, Elapse, vars, store, publishing, channel, worker
  <2> QED BY <2>1, FlightKept DEF LossInv
<1> QED BY <1>2, <1>3, <1>4, <1>5 DEF Next

LEMMA SafeHolds == Spec => []Safe
<1>1. Init => Safe
  BY InitInv, FlightInit DEF Safe
<1> QED BY <1>1, SafeStep, PTL DEF Spec

\* A record whose publisher was told that it is dropped never becomes an event
\* of the store, however the queue, the worker and the faults interleave.
THEOREM DroppedIsNeverStored == Spec => []DroppedStaysLost
<1>1. Safe => DroppedStaysLost
  BY DEF Safe, FlightInv, AllLive
<1> QED BY <1>1, SafeHolds, PTL

\* What waits in the worker's buffer is never behind the number it waits for.
THEOREM NothingIsStranded == Spec => []NothingStranded
<1>1. Safe => NothingStranded
  BY DEF Safe, FlightInv
<1> QED BY <1>1, SafeHolds, PTL

-----------------------------------------------------------------------------
(* The bytes                                                                 *)

\* A finite set of records, with one more or one less.
LEMMA SizedFacts ==
  ASSUME NEW S, S \subseteq Records, IsFiniteSet(S), NEW m \in Records, m \notin S
  PROVE  Sized(S \cup {m}) = Sized(S) + m.size /\ Sized(S) \in Nat
<1> DEFINE T == S \cup {m}
           f == [r \in T |-> r.size]
           g == [r \in S |-> r.size]
<1>1. \A x \in T : f[x] \in Nat
  BY DEF Records
<1>2. SumFunctionOnSet(f, T) = SumFunctionOnSet(f, S) + f[m]
  <2> HIDE DEF f
  <2> QED BY <1>1, SumAdds
<1>3. SumFunctionOnSet(f, S) = SumFunctionOnSet(g, S)
  <2>1. \A x \in S : f[x] = g[x]
    OBVIOUS
  <2> HIDE DEF f, g
  <2> QED BY <2>1, SumAgrees
<1>4. SumFunctionOnSet(g, S) \in Nat
  <2>1. \A x \in S : g[x] \in Nat
    BY DEF Records
  <2> HIDE DEF g
  <2> QED BY <2>1, SumIsNumber
<1>5. Sized(T) = SumFunctionOnSet(f, T) /\ Sized(S) = SumFunctionOnSet(g, S)
  BY DEF Sized, SumFunction
<1> QED BY <1>2, <1>3, <1>4, <1>5

LEMMA SizedRemoves ==
  ASSUME NEW S, S \subseteq Records, IsFiniteSet(S), NEW m \in S
  PROVE  Sized(S) = Sized(S \ {m}) + m.size /\ Sized(S \ {m}) \in Nat
<1>1. IsFiniteSet(S \ {m}) /\ S \ {m} \subseteq Records /\ m \in Records /\ m \notin S \ {m}
  BY FS_RemoveElement
<1>2. (S \ {m}) \cup {m} = S
  OBVIOUS
<1>3. PICK R : R = S \ {m}
  OBVIOUS
<1> QED BY <1>1, <1>2, <1>3, SizedFacts

LEMMA SizedSplits ==
  ASSUME NEW S, S \subseteq Records, IsFiniteSet(S), NEW T \in SUBSET S
  PROVE  Sized(S) = Sized(S \ T) + Sized(T) /\ Sized(S \ T) \in Nat /\ Sized(T) \in Nat
<1> DEFINE f == [r \in S |-> r.size]
           g == [r \in T |-> r.size]
           h == [r \in S \ T |-> r.size]
<1>1. \A x \in S : f[x] \in Nat
  BY DEF Records
<1>2. \A x \in T : f[x] = g[x]
  OBVIOUS
<1>3. \A x \in S \ T : f[x] = h[x]
  OBVIOUS
<1>4. IsFiniteSet(T) /\ IsFiniteSet(S \ T)
  BY FS_Subset
<1>5. Sized(S) = SumFunctionOnSet(f, S) /\ Sized(T) = SumFunctionOnSet(g, T)
        /\ Sized(S \ T) = SumFunctionOnSet(h, S \ T)
  BY DEF Sized, SumFunction
<1> HIDE DEF f, g, h
<1>6. /\ SumFunctionOnSet(f, S) = SumFunctionOnSet(f, S \ T) + SumFunctionOnSet(f, T)
      /\ SumFunctionOnSet(f, S \ T) \in Nat /\ SumFunctionOnSet(f, T) \in Nat
  BY <1>1, SumSplits
<1>7. SumFunctionOnSet(f, T) = SumFunctionOnSet(g, T)
  BY <1>2, <1>4, SumAgrees
<1>8. SumFunctionOnSet(f, S \ T) = SumFunctionOnSet(h, S \ T)
  BY <1>3, <1>4, SumAgrees
<1> QED BY <1>5, <1>6, <1>7, <1>8

LEMMA SizedEmpty == Sized({}) = 0
BY SumEmpty DEF Sized, SumFunction

\* Sums of two functions that differ at one place.
LEMMA SumChanges ==
  ASSUME NEW P, IsFiniteSet(P), NEW p \in P, NEW f \in [P -> Nat], NEW g \in [P -> Nat],
         \A q \in P \ {p} : f[q] = g[q]
  PROVE  /\ SumFunction(f) + g[p] = SumFunction(g) + f[p]
         /\ SumFunction(f) \in Nat /\ SumFunction(g) \in Nat
<1>1. SumFunctionOnSet(f, P) = f[p] + SumFunctionOnSet(f, P \ {p})
  BY SumTakesAny
<1>2. SumFunctionOnSet(g, P) = g[p] + SumFunctionOnSet(g, P \ {p})
  BY SumTakesAny
<1>3. IsFiniteSet(P \ {p})
  BY FS_RemoveElement
<1>4. SumFunctionOnSet(f, P \ {p}) = SumFunctionOnSet(g, P \ {p})
  BY <1>3, SumAgrees
<1>5. /\ SumFunctionOnSet(g, P \ {p}) \in Nat
      /\ SumFunctionOnSet(f, P) \in Nat /\ SumFunctionOnSet(g, P) \in Nat
  BY <1>3, SumIsNumber
<1> QED BY <1>1, <1>2, <1>4, <1>5 DEF SumFunction

\* What the publishers hold between their reservation and their enqueue.
Sending == SumFunction([p \in Publishers |-> SendingBytes(p)])

\* The parts of the account are numbers.
Parts ==
  /\ Queued \subseteq Records /\ IsFiniteSet(Queued)
  /\ Sized(Queued) \in Nat /\ Sized(held) \in Nat /\ Carried \in Nat
  /\ \A p \in Publishers : SendingBytes(p) \in Nat

LEMMA PartsFacts == ASSUME FlightTypes PROVE Parts
<1>1. queue \in Seq(Records) /\ DOMAIN queue = 1..Len(queue) /\ Len(queue) \in Nat
  BY DEF FlightTypes
<1>2. IsFiniteSet({queue[i] : i \in 1..Len(queue)})
  <2>1. IsFiniteSet(1..Len(queue))
    BY <1>1, FS_Interval
  <2> DEFINE T == {queue[i] : i \in 1..Len(queue)}
             f == [i \in 1..Len(queue) |-> queue[i]]
  <2>2. f \in [1..Len(queue) -> T] /\ \A t \in T : \E i \in 1..Len(queue) : f[i] = t
    OBVIOUS
  <2> HIDE DEF T, f
  <2>3. f \in Surjection(1..Len(queue), T)
    BY <2>2 DEF Surjection
  <2>4. IsFiniteSet(T)
    BY <2>1, <2>3, FS_Surjection
  <2> QED BY <2>4 DEF T
<1>3. Queued \subseteq Records /\ IsFiniteSet(Queued)
  <2>1. {queue[i] : i \in 1..Len(queue)} \subseteq Records
    BY <1>1
  <2>2. Queued = {queue[i] : i \in 1..Len(queue)} \ {Pulse}
    BY <1>1 DEF Queued
  <2> QED BY <1>2, <2>1, <2>2, FS_Subset
<1>4. ASSUME NEW S, S \subseteq Records, IsFiniteSet(S) PROVE Sized(S) \in Nat
  BY <1>4, SizedSplits, SizedEmpty
<1>5. Carried \in Nat
  BY DEF Carried, FlightTypes, Records
<1>6. \A p \in Publishers : SendingBytes(p) \in Nat
  BY DEF SendingBytes, FlightTypes, Records
<1>7. PICK Q : Q = Queued
  OBVIOUS
<1>8. Sized(Queued) \in Nat
  BY <1>3, <1>4, <1>7
<1>9. PICK H : H = held
  OBVIOUS
<1>10. Sized(held) \in Nat
  BY <1>4, <1>9 DEF FlightTypes
<1> QED BY <1>3, <1>5, <1>6, <1>8, <1>10 DEF Parts

\* One publisher's part of what they hold changes.
LEMMA SendingMoves ==
  ASSUME FlightTypes, FlightTypes', NEW p \in Publishers,
         \A q \in Publishers \ {p} : SendingBytes(q)' = SendingBytes(q)
  PROVE  Sending' + SendingBytes(p) = Sending + SendingBytes(p)' /\ Sending \in Nat /\ Sending' \in Nat
<1>1. PICK f : f = [q \in Publishers |-> SendingBytes(q)]
  OBVIOUS
<1>2. PICK g : g = [q \in Publishers |-> SendingBytes(q)']
  OBVIOUS
<1>3. f \in [Publishers -> Nat] /\ g \in [Publishers -> Nat]
  <2>1. \A q \in Publishers : SendingBytes(q) \in Nat
    BY PartsFacts DEF Parts
  <2>2. \A q \in Publishers : SendingBytes(q)' \in Nat
    BY DEF SendingBytes, FlightTypes, Records
  <2> QED BY <1>1, <1>2, <2>1, <2>2
<1>4. \A q \in Publishers \ {p} : f[q] = g[q]
  BY <1>1, <1>2
<1>5. /\ SumFunction(f) + g[p] = SumFunction(g) + f[p]
      /\ SumFunction(f) \in Nat /\ SumFunction(g) \in Nat
  BY <1>3, <1>4, SumChanges, ProducerAssumption
<1>6. Sending = SumFunction(f) /\ Sending' = SumFunction(g)
  BY <1>1, <1>2 DEF Sending
<1>7. f[p] = SendingBytes(p) /\ g[p] = SendingBytes(p)'
  BY <1>1, <1>2
<1> QED BY <1>5, <1>6, <1>7

LEMMA SendingKept ==
  ASSUME \A q \in Publishers : SendingBytes(q)' = SendingBytes(q)
  PROVE  Sending' = Sending
<1>1. [q \in Publishers |-> SendingBytes(q)]' = [q \in Publishers |-> SendingBytes(q)]
  OBVIOUS
<1> QED BY <1>1 DEF Sending

LEMMA SendingIsNumber == ASSUME FlightTypes PROVE Sending \in Nat
<1>1. PICK f : f = [q \in Publishers |-> SendingBytes(q)]
  OBVIOUS
<1>2. \A q \in Publishers : f[q] \in Nat
  BY <1>1, PartsFacts DEF Parts
<1>3. SumFunctionOnSet(f, Publishers) \in Nat
  BY <1>2, SumIsNumber, ProducerAssumption
<1> QED BY <1>1, <1>3 DEF Sending, SumFunction

\* The steps that move no byte.
LEMMA BytesKept ==
  ASSUME BytesBalanced, UNCHANGED <<bytes, queue, held>>, Carried' = Carried,
         \A q \in Publishers : SendingBytes(q)' = SendingBytes(q)
  PROVE  BytesBalanced'
<1>1. Sending' = Sending
  BY SendingKept
<1> QED BY <1>1 DEF BytesBalanced, Sending, Queued, Sized

Elements(q) == {q[i] : i \in DOMAIN q}

LEMMA QueuedElements == Queued = Elements(queue) \ {Pulse}
BY DEF Queued, Elements

\* The queue's records after one was put in or taken out.
LEMMA QueuedGrows ==
  ASSUME NEW q \in Seq(Records), NEW m \in Records, NEW w, w = Append(q, m)
  PROVE  Elements(w) = Elements(q) \cup {m}
<1>1. /\ DOMAIN q = 1..Len(q) /\ Len(q) \in Nat
      /\ DOMAIN w = 1..(Len(q) + 1)
      /\ \A i \in 1..(Len(q) + 1) : w[i] = IF i = Len(q) + 1 THEN m ELSE q[i]
  BY QueueAppend
<1>2. \A i \in 1..Len(q) : i \in 1..(Len(q) + 1) /\ i # Len(q) + 1
  BY <1>1
<1>3. \A i \in 1..(Len(q) + 1) : i = Len(q) + 1 \/ i \in 1..Len(q)
  BY <1>1
<1>4. Len(q) + 1 \in 1..(Len(q) + 1)
  BY <1>1
<1> QED BY <1>1, <1>2, <1>3, <1>4 DEF Elements

LEMMA QueuedShrinks ==
  ASSUME NEW q \in Seq(Records), q # <<>>, NEW w, w = Tail(q), NEW m, m = Head(q)
  PROVE  Elements(q) = Elements(w) \cup {m}
<1>1. /\ DOMAIN q = 1..Len(q) /\ Len(q) \in Nat /\ Len(q) >= 1 /\ m = q[1]
      /\ DOMAIN w = 1..(Len(q) - 1)
      /\ \A i \in 1..(Len(q) - 1) : w[i] = q[i + 1]
  BY QueueTail
<1>2. \A i \in 1..Len(q) : i = 1 \/ (i - 1 \in 1..(Len(q) - 1) /\ (i - 1) + 1 = i)
  BY <1>1
<1>3. \A i \in 1..(Len(q) - 1) : i + 1 \in 1..Len(q)
  BY <1>1
<1>4. 1 \in 1..Len(q)
  BY <1>1
<1>5. \A i \in 1..Len(q) : i = 1 \/ \E j \in 1..(Len(q) - 1) : w[j] = q[i]
  BY <1>1, <1>2
<1>6. ASSUME NEW x \in Elements(q) PROVE x \in Elements(w) \cup {m}
  <2>1. PICK i \in 1..Len(q) : x = q[i]
    BY <1>1 DEF Elements
  <2>2. CASE i = 1
    BY <1>1, <2>1, <2>2
  <2>3. CASE i # 1
    <3>1. PICK j \in 1..(Len(q) - 1) : w[j] = q[i]
      BY <1>5, <2>3
    <3> QED BY <1>1, <2>1, <3>1 DEF Elements
  <2> QED BY <2>2, <2>3
<1>7. Elements(w) \cup {m} \subseteq Elements(q)
  BY <1>1, <1>3, <1>4 DEF Elements
<1> QED BY <1>6, <1>7

LEMMA PublishBytes ==
  ASSUME FlightInv, FlightInv', BytesBalanced, NEW p \in Publishers, Publish(p)
  PROVE  BytesBalanced'
<1>0. /\ FlightTypes /\ FlightTypes' /\ Parts /\ Carried' = Carried /\ held' = held
      /\ stage' \in [Publishers -> {"idle", "build", "send", "pulse"}]
      /\ \A q \in Publishers \ {p} : stage'[q] = stage[q] /\ message'[q] = message[q]
  BY PartsFacts DEF FlightInv, FlightTypes, Publish, DropOversized, DropForBytes, ReserveBytes,
     Enqueue, DropForEvents, Wake, Drop, Carried, worker
<1>1. \A q \in Publishers \ {p} : SendingBytes(q)' = SendingBytes(q)
  BY <1>0 DEF SendingBytes
<1>2. /\ Sending' + SendingBytes(p) = Sending + SendingBytes(p)'
      /\ Sending \in Nat /\ Sending' \in Nat
  BY <1>0, <1>1, SendingMoves
<1>3. bytes = Sized(Queued) + Sized(held) + Carried + Sending
  BY DEF BytesBalanced, Sending
<1>4. message[p] \in Records
  BY <1>0 DEF FlightTypes
<1>5. SUFFICES bytes' = Sized(Queued)' + Sized(held) + Carried + Sending'
  BY <1>0 DEF BytesBalanced, Sending, Sized
<1>6. CASE DropOversized(p) \/ DropForBytes(p)
  <2>3. stage[p] = "build" /\ stage'[p] = "pulse" /\ bytes' = bytes /\ queue' = queue
    BY <1>0, <1>6 DEF DropOversized, DropForBytes, Drop, channel, FlightTypes
  <2>1. SendingBytes(p) = 0 /\ SendingBytes(p)' = 0 /\ bytes' = bytes /\ Queued' = Queued
    BY <2>3 DEF SendingBytes, Queued
  <2>2. Sized(Queued)' = Sized(Queued)
    BY <2>1 DEF Sized
  <2>4. Sending' = Sending
    BY <1>1, <2>1, SendingKept
  <2> QED BY <1>3, <2>1, <2>2, <2>4
<1>7. CASE ReserveBytes(p)
  <2>1. /\ SendingBytes(p) = 0 /\ SendingBytes(p)' = message[p].size
        /\ bytes' = bytes + message[p].size /\ Queued' = Queued
    BY <1>0, <1>7 DEF ReserveBytes, SendingBytes, Queued, FlightTypes
  <2> QED BY <1>0, <1>2, <1>3, <1>4, <2>1 DEF Sized, Parts, Records
<1>8. CASE DropForEvents(p)
  <2>1. /\ SendingBytes(p) = message[p].size /\ SendingBytes(p)' = 0
        /\ bytes' = bytes - message[p].size /\ Queued' = Queued
    BY <1>0, <1>8 DEF DropForEvents, Drop, SendingBytes, Queued, FlightTypes
  <2> QED BY <1>0, <1>2, <1>3, <1>4, <2>1 DEF Sized, Parts, Records
<1>9. CASE Enqueue(p)
  <2>1. PICK m \in Records : m = message[p]
    BY <1>4
  <2>2. /\ SendingBytes(p) = m.size /\ SendingBytes(p)' = 0
        /\ bytes' = bytes /\ queue' = Append(queue, m) /\ Making(p)
    BY <1>0, <1>9, <2>1 DEF Enqueue, SendingBytes, FlightTypes, Making
  <2>3. m # Pulse
    BY <1>0, <2>1, <2>2, LiveFacts DEF FlightInv, AllLive
  <2>4. m \notin Queued
    <3>1. \A i \in 1..Len(queue) : queue[i] # m
      BY <2>1, <2>2 DEF FlightInv, Apart
    <3>2. DOMAIN queue = 1..Len(queue)
      BY <1>0 DEF FlightTypes
    <3> QED BY <3>1, <3>2 DEF Queued
  <2>5. Queued' = Queued \cup {m}
    <3>1. Elements(queue') = Elements(queue) \cup {m}
      BY <1>0, <2>2, QueuedGrows DEF FlightTypes
    <3>2. Queued' = Elements(queue') \ {Pulse}
      BY DEF Queued, Elements, Pulse, Nothing
    <3> QED BY <2>3, <3>1, <3>2, QueuedElements
  <2>6. PICK Q : Q = Queued
    OBVIOUS
  <2>7. Sized(Q \cup {m}) = Sized(Q) + m.size /\ Sized(Q) \in Nat
    BY <1>0, <2>4, <2>6, SizedFacts DEF Parts
  <2>8. Sized(Queued)' = Sized(Queued) + m.size
    BY <2>5, <2>6, <2>7 DEF Sized
  <2> QED BY <1>0, <1>2, <1>3, <2>2, <2>8 DEF Parts, Records
<1>10. CASE Wake(p)
  <2>1. /\ SendingBytes(p) = 0 /\ SendingBytes(p)' = 0 /\ bytes' = bytes
        /\ queue' = queue \/ queue' = Append(queue, Pulse)
    BY <1>0, <1>10 DEF Wake, SendingBytes, FlightTypes
  <2>2. Queued' = Queued
    <3>1. CASE queue' = queue
      BY <3>1 DEF Queued
    <3>2. CASE queue' = Append(queue, Pulse)
      <4>1. Elements(queue') = Elements(queue) \cup {Pulse}
        BY <1>0, <3>2, QueuedGrows, PulseFacts DEF FlightTypes
      <4>2. Queued' = Elements(queue') \ {Pulse}
        BY DEF Queued, Elements, Pulse, Nothing
      <4> QED BY <4>1, <4>2, QueuedElements
    <3> QED BY <2>1, <3>1, <3>2
  <2>3. Sized(Queued)' = Sized(Queued)
    BY <2>2 DEF Sized
  <2>4. Sending' = Sending
    BY <1>1, <2>1, SendingKept
  <2>5. bytes' = bytes
    BY <2>1
  <2> QED BY <1>3, <2>3, <2>4, <2>5
<1> QED BY <1>6, <1>7, <1>8, <1>9, <1>10 DEF Publish

LEMMA ReceiveBytes ==
  ASSUME FlightInv, FlightInv', BytesBalanced, Receive
  PROVE  BytesBalanced'
<1>1. queue \in Seq(Records) /\ queue # <<>> /\ Parts
  BY PartsFacts DEF FlightInv, FlightTypes, Receive
<1>2. PICK m \in Records : m = queue[1] /\ m = Head(queue)
  BY <1>1, QueueTail
<1>3. /\ queue' = Tail(queue) /\ Carried' = 0 /\ Carried = 0
      /\ \A q \in Publishers : SendingBytes(q)' = SendingBytes(q)
  BY <1>2 DEF Receive, publishing, SendingBytes, Carried
<1>4. Sending' = Sending /\ Sending \in Nat
  BY <1>3, SendingKept, SendingIsNumber DEF FlightInv
<1>5. bytes = Sized(Queued) + Sized(held) + Carried + Sending
  BY DEF BytesBalanced, Sending
<1>6. SUFFICES bytes' = Sized(Queued)' + Sized(held)' + Carried' + Sending
  BY <1>4 DEF BytesBalanced, Sending
<1>7. Elements(queue) = Elements(queue') \cup {m}
  <2>1. queue \in Seq(Records) /\ queue # <<>> /\ queue' = Tail(queue) /\ m = Head(queue)
    BY <1>1, <1>2, <1>3
  <2>2. PICK q \in Seq(Records) : q = queue
    BY <2>1
  <2>3. PICK w : w = queue'
    OBVIOUS
  <2>4. Elements(q) = Elements(w) \cup {m}
    BY <2>1, <2>2, <2>3, QueuedShrinks
  <2> QED BY <2>2, <2>3, <2>4
<1>10. Queued' = Elements(queue') \ {Pulse}
  BY DEF Queued, Elements, Pulse, Nothing
<1>8. CASE m = Pulse
  <2>1. Queued' = Queued
    BY <1>7, <1>8, <1>10, QueuedElements
  <2>2. held' = held /\ bytes' = bytes
    <3>1. ~(m # Pulse /\ m.sequence < expected)
      BY <1>8
    <3> QED BY <1>2, <1>8, <3>1 DEF Receive
  <2> QED BY <1>1, <1>3, <1>4, <1>5, <2>1, <2>2 DEF Sized, Parts
<1>9. CASE m # Pulse
  <2>1. m \in Queued
    BY <1>7, <1>9, QueuedElements
  <2>2. m \notin Queued'
    <3>1. /\ Len(queue) \in Nat /\ DOMAIN queue' = 1..(Len(queue) - 1)
          /\ \A i \in 1..(Len(queue) - 1) : queue'[i] = queue[i + 1] /\ i + 1 \in 1..Len(queue) /\ i + 1 # 1
          /\ 1 \in 1..Len(queue)
      BY <1>1, <1>3, QueueTail
    <3>2. \A i \in DOMAIN queue' : queue'[i] # m
      BY <1>2, <1>9, <3>1 DEF FlightInv, Apart
    <3> QED BY <3>2 DEF Queued
  <2>3. Queued' = Queued \ {m}
    BY <1>7, <1>10, <2>1, <2>2, QueuedElements
  <2>4. PICK Q : Q = Queued
    OBVIOUS
  <2>5. Sized(Q) = Sized(Q \ {m}) + m.size /\ Sized(Q \ {m}) \in Nat
    BY <1>1, <2>1, <2>4, SizedRemoves DEF Parts
  <2>6. Sized(Queued) = Sized(Queued)' + m.size /\ Sized(Queued)' \in Nat
    BY <2>3, <2>4, <2>5 DEF Sized
  <2>7. CASE m.sequence < expected
    <3>1. held' = held /\ bytes' = bytes - m.size
      BY <1>2, <1>9, <2>7 DEF Receive
    <3> QED BY <1>1, <1>3, <1>4, <1>5, <2>6, <3>1 DEF Sized, Parts, Records
  <2>8. CASE ~(m.sequence < expected)
    <3>1. held' = held \cup {m} /\ bytes' = bytes
      BY <1>2, <1>9, <2>8 DEF Receive
    <3>2. m \notin held
      <4>1. 1 \in 1..Len(queue)
        BY <1>1, QueueTail
      <4> QED BY <1>2, <1>9, <4>1 DEF FlightInv, Apart
    <3>3. PICK H : H = held
      OBVIOUS
    <3>4. Sized(H \cup {m}) = Sized(H) + m.size
      BY <3>2, <3>3, SizedFacts DEF FlightInv, FlightTypes
    <3>5. Sized(held)' = Sized(held) + m.size
      BY <3>1, <3>3, <3>4 DEF Sized
    <3> QED BY <1>1, <1>3, <1>4, <1>5, <2>6, <3>1, <3>5 DEF Parts, Records
  <2> QED BY <2>7, <2>8
<1> QED BY <1>8, <1>9

\* The worker gives up some of what it holds, or all of it.
LEMMA HeldGivenUp ==
  ASSUME FlightTypes, NEW T \in SUBSET held, held' = held \ T
  PROVE  Sized(held) = Sized(held)' + Sized(T) /\ Sized(held)' \in Nat /\ Sized(T) \in Nat
<1>1. PICK H : H = held
  OBVIOUS
<1>2. Sized(H) = Sized(H \ T) + Sized(T) /\ Sized(H \ T) \in Nat /\ Sized(T) \in Nat
  BY <1>1, SizedSplits DEF FlightTypes
<1> QED BY <1>1, <1>2 DEF Sized

LEMMA PauseBytes ==
  ASSUME FlightTypes, Pause, Parts, bytes \in Int
  PROVE  bytes' = bytes - Sized(held) + Sized(held)' /\ Sized(held)' \in Nat
<1>1. CASE ended
  <2>1. held' = {} /\ bytes' = bytes - Sized(held)
    BY <1>1 DEF Pause
  <2>2. Sized(held)' = 0
    BY <2>1, SizedEmpty DEF Sized
  <2> QED BY <2>1, <2>2 DEF Parts
<1>2. CASE ~ended
  <2>1. bytes' = bytes /\ Sized(held)' = Sized(held)
    BY <1>2 DEF Pause, Sized
  <2> QED BY <2>1 DEF Parts
<1> QED BY <1>1, <1>2

LEMMA WorkBytes ==
  ASSUME FlightInv, FlightInv', BytesBalanced, Work
  PROVE  BytesBalanced'
<1>1. CASE Receive
  BY <1>1, ReceiveBytes
<1>2. CASE ~Receive
  <2>1. FlightTypes /\ Parts /\ bytes = Sized(Queued) + Sized(held) + Carried + Sending
    BY PartsFacts DEF FlightInv, BytesBalanced, Sending
  <2>2. queue' = queue /\ UNCHANGED <<stage, message>>
    BY <1>2 DEF Work, ReceiveNothing, WaitOut, TakeLoss, TakeRecord, FindNothing, DeliverRecord,
       RecordFails, DeliverGap, GapFails, publishing, channel
  <2>3. Sending' = Sending /\ Sending \in Nat /\ Sized(Queued)' = Sized(Queued)
    <3>1. \A q \in Publishers : SendingBytes(q)' = SendingBytes(q)
      BY <2>2 DEF SendingBytes
    <3> QED BY <2>1, <2>2, <3>1, SendingKept, SendingIsNumber DEF Queued, Sized
  <2>10. bytes \in Int
    BY <2>1, <2>3 DEF Parts
  <2>4. SUFFICES bytes' = Sized(Queued) + Sized(held)' + Carried' + Sending
    BY <2>3 DEF BytesBalanced, Sending
  <2>5. CASE ReceiveNothing \/ TakeLoss
    <3>1. bytes' = bytes /\ held' = held /\ Carried = 0 /\ Carried' = 0
      BY <2>5 DEF ReceiveNothing, TakeLoss, channel, Carried
    <3> QED BY <2>1, <3>1 DEF Sized
  <2>6. CASE WaitOut \/ FindNothing
    <3>1. Pause /\ Carried = 0 /\ Carried' = 0
      BY <2>6 DEF WaitOut, FindNothing, Pause, Carried
    <3>2. bytes' = bytes - Sized(held) + Sized(held)' /\ Sized(held)' \in Nat
      BY <2>1, <2>10, <3>1, PauseBytes
    <3> QED BY <2>1, <2>3, <3>1, <3>2 DEF Parts
  <2>7. CASE TakeRecord
    <3>1. PICK r \in held : current' = r /\ held' = held \ {r}
      BY <2>7 DEF TakeRecord
    <3>2. bytes' = bytes /\ Carried = 0 /\ Carried' = r.size /\ r \in Records
      BY <2>1, <2>7, <3>1 DEF TakeRecord, channel, Carried, FlightTypes
    <3>3. PICK H : H = held
      OBVIOUS
    <3>4. Sized(H) = Sized(H \ {r}) + r.size /\ Sized(H \ {r}) \in Nat
      BY <2>1, <3>1, <3>3, SizedRemoves DEF FlightTypes
    <3>5. Sized(held) = Sized(held)' + r.size /\ Sized(held)' \in Nat
      BY <3>1, <3>3, <3>4 DEF Sized
    <3> QED BY <2>1, <2>3, <3>2, <3>5 DEF Parts, Records
  <2>8. CASE DeliverRecord \/ RecordFails
    <3>1. /\ step = "record" /\ bytes' = bytes - current.size /\ held' = held /\ Carried' = 0
          /\ Carried = current.size
      BY <2>8 DEF DeliverRecord, RecordFails, Carried
    <3> QED BY <2>1, <2>3, <3>1 DEF Sized, Parts
  <2>9. CASE DeliverGap \/ GapFails
    <3>1. Carried = 0 /\ Carried' = 0
      BY <2>9 DEF DeliverGap, GapFails, DeclareAgain, Pause, Carried
    <3>2. CASE Pause
      <4>1. bytes' = bytes - Sized(held) + Sized(held)' /\ Sized(held)' \in Nat
        BY <2>1, <2>10, <3>2, PauseBytes
      <4> QED BY <2>1, <2>3, <3>1, <4>1 DEF Parts
    <3>3. CASE ~Pause
      <4> DEFINE covered == {r \in held : r.sequence <= current.last}
      <4>1. held' = held \ covered /\ bytes' = bytes - Sized(covered)
        BY <2>9, <3>3 DEF DeliverGap, GapFails, DeclareAgain, Discard
      <4>2. covered \in SUBSET held
        OBVIOUS
      <4> HIDE DEF covered
      <4>3. Sized(held) = Sized(held)' + Sized(covered) /\ Sized(held)' \in Nat /\ Sized(covered) \in Nat
        BY <2>1, <4>1, <4>2, HeldGivenUp
      <4> QED BY <2>1, <2>3, <3>1, <4>1, <4>3 DEF Parts
    <3> QED BY <3>2, <3>3
  <2> QED BY <1>2, <2>5, <2>6, <2>7, <2>8, <2>9 DEF Work
<1> QED BY <1>1, <1>2

LEMMA BytesStep == Safe /\ BytesBalanced /\ [Next]_vars => BytesBalanced'
<1> SUFFICES ASSUME Safe, BytesBalanced, [Next]_vars PROVE BytesBalanced'
  OBVIOUS
<1>1. FlightInv /\ FlightInv'
  BY SafeStep DEF Safe
<1>2. ASSUME NEW p \in Publishers, NEW size \in Sizes, Reserve(p, size) PROVE BytesBalanced'
  <2>1. /\ stage[p] = "idle" /\ stage' = [stage EXCEPT ![p] = "build"]
        /\ message' = [message EXCEPT ![p] = Record(next, size)]
        /\ UNCHANGED <<bytes, queue, held, step, current>>
    BY <1>2 DEF Reserve, channel, worker
  <2>2. \A q \in Publishers : SendingBytes(q)' = SendingBytes(q)
    BY <1>1, <2>1 DEF SendingBytes, FlightInv, FlightTypes
  <2> QED BY <2>1, <2>2, BytesKept DEF Carried
<1>3. ASSUME NEW p \in Publishers, Publish(p) PROVE BytesBalanced'
  BY <1>1, <1>3, PublishBytes
<1>4. CASE Work
  BY <1>1, <1>4, WorkBytes
<1>5. CASE Close \/ Elapse \/ UNCHANGED vars
  <2>1. UNCHANGED <<stage, message, bytes, queue, held, step, current>>
    BY <1>5 DEF Close, Elapse, vars, publishing, channel, worker
  <2> QED BY <2>1, BytesKept DEF Carried, SendingBytes
<1> QED BY <1>2, <1>3, <1>4, <1>5 DEF Next

LEMMA BytesInit == Init => BytesBalanced
<1> SUFFICES ASSUME Init PROVE BytesBalanced
  OBVIOUS
<1>1. /\ bytes = 0 /\ queue = <<>> /\ held = {} /\ step = "receive"
      /\ \A p \in Publishers : stage[p] = "idle"
  BY DEF Init
<1>2. Queued = {}
  BY <1>1 DEF Queued
<1>3. Sized(Queued) = 0 /\ Sized(held) = 0 /\ Carried = 0
  BY <1>1, <1>2, SizedEmpty DEF Carried
<1>4. \A p \in Publishers : SendingBytes(p) = 0
  BY <1>1 DEF SendingBytes
<1>5. Sending = 0
  <2> DEFINE f == [p \in Publishers |-> SendingBytes(p)]
             Bad == {n \in Nat : \E t \in SUBSET Publishers :
                       Cardinality(t) = n /\ SumFunctionOnSet(f, t) # 0}
  <2>1. \A t \in SUBSET Publishers : IsFiniteSet(t) /\ Cardinality(t) \in Nat
    BY FS_Subset, FS_CardinalityType, ProducerAssumption
  <2>2. \A p \in Publishers : f[p] = 0
    BY <1>4
  <2> HIDE DEF f
  <2>3. SUFFICES ASSUME Bad # {} PROVE FALSE
    BY <2>1 DEF Sending, SumFunction, f
  <2>4. PICK n \in Bad : \A m \in Bad : n <= m
    BY <2>3, LeastNumber
  <2>5. PICK t \in SUBSET Publishers : Cardinality(t) = n /\ SumFunctionOnSet(f, t) # 0
    BY <2>4
  <2>6. t # {}
    BY <2>5, SumEmpty
  <2>7. SumFunctionOnSet(f, t) = f[First(t)] + SumFunctionOnSet(f, t \ {First(t)})
    BY <2>1, <2>5, <2>6, SumTakesFirst
  <2>8. /\ t \ {First(t)} \in SUBSET Publishers /\ First(t) \in Publishers
        /\ Cardinality(t \ {First(t)}) = n - 1 /\ n - 1 \in Nat
    BY <2>1, <2>5, <2>6, FirstIn, RestSmaller
  <2>9. SumFunctionOnSet(f, t \ {First(t)}) = 0
    BY <2>4, <2>8
  <2> QED BY <2>2, <2>5, <2>7, <2>8, <2>9
<1> QED BY <1>1, <1>3, <1>5 DEF BytesBalanced, Sending

LEMMA BytesHold == Spec => [](Safe /\ BytesBalanced)
<1>1. Init => Safe /\ BytesBalanced
  BY InitInv, FlightInit, BytesInit DEF Safe
<1> QED BY <1>1, SafeStep, BytesStep, PTL DEF Spec

\* Every reserved byte belongs to exactly one record on its way: no drop, late
\* arrival, failed delivery or shutdown keeps or returns a reservation twice.
THEOREM BytesStayBalanced == Spec => []BytesBalanced
<1>1. Safe /\ BytesBalanced => BytesBalanced
  OBVIOUS
<1> QED BY <1>1, BytesHold, PTL

-----------------------------------------------------------------------------
(* The types and the bounds of the channel                                   *)

Bounds ==
  /\ next <= MaxSequence + 1
  /\ \A p \in Publishers : stage[p] = "pulse" =>
       message[p].sequence \in 1..(next - 1) /\ message[p].size \in Sizes
  /\ bytes <= CapacityBytes
  /\ Len(queue) <= CapacityEvents
  /\ step \in {"receive", "drain", "record", "gap", "done"}
  /\ faults \in 0..MaxFaults
  /\ backoff \in BOOLEAN /\ ended \in BOOLEAN /\ closed \in BOOLEAN

LEMMA BoundsInit == Init => Bounds
<1> SUFFICES ASSUME Init PROVE Bounds
  OBVIOUS
<1>1. /\ next = 1 /\ bytes = 0 /\ queue = <<>> /\ step = "receive" /\ faults = 0
      /\ backoff = FALSE /\ ended = FALSE /\ closed = FALSE
      /\ \A p \in Publishers : stage[p] = "idle"
  BY DEF Init
<1>2. Len(queue) = 0
  BY <1>1
<1>3. 1 <= MaxSequence + 1 /\ 0 <= CapacityBytes /\ 0 <= CapacityEvents /\ 0 \in 0..MaxFaults
  BY ProducerAssumption
<1>4. 0 <= CapacityBytes /\ Len(queue) <= CapacityEvents
  BY <1>2, <1>3
<1> QED BY <1>1, <1>3, <1>4 DEF Bounds

LEMMA TypesFollow == Safe /\ BytesBalanced /\ Bounds => TypeOK
<1> SUFFICES ASSUME Safe, BytesBalanced, Bounds PROVE TypeOK
  OBVIOUS
<1>1. FlightTypes /\ AllLive /\ LossInv /\ StoreInv /\ expected = accounted + 1
  BY DEF Safe, FlightInv, IInv, WorkerInv, WorkerInStep
<1>2. next \in 1..(MaxSequence + 1) /\ accounted \in 0..MaxSequence /\ contiguous \in 0..accounted
        /\ expected \in 1..next
  BY <1>1, ProducerAssumption DEF FlightTypes, LossInv, StoreInv, Bounds
<1>3. stored \subseteq 1..MaxSequence /\ gaps \subseteq 1..MaxSequence
  <2>1. accounted \in Nat /\ accounted <= MaxSequence /\ MaxSequence \in Nat
    BY <1>2, ProducerAssumption
  <2>2. 1..accounted \subseteq 1..MaxSequence
    BY <2>1
  <2>3. stored \cup gaps = 1..accounted
    BY <1>1 DEF StoreInv, SettledOnce
  <2> QED BY <2>2, <2>3
<1>4. \A p \in Publishers : stage[p] # "idle" =>
        message[p].sequence \in 1..(next - 1) /\ message[p].size \in Sizes
  <2>1. \A p \in Publishers : stage[p] \in {"idle", "build", "send", "pulse"}
    BY <1>1 DEF FlightTypes
  <2> QED BY <1>1, <2>1 DEF AllLive, Making, Live, Bounds
<1>5. bytes \in 0..CapacityBytes
  <2>1. bytes \in Nat
    <3>1. Parts /\ Sending \in Nat
      BY <1>1, PartsFacts, SendingIsNumber
    <3> QED BY <3>1 DEF BytesBalanced, Sending, Parts
  <2> QED BY <2>1, ProducerAssumption DEF Bounds
<1>6. \A i \in DOMAIN pending :
        1 <= pending[i].first /\ pending[i].first <= pending[i].last /\ pending[i].last < next
  <2>1. \A i \in DOMAIN pending : pending[i] \in Ranges(next)
    BY <1>1 DEF LossInv
  <2> QED BY <2>1 DEF Ranges
<1> QED BY <1>1, <1>2, <1>3, <1>4, <1>5, <1>6 DEF TypeOK, Bounds, FlightTypes, LossInv

\* No step but a reservation adds bytes, and that one is checked.
LEMMA BytesFit ==
  ASSUME Safe, BytesBalanced, bytes <= CapacityBytes, [Next]_vars
  PROVE  bytes' <= CapacityBytes
<1>1. FlightTypes /\ Parts /\ Sending \in Nat /\ CapacityBytes \in Nat
  BY PartsFacts, SendingIsNumber, ProducerAssumption DEF Safe, FlightInv
<1>2. bytes \in Nat
  BY <1>1 DEF BytesBalanced, Sending, Parts
<1>3. ASSUME NEW p \in Publishers, NEW size \in Sizes, Reserve(p, size)
      PROVE  bytes' <= CapacityBytes
  BY <1>3 DEF Reserve, channel
<1>4. ASSUME NEW p \in Publishers, Publish(p) PROVE bytes' <= CapacityBytes
  <2>1. message[p].size \in Nat
    BY <1>1 DEF FlightTypes, Records
  <2>2. CASE DropForEvents(p)
    BY <1>1, <1>2, <2>1, <2>2 DEF DropForEvents
  <2>3. CASE ReserveBytes(p)
    BY <2>3 DEF ReserveBytes
  <2>4. CASE DropOversized(p) \/ DropForBytes(p) \/ Enqueue(p) \/ Wake(p)
    BY <2>4 DEF DropOversized, DropForBytes, Enqueue, Wake, channel
  <2> QED BY <1>4, <2>2, <2>3, <2>4 DEF Publish
<1>5. CASE Receive
  <2>1. queue # <<>> /\ queue \in Seq(Records)
    BY <1>1, <1>5 DEF Receive, FlightTypes
  <2>2. Head(queue) \in Records
    BY <2>1, QueueTail
  <2>3. Head(queue).size \in Nat
    BY <2>2 DEF Records
  <2>4. bytes' = bytes \/ bytes' = bytes - Head(queue).size
    BY <1>5 DEF Receive
  <2> QED BY <1>1, <1>2, <2>3, <2>4
<1>6. CASE Pause
  <2>1. bytes' = bytes \/ bytes' = bytes - Sized(held)
    BY <1>6 DEF Pause
  <2> QED BY <1>1, <1>2, <2>1 DEF Parts
<1>7. CASE Discard
  <2> DEFINE covered == {r \in held : r.sequence <= current.last}
  <2>1. held' = held \ covered /\ bytes' = bytes - Sized(covered)
    BY <1>7 DEF Discard
  <2>2. covered \in SUBSET held
    OBVIOUS
  <2> HIDE DEF covered
  <2>3. Sized(covered) \in Nat
    BY <1>1, <2>1, <2>2, HeldGivenUp
  <2> QED BY <1>1, <1>2, <2>1, <2>3
<1>8. CASE DeliverRecord \/ RecordFails
  <2>1. step = "record" /\ bytes' = bytes - current.size
    BY <1>8 DEF DeliverRecord, RecordFails
  <2>2. current.size \in Nat
    BY <1>1, <2>1 DEF FlightTypes, Records
  <2> QED BY <1>1, <1>2, <2>1, <2>2
<1>9. CASE ReceiveNothing \/ TakeLoss \/ TakeRecord \/ Close \/ Elapse \/ UNCHANGED vars
  BY <1>9 DEF ReceiveNothing, TakeLoss, TakeRecord, Close, Elapse, vars, channel
<1>10. CASE WaitOut \/ FindNothing \/ DeliverGap \/ GapFails
  <2>1. Pause \/ Discard
    BY <1>10 DEF WaitOut, FindNothing, DeliverGap, GapFails, DeclareAgain
  <2> QED BY <1>6, <1>7, <2>1
<1> QED BY <1>3, <1>4, <1>5, <1>8, <1>9, <1>10 DEF Next, Work

\* Nothing enters a full queue.
LEMMA QueueFits ==
  ASSUME FlightTypes, Len(queue) <= CapacityEvents, [Next]_vars
  PROVE  Len(queue') <= CapacityEvents
<1>1. /\ queue \in Seq(Records) /\ Len(queue) \in Nat /\ CapacityEvents \in Nat
      /\ message \in [Publishers -> Records]
  BY ProducerAssumption DEF FlightTypes
<1>2. ASSUME NEW m \in Records, Len(queue) < CapacityEvents, queue' = Append(queue, m)
      PROVE  Len(queue') <= CapacityEvents
  <2>1. Len(queue') = Len(queue) + 1
    BY <1>1, <1>2, QueueAppend
  <2> QED BY <1>1, <1>2, <2>1
<1>3. ASSUME NEW p \in Publishers, Enqueue(p) \/ Wake(p) PROVE Len(queue') <= CapacityEvents
  <2>1. message[p] \in Records /\ Pulse \in Records
    BY <1>1, PulseFacts
  <2>2. CASE Enqueue(p)
    BY <1>2, <2>1, <2>2 DEF Enqueue
  <2>3. CASE Wake(p)
    BY <1>2, <2>1, <2>3 DEF Wake
  <2> QED BY <1>3, <2>2, <2>3
<1>4. CASE Receive
  <2>1. queue # <<>> /\ queue' = Tail(queue)
    BY <1>4 DEF Receive
  <2>2. Len(queue') = Len(queue) - 1
    BY <1>1, <2>1, QueueTail
  <2> QED BY <1>1, <2>2
<1>5. CASE ~Receive /\ ~\E p \in Publishers : Enqueue(p) \/ Wake(p)
  <2>1. queue' = queue
    BY <1>5 DEF Next, Close, Elapse, Work, Publish, Reserve, DropOversized, DropForBytes,
       ReserveBytes, DropForEvents, ReceiveNothing, WaitOut, TakeLoss, TakeRecord, FindNothing,
       DeliverRecord, RecordFails, DeliverGap, GapFails, channel, vars
  <2> QED BY <2>1
<1> QED BY <1>3, <1>4, <1>5

\* A publisher about to wake the worker still names the record it dropped.
LEMMA PulseStaysNamed ==
  ASSUME FlightTypes, AllLive, Bounds, [Next]_vars,
         NEW p \in Publishers, stage'[p] = "pulse"
  PROVE  message'[p].sequence \in 1..(next' - 1) /\ message'[p].size \in Sizes
<1> DEFINE named(m, n) == m.sequence \in 1..(n - 1) /\ m.size \in Sizes
<1>1. next \in Nat /\ stage \in [Publishers -> {"idle", "build", "send", "pulse"}]
        /\ message \in [Publishers -> Records]
  BY DEF FlightTypes
<1>2. Making(p) \/ stage[p] = "pulse" => named(message[p], next)
  BY DEF AllLive, Live, Bounds
<1>3. CASE UNCHANGED <<stage, message, next>>
  BY <1>2, <1>3
<1>4. ASSUME NEW q \in Publishers, NEW size \in Sizes, Reserve(q, size)
      PROVE  named(message'[p], next')
  <2>1. /\ stage' = [stage EXCEPT ![q] = "build"] /\ next' = next + 1
        /\ message' = [message EXCEPT ![q] = Record(next, size)]
    BY <1>4 DEF Reserve
  <2>2. p # q /\ stage[p] = "pulse" /\ message'[p] = message[p]
    BY <1>1, <2>1
  <2>3. message[p].sequence \in 1..(next - 1)
    BY <1>2, <2>2
  <2>4. message[p].sequence \in 1..((next + 1) - 1)
    BY <1>1, <2>3
  <2> QED BY <1>2, <2>1, <2>2, <2>4
<1>5. ASSUME NEW q \in Publishers, Publish(q)
      PROVE  named(message'[p], next')
  <2>1. next' = next
    BY <1>5 DEF Publish, DropOversized, DropForBytes, ReserveBytes, Enqueue, DropForEvents, Wake
  <2>2. (Making(p) \/ stage[p] = "pulse") /\ message'[p] = message[p]
    <3>1. CASE p # q
      <4>1. stage'[p] = stage[p] /\ message'[p] = message[p]
        BY <1>1, <1>5, <3>1 DEF Publish, DropOversized, DropForBytes, ReserveBytes, Enqueue,
           DropForEvents, Wake, Drop
      <4> QED BY <4>1
    <3>2. CASE p = q
      <4>1. ~(ReserveBytes(q) \/ Enqueue(q) \/ Wake(q))
        BY <1>1, <3>2 DEF ReserveBytes, Enqueue, Wake
      <4> QED BY <1>5, <3>2, <4>1 DEF Publish, DropOversized, DropForBytes, DropForEvents, Making
    <3> QED BY <3>1, <3>2
  <2> QED BY <1>2, <2>1, <2>2
<1>6. CASE Work \/ Close \/ Elapse \/ UNCHANGED vars
  <2>1. UNCHANGED <<stage, message, next>>
    BY <1>6 DEF Work, Close, Elapse, vars, publishing, Receive, ReceiveNothing, WaitOut, TakeLoss,
       TakeRecord, FindNothing, DeliverRecord, RecordFails, DeliverGap, GapFails
  <2> QED BY <1>3, <2>1
<1> QED BY <1>4, <1>5, <1>6 DEF Next

\* The worker's control and the bounded faults.
LEMMA ControlStays ==
  ASSUME Bounds, [Next]_vars
  PROVE  /\ step' \in {"receive", "drain", "record", "gap", "done"}
         /\ faults' \in 0..MaxFaults
         /\ backoff' \in BOOLEAN /\ ended' \in BOOLEAN /\ closed' \in BOOLEAN
<1>1. CASE UNCHANGED <<step, faults, backoff, ended, closed>>
  BY <1>1 DEF Bounds
<1>2. ASSUME NEW p \in Publishers, (\E size \in Sizes : Reserve(p, size)) \/ Publish(p)
      PROVE  UNCHANGED <<step, faults, backoff, ended, closed>>
  BY <1>2 DEF Reserve, Publish, DropOversized, DropForBytes, ReserveBytes, Enqueue, DropForEvents,
     Wake, worker, world
<1>3. CASE Close \/ Elapse \/ UNCHANGED vars
  BY <1>3 DEF Close, Elapse, Bounds, vars, worker, world
<1>4. CASE Receive \/ ReceiveNothing \/ WaitOut \/ TakeLoss \/ TakeRecord \/ FindNothing
             \/ DeliverRecord \/ DeliverGap
  BY <1>4 DEF Receive, ReceiveNothing, WaitOut, TakeLoss, TakeRecord, FindNothing, DeliverRecord,
     DeliverGap, DeclareAgain, Discard, Pause, Bounds, world
<1>5. ASSUME NEW ahead, MayFail(ahead) PROVE faults' \in 0..MaxFaults /\ closed' = closed
  <2>1. faults \in 0..MaxFaults /\ MaxFaults \in Nat
    BY ProducerAssumption DEF Bounds
  <2>2. CASE ahead
    BY <1>5, <2>1, <2>2 DEF MayFail
  <2>3. CASE ~ahead
    BY <1>5, <2>1, <2>3 DEF MayFail
  <2> QED BY <1>5, <2>2, <2>3
<1>6. CASE RecordFails \/ GapFails
  <2>1. PICK ahead : MayFail(ahead)
    BY <1>6 DEF RecordFails, GapFails
  <2>2. faults' \in 0..MaxFaults /\ closed' = closed
    BY <1>5, <2>1
  <2> QED BY <1>6, <2>2 DEF RecordFails, GapFails, DeclareAgain, Pause, Bounds
<1> QED BY <1>1, <1>2, <1>3, <1>4, <1>6 DEF Next, Work

LEMMA BoundsStep == Safe /\ BytesBalanced /\ Bounds /\ [Next]_vars => Bounds'
<1> SUFFICES ASSUME Safe, BytesBalanced, Bounds, [Next]_vars PROVE Bounds'
  OBVIOUS
<1>1. FlightTypes /\ AllLive /\ FlightTypes'
  BY SafeStep DEF Safe, FlightInv
<1>2. next \in Nat /\ Len(queue) \in Nat /\ bytes \in Nat
  <2>1. Parts /\ Sending \in Nat
    BY <1>1, PartsFacts, SendingIsNumber
  <2> QED BY <1>1, <2>1 DEF BytesBalanced, Sending, Parts, FlightTypes
<1>3. next' <= MaxSequence + 1
  <2>1. CASE \E p \in Publishers : \E size \in Sizes : Reserve(p, size)
    BY <1>2, <2>1, ProducerAssumption DEF Reserve
  <2>2. CASE ~\E p \in Publishers : \E size \in Sizes : Reserve(p, size)
    <3>1. next' = next
      BY <2>2 DEF Next, Close, Elapse, Work, Publish, DropOversized, DropForBytes, ReserveBytes,
         Enqueue, DropForEvents, Wake, Receive, ReceiveNothing, WaitOut, TakeLoss, TakeRecord,
         FindNothing, DeliverRecord, RecordFails, DeliverGap, GapFails, publishing, vars
    <3> QED BY <3>1 DEF Bounds
  <2> QED BY <2>1, <2>2
<1>4. \A p \in Publishers : stage'[p] = "pulse" =>
        message'[p].sequence \in 1..(next' - 1) /\ message'[p].size \in Sizes
  BY <1>1, PulseStaysNamed
<1>5. bytes' <= CapacityBytes /\ Len(queue') <= CapacityEvents
  BY <1>1, BytesFit, QueueFits DEF Bounds
<1> QED BY <1>3, <1>4, <1>5, ControlStays DEF Bounds

\* Whatever the publishers, the worker and the faults do, the channel stays inside
\* its two capacities, the list of losses inside its limit, and every number in a
\* record, a loss or a table is one that was handed out.
THEOREM ChannelTypeCorrect == Spec => []TypeOK
<1>1. Init => Bounds
  BY BoundsInit
<1> QED BY <1>1, BytesHold, BoundsStep, TypesFollow, PTL DEF Spec
=============================================================================
