----------------------- MODULE ContextHoldStore_proofs -----------------------
(* The store implements ContextHold, gives no request a route of another      *)
(* branch, keeps its index true and stays inside its budget, for any          *)
(* requests, prompts and budgets.  What a request may be given does not       *)
(* depend on what is evicted, expired or refused for want of room; the index  *)
(* and the budget do, and their invariant follows the accounts of every key.  *)
EXTENDS ContextHoldStore, Functions, FiniteSetTheorems, WellFoundedInduction, TLAPS

-----------------------------------------------------------------------------
(* Sums over finite sets.  SumFunctionOnSet folds in an order that CHOOSE     *)
(* fixes; the lemmas show that the order does not matter.  Each induction is  *)
(* by the least number of elements that would refute the statement.           *)

\* Every set of natural numbers that is not empty has a least element.
LEMMA LeastNumber ==
  ASSUME NEW T, T \subseteq Nat, T # {}
  PROVE  \E n \in T : \A m \in T : n <= m
<1>1. PICK n \in T : \A m \in T : <<m, n>> \notin OpToRel(<, Nat)
  BY NatLessThanWellFounded, WFMin
<1>2. \A m \in T : ~(m < n)
  BY <1>1 DEF OpToRel
<1> QED BY <1>2

\* The element the fold takes first.
First(s) == CHOOSE x \in s : TRUE

Body(f, g, s) == IF s = {} THEN 0 ELSE f[First(s)] + g[s \ {First(s)}]

Adder(f, U) == CHOOSE g : g = [s \in SUBSET U |-> Body(f, g, s)]

LEMMA FirstIn ==
  ASSUME NEW s, s # {}
  PROVE  First(s) \in s
BY DEF First

\* Without its first element a finite set is smaller by one.
LEMMA RestSmaller ==
  ASSUME NEW s, IsFiniteSet(s), NEW x \in s
  PROVE  /\ IsFiniteSet(s \ {x})
         /\ Cardinality(s) \in Nat /\ Cardinality(s \ {x}) \in Nat
         /\ Cardinality(s \ {x}) = Cardinality(s) - 1
BY FS_RemoveElement, FS_CardinalityType

LEMMA SumIsAdder ==
  ASSUME NEW f, NEW U
  PROVE  SumFunctionOnSet(f, U) = Adder(f, U)[U]
BY DEF SumFunctionOnSet, FoldFunctionOnSet, MapThenFoldSet, Adder, Body, First

\* The recursive definition has a solution.
LEMMA AdderExists ==
  ASSUME NEW f, NEW U, IsFiniteSet(U)
  PROVE  \E g : g = [s \in SUBSET U |-> Body(f, g, s)]
<1> DEFINE Level(n) == {s \in SUBSET U : Cardinality(s) <= n}
           Solved(n) == \E g : g = [s \in Level(n) |-> Body(f, g, s)]
           Bad == {n \in Nat : ~Solved(n)}
<1>1. \A s \in SUBSET U : IsFiniteSet(s) /\ Cardinality(s) \in Nat
                            /\ Cardinality(s) <= Cardinality(U)
  BY FS_Subset, FS_CardinalityType
<1>2. Solved(0)
  <2>1. \A s \in Level(0) : s = {}
    BY <1>1, FS_EmptySet
  <2> DEFINE g == [s \in Level(0) |-> 0]
  <2>2. g = [s \in Level(0) |-> Body(f, g, s)]
    BY <2>1 DEF Body
  <2> QED BY <2>2
<1>3. ASSUME NEW n \in Nat, Solved(n) PROVE Solved(n + 1)
  <2>1. PICK h : h = [s \in Level(n) |-> Body(f, h, s)]
    BY <1>3
  <2> DEFINE g == [s \in Level(n + 1) |-> Body(f, h, s)]
  <2>2. ASSUME NEW s \in Level(n + 1) PROVE Body(f, h, s) = Body(f, g, s)
    <3>1. CASE s = {}
      BY <3>1 DEF Body
    <3>2. CASE s # {}
      <4> DEFINE w == s \ {First(s)}
      <4>1. First(s) \in s
        BY <3>2, FirstIn
      <4>2. Cardinality(w) = Cardinality(s) - 1 /\ Cardinality(s) \in Nat
        BY <4>1, <1>1, RestSmaller
      <4>3. w \in Level(n) /\ w \in Level(n + 1)
        BY <4>2
      <4>4. h[w] = Body(f, h, w)
        BY <2>1, <4>3
      <4>5. g[w] = Body(f, h, w)
        BY <4>3
      <4> QED BY <3>2, <4>4, <4>5 DEF Body
    <3> QED BY <3>1, <3>2
  <2>3. g = [s \in Level(n + 1) |-> Body(f, g, s)]
    BY <2>2
  <2> QED BY <2>3
<1>4. Bad = {}
  <2>1. SUFFICES ASSUME Bad # {} PROVE FALSE
    OBVIOUS
  <2>2. PICK n \in Bad : \A m \in Bad : n <= m
    <3> HIDE DEF Solved
    <3> QED BY <2>1, LeastNumber
  <2>3. n # 0
    BY <1>2
  <2>4. n - 1 \in Nat /\ n - 1 \notin Bad
    <3> HIDE DEF Solved
    <3> QED BY <2>2, <2>3
  <2>5. Solved((n - 1) + 1)
    <3>1. Solved(n - 1)
      BY <2>4
    <3> HIDE DEF Solved
    <3> QED BY <3>1, <2>4, <1>3
  <2>6. (n - 1) + 1 = n
    BY <2>4
  <2> HIDE DEF Solved
  <2> QED BY <2>2, <2>5, <2>6
<1>5. Cardinality(U) \in Nat
  BY FS_CardinalityType
<1>6. Solved(Cardinality(U))
  BY <1>4, <1>5
<1>7. Level(Cardinality(U)) = SUBSET U
  BY <1>1
<1> QED BY <1>6, <1>7

LEMMA AdderUnfolds ==
  ASSUME NEW f, NEW U, IsFiniteSet(U), NEW s \in SUBSET U
  PROVE  Adder(f, U)[s] = Body(f, Adder(f, U), s)
<1>1. Adder(f, U) = [t \in SUBSET U |-> Body(f, Adder(f, U), t)]
  BY AdderExists DEF Adder
<1> QED BY <1>1

\* The sum of a part does not depend on the whole it was taken from.
LEMMA AdderRestricts ==
  ASSUME NEW f, NEW U, IsFiniteSet(U), NEW V \in SUBSET U, NEW s \in SUBSET V
  PROVE  Adder(f, V)[s] = Adder(f, U)[s]
<1> DEFINE Bad == {n \in Nat : \E t \in SUBSET V :
                     Cardinality(t) = n /\ Adder(f, V)[t] # Adder(f, U)[t]}
<1>1. IsFiniteSet(V)
  BY FS_Subset
<1>2. \A t \in SUBSET V : IsFiniteSet(t) /\ Cardinality(t) \in Nat
  BY <1>1, FS_Subset, FS_CardinalityType
<1>3. SUFFICES ASSUME Bad # {} PROVE FALSE
  BY <1>2
<1>4. PICK n \in Bad : \A m \in Bad : n <= m
  BY <1>3, LeastNumber
<1>5. PICK t \in SUBSET V : Cardinality(t) = n /\ Adder(f, V)[t] # Adder(f, U)[t]
  BY <1>4
<1>6. /\ Adder(f, V)[t] = Body(f, Adder(f, V), t)
      /\ Adder(f, U)[t] = Body(f, Adder(f, U), t)
  BY <1>1, <1>5, AdderUnfolds
<1>7. t # {}
  BY <1>5, <1>6 DEF Body
<1> DEFINE w == t \ {First(t)}
<1>8. /\ w \in SUBSET V /\ Cardinality(w) = n - 1
      /\ Cardinality(w) \in Nat
  BY <1>2, <1>5, <1>7, FirstIn, RestSmaller
<1>9. Adder(f, V)[w] = Adder(f, U)[w]
  BY <1>4, <1>8
<1> QED BY <1>5, <1>6, <1>7, <1>9 DEF Body

\* The sum of nothing.
LEMMA SumEmpty == ASSUME NEW f PROVE SumFunctionOnSet(f, {}) = 0
<1>1. Adder(f, {})[{}] = Body(f, Adder(f, {}), {})
  BY AdderUnfolds, FS_EmptySet
<1> QED BY <1>1, SumIsAdder DEF Body

\* One step of the fold.
LEMMA SumTakesFirst ==
  ASSUME NEW f, NEW S, IsFiniteSet(S), S # {}
  PROVE  SumFunctionOnSet(f, S) = f[First(S)] + SumFunctionOnSet(f, S \ {First(S)})
<1>1. Adder(f, S)[S] = f[First(S)] + Adder(f, S)[S \ {First(S)}]
  BY AdderUnfolds DEF Body
<1>2. Adder(f, S \ {First(S)})[S \ {First(S)}] = Adder(f, S)[S \ {First(S)}]
  BY AdderRestricts
<1> QED BY <1>1, <1>2, SumIsAdder

\* A sum of numbers is a number.
LEMMA SumIsNumber ==
  ASSUME NEW f, NEW S, IsFiniteSet(S), \A x \in S : f[x] \in Nat
  PROVE  SumFunctionOnSet(f, S) \in Nat
<1> DEFINE Bad == {n \in Nat : \E t \in SUBSET S :
                     Cardinality(t) = n /\ SumFunctionOnSet(f, t) \notin Nat}
<1>1. \A t \in SUBSET S : IsFiniteSet(t) /\ Cardinality(t) \in Nat
  BY FS_Subset, FS_CardinalityType
<1>2. SUFFICES ASSUME Bad # {} PROVE FALSE
  BY <1>1
<1>3. PICK n \in Bad : \A m \in Bad : n <= m
  BY <1>2, LeastNumber
<1>4. PICK t \in SUBSET S : Cardinality(t) = n /\ SumFunctionOnSet(f, t) \notin Nat
  BY <1>3
<1>5. t # {}
  BY <1>4, SumEmpty
<1>6. SumFunctionOnSet(f, t) = f[First(t)] + SumFunctionOnSet(f, t \ {First(t)})
  BY <1>1, <1>5, SumTakesFirst
<1>7. /\ t \ {First(t)} \in SUBSET S /\ First(t) \in S
      /\ Cardinality(t \ {First(t)}) = n - 1 /\ n - 1 \in Nat
  BY <1>1, <1>4, <1>5, FirstIn, RestSmaller
<1>8. SumFunctionOnSet(f, t \ {First(t)}) \in Nat
  BY <1>3, <1>7
<1> QED BY <1>4, <1>6, <1>7, <1>8

\* It does not matter which element is taken first.
LEMMA SumTakesAny ==
  ASSUME NEW f, NEW S, IsFiniteSet(S), \A x \in S : f[x] \in Nat, NEW y \in S
  PROVE  SumFunctionOnSet(f, S) = f[y] + SumFunctionOnSet(f, S \ {y})
<1> DEFINE Bad == {n \in Nat : \E t \in SUBSET S : \E z \in t :
             /\ Cardinality(t) = n
             /\ SumFunctionOnSet(f, t) # f[z] + SumFunctionOnSet(f, t \ {z})}
<1>1. \A t \in SUBSET S : IsFiniteSet(t) /\ Cardinality(t) \in Nat
  BY FS_Subset, FS_CardinalityType
<1>2. SUFFICES ASSUME Bad # {} PROVE FALSE
  BY <1>1
<1>3. PICK n \in Bad : \A m \in Bad : n <= m
  BY <1>2, LeastNumber
<1>8. PICK t \in SUBSET S : \E z \in t :
        /\ Cardinality(t) = n
        /\ SumFunctionOnSet(f, t) # f[z] + SumFunctionOnSet(f, t \ {z})
  BY <1>3
<1>4. PICK z \in t :
        /\ Cardinality(t) = n
        /\ SumFunctionOnSet(f, t) # f[z] + SumFunctionOnSet(f, t \ {z})
  BY <1>8
<1> DEFINE a == First(t)
<1>5. a \in t
  BY <1>4, FirstIn
<1>6. SumFunctionOnSet(f, t) = f[a] + SumFunctionOnSet(f, t \ {a})
  BY <1>1, <1>4, SumTakesFirst
<1> HIDE DEF a
<1>7. a # z
  BY <1>4, <1>6
<1>9. /\ Cardinality(t \ {a}) = n - 1 /\ Cardinality(t \ {z}) = n - 1
      /\ n - 1 \in Nat
  BY <1>1, <1>4, <1>5, RestSmaller
<1>10. \A u \in SUBSET S : Cardinality(u) = n - 1 =>
         \A x \in u : SumFunctionOnSet(f, u) = f[x] + SumFunctionOnSet(f, u \ {x})
  <2>1. n - 1 \notin Bad
    <3>1. n \in Nat /\ \A m \in Bad : n <= m
      BY <1>3
    <3> HIDE DEF Bad
    <3> QED BY <1>9, <3>1
  <2> QED BY <1>9, <2>1
<1>11. SumFunctionOnSet(f, t \ {a})
         = f[z] + SumFunctionOnSet(f, (t \ {a}) \ {z})
  BY <1>5, <1>7, <1>9, <1>10
<1>12. SumFunctionOnSet(f, t \ {z})
         = f[a] + SumFunctionOnSet(f, (t \ {a}) \ {z})
  <2>1. (t \ {a}) \ {z} = (t \ {z}) \ {a}
    OBVIOUS
  <2>2. SumFunctionOnSet(f, t \ {z})
          = f[a] + SumFunctionOnSet(f, (t \ {z}) \ {a})
    BY <1>5, <1>7, <1>9, <1>10
  <2> QED BY <2>1, <2>2
<1>14. SumFunctionOnSet(f, (t \ {a}) \ {z}) \in Nat
  <2>1. IsFiniteSet((t \ {a}) \ {z})
    BY <1>1
  <2> QED BY <2>1, SumIsNumber
<1>15. f[a] \in Nat /\ f[z] \in Nat
  BY <1>4, <1>5
<1> QED BY <1>4, <1>6, <1>11, <1>12, <1>14, <1>15

\* The sum with one element more.
LEMMA SumAdds ==
  ASSUME NEW f, NEW S, IsFiniteSet(S), NEW y, y \notin S,
         \A x \in S \cup {y} : f[x] \in Nat
  PROVE  SumFunctionOnSet(f, S \cup {y}) = SumFunctionOnSet(f, S) + f[y]
<1>1. IsFiniteSet(S \cup {y})
  BY FS_AddElement
<1>2. SumFunctionOnSet(f, S \cup {y})
        = f[y] + SumFunctionOnSet(f, (S \cup {y}) \ {y})
  BY <1>1, SumTakesAny
<1>3. (S \cup {y}) \ {y} = S
  OBVIOUS
<1>4. SumFunctionOnSet(f, S) \in Nat /\ f[y] \in Nat
  BY SumIsNumber
<1> QED BY <1>2, <1>3, <1>4

\* The sum depends on the values at the elements summed only.
LEMMA SumAgrees ==
  ASSUME NEW f, NEW g, NEW S, IsFiniteSet(S), \A x \in S : f[x] = g[x]
  PROVE  SumFunctionOnSet(f, S) = SumFunctionOnSet(g, S)
<1> DEFINE Bad == {n \in Nat : \E t \in SUBSET S :
             Cardinality(t) = n /\ SumFunctionOnSet(f, t) # SumFunctionOnSet(g, t)}
<1>1. \A t \in SUBSET S : IsFiniteSet(t) /\ Cardinality(t) \in Nat
  BY FS_Subset, FS_CardinalityType
<1>2. SUFFICES ASSUME Bad # {} PROVE FALSE
  BY <1>1
<1>3. PICK n \in Bad : \A m \in Bad : n <= m
  BY <1>2, LeastNumber
<1>4. PICK t \in SUBSET S :
        Cardinality(t) = n /\ SumFunctionOnSet(f, t) # SumFunctionOnSet(g, t)
  BY <1>3
<1>5. t # {}
  BY <1>4, SumEmpty
<1>6. /\ SumFunctionOnSet(f, t) = f[First(t)] + SumFunctionOnSet(f, t \ {First(t)})
      /\ SumFunctionOnSet(g, t) = g[First(t)] + SumFunctionOnSet(g, t \ {First(t)})
  BY <1>1, <1>5, SumTakesFirst
<1>7. /\ t \ {First(t)} \in SUBSET S /\ First(t) \in S
      /\ Cardinality(t \ {First(t)}) = n - 1 /\ n - 1 \in Nat
  BY <1>1, <1>4, <1>5, FirstIn, RestSmaller
<1>8. SumFunctionOnSet(f, t \ {First(t)}) = SumFunctionOnSet(g, t \ {First(t)})
  BY <1>3, <1>7
<1> QED BY <1>4, <1>6, <1>7, <1>8

\* What is taken away and what is left add up to the whole.
LEMMA SumSplits ==
  ASSUME NEW f, NEW S, IsFiniteSet(S), NEW T \in SUBSET S, \A x \in S : f[x] \in Nat
  PROVE  /\ SumFunctionOnSet(f, S)
              = SumFunctionOnSet(f, S \ T) + SumFunctionOnSet(f, T)
         /\ SumFunctionOnSet(f, S) \in Nat
         /\ SumFunctionOnSet(f, S \ T) \in Nat
         /\ SumFunctionOnSet(f, T) \in Nat
<1> DEFINE Bad == {n \in Nat : \E t \in SUBSET S :
             /\ Cardinality(t) = n
             /\ SumFunctionOnSet(f, S)
                  # SumFunctionOnSet(f, S \ t) + SumFunctionOnSet(f, t)}
<1>1. \A t \in SUBSET S : IsFiniteSet(t) /\ Cardinality(t) \in Nat
  BY FS_Subset, FS_CardinalityType
<1>2. \A t \in SUBSET S : SumFunctionOnSet(f, t) \in Nat
  BY <1>1, SumIsNumber
<1>3. Bad = {}
  <2>1. SUFFICES ASSUME Bad # {} PROVE FALSE
    OBVIOUS
  <2>2. PICK n \in Bad : \A m \in Bad : n <= m
    BY <2>1, LeastNumber
  <2>3. PICK t \in SUBSET S :
          /\ Cardinality(t) = n
          /\ SumFunctionOnSet(f, S)
               # SumFunctionOnSet(f, S \ t) + SumFunctionOnSet(f, t)
    BY <2>2
  <2>4. t # {}
    <3>1. S \ {} = S
      OBVIOUS
    <3>2. SumFunctionOnSet(f, S) \in Nat
      BY <1>2
    <3> QED BY <2>3, <3>1, <3>2, SumEmpty
  <2> DEFINE a == First(t)
             w == t \ {a}
  <2>5. a \in t
    BY <2>4, FirstIn
  <2> HIDE DEF a
  <2>6. Cardinality(w) = n - 1 /\ n - 1 \in Nat
    BY <1>1, <2>3, <2>5, RestSmaller
  <2>7. w \in SUBSET S /\ n - 1 \notin Bad
    BY <2>2, <2>6
  <2>8. SumFunctionOnSet(f, S)
          = SumFunctionOnSet(f, S \ w) + SumFunctionOnSet(f, w)
    BY <2>6, <2>7
  <2>9. SumFunctionOnSet(f, t) = f[a] + SumFunctionOnSet(f, w)
    BY <1>1, <2>5, SumTakesAny
  <2>10. S \ w = (S \ t) \cup {a} /\ a \notin S \ t
    BY <2>5
  <2>11. SumFunctionOnSet(f, S \ w) = SumFunctionOnSet(f, S \ t) + f[a]
    <3>1. IsFiniteSet(S \ t)
      BY <1>1
    <3>2. \A x \in (S \ t) \cup {a} : f[x] \in Nat
      BY <2>5
    <3> HIDE DEF w
    <3> QED BY <2>10, <3>1, <3>2, SumAdds
  <2>12. /\ SumFunctionOnSet(f, S \ t) \in Nat /\ f[a] \in Nat
         /\ SumFunctionOnSet(f, w) \in Nat
    BY <1>2, <2>5
  <2> QED BY <2>3, <2>8, <2>9, <2>11, <2>12
<1>4. S \ T \in SUBSET S
  OBVIOUS
<1> QED BY <1>1, <1>2, <1>3, <1>4

-----------------------------------------------------------------------------
(* The entries and what requests are given                                   *)

Keys == {p.key : p \in Prompts}

Entry ==
  [token : Nat \ {0}, cycle : Nat, revision : Nat, version : Nat,
   instructions : {p.instructions : p \in Prompts}, history : Seq(Messages),
   route : [by : Requests \cup {NoHint}, bytes : Nat],
   access : Nat, order : Nat \ {0}]

EntriesInv ==
  /\ entries \in [DOMAIN entries -> Entry]
  /\ DOMAIN entries \subseteq Keys
  /\ nextToken \in Nat \ {0}
  /\ clock \in Nat
  /\ now \in Nat
  /\ \A k \in DOMAIN entries :
       /\ entries[k].token < nextToken
       /\ entries[k].order <= clock
       /\ entries[k].access <= now

RequestsInv ==
  /\ stage \in [Requests -> {"idle", "measuring", "routed", "done"}]
  /\ DOMAIN asked = {r \in Requests : stage[r] # "idle"}
  /\ \A r \in DOMAIN asked : asked[r] \in Prompts
  /\ DOMAIN ticket \subseteq {r \in Requests : stage[r] \in {"routed", "done"}}
  /\ \A r \in Requests : stage[r] = "routed" => r \in DOMAIN ticket
  /\ since \in [Requests -> Nat]
  /\ \A r \in Requests : since[r] <= now
  /\ applied \subseteq DOMAIN ticket

\* A ticket is never ahead of the entry it was given for.
TicketsInv ==
  \A r \in DOMAIN ticket :
    /\ ticket[r].token \in Nat /\ ticket[r].token < nextToken
    /\ ticket[r].cycle \in Nat /\ ticket[r].version \in Nat
    /\ asked[r].key \in DOMAIN entries
         /\ entries[asked[r].key].token = ticket[r].token
       => /\ ticket[r].cycle <= entries[asked[r].key].cycle
          /\ ticket[r].version <= entries[asked[r].key].version

\* The prompt of q is the beginning of what the scope k has seen.
Branch(q, k, instructions, history) ==
  /\ q \in DOMAIN asked
  /\ asked[q].key = k
  /\ asked[q].instructions = instructions
  /\ IsPrefix(asked[q].history, history)

HistoriesInv ==
  \A k \in DOMAIN entries :
    /\ entries[k].route.by # NoHint =>
         Branch(entries[k].route.by, k, entries[k].instructions, entries[k].history)
    /\ \A r \in Open(k) :
         Branch(r, k, entries[k].instructions, entries[k].history)

HintsInv ==
  \A r \in DOMAIN ticket :
    ticket[r].hint # NoHint =>
      Branch(ticket[r].hint, asked[r].key, asked[r].instructions, asked[r].history)

IInv == EntriesInv /\ RequestsInv /\ TicketsInv /\ HistoriesInv /\ HintsInv

-----------------------------------------------------------------------------
(* Prefixes                                                                  *)

LEMMA PrefixItself ==
  ASSUME NEW h \in Seq(Messages)
  PROVE  IsPrefix(h, h)
BY DEF IsPrefix

LEMMA PrefixTransitive ==
  ASSUME NEW a \in Seq(Messages), NEW b \in Seq(Messages), NEW c \in Seq(Messages),
         IsPrefix(a, b), IsPrefix(b, c)
  PROVE  IsPrefix(a, c)
BY DEF IsPrefix

\* What the digests compare is that the history seen is a prefix.
LEMMA PrefixByDigest ==
  ASSUME NEW seen \in Seq(Messages), NEW shown \in Seq(Messages)
  PROVE  IsPrefix(seen, shown)
           <=> (Len(shown) >= Len(seen) /\ SubSeq(shown, 1, Len(seen)) = seen)
BY DEF IsPrefix

-----------------------------------------------------------------------------
(* The initial state, and what a step leaves alone                           *)

LEMMA InitHolds == Init => IInv /\ Promise!HoldInit
<1> SUFFICES ASSUME Init PROVE IInv /\ Promise!HoldInit
  OBVIOUS
<1>1. EntriesInv
  BY DEF Init, EntriesInv
<1>2. RequestsInv
  BY DEF Init, RequestsInv
<1>3. TicketsInv /\ HistoriesInv /\ HintsInv
  BY DEF Init, TicketsInv, HistoriesInv, HintsInv
<1>4. Promise!HoldInit
  BY DEF Init, Promise!HoldInit, Holds, Hints
<1> QED BY <1>1, <1>2, <1>3, <1>4 DEF IInv

\* Entries may go at any step: nothing that is left refers to them.
LEMMA Removal ==
  ASSUME IInv, NEW gone, entries' = Kept(gone), ticket' = ticket,
         nextToken' \in Nat, nextToken' >= nextToken,
         clock' \in Nat, clock' >= clock, now' \in Nat, now' >= now,
         \A r \in DOMAIN asked : r \in DOMAIN asked' /\ asked'[r] = asked[r]
  PROVE  /\ EntriesInv' /\ TicketsInv' /\ HistoriesInv' /\ HintsInv'
         /\ Holds' = Promise!Without(Holds, gone \cap DOMAIN Holds)
         /\ Hints' = Hints
<1>1. DOMAIN entries' = DOMAIN entries \ gone
  BY DEF Kept
<1>2. \A k \in DOMAIN entries' : entries'[k] = entries[k]
  BY DEF Kept
<1>3. DOMAIN ticket \subseteq DOMAIN asked
  BY DEF IInv, RequestsInv
<1>4. \A k \in DOMAIN entries' : Open(k)' = Open(k)
  BY <1>1, <1>2, <1>3 DEF Open
<1>5. EntriesInv'
  <2>1. entries' \in [DOMAIN entries' -> Entry]
    BY <1>1, <1>2 DEF IInv, EntriesInv, Kept
  <2> QED BY <2>1, <1>1, <1>2 DEF IInv, EntriesInv, Entry
<1>6. TicketsInv'
  BY <1>1, <1>2, <1>3 DEF IInv, EntriesInv, TicketsInv
<1>7. HistoriesInv'
  BY <1>1, <1>2, <1>4 DEF IInv, HistoriesInv, Branch
<1>8. HintsInv'
  BY <1>3 DEF IInv, HintsInv, Branch
<1>9. Holds' = Promise!Without(Holds, gone \cap DOMAIN Holds)
  BY <1>1, <1>2, <1>4 DEF Holds, Promise!Without
<1>10. Hints' = Hints
  BY DEF Hints
<1> QED BY <1>5, <1>6, <1>7, <1>8, <1>9, <1>10

LEMMA Ticking ==
  ASSUME IInv, Tick
  PROVE  IInv' /\ UNCHANGED <<Holds, asked, Hints>>
<1>1. /\ entries' = entries /\ ticket' = ticket /\ asked' = asked
      /\ UNCHANGED <<inner, request>> /\ now' = now + 1
  BY DEF Tick, inner, request
<1>2. EntriesInv' /\ RequestsInv'
  BY <1>1 DEF IInv, EntriesInv, RequestsInv, inner, request, Entry
<1>3. TicketsInv' /\ HistoriesInv' /\ HintsInv'
  BY <1>1 DEF IInv, TicketsInv, HistoriesInv, HintsInv, Branch, Open, inner
<1>4. UNCHANGED <<Holds, Hints>>
  BY <1>1 DEF Holds, Hints, Open
<1> QED BY <1>1, <1>2, <1>3, <1>4 DEF IInv

\* A request that comes in, or gives up its scope, only has entries removed.
LEMMA Looking ==
  ASSUME IInv, NEW r \in Requests, NEW prompt \in Prompts, NEW t \in 0..now,
         Look(r, prompt, t)
  PROVE  IInv' /\ Promise!HoldNext
<1> DEFINE gone == Purged(t) \cup ExpiredAt(prompt.key, t)
<1>1. /\ stage[r] = "idle" /\ stage' = [stage EXCEPT ![r] = "measuring"]
      /\ asked' = With(asked, r, prompt) /\ since' = [since EXCEPT ![r] = t]
      /\ entries' = Kept(gone)
      /\ UNCHANGED <<nextToken, clock, now, ticket, applied>>
  BY DEF Look, RemoveEntries
<1>2. r \notin DOMAIN asked
  BY <1>1 DEF IInv, RequestsInv
<1>3. \A q \in DOMAIN asked : q \in DOMAIN asked' /\ asked'[q] = asked[q]
  BY <1>1, <1>2 DEF With
<1>4. /\ EntriesInv' /\ TicketsInv' /\ HistoriesInv' /\ HintsInv'
      /\ Holds' = Promise!Without(Holds, gone \cap DOMAIN Holds) /\ Hints' = Hints
  <2>1. nextToken \in Nat /\ clock \in Nat /\ now \in Nat
    BY DEF IInv, EntriesInv
  <2> HIDE DEF gone
  <2> QED BY <1>1, <1>3, <2>1, Removal
<1>5. RequestsInv'
  <2>1. now \in Nat
    BY DEF IInv, EntriesInv
  <2>2. /\ DOMAIN asked' = DOMAIN asked \cup {r}
        /\ \A q \in DOMAIN asked' : asked'[q] \in Prompts
    BY <1>1, <1>2 DEF With, IInv, RequestsInv
  <2> QED BY <1>1, <1>2, <2>1, <2>2 DEF IInv, RequestsInv
<1>6. Promise!Come(r, prompt, gone \cap DOMAIN Holds)
  BY <1>1, <1>2, <1>4 DEF Promise!Come, Promise!Ask, Promise!With, With
<1>7. gone \cap DOMAIN Holds \in SUBSET DOMAIN Holds
  OBVIOUS
<1>8. Promise!HoldNext
  <2> HIDE DEF gone
  <2> QED BY <1>6, <1>7 DEF Promise!HoldNext
<1> QED BY <1>4, <1>5, <1>8 DEF IInv

LEMMA GivingUp ==
  ASSUME IInv, NEW r \in Requests, NEW gone, entries' = Kept(gone),
         stage[r] = "measuring", Unrouted(r), now' = now,
         nextToken' \in Nat, nextToken' >= nextToken,
         clock' \in Nat, clock' >= clock
  PROVE  IInv' /\ Promise!HoldNext
<1>1. /\ stage' = [stage EXCEPT ![r] = "done"]
      /\ UNCHANGED <<asked, since, ticket, applied>>
  BY DEF Unrouted
<1>2. /\ EntriesInv' /\ TicketsInv' /\ HistoriesInv' /\ HintsInv'
      /\ Holds' = Promise!Without(Holds, gone \cap DOMAIN Holds) /\ Hints' = Hints
  <2>1. now \in Nat
    BY DEF IInv, EntriesInv
  <2> QED BY <1>1, <2>1, Removal
<1>3. RequestsInv'
  BY <1>1 DEF IInv, RequestsInv
<1>4. Promise!Forget(gone \cap DOMAIN Holds)
  BY <1>1, <1>2 DEF Promise!Forget
<1>5. gone \cap DOMAIN Holds \in SUBSET DOMAIN Holds
  OBVIOUS
<1>6. Promise!HoldNext
  BY <1>4, <1>5 DEF Promise!HoldNext
<1> QED BY <1>2, <1>3, <1>6 DEF IInv

-----------------------------------------------------------------------------
(* Entering a scope                                                          *)

LEMMA OldestAmong ==
  ASSUME NEW S, NEW n, NEW j \in Oldest(S, n)
  PROVE  \E x \in S : x.key = j
BY DEF Oldest

\* The prompt of a request that came in.
LEMMA PromptOf ==
  ASSUME IInv, NEW r \in Requests, stage[r] # "idle"
  PROVE  /\ r \in DOMAIN asked
         /\ asked[r] \in Prompts
         /\ asked[r].key \in Keys
         /\ asked[r].instructions \in {p.instructions : p \in Prompts}
         /\ asked[r].history \in Seq(Messages)
BY HoldAssumption DEF IInv, RequestsInv, Keys

\* A request enters its scope with the ticket of the entry e; no ticket given
\* out before is ahead of e, and the other scopes are as they were.
LEMMA Entering ==
  ASSUME IInv, NEW r \in Requests, stage[r] = "measuring", NEW gone,
         NEW e \in Entry, NEW h,
         entries' = With(Kept(gone), asked[r].key, e), Routed(r, Ticket(e, h)),
         nextToken' \in Nat, nextToken' >= nextToken, e.token < nextToken',
         clock' \in Nat, clock' >= clock, e.order <= clock',
         now' = now, e.access <= now,
         \A q \in DOMAIN ticket :
           asked[q].key = asked[r].key /\ ticket[q].token = e.token
             => ticket[q].cycle <= e.cycle /\ ticket[q].version <= e.version
  PROVE  /\ EntriesInv' /\ RequestsInv' /\ TicketsInv'
         /\ DOMAIN entries' = (DOMAIN entries \ gone) \cup {asked[r].key}
         /\ entries'[asked[r].key] = e
         /\ \A j \in DOMAIN entries' \ {asked[r].key} :
              entries'[j] = entries[j] /\ Open(j)' = Open(j)
         /\ asked' = asked
         /\ r \notin DOMAIN ticket
         /\ DOMAIN ticket' = DOMAIN ticket \cup {r}
         /\ ticket'[r] = Ticket(e, h)
         /\ \A q \in DOMAIN ticket : ticket'[q] = ticket[q]
<1> DEFINE k == asked[r].key
<1>1. /\ asked' = asked /\ applied' = applied
      /\ stage' = [stage EXCEPT ![r] = "routed"]
      /\ since' = [since EXCEPT ![r] = now]
      /\ ticket' = With(ticket, r, Ticket(e, h))
  BY DEF Routed
<1>2. /\ DOMAIN entries' = (DOMAIN entries \ gone) \cup {k}
      /\ entries'[k] = e
      /\ \A j \in DOMAIN entries' \ {k} : entries'[j] = entries[j]
  BY DEF With, Kept
<1>3. /\ r \notin DOMAIN ticket
      /\ DOMAIN ticket' = DOMAIN ticket \cup {r}
      /\ ticket'[r] = Ticket(e, h)
      /\ \A q \in DOMAIN ticket : ticket'[q] = ticket[q]
  BY <1>1 DEF With, IInv, RequestsInv
<1>4. EntriesInv'
  <2>1. entries' \in [DOMAIN entries' -> Entry]
    BY <1>2 DEF With, Kept, IInv, EntriesInv
  <2>2. k \in Keys
    BY PromptOf
  <2>3. /\ nextToken' \in Nat \ {0} /\ clock' \in Nat /\ now' \in Nat
    BY DEF IInv, EntriesInv
  <2>4. \A j \in DOMAIN entries' : /\ entries'[j].token < nextToken'
                                   /\ entries'[j].order <= clock'
                                   /\ entries'[j].access <= now'
    <3> SUFFICES ASSUME NEW j \in DOMAIN entries' \ {k}
                 PROVE  /\ entries[j].token < nextToken'
                        /\ entries[j].order <= clock'
                        /\ entries[j].access <= now'
      BY <1>2
    <3>1. /\ j \in DOMAIN entries
          /\ entries[j].token < nextToken /\ entries[j].order <= clock
          /\ entries[j].access <= now
      BY <1>2 DEF IInv, EntriesInv
    <3>2. /\ entries[j].token \in Nat /\ entries[j].order \in Nat
          /\ nextToken \in Nat /\ clock \in Nat
      BY <3>1 DEF IInv, EntriesInv, Entry
    <3> QED BY <3>1, <3>2
  <2> QED BY <1>2, <2>1, <2>2, <2>3, <2>4 DEF IInv, EntriesInv
<1>5. RequestsInv'
  <2>1. now \in Nat
    BY DEF IInv, EntriesInv
  <2>2. r \in DOMAIN asked
    BY PromptOf
  <2> QED BY <1>1, <1>3, <2>1, <2>2 DEF IInv, RequestsInv
<1>6. TicketsInv'
  <2> SUFFICES ASSUME NEW q \in DOMAIN ticket'
               PROVE  /\ ticket'[q].token \in Nat /\ ticket'[q].token < nextToken'
                      /\ ticket'[q].cycle \in Nat /\ ticket'[q].version \in Nat
                      /\ asked[q].key \in DOMAIN entries'
                           /\ entries'[asked[q].key].token = ticket'[q].token
                         => /\ ticket'[q].cycle <= entries'[asked[q].key].cycle
                            /\ ticket'[q].version <= entries'[asked[q].key].version
    BY <1>1 DEF TicketsInv
  <2>1. CASE q = r
    BY <2>1, <1>2, <1>3 DEF Ticket, Entry
  <2>2. CASE q # r
    <3>1. q \in DOMAIN ticket /\ ticket'[q] = ticket[q]
      BY <2>2, <1>3
    <3>2. /\ ticket[q].token \in Nat /\ ticket[q].token < nextToken
          /\ ticket[q].cycle \in Nat /\ ticket[q].version \in Nat
      BY <3>1 DEF IInv, TicketsInv
    <3>3. ticket[q].token < nextToken'
      BY <3>2 DEF IInv, EntriesInv
    <3>4. CASE asked[q].key = k
      BY <3>1, <3>2, <3>3, <3>4, <1>2
    <3>5. CASE asked[q].key # k
      <4>1. SUFFICES ASSUME asked[q].key \in DOMAIN entries',
                            entries'[asked[q].key].token = ticket[q].token
                     PROVE  /\ ticket[q].cycle <= entries'[asked[q].key].cycle
                            /\ ticket[q].version <= entries'[asked[q].key].version
        BY <3>1, <3>2, <3>3
      <4>2. /\ asked[q].key \in DOMAIN entries
            /\ entries'[asked[q].key] = entries[asked[q].key]
        BY <4>1, <3>5, <1>2
      <4> QED BY <4>1, <4>2, <3>1 DEF IInv, TicketsInv
    <3> QED BY <3>4, <3>5
  <2> QED BY <2>1, <2>2
<1>7. \A j \in DOMAIN entries' \ {k} : Open(j)' = Open(j)
  BY <1>1, <1>2, <1>3 DEF Open
<1> QED BY <1>1, <1>2, <1>3, <1>4, <1>5, <1>6, <1>7

\* A scope as the promise sees it, after a request entered it.
LEMMA EnteringHolds ==
  ASSUME NEW gone, NEW e, NEW k,
         DOMAIN entries' = (DOMAIN entries \ gone) \cup {k}, entries'[k] = e,
         \A j \in DOMAIN entries' \ {k} :
              entries'[j] = entries[j] /\ Open(j)' = Open(j)
  PROVE  Holds' = Promise!With(Promise!Without(Holds, gone \cap DOMAIN Holds), k,
                    [instructions |-> e.instructions, history |-> e.history,
                     route |-> e.route.by, open |-> Open(k)'])
BY DEF Holds, Promise!With, Promise!Without

LEMMA EnteringHints ==
  ASSUME NEW r \in Requests, NEW e, NEW h, r \notin DOMAIN ticket,
         DOMAIN ticket' = DOMAIN ticket \cup {r}, ticket'[r] = Ticket(e, h),
         \A q \in DOMAIN ticket : ticket'[q] = ticket[q]
  PROVE  Hints' = Promise!With(Hints, r, h)
BY DEF Hints, Promise!With, Ticket

\* An entry touched by a request is an entry.
LEMMA Touched ==
  ASSUME IInv, NEW r \in Requests, stage[r] = "measuring", NEW e \in Entry,
         Touch(r, e), asked[r].key \in DOMAIN entries
  PROVE  \E d \in Entry :
           /\ entries' = With(Kept({}), asked[r].key, d)
           /\ d.token = e.token /\ d.cycle = e.cycle /\ d.version = e.version
           /\ d.route = e.route
           /\ d.instructions = asked[r].instructions
           /\ d.history = asked[r].history
           /\ d.access = since[r] /\ d.order = clock + 1
           /\ clock' = clock + 1
<1> DEFINE d == [e EXCEPT !.revision = @ + 1, !.instructions = asked[r].instructions,
                          !.history = asked[r].history, !.access = since[r],
                          !.order = clock + 1]
<1>1. /\ entries' = [entries EXCEPT ![asked[r].key] = d] /\ clock' = clock + 1
  BY DEF Touch
<1>2. /\ since[r] \in Nat /\ clock \in Nat
  BY DEF IInv, EntriesInv, RequestsInv
<1>3. d \in Entry
  <2>1. /\ asked[r].instructions \in {p.instructions : p \in Prompts}
        /\ asked[r].history \in Seq(Messages)
    BY PromptOf
  <2>2. /\ e.revision + 1 \in Nat /\ clock + 1 \in Nat \ {0}
    BY <1>2 DEF Entry
  <2> QED BY <1>2, <2>1, <2>2 DEF Entry
<1>4. entries' = With(Kept({}), asked[r].key, d)
  BY <1>1 DEF With, Kept, IInv, EntriesInv
<1>5. /\ d.token = e.token /\ d.cycle = e.cycle /\ d.version = e.version
      /\ d.route = e.route
      /\ d.instructions = asked[r].instructions
      /\ d.history = asked[r].history
      /\ d.access = since[r] /\ d.order = clock + 1
  BY DEF Entry
<1> QED BY <1>1, <1>3, <1>4, <1>5

\* What the request compares is whether it extends the scope.
LEMMA ContinuesOrNot ==
  ASSUME IInv, NEW r \in Requests, stage[r] = "measuring", snapshot[r] # None,
         Unchanged(r)
  PROVE  LET k == asked[r].key
         IN  /\ k \in DOMAIN entries /\ entries[k] \in Entry
             /\ k \in DOMAIN Holds
             /\ Continues(r) <=> Promise!Extends(asked[r], Holds[k])
             /\ Continues(r) => /\ asked[r].instructions = entries[k].instructions
                                /\ IsPrefix(entries[k].history, asked[r].history)
<1> DEFINE k == asked[r].key
<1>1. /\ k \in DOMAIN entries
      /\ snapshot[r] = SnapshotOf(entries[k])
  BY DEF Unchanged
<1>2. entries[k] \in Entry
  BY <1>1 DEF IInv, EntriesInv
<1>3. /\ snapshot[r].history = entries[k].history
      /\ snapshot[r].instructions = entries[k].instructions
  BY <1>1 DEF SnapshotOf
<1>4. entries[k].history \in Seq(Messages) /\ asked[r].history \in Seq(Messages)
  BY <1>2, PromptOf DEF Entry
<1>5. Continues(r) <=> /\ asked[r].instructions = entries[k].instructions
                       /\ IsPrefix(entries[k].history, asked[r].history)
  BY <1>3, <1>4, PrefixByDigest DEF Continues
<1>6. /\ k \in DOMAIN Holds
      /\ Holds[k].instructions = entries[k].instructions
      /\ Holds[k].history = entries[k].history
  BY <1>1 DEF Holds
<1> QED BY <1>1, <1>2, <1>5, <1>6 DEF Promise!Extends, Promise!IsPrefix, IsPrefix

-----------------------------------------------------------------------------
(* The steps of a request                                                    *)

LEMMA AccessTime ==
  ASSUME IInv, NEW r \in Requests
  PROVE  since[r] \in Nat /\ since[r] <= now
BY DEF IInv, RequestsInv

\* The request continues the scope, and is given its route.
LEMMA Continuing ==
  ASSUME IInv, NEW r \in Requests, Continue(r)
  PROVE  IInv' /\ Promise!HoldNext
<1>0. PICK k, e : k = asked[r].key /\ e = entries[k]
  OBVIOUS
<1>1. /\ stage[r] = "measuring" /\ snapshot[r] # None
      /\ Unchanged(r) /\ Continues(r) /\ Touch(r, e)
      /\ Routed(r, Ticket(e, e.route.by))
      /\ nextToken' = nextToken /\ now' = now
  BY <1>0 DEF Continue
<1>2. /\ k \in DOMAIN entries /\ e \in Entry /\ k \in DOMAIN Holds
      /\ Promise!Extends(asked[r], Holds[k])
      /\ asked[r].instructions = e.instructions
      /\ IsPrefix(e.history, asked[r].history)
  BY <1>0, <1>1, ContinuesOrNot
<1>3. PICK d \in Entry :
        /\ entries' = With(Kept({}), k, d)
        /\ d.token = e.token /\ d.cycle = e.cycle /\ d.version = e.version
        /\ d.route = e.route
        /\ d.instructions = asked[r].instructions
        /\ d.history = asked[r].history
        /\ d.access = since[r] /\ d.order = clock + 1
        /\ clock' = clock + 1
  BY <1>0, <1>1, <1>2, Touched
<1>4. Ticket(e, e.route.by) = Ticket(d, e.route.by)
  BY <1>3 DEF Ticket
<1>5. /\ nextToken' \in Nat /\ nextToken' >= nextToken /\ d.token < nextToken'
      /\ clock' \in Nat /\ clock' >= clock /\ d.order <= clock'
      /\ d.access <= now
  <2>1. /\ nextToken \in Nat /\ clock \in Nat /\ e.token < nextToken
    BY <1>0, <1>2 DEF IInv, EntriesInv
  <2>2. since[r] \in Nat /\ since[r] <= now
    BY AccessTime
  <2> QED BY <1>1, <1>3, <2>1, <2>2
<1>6. \A q \in DOMAIN ticket :
        asked[q].key = k /\ ticket[q].token = d.token
          => ticket[q].cycle <= d.cycle /\ ticket[q].version <= d.version
  BY <1>0, <1>2, <1>3 DEF IInv, TicketsInv
<1>7. /\ EntriesInv' /\ RequestsInv' /\ TicketsInv'
      /\ DOMAIN entries' = (DOMAIN entries \ {}) \cup {k}
      /\ entries'[k] = d
      /\ \A j \in DOMAIN entries' \ {k} :
           entries'[j] = entries[j] /\ Open(j)' = Open(j)
      /\ asked' = asked
      /\ r \notin DOMAIN ticket
      /\ DOMAIN ticket' = DOMAIN ticket \cup {r}
      /\ ticket'[r] = Ticket(d, e.route.by)
      /\ \A q \in DOMAIN ticket : ticket'[q] = ticket[q]
  <2>1. Routed(r, Ticket(d, e.route.by))
    BY <1>1, <1>4
  <2>2. entries' = With(Kept({}), asked[r].key, d)
    BY <1>0, <1>3
  <2>3. \A q \in DOMAIN ticket :
          asked[q].key = asked[r].key /\ ticket[q].token = d.token
            => ticket[q].cycle <= d.cycle /\ ticket[q].version <= d.version
    BY <1>0, <1>6
  <2>4. /\ EntriesInv' /\ RequestsInv' /\ TicketsInv'
        /\ DOMAIN entries' = (DOMAIN entries \ {}) \cup {asked[r].key}
        /\ entries'[asked[r].key] = d
        /\ \A j \in DOMAIN entries' \ {asked[r].key} :
             entries'[j] = entries[j] /\ Open(j)' = Open(j)
        /\ asked' = asked
        /\ r \notin DOMAIN ticket
        /\ DOMAIN ticket' = DOMAIN ticket \cup {r}
        /\ ticket'[r] = Ticket(d, e.route.by)
        /\ \A q \in DOMAIN ticket : ticket'[q] = ticket[q]
    BY <1>1, <1>5, <2>1, <2>2, <2>3, Entering
  <2> QED BY <1>0, <2>4
<1>8. Open(k)' = Open(k) \cup {r}
  BY <1>0, <1>2, <1>3, <1>7 DEF Open, Ticket
<1>9. HistoriesInv'
  <2>1. Branch(r, k, d.instructions, d.history)
    BY <1>0, <1>1, <1>3, PromptOf, PrefixItself DEF Branch
  <2>2. \A q : Branch(q, k, e.instructions, e.history)
                 => Branch(q, k, d.instructions, d.history)
    <3> SUFFICES ASSUME NEW q, Branch(q, k, e.instructions, e.history)
                 PROVE  Branch(q, k, d.instructions, d.history)
      OBVIOUS
    <3>1. /\ q \in DOMAIN asked /\ asked[q].key = k
          /\ asked[q].instructions = d.instructions
          /\ IsPrefix(asked[q].history, e.history)
      BY <1>2, <1>3 DEF Branch
    <3>2. asked[q].history \in Seq(Messages)
      BY <3>1, HoldAssumption DEF IInv, RequestsInv
    <3>3. e.history \in Seq(Messages) /\ d.history \in Seq(Messages)
      BY <1>2, <1>3 DEF Entry
    <3>4. IsPrefix(asked[q].history, d.history)
      BY <1>2, <1>3, <3>1, <3>2, <3>3, PrefixTransitive
    <3> QED BY <3>1, <3>4 DEF Branch
  <2>3. /\ d.route.by # NoHint => Branch(d.route.by, k, d.instructions, d.history)
        /\ \A q \in Open(k)' : Branch(q, k, d.instructions, d.history)
    BY <1>0, <1>2, <1>3, <1>8, <2>1, <2>2 DEF IInv, HistoriesInv
  <2>4. \A j \in DOMAIN entries' \ {k} :
          /\ entries'[j].route.by # NoHint =>
               Branch(entries'[j].route.by, j, entries'[j].instructions,
                      entries'[j].history)
          /\ \A q \in Open(j)' :
               Branch(q, j, entries'[j].instructions, entries'[j].history)
    BY <1>7 DEF IInv, HistoriesInv
  <2> QED BY <1>7, <2>3, <2>4 DEF HistoriesInv, Branch
<1>10. HintsInv'
  <2>1. e.route.by # NoHint =>
          Branch(e.route.by, k, asked[r].instructions, asked[r].history)
    <3> SUFFICES ASSUME e.route.by # NoHint
                 PROVE  Branch(e.route.by, k, asked[r].instructions, asked[r].history)
      OBVIOUS
    <3>1. Branch(e.route.by, k, e.instructions, e.history)
      BY <1>0, <1>2 DEF IInv, HistoriesInv
    <3>2. /\ asked[e.route.by].history \in Seq(Messages)
          /\ e.history \in Seq(Messages) /\ asked[r].history \in Seq(Messages)
      BY <1>1, <1>2, <3>1, HoldAssumption, PromptOf
      DEF Branch, IInv, RequestsInv, Entry
    <3>3. IsPrefix(asked[e.route.by].history, asked[r].history)
      BY <1>2, <3>1, <3>2, PrefixTransitive DEF Branch
    <3> QED BY <1>2, <3>1, <3>3 DEF Branch
  <2> QED BY <1>0, <1>7, <2>1 DEF IInv, HintsInv, Branch, Ticket
<1>11. Promise!HoldNext
  <2>1. Hints' = Promise!With(Hints, r, e.route.by)
    BY <1>7, EnteringHints
  <2>2. Holds' = Promise!With(Promise!Without(Holds, {} \cap DOMAIN Holds), k,
                   [instructions |-> d.instructions, history |-> d.history,
                    route |-> d.route.by, open |-> Open(k)'])
    BY <1>7, EnteringHolds
  <2>3. /\ Promise!Without(Holds, {} \cap DOMAIN Holds) = Holds
        /\ Holds[k].route = e.route.by /\ Holds[k].open = Open(k)
    BY <1>0, <1>2 DEF Holds, Promise!Without
  <2>4. Promise!Enter(r, Holds[k].route)
    BY <1>1, <1>7, <2>1, <2>3, PromptOf DEF Promise!Enter, Hints
  <2>5. Promise!Continue(r)
    BY <1>0, <1>2, <1>3, <1>8, <2>2, <2>3, <2>4 DEF Promise!Continue, Promise!Scope
  <2> QED BY <1>1, <2>5, PromptOf DEF Promise!HoldNext
<1> QED BY <1>7, <1>9, <1>10, <1>11 DEF IInv

\* A request that starts its scope afresh is alone in it and is given no route.
LEMMA Starting ==
  ASSUME IInv, NEW r \in Requests, stage[r] = "measuring", NEW gone, NEW k,
         k = asked[r].key, NEW e \in Entry,
         e.instructions = asked[r].instructions, e.history = asked[r].history,
         e.route = NoRoute,
         entries' = With(Kept(gone), k, e), Routed(r, Ticket(e, NoHint)),
         nextToken' \in Nat, nextToken' >= nextToken, e.token < nextToken',
         clock' \in Nat, clock' >= clock, e.order <= clock',
         now' = now, e.access <= now,
         \A q \in DOMAIN ticket :
           asked[q].key = k /\ ticket[q].token = e.token
             => ticket[q].cycle < e.cycle /\ ticket[q].version <= e.version
  PROVE  /\ IInv'
         /\ Promise!Enter(r, NoHint)
         /\ Holds' = Promise!With(Promise!Without(Holds, gone \cap DOMAIN Holds), k,
                                  Promise!Scope(asked[r], NoHint, {r}))
<1>1. \A q \in DOMAIN ticket :
        asked[q].key = asked[r].key /\ ticket[q].token = e.token
          => ticket[q].cycle <= e.cycle /\ ticket[q].version <= e.version
  BY DEF IInv, TicketsInv, Entry
<1>2. /\ EntriesInv' /\ RequestsInv' /\ TicketsInv'
      /\ DOMAIN entries' = (DOMAIN entries \ gone) \cup {asked[r].key}
      /\ entries'[asked[r].key] = e
      /\ \A j \in DOMAIN entries' \ {asked[r].key} :
           entries'[j] = entries[j] /\ Open(j)' = Open(j)
      /\ asked' = asked
      /\ r \notin DOMAIN ticket
      /\ DOMAIN ticket' = DOMAIN ticket \cup {r}
      /\ ticket'[r] = Ticket(e, NoHint)
      /\ \A q \in DOMAIN ticket : ticket'[q] = ticket[q]
  <2>1. entries' = With(Kept(gone), asked[r].key, e)
    OBVIOUS
  <2> QED BY <1>1, <2>1, Entering
<1>3. /\ DOMAIN entries' = (DOMAIN entries \ gone) \cup {k}
      /\ entries'[k] = e
      /\ \A j \in DOMAIN entries' \ {k} :
           entries'[j] = entries[j] /\ Open(j)' = Open(j)
  BY <1>2
<1>4. Open(k)' = {r}
  <2>1. \A q \in DOMAIN ticket :
          ~ /\ asked[q].key = k
            /\ ticket[q].token = e.token /\ ticket[q].cycle = e.cycle
    BY DEF Entry, IInv, TicketsInv
  <2> QED BY <1>2, <1>3, <2>1 DEF Open, Ticket
<1>5. HistoriesInv'
  <2>1. Branch(r, k, e.instructions, e.history)
    BY PromptOf, PrefixItself DEF Branch
  <2>2. e.route.by = NoHint
    BY DEF NoRoute
  <2>3. \A j \in DOMAIN entries' \ {k} :
          /\ entries'[j].route.by # NoHint =>
               Branch(entries'[j].route.by, j, entries'[j].instructions,
                      entries'[j].history)
          /\ \A q \in Open(j)' :
               Branch(q, j, entries'[j].instructions, entries'[j].history)
    BY <1>3 DEF IInv, HistoriesInv
  <2> QED BY <1>2, <1>3, <1>4, <2>1, <2>2, <2>3 DEF HistoriesInv, Branch
<1>6. HintsInv'
  BY <1>2 DEF IInv, HintsInv, Branch, Ticket
<1>7. Promise!Enter(r, NoHint)
  <2>1. Hints' = Promise!With(Hints, r, NoHint)
    BY <1>2, EnteringHints
  <2> QED BY <1>2, <2>1, PromptOf DEF Promise!Enter, Hints
<1>8. Holds' = Promise!With(Promise!Without(Holds, gone \cap DOMAIN Holds), k,
                            Promise!Scope(asked[r], NoHint, {r}))
  <2>1. Holds' = Promise!With(Promise!Without(Holds, gone \cap DOMAIN Holds), k,
                   [instructions |-> e.instructions, history |-> e.history,
                    route |-> e.route.by, open |-> Open(k)'])
    BY <1>3 DEF Holds, Promise!With, Promise!Without
  <2>2. [instructions |-> e.instructions, history |-> e.history,
         route |-> e.route.by, open |-> Open(k)'] = Promise!Scope(asked[r], NoHint, {r})
    <3>1. e.route.by = NoHint
      BY DEF NoRoute
    <3> QED BY <1>4, <3>1 DEF Promise!Scope
  <2> QED BY <2>1, <2>2
<1> QED BY <1>2, <1>5, <1>6, <1>7, <1>8 DEF IInv

\* The request shows another history: the scope opens a new cycle.
LEMMA Restarting ==
  ASSUME IInv, NEW r \in Requests, Restart(r)
  PROVE  IInv' /\ Promise!HoldNext
<1>0. PICK k, e : /\ k = asked[r].key
                  /\ e = [entries[k] EXCEPT !.cycle = @ + 1, !.version = @ + 1,
                                            !.route = NoRoute]
  OBVIOUS
<1>1. /\ stage[r] = "measuring" /\ snapshot[r] # None
      /\ Unchanged(r) /\ ~Continues(r) /\ Touch(r, e)
      /\ Routed(r, Ticket(e, NoHint))
      /\ nextToken' = nextToken /\ now' = now
  BY <1>0 DEF Restart
<1>2. /\ k \in DOMAIN entries /\ entries[k] \in Entry /\ k \in DOMAIN Holds
      /\ ~Promise!Extends(asked[r], Holds[k])
  BY <1>0, <1>1, ContinuesOrNot
<1>3. /\ e \in Entry /\ e.token = entries[k].token
      /\ e.cycle = entries[k].cycle + 1 /\ e.version = entries[k].version + 1
      /\ e.route = NoRoute
  <2>1. NoRoute \in [by : Requests \cup {NoHint}, bytes : Nat]
    BY DEF NoRoute
  <2>2. entries[k].cycle + 1 \in Nat /\ entries[k].version + 1 \in Nat
    BY <1>2 DEF Entry
  <2> QED BY <1>0, <1>2, <2>1, <2>2 DEF Entry
<1>4. PICK d \in Entry :
        /\ entries' = With(Kept({}), k, d)
        /\ d.token = e.token /\ d.cycle = e.cycle /\ d.version = e.version
        /\ d.route = e.route
        /\ d.instructions = asked[r].instructions
        /\ d.history = asked[r].history
        /\ d.access = since[r] /\ d.order = clock + 1
        /\ clock' = clock + 1
  <2>1. Touch(r, e) /\ asked[r].key \in DOMAIN entries
    BY <1>0, <1>1, <1>2
  <2>2. \E d \in Entry :
          /\ entries' = With(Kept({}), asked[r].key, d)
          /\ d.token = e.token /\ d.cycle = e.cycle /\ d.version = e.version
          /\ d.route = e.route
          /\ d.instructions = asked[r].instructions
          /\ d.history = asked[r].history
          /\ d.access = since[r] /\ d.order = clock + 1
          /\ clock' = clock + 1
    BY <1>1, <1>3, <2>1, Touched
  <2> QED BY <1>0, <2>2
<1>5. /\ nextToken' \in Nat /\ nextToken' >= nextToken /\ d.token < nextToken'
      /\ clock' \in Nat /\ clock' >= clock /\ d.order <= clock'
      /\ d.access <= now
  <2>1. /\ nextToken \in Nat /\ clock \in Nat /\ entries[k].token < nextToken
    BY <1>2 DEF IInv, EntriesInv
  <2>2. since[r] \in Nat /\ since[r] <= now
    BY AccessTime
  <2> QED BY <1>1, <1>3, <1>4, <2>1, <2>2
<1>6. \A q \in DOMAIN ticket :
        asked[q].key = k /\ ticket[q].token = d.token
          => ticket[q].cycle < d.cycle /\ ticket[q].version <= d.version
  <2>1. entries[k].cycle \in Nat /\ entries[k].version \in Nat
    BY <1>2 DEF Entry
  <2>2. \A q \in DOMAIN ticket :
          /\ ticket[q].cycle \in Nat /\ ticket[q].version \in Nat
          /\ asked[q].key = k /\ ticket[q].token = entries[k].token
               => /\ ticket[q].cycle <= entries[k].cycle
                  /\ ticket[q].version <= entries[k].version
    BY <1>2 DEF IInv, TicketsInv
  <2> QED BY <1>3, <1>4, <2>1, <2>2
<1>7. Ticket(e, NoHint) = Ticket(d, NoHint)
  BY <1>4 DEF Ticket
<1>8. /\ IInv'
      /\ Promise!Enter(r, NoHint)
      /\ Holds' = Promise!With(Promise!Without(Holds, {} \cap DOMAIN Holds), k,
                               Promise!Scope(asked[r], NoHint, {r}))
  <2>1. Routed(r, Ticket(d, NoHint)) /\ d.route = NoRoute
    BY <1>1, <1>3, <1>4, <1>7
  <2> QED BY <1>0, <1>1, <1>4, <1>5, <1>6, <2>1, Starting
<1>9. Promise!Without(Holds, {} \cap DOMAIN Holds) = Holds
  BY DEF Holds, Promise!Without
<1>10. Promise!Restart(r)
  BY <1>0, <1>2, <1>8, <1>9 DEF Promise!Restart
<1> QED BY <1>1, <1>8, <1>10, PromptOf DEF Promise!HoldNext

\* Another request won the scope: this one gives it up.
LEMMA Contending ==
  ASSUME IInv, NEW r \in Requests, Contended(r)
  PROVE  IInv' /\ Promise!HoldNext
<1> DEFINE gone == ExpiredAt(asked[r].key, since[r])
<1>1. /\ stage[r] = "measuring" /\ entries' = Kept(gone) /\ Unrouted(r)
      /\ nextToken' = nextToken /\ clock' = clock /\ now' = now
  BY DEF Contended, RemoveEntries
<1>2. nextToken \in Nat /\ clock \in Nat
  BY DEF IInv, EntriesInv
<1> HIDE DEF gone
<1> QED BY <1>1, <1>2, GivingUp

\* The scope is new, or the request gives it up for want of room.
LEMMA Inserting ==
  ASSUME IInv, NEW r \in Requests, Insert(r)
  PROVE  IInv' /\ Promise!HoldNext
<1>0. PICK k, gone, all, e :
        /\ k = asked[r].key
        /\ gone = ExpiredAt(k, since[r])
        /\ all = gone \cup Evicted(gone, {}, 1, 0)
        /\ e = [token |-> nextToken, cycle |-> 1, revision |-> 1, version |-> 0,
                instructions |-> asked[r].instructions,
                history |-> asked[r].history,
                route |-> NoRoute, access |-> since[r], order |-> clock + 1]
  OBVIOUS
<1>1. /\ stage[r] = "measuring" /\ Absent(r)
      /\ nextToken' = nextToken + 1 /\ clock' = clock + 1 /\ now' = now
      /\ \/ entries' = Kept(all) /\ Unrouted(r)
         \/ entries' = With(Kept(all), k, e) /\ Routed(r, Ticket(e, NoHint))
  BY <1>0 DEF Insert, AllocateToken, RemoveEntries
<1>2. /\ nextToken \in Nat \ {0} /\ clock \in Nat /\ now \in Nat
      /\ since[r] \in Nat /\ since[r] <= now
  BY AccessTime DEF IInv, EntriesInv
<1>3. CASE entries' = Kept(all) /\ Unrouted(r)
  BY <1>1, <1>2, <1>3, GivingUp
<1>4. CASE entries' = With(Kept(all), k, e) /\ Routed(r, Ticket(e, NoHint))
  <2>1. /\ e.token = nextToken /\ e.cycle = 1 /\ e.version = 0
        /\ e.route = NoRoute
        /\ e.instructions = asked[r].instructions
        /\ e.history = asked[r].history
        /\ e.access = since[r] /\ e.order = clock + 1
    BY <1>0
  <2>2. e \in Entry
    <3>1. NoRoute \in [by : Requests \cup {NoHint}, bytes : Nat]
      BY DEF NoRoute
    <3>2. /\ asked[r].instructions \in {p.instructions : p \in Prompts}
          /\ asked[r].history \in Seq(Messages)
      BY <1>1, PromptOf
    <3> QED BY <1>0, <1>2, <3>1, <3>2 DEF Entry
  <2>3. \A q \in DOMAIN ticket : ticket[q].token # e.token
    BY <1>2, <2>1 DEF IInv, TicketsInv
  <2>4. /\ nextToken' \in Nat /\ nextToken' >= nextToken /\ e.token < nextToken'
        /\ clock' \in Nat /\ clock' >= clock /\ e.order <= clock'
        /\ e.access <= now
    BY <1>1, <1>2, <2>1
  <2>5. /\ IInv'
        /\ Promise!Enter(r, NoHint)
        /\ Holds' = Promise!With(Promise!Without(Holds, all \cap DOMAIN Holds), k,
                                 Promise!Scope(asked[r], NoHint, {r}))
    <3>1. k = asked[r].key /\ stage[r] = "measuring" /\ now' = now
      BY <1>0, <1>1
    <3>2. /\ e.instructions = asked[r].instructions
          /\ e.history = asked[r].history /\ e.route = NoRoute
      BY <2>1
    <3>3. \A q \in DOMAIN ticket :
            asked[q].key = k /\ ticket[q].token = e.token
              => ticket[q].cycle < e.cycle /\ ticket[q].version <= e.version
      BY <2>3
    <3> QED BY <1>4, <2>2, <2>4, <3>1, <3>2, <3>3, Starting
  <2>6. k \notin DOMAIN Holds \ (all \cap DOMAIN Holds)
    BY <1>0, <1>1 DEF Absent, Holds
  <2>7. Promise!Open(r, all \cap DOMAIN Holds)
    BY <1>0, <2>5, <2>6 DEF Promise!Open
  <2>8. all \cap DOMAIN Holds \in SUBSET DOMAIN Holds
    OBVIOUS
  <2>9. Promise!HoldNext
    BY <2>7, <2>8 DEF Promise!HoldNext
  <2> QED BY <2>5, <2>9
<1> QED BY <1>1, <1>3, <1>4

\* A complete answer is recorded if its ticket is still good and there is room.
LEMMA Completing ==
  ASSUME IInv, NEW r \in Requests, NEW bytes \in RouteBytes, NEW t,
         Complete(r, bytes, t)
  PROVE  IInv' /\ Promise!HoldNext
<1>0. PICK k, gone, all :
        /\ k = asked[r].key
        /\ gone = Purged(t) \cup ExpiredAt(k, t)
        /\ all = gone \cup Evicted(gone, {k}, 0, bytes - entries[k].route.bytes)
  OBVIOUS
<1>1. /\ stage[r] = "routed" /\ stage' = [stage EXCEPT ![r] = "done"]
      /\ UNCHANGED <<nextToken, clock, now, asked, since, snapshot, ticket>>
      /\ \/ entries' = Kept(gone) /\ applied' = applied
         \/ entries' = Kept(all) /\ applied' = applied
         \/ /\ Valid(r, gone)
            /\ entries' = [Kept(all) EXCEPT
                             ![k].route = [by |-> r, bytes |-> bytes],
                             ![k].version = @ + 1]
            /\ applied' = applied \cup {r}
  BY <1>0 DEF Complete, RemoveEntries
<1>2. /\ nextToken \in Nat /\ clock \in Nat /\ now \in Nat
      /\ r \in DOMAIN ticket /\ r \in DOMAIN asked
  BY <1>1, PromptOf DEF IInv, EntriesInv, RequestsInv
<1>3. RequestsInv'
  BY <1>1, <1>2 DEF IInv, RequestsInv
<1>4. ASSUME NEW rid, entries' = Kept(rid)
      PROVE  IInv' /\ Promise!HoldNext
  <2>1. /\ EntriesInv' /\ TicketsInv' /\ HistoriesInv' /\ HintsInv'
        /\ Holds' = Promise!Without(Holds, rid \cap DOMAIN Holds)
        /\ Hints' = Hints
    BY <1>1, <1>2, <1>4, Removal
  <2>2. Promise!Forget(rid \cap DOMAIN Holds)
    <3>1. asked' = asked
      BY <1>1
    <3> QED BY <2>1, <3>1 DEF Promise!Forget
  <2>3. rid \cap DOMAIN Holds \in SUBSET DOMAIN Holds
    OBVIOUS
  <2>4. Promise!HoldNext
    BY <2>2, <2>3 DEF Promise!HoldNext
  <2> QED BY <1>3, <2>1, <2>4 DEF IInv
<1>5. ASSUME Valid(r, gone),
             entries' = [Kept(all) EXCEPT ![k].route = [by |-> r, bytes |-> bytes],
                                          ![k].version = @ + 1]
      PROVE  IInv' /\ Promise!HoldNext
  <2>1. k \in DOMAIN entries \ all
    <3>1. k \in DOMAIN entries \ gone
      BY <1>0, <1>5 DEF Valid
    <3>2. k \notin Evicted(gone, {k}, 0, bytes - entries[k].route.bytes)
      BY OldestAmong DEF Evicted
    <3> QED BY <1>0, <3>1, <3>2
  <2>2. PICK e, d : /\ e = entries[k]
                    /\ d = [e EXCEPT !.route = [by |-> r, bytes |-> bytes],
                                     !.version = @ + 1]
    OBVIOUS
  <2>3. e \in Entry /\ e.version \in Nat
    BY <2>1, <2>2 DEF IInv, EntriesInv, Entry
  <2>4. /\ d \in Entry
        /\ d.token = e.token /\ d.cycle = e.cycle /\ d.version = e.version + 1
        /\ d.instructions = e.instructions /\ d.history = e.history
        /\ d.route = [by |-> r, bytes |-> bytes]
        /\ d.access = e.access /\ d.order = e.order
    <3>1. [by |-> r, bytes |-> bytes] \in [by : Requests \cup {NoHint}, bytes : Nat]
      BY HoldAssumption
    <3>2. e.version + 1 \in Nat
      BY <2>3
    <3> QED BY <2>2, <2>3, <3>1, <3>2 DEF Entry
  <2>5. /\ DOMAIN entries' = DOMAIN entries \ all
        /\ entries'[k] = d
        /\ \A j \in DOMAIN entries' \ {k} : entries'[j] = entries[j]
    BY <1>5, <2>1, <2>2 DEF Kept
  <2>6. EntriesInv'
    <3>1. entries' \in [DOMAIN entries' -> Entry]
      BY <1>5, <2>4, <2>5 DEF Kept, IInv, EntriesInv
    <3>2. /\ d.token < nextToken /\ d.order <= clock /\ d.access <= now
      BY <2>1, <2>2, <2>4 DEF IInv, EntriesInv
    <3> QED BY <1>1, <2>5, <3>1, <3>2 DEF IInv, EntriesInv
  <2>7. \A q \in DOMAIN ticket :
          /\ ticket[q].cycle \in Nat /\ ticket[q].version \in Nat
          /\ asked[q].key = k /\ ticket[q].token = e.token
               => ticket[q].cycle <= e.cycle /\ ticket[q].version <= e.version
    BY <2>1, <2>2 DEF IInv, TicketsInv
  <2>8. TicketsInv'
    <3> SUFFICES ASSUME NEW q \in DOMAIN ticket,
                        asked[q].key \in DOMAIN entries',
                        entries'[asked[q].key].token = ticket[q].token
                 PROVE  /\ ticket[q].cycle <= entries'[asked[q].key].cycle
                        /\ ticket[q].version <= entries'[asked[q].key].version
      BY <1>1 DEF TicketsInv, IInv
    <3>1. CASE asked[q].key = k
      BY <2>3, <2>4, <2>5, <2>7, <3>1
    <3>2. CASE asked[q].key # k
      BY <2>5, <3>2 DEF IInv, TicketsInv
    <3> QED BY <3>1, <3>2
  <2>9. Open(k)' = {}
    BY <1>1, <2>3, <2>4, <2>5, <2>7 DEF Open
  <2>10. \A j \in DOMAIN entries' \ {k} : Open(j)' = Open(j)
    BY <1>1, <2>5 DEF Open
  <2>11. r \in Open(k)
    BY <1>0, <1>2, <1>5 DEF Valid, Open
  <2>12. HistoriesInv'
    <3>1. Branch(r, k, d.instructions, d.history)
      BY <2>1, <2>2, <2>4, <2>11 DEF IInv, HistoriesInv
    <3>2. d.route.by = r
      BY <2>4
    <3>3. \A j \in DOMAIN entries' \ {k} :
            /\ entries'[j].route.by # NoHint =>
                 Branch(entries'[j].route.by, j, entries'[j].instructions,
                        entries'[j].history)
            /\ \A q \in Open(j)' :
                 Branch(q, j, entries'[j].instructions, entries'[j].history)
      BY <2>5, <2>10 DEF IInv, HistoriesInv
    <3>4. asked' = asked
      BY <1>1
    <3> QED BY <2>5, <2>9, <3>1, <3>2, <3>3, <3>4 DEF HistoriesInv, Branch
  <2>13. HintsInv'
    BY <1>1 DEF IInv, HintsInv, Branch
  <2>14. Promise!HoldNext
    <3> DEFINE S == all \cap DOMAIN Holds
    <3>1. DOMAIN Holds = DOMAIN entries
      BY DEF Holds
    <3>2. k \in DOMAIN Holds \ S /\ r \in Holds[k].open
      BY <2>1, <2>11, <3>1 DEF Holds
    <3>3. Holds' = Promise!With(Promise!Without(Holds, S), k,
                                Promise!Scope(Holds[k], r, {}))
      <4>1. Promise!Scope(Holds[k], r, {})
              = [instructions |-> d.instructions, history |-> d.history,
                 route |-> d.route.by, open |-> Open(k)']
        <5>1. /\ Holds[k].instructions = d.instructions
              /\ Holds[k].history = d.history
          BY <2>1, <2>2, <2>4 DEF Holds
        <5>2. d.route.by = r
          BY <2>4
        <5> QED BY <2>9, <5>1, <5>2 DEF Promise!Scope
      <4>2. DOMAIN entries' = (DOMAIN entries \ all) \cup {k}
        BY <2>1, <2>5
      <4>3. Holds' = Promise!With(Promise!Without(Holds, S), k,
                       [instructions |-> d.instructions, history |-> d.history,
                        route |-> d.route.by, open |-> Open(k)'])
        BY <2>5, <2>10, <4>2 DEF Holds, Promise!With, Promise!Without
      <4> QED BY <4>1, <4>3
    <3>4. UNCHANGED <<asked, Hints>>
      BY <1>1 DEF Hints
    <3>5. Promise!Record(r, S)
      BY <3>2, <3>3, <3>4 DEF Promise!Record
    <3>6. S \in SUBSET DOMAIN Holds
      OBVIOUS
    <3> QED BY <3>5, <3>6 DEF Promise!HoldNext
  <2> QED BY <1>3, <2>6, <2>8, <2>12, <2>13, <2>14 DEF IInv
<1> QED BY <1>1, <1>4, <1>5

-----------------------------------------------------------------------------
(* The index and the account of the bytes                                    *)

\* There are finitely many entries, each with its record in the index; the
\* account is the sum of what they take, and it is within the budget.
AccountInv ==
  /\ IsFiniteSet(DOMAIN entries)
  /\ IndexAgrees
  /\ WithinBudget

\* What the scopes of a table take, and the account of some of them.
BytesIn(table) == [k \in DOMAIN table |-> table[k].route.bytes]

Account(table, S) == SumFunctionOnSet(BytesIn(table), S)

LEMMA SumOverTable ==
  ASSUME NEW table, IsFiniteSet(DOMAIN table), NEW S \in SUBSET DOMAIN table,
         \A k \in DOMAIN table : table[k].route.bytes \in Nat
  PROVE  /\ SumFunction([k \in S |-> table[k].route.bytes]) = Account(table, S)
         /\ Account(table, S) \in Nat
<1>1. \A k \in DOMAIN table : BytesIn(table)[k] \in Nat
  BY DEF BytesIn
<1>2. IsFiniteSet(S)
  BY FS_Subset
<1> DEFINE f == [k \in S |-> table[k].route.bytes]
<1>3. \A k \in S : f[k] = BytesIn(table)[k]
  BY DEF BytesIn
<1>4. SumFunction(f) = SumFunctionOnSet(f, S)
  BY DEF SumFunction
<1>5. SumFunctionOnSet(f, S) = SumFunctionOnSet(BytesIn(table), S)
  <2> HIDE DEF f
  <2> QED BY <1>2, <1>3, SumAgrees
<1>6. SumFunctionOnSet(BytesIn(table), S) \in Nat
  BY <1>1, <1>2, SumIsNumber
<1> QED BY <1>4, <1>5, <1>6 DEF Account

\* What is taken from a table and what is left of it add up.
LEMMA AccountSplits ==
  ASSUME NEW table, IsFiniteSet(DOMAIN table), NEW S \in SUBSET DOMAIN table,
         \A k \in DOMAIN table : table[k].route.bytes \in Nat
  PROVE  /\ Account(table, DOMAIN table)
              = Account(table, DOMAIN table \ S) + Account(table, S)
         /\ Account(table, DOMAIN table) \in Nat
         /\ Account(table, DOMAIN table \ S) \in Nat
         /\ Account(table, S) \in Nat
<1>1. \A k \in DOMAIN table : BytesIn(table)[k] \in Nat
  BY DEF BytesIn
<1> QED BY <1>1, SumSplits DEF Account

\* Entries that stay as they are take what they took.
LEMMA AccountSame ==
  ASSUME NEW table, NEW next, NEW S, IsFiniteSet(S),
         S \subseteq DOMAIN table, S \subseteq DOMAIN next,
         \A k \in S : next[k] = table[k]
  PROVE  Account(next, S) = Account(table, S)
<1>1. \A k \in S : BytesIn(next)[k] = BytesIn(table)[k]
  BY DEF BytesIn
<1> QED BY <1>1, SumAgrees DEF Account

\* An entry that is put in a scope that is not there counts with its bytes.
LEMMA AccountAdds ==
  ASSUME NEW table, IsFiniteSet(DOMAIN table), NEW k \in DOMAIN table,
         \A j \in DOMAIN table : table[j].route.bytes \in Nat
  PROVE  Account(table, DOMAIN table)
           = Account(table, DOMAIN table \ {k}) + table[k].route.bytes
<1>1. \A j \in DOMAIN table : BytesIn(table)[j] \in Nat
  BY DEF BytesIn
<1>2. Account(table, DOMAIN table)
        = BytesIn(table)[k] + Account(table, DOMAIN table \ {k})
  BY <1>1, SumTakesAny DEF Account
<1>3. Account(table, DOMAIN table \ {k}) \in Nat
  <2>1. IsFiniteSet(DOMAIN table \ {k})
    BY FS_Subset
  <2> QED BY <1>1, <2>1, SumIsNumber DEF Account
<1> QED BY <1>1, <1>2, <1>3 DEF BytesIn

\* What Freed computes.
LEMMA FreedIs ==
  ASSUME EntriesInv, IsFiniteSet(DOMAIN entries)
  PROVE  /\ \A k \in DOMAIN entries : entries[k].route.bytes \in Nat
         /\ \A gone \in SUBSET DOMAIN entries :
              Freed(gone) = Account(entries, gone) /\ Freed(gone) \in Nat
<1>1. \A k \in DOMAIN entries : entries[k].route.bytes \in Nat
  BY DEF EntriesInv, Entry
<1>2. ASSUME NEW gone \in SUBSET DOMAIN entries
      PROVE  Freed(gone) = Account(entries, gone) /\ Freed(gone) \in Nat
  BY <1>1, SumOverTable DEF Freed
<1> QED BY <1>1, <1>2

\* The same, one step later.
LEMMA FreedWillBe ==
  ASSUME EntriesInv', IsFiniteSet(DOMAIN entries')
  PROVE  /\ \A k \in DOMAIN entries' : entries'[k].route.bytes \in Nat
         /\ Freed(DOMAIN entries)' = Account(entries', DOMAIN entries')
<1>1. \A k \in DOMAIN entries' : entries'[k].route.bytes \in Nat
  BY DEF EntriesInv, Entry
<1>2. SumFunction([k \in DOMAIN entries' |-> entries'[k].route.bytes])
        = Account(entries', DOMAIN entries')
  BY <1>1, SumOverTable
<1> QED BY <1>1, <1>2 DEF Freed

LEMMA FreedNothing == Freed({}) = 0 /\ Freed({})' = 0
<1>1. ASSUME NEW table PROVE SumFunction([k \in {} |-> table[k].route.bytes]) = 0
  <2>1. DOMAIN [k \in {} |-> table[k].route.bytes] = {}
    OBVIOUS
  <2> QED BY <2>1, SumEmpty DEF SumFunction
<1> QED BY <1>1 DEF Freed

\* The budget bounds what the entries take.
LEMMA BudgetIs ==
  ASSUME NEW n \in Nat, NEW d \in Nat
  PROVE  (n + 0) * EntryBytes + d - 0 + 0 <= Budget <=> n * EntryBytes + d <= Budget
<1>1. n + 0 = n /\ n * EntryBytes \in Int /\ Budget \in Int
  BY HoldAssumption
<1> QED BY <1>1

\* More entries take more memory.
LEMMA MoreEntries ==
  ASSUME NEW few \in Nat, NEW many \in Nat, few <= many
  PROVE  /\ few * EntryBytes \in Nat /\ many * EntryBytes \in Nat
         /\ few * EntryBytes <= many * EntryBytes
<1>1. EntryBytes \in Nat
  BY HoldAssumption
<1>2. PICK d \in Nat : many = few + d
  <2>1. many - few \in Nat /\ many = few + (many - few)
    OBVIOUS
  <2> QED BY <2>1
<1>3. /\ few * EntryBytes \in Nat /\ d * EntryBytes \in Nat
      /\ many * EntryBytes = few * EntryBytes + d * EntryBytes
  BY <1>1, <1>2
<1> QED BY <1>3

\* The budget bounds the entries and the account of them.
LEMMA BudgetNow ==
  ASSUME EntriesInv, IsFiniteSet(DOMAIN entries), dynamic \in Nat
  PROVE  WithinBudget <=> Cardinality(DOMAIN entries) * EntryBytes + dynamic <= Budget
<1>1. DOMAIN entries \ {} = DOMAIN entries
  OBVIOUS
<1>2. Cardinality(DOMAIN entries) \in Nat
  BY FS_CardinalityType
<1> QED BY <1>1, <1>2, FreedNothing, BudgetIs DEF WithinBudget, Fits

LEMMA BudgetAfter ==
  ASSUME EntriesInv', IsFiniteSet(DOMAIN entries'), dynamic' \in Nat
  PROVE  WithinBudget'
           <=> Cardinality(DOMAIN entries') * EntryBytes + dynamic' <= Budget
<1>1. DOMAIN entries' \ {} = DOMAIN entries'
  OBVIOUS
<1>2. Cardinality(DOMAIN entries') \in Nat
  BY FS_CardinalityType
<1> QED BY <1>1, <1>2, FreedNothing, BudgetIs DEF WithinBudget, Fits

\* A step that only removes entries, each from the map, the index and the account.
LEMMA AccountRemoval ==
  ASSUME EntriesInv, EntriesInv', AccountInv,
         NEW gone \in SUBSET DOMAIN entries, RemoveEntries(gone)
  PROVE  AccountInv'
<1>1. /\ entries' = Kept(gone) /\ lru' = Unlisted(gone)
      /\ dynamic' = dynamic - Freed(gone)
  BY DEF RemoveEntries
<1>2. /\ DOMAIN entries' = DOMAIN entries \ gone
      /\ \A k \in DOMAIN entries' : entries'[k] = entries[k]
  BY <1>1 DEF Kept
<1>3. /\ IsFiniteSet(DOMAIN entries) /\ IsFiniteSet(DOMAIN entries')
      /\ Cardinality(DOMAIN entries) \in Nat /\ Cardinality(DOMAIN entries') \in Nat
      /\ Cardinality(DOMAIN entries') <= Cardinality(DOMAIN entries)
  BY <1>2, FS_Subset, FS_CardinalityType DEF AccountInv
<1>4. lru' = {RecordOf(k, entries[k]) : k \in DOMAIN entries'}
  BY <1>1, <1>2 DEF Unlisted, AccountInv, IndexAgrees, RecordOf
<1>5. {RecordOf(k, entries'[k]) : k \in DOMAIN entries'}
        = {RecordOf(k, entries[k]) : k \in DOMAIN entries'}
  BY <1>2
<1>6. /\ dynamic = Account(entries, DOMAIN entries)
      /\ Freed(gone) = Account(entries, gone)
  BY <1>3, FreedIs DEF AccountInv, IndexAgrees
<1>7. /\ dynamic = Account(entries, DOMAIN entries') + Freed(gone)
      /\ dynamic \in Nat /\ Freed(gone) \in Nat
      /\ Account(entries, DOMAIN entries') \in Nat
  BY <1>2, <1>3, <1>6, FreedIs, AccountSplits
<1>8. Freed(DOMAIN entries)' = Account(entries, DOMAIN entries')
  BY <1>2, <1>3, FreedWillBe, AccountSame
<1>9. dynamic' = Freed(DOMAIN entries)' /\ dynamic' \in Nat /\ dynamic' <= dynamic
  BY <1>1, <1>7, <1>8
<1>10. IndexAgrees'
  BY <1>4, <1>5, <1>9 DEF IndexAgrees
<1>11. WithinBudget'
  <2> DEFINE n == Cardinality(DOMAIN entries)
             m == Cardinality(DOMAIN entries')
  <2>1. n * EntryBytes + dynamic <= Budget
    BY <1>3, <1>7, BudgetNow DEF AccountInv
  <2>2. /\ n * EntryBytes \in Nat /\ m * EntryBytes \in Nat
        /\ m * EntryBytes <= n * EntryBytes
    BY <1>3, MoreEntries
  <2>3. m * EntryBytes + dynamic' <= Budget
    <3>1. Budget \in Nat
      BY HoldAssumption
    <3> QED BY <2>1, <2>2, <3>1, <1>7, <1>9
  <2> QED BY <2>3, <1>3, <1>9, BudgetAfter
<1> QED BY <1>3, <1>10, <1>11 DEF AccountInv

\* What the account and the size of the table become when a scope is put in the
\* place of the entries that go; rest is the account of the entries that stay.
Put(gone, k, rest) ==
  /\ IsFiniteSet(DOMAIN entries')
  /\ rest \in Nat /\ Freed(gone) \in Nat /\ dynamic \in Nat
  /\ entries'[k].route.bytes \in Nat
  /\ Freed(DOMAIN entries)' = rest + entries'[k].route.bytes
  /\ k \in DOMAIN entries \ gone =>
       /\ entries[k].route.bytes \in Nat
       /\ dynamic - Freed(gone) = rest + entries[k].route.bytes
  /\ k \notin DOMAIN entries \ gone => dynamic - Freed(gone) = rest
  /\ Cardinality(DOMAIN entries') \in Nat
  /\ Cardinality(DOMAIN entries \ gone) \in Nat
  /\ k \in DOMAIN entries \ gone => DOMAIN entries' = DOMAIN entries \ gone
  /\ k \notin DOMAIN entries \ gone =>
       Cardinality(DOMAIN entries') = Cardinality(DOMAIN entries \ gone) + 1

\* A scope is put in the table, in place of the entries that go.
LEMMA AccountPut ==
  ASSUME EntriesInv, EntriesInv', AccountInv,
         NEW gone \in SUBSET DOMAIN entries, NEW k,
         DOMAIN entries' = (DOMAIN entries \ gone) \cup {k},
         \A j \in DOMAIN entries' \ {k} : entries'[j] = entries[j],
         NEW rest, rest = Account(entries, (DOMAIN entries \ gone) \ {k})
  PROVE  Put(gone, k, rest)
<1> DEFINE kept == DOMAIN entries \ gone
           left == kept \ {k}
<1>1. /\ IsFiniteSet(DOMAIN entries) /\ IsFiniteSet(kept)
      /\ IsFiniteSet(left) /\ IsFiniteSet(DOMAIN entries')
  <2>1. IsFiniteSet(DOMAIN entries)
    BY DEF AccountInv
  <2>2. IsFiniteSet(kept)
    BY <2>1, FS_Subset
  <2>3. IsFiniteSet(left)
    BY <2>2, FS_Subset
  <2>4. IsFiniteSet(kept \cup {k})
    BY <2>2, FS_AddElement
  <2> QED BY <2>1, <2>2, <2>3, <2>4
<1>2. /\ \A j \in DOMAIN entries : entries[j].route.bytes \in Nat
      /\ \A S \in SUBSET DOMAIN entries :
           Freed(S) = Account(entries, S) /\ Freed(S) \in Nat
  BY <1>1, FreedIs
<1>3. /\ \A j \in DOMAIN entries' : entries'[j].route.bytes \in Nat
      /\ Freed(DOMAIN entries)' = Account(entries', DOMAIN entries')
  BY <1>1, FreedWillBe
<1>4. k \in DOMAIN entries' /\ DOMAIN entries' \ {k} = left
  OBVIOUS
<1>5. Account(entries', left) = Account(entries, left)
  <2>1. /\ left \subseteq DOMAIN entries /\ left \subseteq DOMAIN entries'
        /\ \A j \in left : entries'[j] = entries[j]
    BY <1>4
  <2> HIDE DEF left
  <2> QED BY <2>1, <1>1, AccountSame
<1>6. Account(entries', DOMAIN entries') = Account(entries, left) + entries'[k].route.bytes
  <2>1. Account(entries', DOMAIN entries')
          = Account(entries', DOMAIN entries' \ {k}) + entries'[k].route.bytes
    BY <1>1, <1>3, <1>4, AccountAdds
  <2> QED BY <2>1, <1>4, <1>5
<1>7. /\ dynamic = Account(entries, kept) + Freed(gone)
      /\ dynamic \in Nat /\ Freed(gone) \in Nat /\ Account(entries, kept) \in Nat
  <2>1. dynamic = Account(entries, DOMAIN entries)
    BY <1>2 DEF AccountInv, IndexAgrees
  <2> QED BY <2>1, <1>1, <1>2, AccountSplits
<1>8. Account(entries, left) \in Nat
  BY <1>1, <1>2, SumOverTable
<1>9. k \in kept => Account(entries, kept) = Account(entries, left) + entries[k].route.bytes
  <2> SUFFICES ASSUME k \in kept
               PROVE  Account(entries, kept) = Account(entries, left) + entries[k].route.bytes
    OBVIOUS
  <2>1. \A j \in kept : BytesIn(entries)[j] \in Nat
    BY <1>2 DEF BytesIn
  <2>2. SumFunctionOnSet(BytesIn(entries), kept)
          = BytesIn(entries)[k] + SumFunctionOnSet(BytesIn(entries), kept \ {k})
    <3> HIDE DEF kept
    <3> QED BY <2>1, <1>1, SumTakesAny
  <2>3. BytesIn(entries)[k] = entries[k].route.bytes /\ entries[k].route.bytes \in Nat
    BY <1>2 DEF BytesIn
  <2> HIDE DEF kept
  <2> QED BY <2>2, <2>3, <1>8 DEF Account
<1>10. k \notin kept => left = kept
  OBVIOUS
<1>11. /\ Cardinality(kept) \in Nat /\ Cardinality(DOMAIN entries') \in Nat
       /\ k \notin kept => Cardinality(kept \cup {k}) = Cardinality(kept) + 1
  <2> HIDE DEF kept
  <2> QED BY <1>1, FS_CardinalityType, FS_AddElement
<1>12. k \in kept => DOMAIN entries' = kept
  OBVIOUS
<1>13. DOMAIN entries' = kept \cup {k}
  OBVIOUS
<1>14. entries'[k].route.bytes \in Nat /\ (k \in kept => entries[k].route.bytes \in Nat)
  BY <1>2, <1>3, <1>4
<1>15. (k \in kept => dynamic - Freed(gone) = Account(entries, left) + entries[k].route.bytes)
       /\ (k \notin kept => dynamic - Freed(gone) = Account(entries, left))
  <2>1. dynamic - Freed(gone) = Account(entries, kept)
    BY <1>7
  <2> QED BY <2>1, <1>9, <1>10
<1> HIDE DEF kept
<1> QED BY <1>1, <1>3, <1>6, <1>7, <1>8, <1>11, <1>12, <1>13, <1>14, <1>15 DEF kept, Put

\* The index holds one record for each entry.
LEMMA IndexPut ==
  ASSUME AccountInv, NEW gone \in SUBSET DOMAIN entries, NEW k, NEW record,
         DOMAIN entries' = (DOMAIN entries \ gone) \cup {k},
         \A j \in DOMAIN entries' \ {k} : entries'[j] = entries[j],
         k \in DOMAIN entries \ gone =>
           lru' = (Unlisted(gone) \ {RecordOf(k, entries[k])}) \cup {record},
         k \notin DOMAIN entries \ gone => lru' = Unlisted(gone) \cup {record},
         record = RecordOf(k, entries'[k])
  PROVE  lru' = {RecordOf(j, entries'[j]) : j \in DOMAIN entries'}
<1>1. lru = {RecordOf(j, entries[j]) : j \in DOMAIN entries}
  BY DEF AccountInv, IndexAgrees
<1>2. Unlisted(gone) = {RecordOf(j, entries[j]) : j \in DOMAIN entries \ gone}
  BY <1>1 DEF Unlisted, RecordOf
<1>3. lru' = {RecordOf(j, entries[j]) : j \in (DOMAIN entries \ gone) \ {k}} \cup {record}
  <2>1. CASE k \in DOMAIN entries \ gone
    BY <2>1, <1>2 DEF RecordOf
  <2>2. CASE k \notin DOMAIN entries \ gone
    BY <2>2, <1>2
  <2> QED BY <2>1, <2>2
<1>4. {RecordOf(j, entries[j]) : j \in (DOMAIN entries \ gone) \ {k}}
        = {RecordOf(j, entries'[j]) : j \in (DOMAIN entries \ gone) \ {k}}
  OBVIOUS
<1> QED BY <1>3, <1>4

\* A scope that is touched moves to the end of the index; its route stays, or goes.
LEMMA AccountTouch ==
  ASSUME EntriesInv, EntriesInv', AccountInv, NEW r \in Requests, NEW k,
         k = asked[r].key, k \in DOMAIN entries, NEW e \in Entry, Touch(r, e),
         e.access = entries[k].access, e.order = entries[k].order,
         e.route.bytes <= entries[k].route.bytes
  PROVE  AccountInv'
<1>1. PICK d :
        /\ d = [e EXCEPT !.revision = @ + 1, !.instructions = asked[r].instructions,
                         !.history = asked[r].history, !.access = since[r],
                         !.order = clock + 1]
        /\ entries' = [entries EXCEPT ![k] = d]
        /\ lru' = (lru \ {RecordOf(k, e)}) \cup {RecordOf(k, d)}
        /\ dynamic' = dynamic - entries[k].route.bytes + e.route.bytes
  BY DEF Touch
<1>2. d.route = e.route
  BY <1>1 DEF Entry
<1>3. /\ DOMAIN entries' = (DOMAIN entries \ {}) \cup {k}
      /\ entries'[k] = d
      /\ \A j \in DOMAIN entries' \ {k} : entries'[j] = entries[j]
      /\ {} \in SUBSET DOMAIN entries /\ k \in DOMAIN entries \ {}
  BY <1>1 DEF EntriesInv
<1>4. PICK none, rest : none = {} /\ rest = Account(entries, (DOMAIN entries \ none) \ {k})
  OBVIOUS
<1>8. /\ IsFiniteSet(DOMAIN entries')
      /\ rest \in Nat /\ dynamic \in Nat
      /\ entries'[k].route.bytes \in Nat
      /\ Freed(DOMAIN entries)' = rest + entries'[k].route.bytes
      /\ entries[k].route.bytes \in Nat
      /\ dynamic - Freed(none) = rest + entries[k].route.bytes
      /\ Cardinality(DOMAIN entries') \in Nat
      /\ DOMAIN entries' = DOMAIN entries \ none
  <2>1. /\ DOMAIN entries' = (DOMAIN entries \ none) \cup {k}
        /\ none \in SUBSET DOMAIN entries /\ k \in DOMAIN entries \ none
    BY <1>3, <1>4
  <2>2. \A j \in DOMAIN entries' \ {k} : entries'[j] = entries[j]
    BY <1>3
  <2>3. rest = Account(entries, (DOMAIN entries \ none) \ {k})
    BY <1>4
  <2>4. Put(none, k, rest)
    BY <2>1, <2>2, <2>3, AccountPut
  <2> QED BY <2>1, <2>4 DEF Put
<1>5. /\ dynamic' = Freed(DOMAIN entries)' /\ dynamic' \in Nat /\ dynamic' <= dynamic
      /\ DOMAIN entries' = DOMAIN entries
  <2>1. PICK a, b : a = entries[k].route.bytes /\ b = entries'[k].route.bytes
    OBVIOUS
  <2>2. e.route.bytes = b /\ b <= a
    BY <1>2, <1>3, <2>1
  <2>3. dynamic' = dynamic - a + b /\ dynamic - 0 = rest + a /\ Freed(DOMAIN entries)' = rest + b
    BY <1>1, <1>4, <1>8, <2>1, <2>2, FreedNothing
  <2>4. a \in Nat /\ b \in Nat /\ rest \in Nat /\ dynamic \in Nat
    BY <1>8, <2>1
  <2>5. DOMAIN entries' = DOMAIN entries
    BY <1>4, <1>8
  <2> QED BY <2>2, <2>3, <2>4, <2>5
<1>6. lru' = {RecordOf(j, entries'[j]) : j \in DOMAIN entries'}
  <2>1. RecordOf(k, e) = RecordOf(k, entries[k])
    BY DEF RecordOf
  <2>2. Unlisted({}) = lru
    BY DEF Unlisted
  <2> QED BY <1>1, <1>3, <2>1, <2>2, IndexPut
<1>7. WithinBudget'
  <2>1. IsFiniteSet(DOMAIN entries) /\ WithinBudget
    BY DEF AccountInv
  <2>2. Cardinality(DOMAIN entries) * EntryBytes + dynamic <= Budget
    BY <1>8, <2>1, BudgetNow
  <2>3. Cardinality(DOMAIN entries) * EntryBytes \in Nat /\ Budget \in Nat
    BY <1>5, <1>8, MoreEntries, HoldAssumption
  <2>4. Cardinality(DOMAIN entries') * EntryBytes + dynamic' <= Budget
    BY <1>8, <1>5, <2>2, <2>3
  <2> QED BY <1>8, <1>5, <2>4, BudgetAfter
<1> QED BY <1>8, <1>5, <1>6, <1>7 DEF AccountInv, IndexAgrees

\* What expires or is evicted is in the table.
LEMMA GoneIsThere ==
  ASSUME AccountInv
  PROVE  /\ \A k, t : ExpiredAt(k, t) \subseteq DOMAIN entries
         /\ \A t : Purged(t) \subseteq DOMAIN entries
         /\ \A gone, kept, moreEntries, moreBytes :
              /\ Evicted(gone, kept, moreEntries, moreBytes) \subseteq DOMAIN entries
              /\ \A k \in kept : k \notin Evicted(gone, kept, moreEntries, moreBytes)
<1>1. \A x \in lru : x.key \in DOMAIN entries
  BY DEF AccountInv, IndexAgrees, RecordOf
<1>2. \A k, t : ExpiredAt(k, t) \subseteq DOMAIN entries
  BY DEF ExpiredAt
<1>3. \A t : Purged(t) \subseteq DOMAIN entries
  BY <1>1 DEF Purged
<1>4. ASSUME NEW gone, NEW kept, NEW moreEntries, NEW moreBytes
      PROVE  /\ Evicted(gone, kept, moreEntries, moreBytes) \subseteq DOMAIN entries
             /\ \A k \in kept : k \notin Evicted(gone, kept, moreEntries, moreBytes)
  <2> DEFINE S == {x \in Unlisted(gone) : x.key \notin kept}
  <2>1. \A x \in S : x.key \in DOMAIN entries /\ x.key \notin kept
    BY <1>1 DEF Unlisted
  <2>2. \A j \in Evicted(gone, kept, moreEntries, moreBytes) : \E x \in S : x.key = j
    BY OldestAmong DEF Evicted
  <2> QED BY <2>1, <2>2
<1> QED BY <1>2, <1>3, <1>4

\* When evictions can make room, those that are made do.
LEMMA EvictionFits ==
  ASSUME NEW gone, NEW kept, NEW moreEntries, NEW moreBytes,
         Enough(gone, kept, moreEntries, moreBytes) # {}
  PROVE  Fits(gone \cup Evicted(gone, kept, moreEntries, moreBytes),
              moreEntries, moreBytes)
<1> DEFINE enough == Enough(gone, kept, moreEntries, moreBytes)
           S == {x \in Unlisted(gone) : x.key \notin kept}
<1>1. enough \subseteq Nat
  BY HoldAssumption DEF Enough
<1>2. Min(enough) \in enough
  <2>1. \E n \in enough : \A m \in enough : n <= m
    BY <1>1, LeastNumber
  <2> HIDE DEF enough
  <2> QED BY <2>1 DEF Min
<1>3. Fits(gone \cup Oldest(S, Min(enough)), moreEntries, moreBytes)
  BY <1>2 DEF Enough
<1>4. Evicted(gone, kept, moreEntries, moreBytes) = Oldest(S, Min(enough))
  BY DEF Evicted
<1> QED BY <1>3, <1>4

\* A new scope: the evictions made room for its entry.
LEMMA AccountInsert ==
  ASSUME EntriesInv, EntriesInv', AccountInv, NEW r \in Requests, Insert(r)
  PROVE  AccountInv'
<1>0. PICK k, gone, all, e :
        /\ k = asked[r].key
        /\ gone = ExpiredAt(k, since[r])
        /\ all = gone \cup Evicted(gone, {}, 1, 0)
        /\ e = [token |-> nextToken, cycle |-> 1, revision |-> 1, version |-> 0,
                instructions |-> asked[r].instructions,
                history |-> asked[r].history,
                route |-> NoRoute, access |-> since[r], order |-> clock + 1]
  OBVIOUS
<1>1. /\ Absent(r)
      /\ \/ RemoveEntries(all)
         \/ /\ Enough(gone, {}, 1, 0) # {}
            /\ entries' = With(Kept(all), k, e)
            /\ lru' = Unlisted(all) \cup {RecordOf(k, e)}
            /\ dynamic' = dynamic - Freed(all)
  BY <1>0 DEF Insert
<1>2. all \in SUBSET DOMAIN entries
  BY <1>0, GoneIsThere
<1>3. CASE RemoveEntries(all)
  BY <1>2, <1>3, AccountRemoval
<1>4. CASE /\ Enough(gone, {}, 1, 0) # {}
           /\ entries' = With(Kept(all), k, e)
           /\ lru' = Unlisted(all) \cup {RecordOf(k, e)}
           /\ dynamic' = dynamic - Freed(all)
  <2>1. k \notin DOMAIN entries \ all
    BY <1>0, <1>1 DEF Absent
  <2>2. /\ DOMAIN entries' = (DOMAIN entries \ all) \cup {k}
        /\ entries'[k] = e
        /\ \A j \in DOMAIN entries' \ {k} : entries'[j] = entries[j]
    BY <1>4 DEF With, Kept
  <2>3. e.route.bytes = 0
    BY <1>0 DEF NoRoute
  <2>4. PICK rest : rest = Account(entries, (DOMAIN entries \ all) \ {k})
    OBVIOUS
  <2>5. Put(all, k, rest)
    BY <1>2, <2>2, <2>4, AccountPut
  <2>6. /\ IsFiniteSet(DOMAIN entries')
        /\ rest \in Nat /\ Freed(all) \in Nat /\ dynamic \in Nat
        /\ Freed(DOMAIN entries)' = rest + 0
        /\ dynamic - Freed(all) = rest
        /\ Cardinality(DOMAIN entries \ all) \in Nat
        /\ Cardinality(DOMAIN entries') = Cardinality(DOMAIN entries \ all) + 1
    BY <2>1, <2>2, <2>3, <2>5 DEF Put
  <2>7. dynamic' = Freed(DOMAIN entries)' /\ dynamic' = rest /\ dynamic' \in Nat
    BY <1>4, <2>6
  <2>8. lru' = {RecordOf(j, entries'[j]) : j \in DOMAIN entries'}
    BY <1>2, <1>4, <2>1, <2>2, IndexPut
  <2>9. WithinBudget'
    <3>1. Fits(all, 1, 0)
      BY <1>0, <1>4, EvictionFits
    <3>2. (Cardinality(DOMAIN entries \ all) + 1) * EntryBytes
             + dynamic - Freed(all) + 0 <= Budget
      BY <3>1 DEF Fits
    <3>3. Cardinality(DOMAIN entries') * EntryBytes \in Nat /\ Budget \in Nat
      <4>1. PICK n : n = Cardinality(DOMAIN entries')
        OBVIOUS
      <4>2. n \in Nat /\ n <= n
        BY <2>6, <4>1
      <4>3. n * EntryBytes \in Nat
        BY <4>2, MoreEntries
      <4> QED BY <4>1, <4>3, HoldAssumption
    <3>4. Cardinality(DOMAIN entries') * EntryBytes + dynamic - Freed(all) + 0 <= Budget
      BY <2>6, <3>2
    <3>5. Cardinality(DOMAIN entries') * EntryBytes + dynamic' <= Budget
      BY <2>6, <2>7, <3>3, <3>4
    <3> QED BY <2>6, <2>7, <3>5, BudgetAfter
  <2> QED BY <2>6, <2>7, <2>8, <2>9 DEF AccountInv, IndexAgrees
<1> QED BY <1>1, <1>3, <1>4

\* A recorded route: the evictions made room for what it takes more than the one
\* before it.
LEMMA AccountComplete ==
  ASSUME EntriesInv, EntriesInv', AccountInv, NEW r \in Requests,
         NEW bytes \in RouteBytes, NEW t, Complete(r, bytes, t)
  PROVE  AccountInv'
<1>0. PICK k, gone, more, all :
        /\ k = asked[r].key
        /\ gone = Purged(t) \cup ExpiredAt(k, t)
        /\ more = bytes - entries[k].route.bytes
        /\ all = gone \cup Evicted(gone, {k}, 0, more)
  OBVIOUS
<1>1. \/ RemoveEntries(gone)
      \/ RemoveEntries(all)
      \/ /\ Valid(r, gone) /\ Enough(gone, {k}, 0, more) # {}
         /\ entries' = [Kept(all) EXCEPT ![k].route = [by |-> r, bytes |-> bytes],
                                         ![k].version = @ + 1]
         /\ lru' = Unlisted(all)
         /\ dynamic' = dynamic - Freed(all) + more
  BY <1>0 DEF Complete
<1>2. gone \in SUBSET DOMAIN entries /\ all \in SUBSET DOMAIN entries
  BY <1>0, GoneIsThere
<1>3. CASE RemoveEntries(gone) \/ RemoveEntries(all)
  BY <1>2, <1>3, AccountRemoval
<1>4. ASSUME Valid(r, gone), Enough(gone, {k}, 0, more) # {},
             entries' = [Kept(all) EXCEPT ![k].route = [by |-> r, bytes |-> bytes],
                                          ![k].version = @ + 1],
             lru' = Unlisted(all),
             dynamic' = dynamic - Freed(all) + more
      PROVE  AccountInv'
  <2>1. k \in DOMAIN entries \ all
    BY <1>0, <1>4, GoneIsThere DEF Valid
  <2>2. PICK d : d = [entries[k] EXCEPT !.route = [by |-> r, bytes |-> bytes],
                                        !.version = @ + 1]
    OBVIOUS
  <2>3. /\ DOMAIN entries' = (DOMAIN entries \ all) \cup {k}
        /\ entries'[k] = d
        /\ \A j \in DOMAIN entries' \ {k} : entries'[j] = entries[j]
    BY <1>4, <2>1, <2>2 DEF Kept
  <2>4. /\ d.route.bytes = bytes
        /\ d.access = entries[k].access /\ d.order = entries[k].order
    <3>1. entries[k] \in Entry
      BY <2>1 DEF EntriesInv
    <3> QED BY <2>2, <3>1 DEF Entry
  <2>5. PICK rest : rest = Account(entries, (DOMAIN entries \ all) \ {k})
    OBVIOUS
  <2>6. Put(all, k, rest)
    BY <1>2, <2>3, <2>5, AccountPut
  <2>7. PICK old : old = entries[k].route.bytes
    OBVIOUS
  <2>8. /\ IsFiniteSet(DOMAIN entries')
        /\ rest \in Nat /\ Freed(all) \in Nat /\ dynamic \in Nat
        /\ old \in Nat /\ bytes \in Nat
        /\ Freed(DOMAIN entries)' = rest + bytes
        /\ dynamic - Freed(all) = rest + old
        /\ Cardinality(DOMAIN entries') \in Nat
        /\ DOMAIN entries' = DOMAIN entries \ all
    BY <2>1, <2>3, <2>4, <2>6, <2>7 DEF Put
  <2>9. dynamic' = Freed(DOMAIN entries)' /\ dynamic' = rest + bytes /\ dynamic' \in Nat
    <3>1. more = bytes - old /\ dynamic' = dynamic - Freed(all) + more
      BY <1>0, <1>4, <2>7
    <3> QED BY <2>8, <3>1
  <2>10. lru' = {RecordOf(j, entries'[j]) : j \in DOMAIN entries'}
    <3>1. RecordOf(k, entries'[k]) = RecordOf(k, entries[k])
      BY <2>3, <2>4 DEF RecordOf
    <3>2. RecordOf(k, entries[k]) \in Unlisted(all)
      BY <2>1 DEF Unlisted, AccountInv, IndexAgrees, RecordOf
    <3>3. lru' = (Unlisted(all) \ {RecordOf(k, entries[k])}) \cup {RecordOf(k, entries'[k])}
      BY <1>4, <3>1, <3>2
    <3> QED BY <1>2, <2>1, <2>3, <3>3, IndexPut
  <2>11. WithinBudget'
    <3>1. Fits(all, 0, more)
      BY <1>0, <1>4, EvictionFits
    <3>2. (Cardinality(DOMAIN entries \ all) + 0) * EntryBytes
             + dynamic - Freed(all) + more <= Budget
      BY <3>1 DEF Fits
    <3>3. /\ Cardinality(DOMAIN entries') * EntryBytes \in Nat
          /\ Cardinality(DOMAIN entries') + 0 = Cardinality(DOMAIN entries')
          /\ Budget \in Nat
      BY <2>8, MoreEntries, HoldAssumption
    <3>4. Cardinality(DOMAIN entries') * EntryBytes + dynamic - Freed(all) + more <= Budget
      BY <2>8, <3>2, <3>3
    <3>5. Cardinality(DOMAIN entries') * EntryBytes + dynamic' <= Budget
      BY <1>0, <2>7, <2>8, <2>9, <3>3, <3>4
    <3> QED BY <2>8, <2>9, <3>5, BudgetAfter
  <2> QED BY <2>8, <2>9, <2>10, <2>11 DEF AccountInv, IndexAgrees
<1> QED BY <1>1, <1>3, <1>4

LEMMA AccountInit == Init => AccountInv
<1> SUFFICES ASSUME Init PROVE AccountInv
  OBVIOUS
<1>1. entries = <<>> /\ lru = {} /\ dynamic = 0 /\ EntriesInv
  BY InitHolds DEF Init, IInv
<1>2. DOMAIN entries = {}
  BY <1>1
<1>3. IsFiniteSet(DOMAIN entries) /\ Cardinality(DOMAIN entries) = 0
  BY <1>2, FS_EmptySet
<1>4. IndexAgrees
  BY <1>1, <1>2, FreedNothing DEF IndexAgrees
<1>5. WithinBudget
  <2>1. 0 * EntryBytes + dynamic <= Budget
    BY <1>1, HoldAssumption
  <2> QED BY <1>1, <1>3, <2>1, BudgetNow
<1> QED BY <1>3, <1>4, <1>5 DEF AccountInv

LEMMA AccountStep ==
  ASSUME IInv, IInv', AccountInv, [Next]_vars
  PROVE  AccountInv'
<1>0. EntriesInv /\ EntriesInv'
  BY DEF IInv
<1>1. CASE Tick \/ UNCHANGED vars
  <2>1. UNCHANGED <<entries, lru, dynamic>>
    BY <1>1 DEF Tick, vars, inner
  <2> QED BY <2>1 DEF AccountInv, IndexAgrees, WithinBudget, Fits, Freed
<1>2. ASSUME NEW r \in Requests, NEW prompt \in Prompts, NEW t, Look(r, prompt, t)
      PROVE  AccountInv'
  <2>1. PICK gone : gone = Purged(t) \cup ExpiredAt(prompt.key, t)
    OBVIOUS
  <2>2. RemoveEntries(gone)
    BY <1>2, <2>1 DEF Look
  <2> QED BY <1>0, <2>1, <2>2, GoneIsThere, AccountRemoval
<1>3. ASSUME NEW r \in Requests, Contended(r) PROVE AccountInv'
  <2>1. PICK gone : gone = ExpiredAt(asked[r].key, since[r])
    OBVIOUS
  <2>2. RemoveEntries(gone)
    BY <1>3, <2>1 DEF Contended
  <2> QED BY <1>0, <2>1, <2>2, GoneIsThere, AccountRemoval
<1>4. ASSUME NEW r \in Requests, Continue(r) PROVE AccountInv'
  <2>1. PICK k, e : k = asked[r].key /\ e = entries[k]
    OBVIOUS
  <2>2. k \in DOMAIN entries /\ Touch(r, e)
    BY <1>4, <2>1 DEF Continue, Unchanged
  <2>3. e \in Entry
    BY <1>0, <2>1, <2>2 DEF EntriesInv
  <2>4. e.route.bytes \in Nat
    BY <2>3 DEF Entry
  <2>5. e.route.bytes <= entries[k].route.bytes
    BY <2>1, <2>4
  <2> QED BY <1>0, <2>1, <2>2, <2>3, <2>5, AccountTouch
<1>5. ASSUME NEW r \in Requests, Restart(r) PROVE AccountInv'
  <2>1. PICK k, e : /\ k = asked[r].key
                    /\ e = [entries[k] EXCEPT !.cycle = @ + 1, !.version = @ + 1,
                                              !.route = NoRoute]
    OBVIOUS
  <2>2. k \in DOMAIN entries /\ Touch(r, e)
    BY <1>5, <2>1 DEF Restart, Unchanged
  <2>3. entries[k] \in Entry
    BY <1>0, <2>2 DEF EntriesInv
  <2>4. e \in Entry
    <3>1. NoRoute \in [by : Requests \cup {NoHint}, bytes : Nat]
      BY DEF NoRoute
    <3>2. entries[k].cycle + 1 \in Nat /\ entries[k].version + 1 \in Nat
      BY <2>3 DEF Entry
    <3> QED BY <2>1, <2>3, <3>1, <3>2 DEF Entry
  <2>5. /\ e.access = entries[k].access /\ e.order = entries[k].order
        /\ e.route.bytes <= entries[k].route.bytes
    <3>1. /\ e.access = entries[k].access /\ e.order = entries[k].order
          /\ e.route = NoRoute
      BY <2>1, <2>3 DEF Entry
    <3>2. entries[k].route.bytes \in Nat
      BY <2>3 DEF Entry
    <3> QED BY <3>1, <3>2 DEF NoRoute
  <2> QED BY <1>0, <2>1, <2>2, <2>4, <2>5, AccountTouch
<1>6. ASSUME NEW r \in Requests, Insert(r) PROVE AccountInv'
  BY <1>0, <1>6, AccountInsert
<1>7. ASSUME NEW r \in Requests, NEW bytes \in RouteBytes, NEW t, Complete(r, bytes, t)
      PROVE  AccountInv'
  BY <1>0, <1>7, AccountComplete
<1> QED BY <1>1, <1>2, <1>3, <1>4, <1>5, <1>6, <1>7 DEF Next

-----------------------------------------------------------------------------
(* The theorems                                                              *)

LEMMA StepHolds ==
  ASSUME IInv, [Next]_vars
  PROVE  IInv' /\ [Promise!HoldNext]_<<Holds, asked, Hints>>
<1>1. CASE Tick
  BY <1>1, Ticking
<1>2. ASSUME NEW r \in Requests, NEW prompt \in Prompts, NEW t \in 0..now,
             Look(r, prompt, t)
      PROVE  IInv' /\ Promise!HoldNext
  BY <1>2, Looking
<1>3. ASSUME NEW r \in Requests,
             Contended(r) \/ Continue(r) \/ Restart(r) \/ Insert(r)
      PROVE  IInv' /\ Promise!HoldNext
  BY <1>3, Contending, Continuing, Restarting, Inserting
<1>4. ASSUME NEW r \in Requests, NEW bytes \in RouteBytes, NEW t,
             Complete(r, bytes, t)
      PROVE  IInv' /\ Promise!HoldNext
  BY <1>4, Completing
<1>5. CASE UNCHANGED vars
  <2>1. UNCHANGED <<inner, request, now>> /\ entries' = entries
        /\ ticket' = ticket /\ asked' = asked
    BY <1>5 DEF vars, inner, request
  <2>2. EntriesInv' /\ RequestsInv' /\ TicketsInv' /\ HistoriesInv' /\ HintsInv'
    BY <2>1 DEF IInv, EntriesInv, RequestsInv, TicketsInv, HistoriesInv, HintsInv,
                Branch, Open, inner, request
  <2>3. UNCHANGED <<Holds, asked, Hints>>
    BY <2>1 DEF Holds, Hints, Open
  <2> QED BY <2>2, <2>3 DEF IInv
<1> QED BY <1>1, <1>2, <1>3, <1>4, <1>5 DEF Next

\* Type correctness: tokens and access orders are ones handed out, and no entry
\* was used after the present.
THEOREM HoldTypeCorrect == Spec => []TypeOK
<1>1. Init => IInv
  BY InitHolds
<1>2. IInv /\ [Next]_vars => IInv'
  BY StepHolds
<1>3. IInv => TypeOK
  <2> SUFFICES ASSUME IInv PROVE TypeOK
    OBVIOUS
  <2>1. ASSUME NEW k \in DOMAIN entries
        PROVE  /\ k \in {p.key : p \in Prompts}
               /\ entries[k].token \in 1..(nextToken - 1)
               /\ entries[k].order \in 1..clock
               /\ entries[k].access \in 0..now
               /\ entries[k].route.by \in Requests \cup {NoHint}
    BY <2>1 DEF IInv, EntriesInv, Entry, Keys
  <2>2. /\ stage \in [Requests -> {"idle", "measuring", "routed", "done"}]
        /\ \A r \in DOMAIN asked : asked[r] \in Prompts
        /\ DOMAIN ticket \subseteq DOMAIN asked
        /\ applied \subseteq DOMAIN ticket
    BY DEF IInv, RequestsInv
  <2> QED BY <2>1, <2>2 DEF TypeOK
<1> QED BY <1>1, <1>2, <1>3, PTL DEF Spec

\* A hint is the route of a request of the same scope whose history is the
\* beginning of the one that is given it: what the two locks of begin and the
\* ticket of complete are there for.
THEOREM HintsStayInBranch == Spec => []HintOfThisHistory
<1>1. Init => IInv
  BY InitHolds
<1>2. IInv /\ [Next]_vars => IInv'
  BY StepHolds
<1>3. IInv => HintOfThisHistory
  BY DEF IInv, HintsInv, Branch, HintOfThisHistory
<1> QED BY <1>1, <1>2, <1>3, PTL DEF Spec

\* Entering a scope is atomic at its second lock and the first complete answer
\* of those that entered wins, whatever is evicted or expires.
THEOREM StoreImplementsHolds == Spec => ImplementsHolds
<1>1. Init => IInv /\ Promise!HoldInit
  BY InitHolds
<1>2. IInv /\ [Next]_vars => IInv' /\ [Promise!HoldNext]_Promise!hold
  BY StepHolds DEF Promise!hold
<1> QED BY <1>1, <1>2, PTL DEF Spec, ImplementsHolds, Promise!HoldSpec

LEMMA AccountCorrect == Spec => []AccountInv
<1>1. Init => IInv /\ AccountInv
  BY InitHolds, AccountInit
<1>2. IInv /\ AccountInv /\ [Next]_vars => IInv' /\ AccountInv'
  BY StepHolds, AccountStep
<1> QED BY <1>1, <1>2, PTL DEF Spec

\* The map, the index by last use and the count of bytes never disagree, however
\* entries are added, touched, given a route, evicted and expired: an eviction
\* finds every entry, and the budget is checked against what is really held.
THEOREM IndexStaysTrue == Spec => []IndexAgrees
<1>1. AccountInv => IndexAgrees
  BY DEF AccountInv
<1> QED BY <1>1, AccountCorrect, PTL

\* The store never holds more than its budget, for any budget, any sizes of
\* entries and routes, and any batch of evictions.
THEOREM BudgetIsKept == Spec => []WithinBudget
<1>1. AccountInv => WithinBudget
  BY DEF AccountInv
<1> QED BY <1>1, AccountCorrect, PTL
=============================================================================
