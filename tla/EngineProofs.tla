---------------------------- MODULE EngineProofs ----------------------------
(***************************************************************************)
(* Theorems about the deterministic engine, for every resolution of time,  *)
(* every policy, every input and every order of calls: the week of a       *)
(* milestone is exact, the fit of an eligible pair raises only for the     *)
(* reasons named, an eligible pair has room in the frozen rows, the order  *)
(* of workload rows decides nothing, and the two heatmaps tell one story.  *)
(* And about the optimizer, for every problem: what its four solves return *)
(* is what the oracle finds best.                                          *)
(*                                                                         *)
(* The module has five parts: sums over finite sets; the week of a         *)
(* milestone and the refusals of a fit; what each receipt says of the      *)
(* rows, and the inductive invariant ReceiptsFollow; the three invariants  *)
(* that follow from it; and the optimizer, with the invariant SolveInv.    *)
(* Induction is by a set: the good subsets of a finite set, or the good    *)
(* numbers, are shown to be all of them.                                   *)
(***************************************************************************)
EXTENDS Engine, Portfolio, FiniteSetTheorems, SequenceTheorems, WellFoundedInduction, TLAPS

(***************************************************************************)
(* A set of numbers that holds 0 and the successor of each of its members  *)
(* holds them all.                                                         *)
(***************************************************************************)
LEMMA NaturalsByStep ==
  ASSUME NEW Good, 0 \in Good, \A n \in Nat : n \in Good => n + 1 \in Good
  PROVE  Nat \subseteq Good
<1> DEFINE Less == OpToRel(<, Nat)
           Bad == Nat \ Good
<1>1. SUFFICES ASSUME Bad # {} PROVE FALSE
  OBVIOUS
<1>2. \E n \in Bad : \A m \in Bad : ~(<<m, n>> \in Less)
  <2>1. IsWellFoundedOn(Less, Nat)
    BY NatLessThanWellFounded
  <2>2. Bad \subseteq Nat
    OBVIOUS
  <2> HIDE DEF Less, Bad
  <2> QED
    BY <1>1, <2>1, <2>2, WFMin
<1>3. PICK n \in Bad : \A m \in Bad : ~(<<m, n>> \in Less)
  BY <1>2
<1>4. n \in Nat /\ n # 0 /\ n - 1 \in Nat /\ n - 1 < n /\ (n - 1) + 1 = n
  OBVIOUS
<1>5. <<n - 1, n>> \in Less
  BY <1>4 DEF OpToRel
<1> QED
  BY <1>3, <1>4, <1>5

(***************************************************************************)
(* What holds of a set when it holds of the set without any one of its     *)
(* elements, holds of a finite set and its subsets.                        *)
(***************************************************************************)
LEMMA FiniteByRemoval ==
  ASSUME NEW S, IsFiniteSet(S), NEW Good,
         \A T \in SUBSET S : (\A x \in T : T \ {x} \in Good) => T \in Good
  PROVE  SUBSET S \subseteq Good
<1> DEFINE Sizes == {n \in Nat : \A T \in SUBSET S : Cardinality(T) = n => T \in Good}
<1>1. \A T \in SUBSET S : IsFiniteSet(T) /\ Cardinality(T) \in Nat
  BY FS_Subset, FS_CardinalityType
<1>2. 0 \in Sizes
  <2>1. ASSUME NEW T \in SUBSET S, Cardinality(T) = 0 PROVE T \in Good
    <3>1. T = {}
      BY <1>1, <2>1, FS_EmptySet
    <3> QED
      BY <3>1
  <2> QED
    BY <2>1
<1>3. ASSUME NEW n \in Nat, n \in Sizes PROVE n + 1 \in Sizes
  <2>1. SUFFICES ASSUME NEW T \in SUBSET S, Cardinality(T) = n + 1 PROVE T \in Good
    BY <1>3
  <2>2. ASSUME NEW x \in T PROVE T \ {x} \in Good
    <3>1. Cardinality(T \ {x}) = Cardinality(T) - 1
      BY <1>1, FS_RemoveElement
    <3>2. Cardinality(T \ {x}) = n
      BY <2>1, <3>1
    <3> QED
      BY <1>3, <3>2
  <2> QED
    BY <2>2
<1>4. Nat \subseteq Sizes
  <2> HIDE DEF Sizes
  <2> QED
    BY <1>2, <1>3, NaturalsByStep
<1> QED
  BY <1>1, <1>4

-----------------------------------------------------------------------------
Pick(s) == CHOOSE x \in s : TRUE

\* it is the function that SumFunctionOnSet(f, S) unrolls f with
Unrolls(it, f, S) ==
  it = [s \in SUBSET S |-> IF s = {} THEN 0 ELSE f[Pick(s)] + it[s \ {Pick(s)}]]

\* The element a fold takes out is one of the set.
LEMMA Picked == \A s : s # {} => Pick(s) \in s
BY DEF Pick

\* A sum over a finite set is the value at that set of a function that takes one element
\* out at a time.
LEMMA SumUnrolls ==
  ASSUME NEW f, NEW S, IsFiniteSet(S)
  PROVE  \E it : Unrolls(it, f, S) /\ SumFunctionOnSet(f, S) = it[S]
<1> DEFINE Part(n) == {s \in SUBSET S : Cardinality(s) <= n}
           Upto(it, n) ==
             it = [s \in Part(n) |-> IF s = {} THEN 0 ELSE f[Pick(s)] + it[s \ {Pick(s)}]]
           Good == {n \in Nat : \E it : Upto(it, n)}
<1>1. \A s \in SUBSET S : /\ IsFiniteSet(s) /\ Cardinality(s) \in Nat
                          /\ Cardinality(s) <= Cardinality(S)
                          /\ s # {} => /\ s \ {Pick(s)} \in SUBSET S
                                       /\ Cardinality(s \ {Pick(s)}) = Cardinality(s) - 1
  BY FS_Subset, FS_CardinalityType, FS_RemoveElement, Picked
<1>2. 0 \in Good
  <2>1. Part(0) = {{}}
    <3>1. ASSUME NEW s \in SUBSET S PROVE Cardinality(s) <= 0 <=> s = {}
      <4>1. Cardinality(s) \in Nat /\ (Cardinality(s) = 0 <=> s = {})
        BY <1>1, FS_EmptySet
      <4> QED
        BY <4>1
    <3> QED
      BY <3>1
  <2>2. [s \in Part(0) |-> 0] =
        [s \in Part(0) |-> IF s = {} THEN 0 ELSE f[Pick(s)] + [t \in Part(0) |-> 0][s \ {Pick(s)}]]
    BY <2>1
  <2> QED
    BY <2>2
<1>3. ASSUME NEW n \in Nat, n \in Good PROVE n + 1 \in Good
  <2>1. PICK it : Upto(it, n)
    BY <1>3
  <2> DEFINE next == [s \in Part(n + 1) |->
                        IF s = {} THEN 0 ELSE f[Pick(s)] + it[s \ {Pick(s)}]]
  <2>2. \A s \in Part(n) : s \in Part(n + 1) /\ next[s] = it[s]
    <3>1. ASSUME NEW s \in Part(n) PROVE s \in Part(n + 1)
      <4>1. Cardinality(s) \in Nat /\ Cardinality(s) <= n
        BY <1>1
      <4> QED
        BY <4>1
    <3>2. \A s \in Part(n) : it[s] = IF s = {} THEN 0 ELSE f[Pick(s)] + it[s \ {Pick(s)}]
      <4> HIDE DEF Part
      <4> QED
        BY <2>1
    <3> HIDE DEF Part
    <3> QED
      BY <3>1, <3>2
  <2>3. \A s \in Part(n + 1) : s # {} => s \ {Pick(s)} \in Part(n)
    BY <1>1, <1>3, SMT
  <2>4. Upto(next, n + 1)
    <3> HIDE DEF Part
    <3>1. \A s \in Part(n + 1) : s # {} => next[s \ {Pick(s)}] = it[s \ {Pick(s)}]
      BY <2>2, <2>3
    <3>2. \A s \in Part(n + 1) :
            (IF s = {} THEN 0 ELSE f[Pick(s)] + it[s \ {Pick(s)}])
              = IF s = {} THEN 0 ELSE f[Pick(s)] + next[s \ {Pick(s)}]
      BY <3>1
    <3> QED
      BY <3>2
  <2>5. \E j : Upto(j, n + 1)
    <3> HIDE DEF Part, next
    <3> QED
      BY <2>4
  <2>6. n + 1 \in Nat
    OBVIOUS
  <2> HIDE DEF Upto
  <2> QED
    BY <2>5, <2>6
<1>4. Cardinality(S) \in Good
  <2>1. Cardinality(S) \in Nat
    BY FS_CardinalityType
  <2> HIDE DEF Good
  <2> QED
    BY <1>2, <1>3, <2>1, NaturalsByStep
<1>5. Part(Cardinality(S)) = SUBSET S
  BY <1>1
<1>6. PICK it : it = [s \in SUBSET S |-> IF s = {} THEN 0 ELSE f[Pick(s)] + it[s \ {Pick(s)}]]
  <2>1. PICK it : Upto(it, Cardinality(S))
    BY <1>4
  <2> HIDE DEF Part
  <2> QED
    BY <2>1, <1>5
<1>7. \E j : /\ j = [s \in SUBSET S |-> IF s = {} THEN 0 ELSE f[Pick(s)] + j[s \ {Pick(s)}]]
             /\ SumFunctionOnSet(f, S) = j[S]
  <2> HIDE DEF Good
  <2> QED
    BY <1>6, Zenon DEF SumFunctionOnSet, FoldFunctionOnSet, MapThenFoldSet, Pick
<1> QED
  BY <1>7 DEF Unrolls

\* Two functions that agree on a set unroll it alike, whatever larger set they unroll.
LEMMA UnrollsAgree ==
  ASSUME NEW f, NEW g, NEW S, NEW R, NEW it, NEW jt, Unrolls(it, f, S), Unrolls(jt, g, R),
         NEW T, IsFiniteSet(T), T \subseteq S, T \subseteq R, \A x \in T : f[x] = g[x]
  PROVE  it[T] = jt[T]
<1> DEFINE Good == {s \in SUBSET T : it[s] = jt[s]}
<1>1. ASSUME NEW s \in SUBSET T, \A x \in s : s \ {x} \in Good PROVE s \in Good
  <2>1. /\ it[s] = IF s = {} THEN 0 ELSE f[Pick(s)] + it[s \ {Pick(s)}]
        /\ jt[s] = IF s = {} THEN 0 ELSE g[Pick(s)] + jt[s \ {Pick(s)}]
    <3>1. s \in SUBSET S /\ s \in SUBSET R
      OBVIOUS
    <3> QED
      BY <3>1 DEF Unrolls
  <2>2. s # {} => f[Pick(s)] = g[Pick(s)] /\ it[s \ {Pick(s)}] = jt[s \ {Pick(s)}]
    BY <1>1, Picked
  <2> QED
    BY <2>1, <2>2
<1>2. SUBSET T \subseteq Good
  <2> HIDE DEF Good
  <2> QED
    BY <1>1, FiniteByRemoval
<1> QED
  BY <1>2

\* The sum over part of a set that is unrolled is read off the unrolling.
LEMMA SumRead ==
  ASSUME NEW f, NEW S, NEW it, Unrolls(it, f, S), NEW T, IsFiniteSet(T), T \subseteq S
  PROVE  SumFunctionOnSet(f, T) = it[T]
<1>1. PICK jt : Unrolls(jt, f, T) /\ SumFunctionOnSet(f, T) = jt[T]
  BY SumUnrolls
<1> QED
  BY <1>1, UnrollsAgree

\* Functions that agree on a set have the same sum over it.
LEMMA SumAlike ==
  ASSUME NEW f, NEW g, NEW S, IsFiniteSet(S), \A x \in S : f[x] = g[x]
  PROVE  SumFunctionOnSet(f, S) = SumFunctionOnSet(g, S)
<1>1. PICK it : Unrolls(it, f, S) /\ SumFunctionOnSet(f, S) = it[S]
  BY SumUnrolls
<1>2. PICK jt : Unrolls(jt, g, S) /\ SumFunctionOnSet(g, S) = jt[S]
  BY SumUnrolls
<1> QED
  BY <1>1, <1>2, UnrollsAgree

\* The sum over no element is 0.
LEMMA SumOfNone == ASSUME NEW f PROVE SumFunctionOnSet(f, {}) = 0
<1>1. PICK it : Unrolls(it, f, {}) /\ SumFunctionOnSet(f, {}) = it[{}]
  BY SumUnrolls, FS_EmptySet
<1> QED
  BY <1>1 DEF Unrolls

\* The element the fold picks can be taken out of a sum.
LEMMA SumOfPicked ==
  ASSUME NEW f, NEW S, IsFiniteSet(S), S # {}
  PROVE  SumFunctionOnSet(f, S) = f[Pick(S)] + SumFunctionOnSet(f, S \ {Pick(S)})
<1>1. PICK it : Unrolls(it, f, S) /\ SumFunctionOnSet(f, S) = it[S]
  BY SumUnrolls
<1>2. IsFiniteSet(S \ {Pick(S)}) /\ S \ {Pick(S)} \subseteq S
  BY FS_RemoveElement
<1>3. SumFunctionOnSet(f, S \ {Pick(S)}) = it[S \ {Pick(S)}]
  BY <1>1, <1>2, SumRead
<1>4. it[S] = f[Pick(S)] + it[S \ {Pick(S)}]
  BY <1>1 DEF Unrolls
<1> QED
  BY <1>1, <1>3, <1>4

(***************************************************************************)
(* Every member of a finite set can be taken out of a sum of integers.     *)
(***************************************************************************)
LEMMA SumTakesOut ==
  ASSUME NEW f, NEW S, IsFiniteSet(S), \A x \in S : f[x] \in Int
  PROVE  /\ SumFunctionOnSet(f, S) \in Int
         /\ \A x \in S : SumFunctionOnSet(f, S) = f[x] + SumFunctionOnSet(f, S \ {x})
<1> DEFINE Sum(T) == SumFunctionOnSet(f, T)
           Whole == {T \in SUBSET S : Sum(T) \in Int}
           Good == {T \in SUBSET S : \A x \in T : Sum(T) = f[x] + Sum(T \ {x})}
<1>1. \A T \in SUBSET S :
        /\ IsFiniteSet(T)
        /\ T # {} => Pick(T) \in T /\ Sum(T) = f[Pick(T)] + Sum(T \ {Pick(T)})
  BY FS_Subset, SumOfPicked, Picked
<1>2. SUBSET S \subseteq Whole
  <2>1. ASSUME NEW T \in SUBSET S, \A x \in T : T \ {x} \in Whole PROVE T \in Whole
    <3>1. CASE T = {}
      BY <3>1, SumOfNone
    <3>2. CASE T # {}
      <4>1. Pick(T) \in T /\ Sum(T) = f[Pick(T)] + Sum(T \ {Pick(T)})
        BY <1>1, <3>2
      <4>2. Sum(T \ {Pick(T)}) \in Int /\ f[Pick(T)] \in Int
        BY <2>1, <4>1
      <4> QED
        BY <4>1, <4>2
    <3> QED
      BY <3>1, <3>2
  <2> HIDE DEF Whole
  <2> QED
    BY <2>1, FiniteByRemoval
<1>3. SUBSET S \subseteq Good
  <2>1. ASSUME NEW T \in SUBSET S, \A x \in T : T \ {x} \in Good PROVE T \in Good
    <3> DEFINE p == Pick(T)
    <3>1. SUFFICES ASSUME NEW x \in T PROVE Sum(T) = f[x] + Sum(T \ {x})
      OBVIOUS
    <3>2. p \in T /\ Sum(T) = f[p] + Sum(T \ {p})
      BY <1>1
    <3> HIDE DEF p
    <3>3. CASE x = p
      BY <3>2, <3>3
    <3>4. CASE x # p
      <4> DEFINE rest == (T \ {p}) \ {x}
      <4>1. rest = (T \ {x}) \ {p}
        OBVIOUS
      <4>2. Sum(T \ {p}) = f[x] + Sum(rest)
        BY <2>1, <3>2, <3>4
      <4>3. Sum(T \ {x}) = f[p] + Sum(rest)
        BY <2>1, <3>2, <3>4, <4>1
      <4>4. Sum(rest) \in Int /\ f[x] \in Int /\ f[p] \in Int
        BY <1>2, <3>2
      <4> HIDE DEF Sum, rest
      <4> QED
        BY <3>2, <4>2, <4>3, <4>4
    <3> QED
      BY <3>3, <3>4
  <2> HIDE DEF Good
  <2> QED
    BY <2>1, FiniteByRemoval
<1> QED
  BY <1>2, <1>3

\* Sums of integers, over any part of a finite set, are integers.
LEMMA SumIsInt ==
  ASSUME NEW f, NEW S, IsFiniteSet(S), \A x \in S : f[x] \in Int, NEW T \in SUBSET S
  PROVE  IsFiniteSet(T) /\ SumFunctionOnSet(f, T) \in Int
<1>1. IsFiniteSet(T) /\ \A x \in T : f[x] \in Int
  BY FS_Subset
<1> QED
  BY <1>1, SumTakesOut

(***************************************************************************)
(* Sums keep the order of their terms.                                     *)
(***************************************************************************)
LEMMA SumOrder ==
  ASSUME NEW f, NEW g, NEW S, IsFiniteSet(S),
         \A x \in S : f[x] \in Int /\ g[x] \in Int /\ f[x] <= g[x]
  PROVE  SumFunctionOnSet(f, S) <= SumFunctionOnSet(g, S)
<1> DEFINE F(T) == SumFunctionOnSet(f, T)
           G(T) == SumFunctionOnSet(g, T)
           Good == {T \in SUBSET S : F(T) <= G(T)}
<1>1. ASSUME NEW T \in SUBSET S, \A x \in T : T \ {x} \in Good PROVE T \in Good
  <2>1. CASE T = {}
    <3>1. F(T) = 0 /\ G(T) = 0
      BY <2>1, SumOfNone
    <3> QED
      BY <3>1
  <2>2. CASE T # {}
    <3>1. PICK x \in T : TRUE
      BY <2>2
    <3>2. /\ F(T) = f[x] + F(T \ {x})
          /\ G(T) = g[x] + G(T \ {x})
      <4>1. IsFiniteSet(T) /\ \A y \in T : f[y] \in Int /\ g[y] \in Int
        BY FS_Subset
      <4>2. F(T) = f[x] + F(T \ {x})
        BY <4>1, SumTakesOut
      <4>3. G(T) = g[x] + G(T \ {x})
        BY <4>1, SumTakesOut
      <4> QED
        BY <4>2, <4>3
    <3>3. F(T \ {x}) \in Int /\ G(T \ {x}) \in Int
      BY SumIsInt
    <3>4. F(T \ {x}) <= G(T \ {x}) /\ f[x] <= g[x] /\ f[x] \in Int /\ g[x] \in Int
      BY <1>1, <3>1
    <3> HIDE DEF F, G
    <3> QED
      BY <3>2, <3>3, <3>4
  <2> QED
    BY <2>1, <2>2
<1>2. SUBSET S \subseteq Good
  <2> HIDE DEF Good
  <2> QED
    BY <1>1, FiniteByRemoval
<1> QED
  BY <1>2

\* Sums of natural numbers are natural numbers.
LEMMA SumIsNat ==
  ASSUME NEW f, NEW S, IsFiniteSet(S), \A x \in S : f[x] \in Nat
  PROVE  SumFunctionOnSet(f, S) \in Nat
<1> DEFINE Good == {T \in SUBSET S : SumFunctionOnSet(f, T) \in Nat}
<1>1. ASSUME NEW T \in SUBSET S, \A x \in T : T \ {x} \in Good PROVE T \in Good
  <2>1. CASE T = {}
    BY <2>1, SumOfNone
  <2>2. CASE T # {}
    <3>1. PICK x \in T : TRUE
      BY <2>2
    <3>2. SumFunctionOnSet(f, T) = f[x] + SumFunctionOnSet(f, T \ {x})
      <4>1. IsFiniteSet(T) /\ \A y \in T : f[y] \in Int
        BY FS_Subset
      <4> QED
        BY <4>1, SumTakesOut
    <3>3. SumFunctionOnSet(f, T \ {x}) \in Nat /\ f[x] \in Nat
      BY <1>1, <3>1
    <3> QED
      BY <3>2, <3>3
  <2> QED
    BY <2>1, <2>2
<1>2. SUBSET S \subseteq Good
  <2> HIDE DEF Good
  <2> QED
    BY <1>1, FiniteByRemoval
<1> QED
  BY <1>2

(***************************************************************************)
(* The sum of sums is the sum of the terms' sums.                          *)
(***************************************************************************)
LEMMA SumOfSums ==
  ASSUME NEW f, NEW g, NEW h, NEW S, IsFiniteSet(S),
         \A x \in S : f[x] \in Int /\ g[x] \in Int /\ h[x] = f[x] + g[x]
  PROVE  SumFunctionOnSet(h, S) = SumFunctionOnSet(f, S) + SumFunctionOnSet(g, S)
<1> DEFINE F(T) == SumFunctionOnSet(f, T)
           G(T) == SumFunctionOnSet(g, T)
           H(T) == SumFunctionOnSet(h, T)
           Good == {T \in SUBSET S : H(T) = F(T) + G(T)}
<1>1. ASSUME NEW T \in SUBSET S, \A x \in T : T \ {x} \in Good PROVE T \in Good
  <2>1. CASE T = {}
    <3>1. F(T) = 0 /\ G(T) = 0 /\ H(T) = 0
      BY <2>1, SumOfNone
    <3> QED
      BY <3>1
  <2>2. CASE T # {}
    <3>1. PICK x \in T : TRUE
      BY <2>2
    <3>2. /\ F(T) = f[x] + F(T \ {x})
          /\ G(T) = g[x] + G(T \ {x})
          /\ H(T) = h[x] + H(T \ {x})
      <4>1. IsFiniteSet(T) /\ \A y \in T : f[y] \in Int /\ g[y] \in Int /\ h[y] \in Int
        BY FS_Subset
      <4>2. F(T) = f[x] + F(T \ {x})
        BY <4>1, SumTakesOut
      <4>3. G(T) = g[x] + G(T \ {x})
        BY <4>1, SumTakesOut
      <4>4. H(T) = h[x] + H(T \ {x})
        BY <4>1, SumTakesOut
      <4> QED
        BY <4>2, <4>3, <4>4
    <3>3. F(T \ {x}) \in Int /\ G(T \ {x}) \in Int
      BY SumIsInt
    <3>4. /\ H(T \ {x}) = F(T \ {x}) + G(T \ {x})
          /\ f[x] \in Int /\ g[x] \in Int /\ h[x] = f[x] + g[x]
      BY <1>1, <3>1
    <3> HIDE DEF F, G, H
    <3> QED
      BY <3>2, <3>3, <3>4
  <2> QED
    BY <2>1, <2>2
<1>2. SUBSET S \subseteq Good
  <2> HIDE DEF Good
  <2> QED
    BY <1>1, FiniteByRemoval
<1> QED
  BY <1>2

(***************************************************************************)
(* A sum over two sets without a common element is the sum over each.      *)
(***************************************************************************)
LEMMA SumOfDisjoint ==
  ASSUME NEW f, NEW R, NEW S, IsFiniteSet(R), IsFiniteSet(S), R \cap S = {},
         \A x \in R \cup S : f[x] \in Int
  PROVE  SumFunctionOnSet(f, R \cup S) = SumFunctionOnSet(f, R) + SumFunctionOnSet(f, S)
<1> DEFINE F(T) == SumFunctionOnSet(f, T)
           Good == {T \in SUBSET S : F(R \cup T) = F(R) + F(T)}
<1>0. IsFiniteSet(R \cup S)
  BY FS_Union
<1>1. ASSUME NEW T \in SUBSET S, \A x \in T : T \ {x} \in Good PROVE T \in Good
  <2>1. CASE T = {}
    <3> DEFINE all == R \cup T
    <3>1. F(T) = 0 /\ all = R /\ F(R) \in Int
      BY <2>1, SumOfNone, SumTakesOut
    <3> HIDE DEF F
    <3>2. F(all) = F(R) + F(T)
      <4> HIDE DEF all
      <4> QED
        BY <3>1
    <3> QED
      BY <3>2
  <2>2. CASE T # {}
    <3>1. PICK x \in T : TRUE
      BY <2>2
    <3>2. F(T) = f[x] + F(T \ {x})
      <4>1. IsFiniteSet(T) /\ \A y \in T : f[y] \in Int
        BY FS_Subset
      <4> QED
        BY <4>1, SumTakesOut
    <3> DEFINE all == R \cup T
               rest == R \cup (T \ {x})
    <3>3. F(all) = f[x] + F(all \ {x})
      <4>1. IsFiniteSet(R \cup T) /\ \A y \in R \cup T : f[y] \in Int
        BY <1>0, FS_Subset
      <4> QED
        BY <4>1, SumTakesOut
    <3>4. F(all \ {x}) = F(rest)
      <4>1. all \ {x} = rest
        BY <3>1
      <4> QED
        BY <4>1, Zenon
    <3>5. F(rest) = F(R) + F(T \ {x})
      BY <1>1, <3>1
    <3>6. F(R) \in Int /\ F(T \ {x}) \in Int /\ f[x] \in Int
      BY <1>0, <3>1, SumIsInt
    <3> HIDE DEF F
    <3>7. F(all) = F(R) + F(T)
      <4> HIDE DEF all, rest
      <4> QED
        BY <3>2, <3>3, <3>4, <3>5, <3>6
    <3> QED
      BY <3>7
  <2> QED
    BY <2>1, <2>2
<1>2. SUBSET S \subseteq Good
  <2> HIDE DEF Good
  <2> QED
    BY <1>1, FiniteByRemoval
<1> QED
  BY <1>2

(***************************************************************************)
(* Renaming the elements of a finite set does not change a sum over it.    *)
(***************************************************************************)
Images(b, S) == {b[x] : x \in S}
OneToOne(b, S) == \A x, y \in S : b[x] = b[y] => x = y
Renames(g, f, b, S) == \A x \in S : g[x] \in Int /\ f[b[x]] = g[x]

\* A sum does not change when the elements are renamed one to one.
LEMMA SumRenamed ==
  ASSUME NEW f, NEW g, NEW S, IsFiniteSet(S), NEW b, OneToOne(b, S), Renames(g, f, b, S)
  PROVE  /\ IsFiniteSet(Images(b, S))
         /\ SumFunctionOnSet(f, Images(b, S)) = SumFunctionOnSet(g, S)
<1> USE DEF Images, OneToOne, Renames
<1> DEFINE Image(T) == {b[x] : x \in T}
           F(T) == SumFunctionOnSet(f, T)
           G(T) == SumFunctionOnSet(g, T)
           Good == {T \in SUBSET S : IsFiniteSet(Image(T)) /\ F(Image(T)) = G(T)}
<1>1. ASSUME NEW T \in SUBSET S, \A x \in T : T \ {x} \in Good PROVE T \in Good
  <2>1. CASE T = {}
    <3>1. Image(T) = {} /\ F({}) = 0 /\ G(T) = 0
      BY <2>1, SumOfNone
    <3> QED
      BY <3>1, FS_EmptySet
  <2>2. CASE T # {}
    <3>1. PICK x \in T : TRUE
      BY <2>2
    <3>2. G(T) = g[x] + G(T \ {x})
      <4>1. IsFiniteSet(T) /\ \A y \in T : g[y] \in Int
        BY FS_Subset
      <4> QED
        BY <4>1, SumTakesOut
    <3>3. Image(T) = Image(T \ {x}) \cup {b[x]} /\ Image(T) \ {b[x]} = Image(T \ {x})
      BY <3>1
    <3>4. IsFiniteSet(Image(T \ {x})) /\ F(Image(T \ {x})) = G(T \ {x})
      BY <1>1, <3>1
    <3>5. IsFiniteSet(Image(T))
      BY <3>3, <3>4, FS_AddElement
    <3>6. F(Image(T)) = f[b[x]] + F(Image(T) \ {b[x]})
      <4>1. b[x] \in Image(T) /\ \A y \in Image(T) : f[y] \in Int
        BY <3>1
      <4> HIDE DEF Image
      <4> QED
        BY <3>5, <4>1, SumTakesOut
    <3> HIDE DEF F, G, Image
    <3> QED
      BY <3>1, <3>2, <3>3, <3>4, <3>5, <3>6
  <2> QED
    BY <2>1, <2>2
<1>2. SUBSET S \subseteq Good
  <2> HIDE DEF Good
  <2> QED
    BY <1>1, FiniteByRemoval
<1> QED
  BY <1>2

\* A sum of equal terms is a product.
LEMMA SumOfConstant ==
  ASSUME NEW f, NEW S, IsFiniteSet(S), NEW k \in Int, \A x \in S : f[x] = k
  PROVE  SumFunctionOnSet(f, S) = k * Cardinality(S)
<1> DEFINE F(T) == SumFunctionOnSet(f, T)
           Good == {T \in SUBSET S : F(T) = k * Cardinality(T)}
<1>1. ASSUME NEW T \in SUBSET S, \A x \in T : T \ {x} \in Good PROVE T \in Good
  <2>1. CASE T = {}
    <3>1. F(T) = 0 /\ Cardinality(T) = 0
      BY <2>1, SumOfNone, FS_EmptySet
    <3> QED
      BY <3>1
  <2>2. CASE T # {}
    <3>1. PICK x \in T : TRUE
      BY <2>2
    <3>2. IsFiniteSet(T) /\ Cardinality(T) \in Nat /\ Cardinality(T \ {x}) = Cardinality(T) - 1
      BY <3>1, FS_Subset, FS_CardinalityType, FS_RemoveElement
    <3>3. F(T) = k + F(T \ {x})
      <4>1. \A y \in T : f[y] \in Int
        OBVIOUS
      <4> QED
        BY <3>1, <3>2, <4>1, SumTakesOut
    <3>4. F(T \ {x}) = k * Cardinality(T \ {x})
      BY <1>1, <3>1
    <3> DEFINE n == Cardinality(T)
    <3>5. F(T) = k * n
      <4>1. n \in Int /\ F(T) = k + k * (n - 1)
        BY <3>2, <3>3, <3>4
      <4> HIDE DEF F, n
      <4> QED
        BY <4>1, SMT
    <3> QED
      BY <3>5
  <2> QED
    BY <2>1, <2>2
<1>2. SUBSET S \subseteq Good
  <2> HIDE DEF Good
  <2> QED
    BY <1>1, FiniteByRemoval
<1> QED
  BY <1>2

\* A sum over one element is its term.
LEMMA SumOfOne ==
  ASSUME NEW f, NEW x, f[x] \in Int
  PROVE  SumFunctionOnSet(f, {x}) = f[x]
<1>1. IsFiniteSet({x}) /\ \A y \in {x} : f[y] \in Int
  BY FS_Singleton
<1>2. SumFunctionOnSet(f, {x}) = f[x] + SumFunctionOnSet(f, {x} \ {x})
  BY <1>1, SumTakesOut
<1>3. SumFunctionOnSet(f, {x} \ {x}) = 0
  <2>1. {x} \ {x} = {}
    OBVIOUS
  <2> QED
    BY <2>1, SumOfNone, Zenon
<1> QED
  BY <1>2, <1>3

(***************************************************************************)
(* A sum over the elements whose key is among 1..n is the sum, over the    *)
(* keys, of the sums over the elements of each.                            *)
(***************************************************************************)
Keyed(S, key, keys) == {x \in S : key[x] \in keys}

KeyedTerms(f, key, S) == \A x \in S : f[x] \in Int /\ key[x] \in Nat

KeyedSums(h, f, key, S, n) == \A v \in 1..n : h[v] = SumFunctionOnSet(f, Keyed(S, key, {v}))

\* The sum over the elements with a key among 1..n, key by key.
LEMMA SumByKey ==
  ASSUME NEW f, NEW key, NEW S, IsFiniteSet(S), KeyedTerms(f, key, S),
         NEW n, n \in Nat, NEW h, KeyedSums(h, f, key, S, n)
  PROVE  SumFunctionOnSet(f, Keyed(S, key, 1..n)) = SumFunctionOnSet(h, 1..n)
<1> USE DEF KeyedTerms, KeyedSums
<1> DEFINE Upto(m) == {x \in S : key[x] \in 1..m}
           Of(v) == {x \in S : key[x] \in {v}}
           F(m) == SumFunctionOnSet(f, Upto(m))
           H(m) == SumFunctionOnSet(h, 1..m)
           Good == {m \in Nat : m <= n => F(m) = H(m)}
<1>1. 0 \in Good
  <2>1. Upto(0) = {} /\ 1..0 = {}
    BY SMT
  <2>2. F(0) = 0 /\ H(0) = 0
    <3> HIDE DEF Upto
    <3> QED
      BY <2>1, SumOfNone, Zenon
  <2> QED
    BY <2>2
<1>2. ASSUME NEW m \in Nat, m \in Good PROVE m + 1 \in Good
  <2>1. SUFFICES ASSUME m + 1 <= n PROVE F(m + 1) = H(m + 1)
    <3> HIDE DEF F, H
    <3> QED OBVIOUS
  <2>2. F(m) = H(m)
    BY <1>2, <2>1
  <2>3. F(m + 1) = F(m) + SumFunctionOnSet(f, Of(m + 1))
    <3>1. Upto(m + 1) = Upto(m) \cup Of(m + 1) /\ Upto(m) \cap Of(m + 1) = {}
      OBVIOUS
    <3>2. IsFiniteSet(Upto(m)) /\ IsFiniteSet(Of(m + 1))
      BY FS_Subset
    <3>3. \A x \in Upto(m) \cup Of(m + 1) : f[x] \in Int
      OBVIOUS
    <3> HIDE DEF Upto, Of
    <3>4. SumFunctionOnSet(f, Upto(m) \cup Of(m + 1))
            = SumFunctionOnSet(f, Upto(m)) + SumFunctionOnSet(f, Of(m + 1))
      BY <3>1, <3>2, <3>3, SumOfDisjoint
    <3> QED
      BY <3>1, <3>4, Zenon
  <2>4. \A v \in 1..n : h[v] \in Int
    <3>1. \A x \in S : f[x] \in Int
      OBVIOUS
    <3>2. \A v \in 1..n : Of(v) \in SUBSET S /\ h[v] = SumFunctionOnSet(f, Of(v))
      BY DEF Keyed
    <3> HIDE DEF Of
    <3> QED
      BY <3>1, <3>2, SumIsInt
  <2>5. H(m + 1) = h[m + 1] + H(m)
    <3>1. IsFiniteSet(1..(m + 1)) /\ m + 1 \in 1..(m + 1)
      BY FS_Interval
    <3>2. \A v \in 1..(m + 1) : h[v] \in Int
      BY <2>1, <2>4
    <3>3. (1..(m + 1)) \ {m + 1} = 1..m
      OBVIOUS
    <3>4. H(m + 1) = h[m + 1] + SumFunctionOnSet(h, (1..(m + 1)) \ {m + 1})
      BY <3>1, <3>2, SumTakesOut
    <3> QED
      BY <3>3, <3>4, Zenon
  <2>6. h[m + 1] = SumFunctionOnSet(f, Of(m + 1)) /\ h[m + 1] \in Int /\ F(m) \in Int
    <3>1. m + 1 \in 1..n /\ Upto(m) \in SUBSET S
      BY <2>1
    <3>2. h[m + 1] = SumFunctionOnSet(f, Of(m + 1)) /\ h[m + 1] \in Int
      BY <2>4, <3>1 DEF Keyed
    <3>3. \A x \in S : f[x] \in Int
      OBVIOUS
    <3> HIDE DEF Upto
    <3> QED
      BY <3>1, <3>2, <3>3, SumIsInt
  <2> HIDE DEF F, H, Of
  <2> QED
    BY <2>2, <2>3, <2>5, <2>6
<1>3. n \in Good
  <2> HIDE DEF Good
  <2> QED
    BY <1>1, <1>2, NaturalsByStep
<1> QED
  BY <1>3 DEF Keyed

-----------------------------------------------------------------------------
(***************************************************************************)
(* CeilDiv, the ROUND_CEILING of the engine, is the least number of whole  *)
(* parts that covers n.                                                    *)
(***************************************************************************)
LEMMA CeilDivIsLeast ==
  ASSUME NEW n \in Int, NEW d \in Nat \ {0}
  PROVE  /\ CeilDiv(n, d) \in Int
         /\ n <= CeilDiv(n, d) * d
         /\ (CeilDiv(n, d) - 1) * d < n
<1> DEFINE q == (n + d - 1) \div d
<1>1. q \in Int /\ d * q <= n + d - 1 /\ n + d - 1 < d * q + d
  BY SMT
<1>2. d * q = q * d /\ (q - 1) * d = q * d - d
  BY <1>1, SMT
<1>3. CeilDiv(n, d) = q
  BY DEF CeilDiv
<1> HIDE DEF q
<1> QED
  BY <1>1, <1>2, <1>3, SMT

(***************************************************************************)
(* Multiplying by a positive number keeps the order.                       *)
(***************************************************************************)
LEMMA ProductOrder ==
  ASSUME NEW a \in Int, NEW b \in Int, NEW d \in Nat \ {0}
  PROVE  /\ a <= b => a * d <= b * d
         /\ a * d < b * d => a < b
<1>1. ASSUME a <= b PROVE a * d <= b * d
  <2>1. b * d = a * d + (b - a) * d /\ (b - a) * d >= 0
    BY <1>1, SMT
  <2> QED
    BY <2>1, SMT
<1>2. ASSUME b <= a PROVE b * d <= a * d
  <2>1. a * d = b * d + (a - b) * d /\ (a - b) * d >= 0
    BY <1>2, SMT
  <2> QED
    BY <2>1, SMT
<1> QED
  BY <1>1, <1>2, SMT

(***************************************************************************)
(* scoring.due_week_bucket returns the first week that reaches the         *)
(* milestone, for every milestone within the horizon.                      *)
(***************************************************************************)
THEOREM DueWeekBucketIsFirst ==
  ASSUME NEW elapsed \in Int, InHorizon(elapsed)
  PROVE  IsDueWeek(DueWeekBucket(elapsed), elapsed)
<1> DEFINE T == TicksPerDay
           q == Days(elapsed)
           m == Greater(q, 1)
           week == (m + 6) \div 7
<1>1. T \in Nat \ {0} /\ 0 <= elapsed /\ elapsed <= 28 * T
  BY TimeAssumption DEF InHorizon, DaysPerWeek
<1>2. q \in Int /\ elapsed <= q * T /\ (q - 1) * T < elapsed
  BY <1>1, CeilDivIsLeast DEF Days
<1>3. q - 1 < 28
  <2>1. (q - 1) * T < 28 * T
    <3> HIDE DEF q, T
    <3> QED BY <1>1, <1>2, SMT
  <2> HIDE DEF q, T
  <2> QED
    BY <1>1, <1>2, <2>1, ProductOrder
<1>4. m \in 1..28 /\ q <= m /\ (m > 1 => q = m)
  BY <1>2, <1>3 DEF Greater
<1>5. /\ week \in 1..4 /\ m <= 7 * week
      /\ week > 1 => m > 7 * (week - 1)
  <2> HIDE DEF m
  <2> QED
    BY <1>4, SMT
<1>6. DueWeekBucket(elapsed) = week
  <2>1. DueWeekBucket(elapsed) = Greater(1, Lesser(4, week))
    BY DEF DueWeekBucket, DaysPerWeek
  <2> HIDE DEF week
  <2> QED
    BY <2>1, <1>5 DEF Greater, Lesser
<1>7. elapsed <= week * 7 * T
  <2>1. q <= 7 * week
    <3> HIDE DEF q, m, week
    <3> QED BY <1>2, <1>4, <1>5, SMT
  <2>2. q * T <= (7 * week) * T
    <3> HIDE DEF q, week, T
    <3> QED BY <1>1, <1>2, <1>5, <2>1, ProductOrder
  <2>3. (7 * week) * T = week * 7 * T
    <3> HIDE DEF week, T
    <3> QED BY <1>1, <1>5, SMT
  <2> HIDE DEF q, week, T
  <2> QED
    BY <1>1, <1>2, <1>5, <2>2, <2>3, SMT
<1>8. ASSUME week > 1 PROVE elapsed > (week - 1) * 7 * T
  <2>1. 7 * (week - 1) <= q - 1
    <3> HIDE DEF q, m, week
    <3> QED BY <1>2, <1>4, <1>5, <1>8, SMT
  <2>2. (7 * (week - 1)) * T <= (q - 1) * T
    <3> HIDE DEF q, week, T
    <3> QED BY <1>1, <1>2, <1>5, <2>1, ProductOrder
  <2>3. (7 * (week - 1)) * T = (week - 1) * 7 * T
    <3> HIDE DEF week, T
    <3> QED BY <1>1, <1>5, SMT
  <2> HIDE DEF q, week, T
  <2> QED
    BY <1>1, <1>2, <1>5, <2>2, <2>3, SMT
<1> HIDE DEF week, T
<1> QED
  BY <1>5, <1>6, <1>7, <1>8 DEF IsDueWeek, Weeks, DaysPerWeek, T

-----------------------------------------------------------------------------
(***************************************************************************)
(* What the receipts of a run rest on: the inputs stay frozen, time is a   *)
(* number and every deal has a receipt, which may be pending.              *)
(***************************************************************************)
Frozen ==
  /\ input \in Inputs
  /\ asOf \in Int
  /\ DOMAIN priority = Deals

\* No call touches the frozen rows.
LEMMA FrozenInductive == Spec => []Frozen
<1>1. Init => Frozen
  BY DEF Init, Frozen, Deals
<1>2. Frozen /\ [Next]_vars => Frozen'
  <2> SUFFICES ASSUME Frozen, [Next]_vars PROVE Frozen'
    OBVIOUS
  <2> USE DEF Frozen, Deals
  <2>1. ASSUME NEW d \in Deals, ComputeReadiness(d) PROVE Frozen'
    BY <2>1 DEF ComputeReadiness
  <2>2. ASSUME NEW d \in Deals, ScorePriority(d) PROVE Frozen'
    BY <2>2 DEF ScorePriority
  <2>3. ASSUME NEW c \in Consultants, ComputeWeeklyCapacity(c) PROVE Frozen'
    BY <2>3 DEF ComputeWeeklyCapacity
  <2>4. ASSUME NEW d \in Deals, NEW c \in Consultants, EvaluateEligibility(d, c) PROVE Frozen'
    BY <2>4 DEF EvaluateEligibility
  <2>5. ASSUME NEW d \in Deals, NEW c \in Consultants, ComputeConsultantFit(d, c) PROVE Frozen'
    BY <2>5 DEF ComputeConsultantFit
  <2>6. CASE ComputeCapacityHeatmap
    BY <2>6 DEF ComputeCapacityHeatmap
  <2>7. CASE RunEmeaScenario
    BY <2>7 DEF RunEmeaScenario
  <2>8. CASE Later
    BY <2>8 DEF Later
  <2>9. CASE UNCHANGED vars
    BY <2>9 DEF vars
  <2> QED
    BY <2>1, <2>2, <2>3, <2>4, <2>5, <2>6, <2>7, <2>8, <2>9 DEF Next
<1> QED
  BY <1>1, <1>2, PTL DEF Spec

(***************************************************************************)
(* Every priority receipt a run issues names the exact week, counted from  *)
(* the as_of of the call that issued it.                                   *)
(***************************************************************************)
THEOREM DueWeeksAreExact == Spec => DueWeekIsExact
<1> DEFINE Exact == \A d \in Deals : Done(priority'[d]) /\ priority'[d] # priority[d]
                      => IsDueWeek(priority'[d].week, input.deals[d].due - asOf)
<1>1. ASSUME Frozen, [Next]_vars PROVE [Exact]_vars
  <2>1. ASSUME NEW d \in Deals, Done(priority'[d]), priority'[d] # priority[d]
        PROVE  IsDueWeek(priority'[d].week, input.deals[d].due - asOf)
    <3>1. PICK e \in Deals : ScorePriority(e)
      <4>1. priority' # priority
        BY <2>1
      <4> QED
        BY <1>1, <4>1 DEF Next, vars, ComputeReadiness, ComputeWeeklyCapacity,
           EvaluateEligibility, ComputeConsultantFit, ComputeCapacityHeatmap,
           RunEmeaScenario, Later
    <3> DEFINE deal == input.deals[e]
               elapsed == deal.due - asOf
    <3>2. priority' = [priority EXCEPT ![e] = Priority(deal, readiness[e], elapsed)]
      BY <3>1 DEF ScorePriority
    <3>3. d = e
      BY <2>1, <3>2, <1>1 DEF Frozen
    <3>4. priority'[d] = Priority(deal, readiness[e], elapsed)
      BY <3>2, <3>3, <1>1 DEF Frozen
    <3>5. elapsed \in Int
      BY <1>1, <3>1, InputsAssumption DEF Frozen, Deals, DealIsTyped
    <3>6. InHorizon(elapsed) /\ priority'[d].week = DueWeekBucket(elapsed)
      BY <2>1, <3>4 DEF Priority, Done, Raised
    <3>7. IsDueWeek(DueWeekBucket(elapsed), elapsed)
      <4> HIDE DEF elapsed
      <4> QED BY <3>5, <3>6, DueWeekBucketIsFirst
    <3> QED
      BY <3>3, <3>6, <3>7
  <2> QED
    BY <2>1
<1>2. Spec => []Frozen
  BY FrozenInductive
<1> QED
  BY <1>1, <1>2, PTL DEF Spec, DueWeekIsExact

-----------------------------------------------------------------------------
(***************************************************************************)
(* Skills that pass at one time and conflict, or are missing, at a later   *)
(* one have an assertion that begins or ends in between.                   *)
(***************************************************************************)
LEMMA ChangedSkills ==
  ASSUME NEW deal, NEW consultant, NEW t \in Nat, NEW now \in Nat, t <= now,
         \A a \in consultant.assertions : a.begin \in Int /\ a.end \in Int,
         SkillsPass(deal, consultant, t),
         NEW s \in deal.skills,
         \/ s \in SkillConflicts(consultant, now)
         \/ CurrentLevels(consultant, s, now) = {}
  PROVE  \E a \in consultant.assertions :
           a.skill \in deal.skills /\ {a.begin, a.end} \cap 1..now # {}
<1> DEFINE Current(a, time) == a.begin <= time /\ (a.end = NoEnd \/ time < a.end)
<1>1. CurrentLevels(consultant, s, t) # {} /\ s \notin SkillConflicts(consultant, t)
  BY DEF SkillsPass
<1>2. ASSUME NEW a \in consultant.assertions, a.skill = s, Current(a, now) # Current(a, t)
      PROVE  \E b \in consultant.assertions :
               b.skill \in deal.skills /\ {b.begin, b.end} \cap 1..now # {}
  <2>1. a.begin \in 1..now \/ a.end \in 1..now
    BY <1>2 DEF NoEnd
  <2> QED
    BY <1>2, <2>1
<1>3. CASE s \in SkillConflicts(consultant, now)
  <2>1. PICK l \in CurrentLevels(consultant, s, now), m \in CurrentLevels(consultant, s, now) :
          l # m
    BY <1>3 DEF SkillConflicts
  <2>2. PICK x \in consultant.assertions : x.skill = s /\ Current(x, now) /\ x.level = l
    BY <2>1 DEF CurrentLevels
  <2>3. PICK y \in consultant.assertions : y.skill = s /\ Current(y, now) /\ y.level = m
    BY <2>1 DEF CurrentLevels
  <2>4. ~(Current(x, t) /\ Current(y, t))
    <3>1. SUFFICES ASSUME Current(x, t), Current(y, t) PROVE FALSE
      OBVIOUS
    <3>2. l \in CurrentLevels(consultant, s, t) /\ m \in CurrentLevels(consultant, s, t)
      BY <2>2, <2>3, <3>1 DEF CurrentLevels
    <3> QED
      BY <1>1, <2>1, <2>2, <3>2 DEF SkillConflicts
  <2> QED
    BY <1>2, <2>2, <2>3, <2>4
<1>4. CASE CurrentLevels(consultant, s, now) = {}
  <2>1. PICK x \in consultant.assertions : x.skill = s /\ Current(x, t)
    BY <1>1 DEF CurrentLevels
  <2>2. ~Current(x, now)
    BY <1>4, <2>1 DEF CurrentLevels
  <2> QED
    BY <1>2, <2>1, <2>2
<1> QED
  BY <1>3, <1>4

(***************************************************************************)
(* An eligible pair passed the check of skills at some as_of up to now.    *)
(***************************************************************************)
PassedSkills ==
  \A d \in Deals, c \in Consultants :
    Done(eligibility[<<d, c>>]) /\ eligibility[<<d, c>>].eligible
      => \E t \in 0..asOf : SkillsPass(input.deals[d], input.consultants[c], t)

IInv ==
  /\ input \in Inputs
  /\ asOf \in Nat
  /\ DOMAIN eligibility = Pairs /\ DOMAIN fit = Pairs
  /\ PassedSkills

\* Every call keeps what an eligible pair once passed.
LEMMA IInvInductive == Spec => []IInv
<1> USE DEF Deals, Consultants, Pairs
<1>1. Init => IInv
  BY DEF Init, IInv, PassedSkills, Done, Pending
<1>2. IInv /\ [Next]_vars => IInv'
  <2> SUFFICES ASSUME IInv, [Next]_vars PROVE IInv'
    OBVIOUS
  <2> USE DEF IInv
  <2>1. ASSUME input' = input, asOf' = asOf, eligibility' = eligibility,
               DOMAIN fit' = DOMAIN fit
        PROVE  IInv'
    BY <2>1 DEF PassedSkills
  <2>2. ASSUME NEW d \in Deals, ComputeReadiness(d) PROVE IInv'
    BY <2>1, <2>2 DEF ComputeReadiness
  <2>3. ASSUME NEW d \in Deals, ScorePriority(d) PROVE IInv'
    BY <2>1, <2>3 DEF ScorePriority
  <2>4. ASSUME NEW c \in Consultants, ComputeWeeklyCapacity(c) PROVE IInv'
    BY <2>1, <2>4 DEF ComputeWeeklyCapacity
  <2>5. ASSUME NEW d \in Deals, NEW c \in Consultants, EvaluateEligibility(d, c) PROVE IInv'
    <3> DEFINE r == IF ValidForLane(input.deals[d], "ASSIGNMENT_RECOMMENDATION")
                    THEN Eligibility(d, c) ELSE Raised
    <3>1. /\ eligibility' = [eligibility EXCEPT ![<<d, c>>] = r]
          /\ UNCHANGED <<input, asOf, fit>>
      BY <2>5 DEF EvaluateEligibility
    <3>2. Done(r) /\ r.eligible => SkillsPass(input.deals[d], input.consultants[c], asOf)
      <4>1. SUFFICES ASSUME Done(r), r.eligible
                     PROVE  SkillsPass(input.deals[d], input.consultants[c], asOf)
        OBVIOUS
      <4>2. r = Eligibility(d, c)
        BY <4>1 DEF Done, Raised
      <4>3. \A id \in DOMAIN Checks(d, c) : Checks(d, c)[id]
        BY <4>1, <4>2 DEF Eligibility
      <4>4. "SKILLS" \in DOMAIN Checks(d, c)
        BY DEF Checks
      <4>5. Checks(d, c)["SKILLS"]
        BY <4>3, <4>4
      <4> QED
        BY <4>5 DEF Checks
    <3> HIDE DEF r
    <3>3. PassedSkills'
      <4> SUFFICES ASSUME NEW e \in Deals, NEW f \in Consultants,
                          Done(eligibility'[<<e, f>>]), eligibility'[<<e, f>>].eligible
                   PROVE  \E t \in 0..asOf :
                            SkillsPass(input.deals[e], input.consultants[f], t)
        BY <3>1 DEF PassedSkills
      <4>1. CASE e = d /\ f = c
        BY <3>1, <3>2, <4>1
      <4>2. CASE ~(e = d /\ f = c)
        BY <3>1, <4>2 DEF PassedSkills
      <4> QED
        BY <4>1, <4>2
    <3> QED
      BY <3>1, <3>3
  <2>6. ASSUME NEW d \in Deals, NEW c \in Consultants, ComputeConsultantFit(d, c) PROVE IInv'
    BY <2>1, <2>6 DEF ComputeConsultantFit
  <2>7. CASE ComputeCapacityHeatmap
    BY <2>1, <2>7 DEF ComputeCapacityHeatmap
  <2>8. CASE RunEmeaScenario
    BY <2>1, <2>8 DEF RunEmeaScenario
  <2>9. CASE Later
    <3>1. /\ asOf' = asOf + 1 /\ 0..asOf \subseteq 0..asOf'
          /\ UNCHANGED <<input, eligibility, fit>>
      BY <2>9 DEF Later
    <3> QED
      BY <3>1 DEF PassedSkills
  <2>10. CASE UNCHANGED vars
    BY <2>1, <2>10 DEF vars
  <2> QED
    BY <2>2, <2>3, <2>4, <2>5, <2>6, <2>7, <2>8, <2>9, <2>10 DEF Next
<1> QED
  BY <1>1, <1>2, PTL DEF Spec

(***************************************************************************)
(* The fit of an eligible pair is refused only for a conflict that the     *)
(* deal does not depend on, or because a required skill's assertions       *)
(* changed after the pair was found eligible.                              *)
(***************************************************************************)
THEOREM FitRefusalsAreExplained == Spec => FitRaisesAreExplained
<1> DEFINE Explained == \A d \in Deals, c \in Consultants :
             fit'[<<d, c>>] # fit[<<d, c>>] /\ fit'[<<d, c>>] = Raised
             => \/ \E s \in SkillConflicts(input.consultants[c], asOf) :
                     s \notin input.deals[d].skills
                \/ \E a \in input.consultants[c].assertions :
                     /\ a.skill \in input.deals[d].skills
                     /\ {a.begin, a.end} \cap 1..asOf # {}
<1>1. ASSUME IInv, [Next]_vars PROVE [Explained]_vars
  <2> SUFFICES ASSUME NEW d \in Deals, NEW c \in Consultants,
                      fit'[<<d, c>>] # fit[<<d, c>>], fit'[<<d, c>>] = Raised,
                      ~\E s \in SkillConflicts(input.consultants[c], asOf) :
                          s \notin input.deals[d].skills
               PROVE  \E a \in input.consultants[c].assertions :
                        a.skill \in input.deals[d].skills /\ {a.begin, a.end} \cap 1..asOf # {}
    OBVIOUS
  <2>1. PICK e \in Deals, g \in Consultants : ComputeConsultantFit(e, g)
    BY <1>1 DEF Next, vars, ComputeReadiness, ScorePriority, ComputeWeeklyCapacity,
       EvaluateEligibility, ComputeCapacityHeatmap, RunEmeaScenario, Later
  <2>2. /\ fit' = [fit EXCEPT ![<<e, g>>] = IF FitRaises(e, g) THEN Raised ELSE Fit(e, g)]
        /\ Done(eligibility[<<e, g>>]) /\ eligibility[<<e, g>>].eligible
    BY <2>1 DEF ComputeConsultantFit
  <2>3. d = e /\ c = g
    BY <2>2, <1>1 DEF IInv, Pairs
  <2>4. FitRaises(d, c)
    BY <2>2, <2>3, <1>1 DEF IInv, Pairs, Fit, Raised
  <2>5. PICK t \in 0..asOf : SkillsPass(input.deals[d], input.consultants[c], t)
    BY <2>2, <2>3, <1>1 DEF IInv, PassedSkills
  <2>6. PICK s \in input.deals[d].skills :
          \/ s \in SkillConflicts(input.consultants[c], asOf)
          \/ CurrentLevels(input.consultants[c], s, asOf) = {}
    BY <2>4 DEF FitRaises
  <2>7. \A a \in input.consultants[c].assertions : a.begin \in Int /\ a.end \in Int
    BY <1>1, InputsAssumption DEF IInv, Consultants, ConsultantIsTyped
  <2>8. PICK deal, consultant, now : deal = input.deals[d] /\ consultant = input.consultants[c]
                                     /\ now = asOf
    OBVIOUS
  <2> QED
    BY <1>1, <2>5, <2>6, <2>7, <2>8, ChangedSkills DEF IInv
<1>2. Spec => []IInv
  BY IInvInductive
<1> QED
  BY <1>1, <1>2, PTL DEF Spec, FitRaisesAreExplained

-----------------------------------------------------------------------------
(***************************************************************************)
(* Roundings, weights and the features of a priority stay within           *)
(* 0..FullBp.                                                              *)
(***************************************************************************)
\* Rounding half to even does not leave a range whose ends are whole.
LEMMA HalfEvenIsBounded ==
  ASSUME NEW n \in Nat, NEW d \in Nat \ {0}, NEW k \in Nat, n <= k * d
  PROVE  RoundHalfEven(n, d) \in 0..k
<1> DEFINE q == n \div d
           m == n % d
<1>1. q \in Nat /\ m \in Nat /\ m < d /\ n = q * d + m
  <2>1. q \in Int /\ m \in 0..(d - 1) /\ n = d * q + m
    BY SMT
  <2>2. d * q = q * d
    BY <2>1, SMT
  <2>3. q >= 0
    BY SMT
  <2> HIDE DEF q, m
  <2> QED
    BY <2>1, <2>2, <2>3, SMT
<1>2. RoundHalfEven(n, d) = IF 2 * m < d \/ (2 * m = d /\ q % 2 = 0) THEN q ELSE q + 1
  BY DEF RoundHalfEven
<1> HIDE DEF q, m
<1>3. q <= k
  <2>1. SUFFICES ASSUME k + 1 <= q PROVE FALSE
    BY <1>1, SMT
  <2>2. (k + 1) * d <= q * d
    BY <1>1, <2>1, ProductOrder
  <2>3. (k + 1) * d = k * d + d
    BY SMT
  <2>4. k * d \in Int /\ q * d \in Int
    BY <1>1, SMT
  <2> QED
    BY <1>1, <2>2, <2>3, <2>4, SMT
<1>4. q = k => m = 0
  <2>1. k * d \in Int
    BY SMT
  <2> QED
    BY <1>1, <2>1, SMT
<1> QED
  BY <1>1, <1>2, <1>3, <1>4, SMT

\* What rounds half to even to at most k is at most half a unit above k.
LEMMA HalfEvenIsNear ==
  ASSUME NEW n \in Nat, NEW d \in Nat \ {0}, NEW k \in Nat, RoundHalfEven(n, d) <= k
  PROVE  2 * n <= (2 * k + 1) * d
<1> DEFINE q == n \div d
           m == n % d
<1>1. q \in Nat /\ m \in Nat /\ m < d /\ n = q * d + m
  <2>1. q \in Int /\ m \in 0..(d - 1) /\ n = d * q + m
    BY SMT
  <2>2. d * q = q * d
    BY <2>1, SMT
  <2>3. q >= 0
    BY SMT
  <2> HIDE DEF q, m
  <2> QED
    BY <2>1, <2>2, <2>3, SMT
<1>2. RoundHalfEven(n, d) = IF 2 * m < d \/ (2 * m = d /\ q % 2 = 0) THEN q ELSE q + 1
  BY DEF RoundHalfEven
<1> HIDE DEF q, m
<1>3. q * d \in Int /\ k * d \in Int /\ (q + 1) * d = q * d + d /\ (2 * k + 1) * d = 2 * (k * d) + d
  BY <1>1, SMT
<1>4. CASE 2 * m <= d /\ q <= k
  <2>1. q * d <= k * d
    BY <1>1, <1>4, ProductOrder
  <2> QED
    BY <1>1, <1>3, <1>4, <2>1, SMT
<1>5. CASE q + 1 <= k
  <2>1. (q + 1) * d <= k * d
    BY <1>1, <1>5, ProductOrder
  <2> QED
    BY <1>1, <1>3, <2>1, SMT
<1> QED
  BY <1>1, <1>2, <1>4, <1>5, SMT

\* A weight times a share is at most the weight of a whole.
LEMMA WeightedIsBounded ==
  ASSUME NEW w \in Nat, NEW x \in 0..FullBp
  PROVE  w * x \in Nat /\ w * x <= w * FullBp /\ w * FullBp \in Nat
<1>1. x * w <= FullBp * w /\ 0 * w <= x * w
  <2>1. CASE w = 0
    BY <2>1, SMT DEF FullBp
  <2>2. CASE w # 0
    BY <2>2, ProductOrder DEF FullBp
  <2> QED
    BY <2>1, <2>2
<1> QED
  BY <1>1, SMT DEF FullBp

\* A non-empty set of natural numbers has a least element.
LEMMA LeastOf ==
  ASSUME NEW S, S \subseteq Nat, S # {}
  PROVE  \E n \in S : \A m \in S : n <= m
<1> DEFINE Less == OpToRel(<, Nat)
<1>1. PICK n \in S : \A m \in S : ~(<<m, n>> \in Less)
  <2>1. IsWellFoundedOn(Less, Nat)
    BY NatLessThanWellFounded
  <2> HIDE DEF Less
  <2> QED
    BY <2>1, WFMin
<1>2. \A m \in S : m < n => <<m, n>> \in Less
  BY DEF OpToRel
<1> HIDE DEF Less
<1>3. \A m \in S : ~(m < n)
  BY <1>1, <1>2
<1> QED
  BY <1>3

\* The Max of a non-empty set of bounded numbers is one of them, and the greatest.
LEMMA GreatestOf ==
  ASSUME NEW k \in Nat, NEW S, S \subseteq 0..k, S # {}
  PROVE  Max(S) \in S /\ \A m \in S : m <= Max(S)
<1>1. PICK n \in {k - m : m \in S} : \A l \in {k - m : m \in S} : n <= l
  <2>1. {k - m : m \in S} \subseteq Nat /\ {k - m : m \in S} # {}
    <3>1. \A m \in S : k - m \in Nat
      OBVIOUS
    <3> QED
      BY <3>1
  <2> QED
    BY <2>1, LeastOf
<1>2. PICK x \in S : n = k - x
  OBVIOUS
<1>3. \A m \in S : x >= m
  BY <1>1, <1>2
<1>4. \A m \in S : m <= Max(S) /\ Max(S) \in S
  <2>1. \E y \in S : \A m \in S : y >= m
    BY <1>3
  <2>2. Max(S) \in S /\ \A m \in S : Max(S) >= m
    BY <2>1 DEF Max
  <2> QED
    BY <2>2
<1> QED
  BY <1>2, <1>4

\* FullBp as a number, for leaves that must not see its value.
LEMMA FullBpIsNat == FullBp \in Nat /\ FullBp \in Nat \ {0} /\ FullBp \in 0..FullBp /\ 0 \in 0..FullBp
BY DEF FullBp

\* The urgency of a deal is a share, whatever the breakpoints.
LEMMA UrgencyIsBounded ==
  ASSUME NEW days \in Int
  PROVE  Urgency(days) \in 0..FullBp
<1> DEFINE latest == {b \in DOMAIN Policy.breakpoints : days <= b}
<1>1. CASE latest = {}
  BY <1>1 DEF Urgency, FullBp
<1>2. CASE latest # {}
  <2>1. latest \subseteq Nat
    BY PolicyAssumption
  <2>2. PICK n \in latest : \A m \in latest : n <= m
    BY <1>2, <2>1, LeastOf
  <2>3. Min(latest) \in latest
    <3> HIDE DEF latest
    <3> QED
      BY <2>2 DEF Min
  <2> QED
    BY <1>2, <2>3, PolicyAssumption DEF Urgency
<1> QED
  BY <1>1, <1>2

\* The share of supported dimensions is a share when there is a dimension.
LEMMA ReadinessIsBounded ==
  ASSUME NEW issued, Policy.dimensions # {}
  PROVE  ReadinessBp(issued) \in 0..FullBp
<1> DEFINE supported == {d \in Policy.dimensions : issued.states[d] = "SUPPORTED"}
<1>1. /\ Cardinality(supported) \in Nat /\ Cardinality(Policy.dimensions) \in Nat \ {0}
      /\ Cardinality(supported) <= Cardinality(Policy.dimensions)
  <2>1. IsFiniteSet(Policy.dimensions) /\ supported \in SUBSET Policy.dimensions
    BY PolicyAssumption
  <2>2. Cardinality(Policy.dimensions) # 0
    BY <2>1, FS_EmptySet
  <2> QED
    BY <2>1, <2>2, FS_Subset, FS_CardinalityType
<1>2. ReadinessBp(issued) = RoundHalfEven(Cardinality(supported) * FullBp, Cardinality(Policy.dimensions))
  BY DEF ReadinessBp
<1> DEFINE s == Cardinality(supported)
           t == Cardinality(Policy.dimensions)
<1>3. s * FullBp \in Nat /\ s * FullBp <= FullBp * t
  <2> HIDE DEF s, t
  <2> USE <1>1 DEF FullBp
  <2>1. s \in Nat /\ t \in Nat /\ s <= t
    BY <1>1 DEF s, t
  <2> QED
    BY <2>1, SMT
<1> HIDE DEF s, t
<1>4. s \in Nat /\ t \in Nat \ {0}
  BY <1>1 DEF s, t
<1>5. RoundHalfEven(s * FullBp, t) \in 0..FullBp
  BY <1>3, <1>4, HalfEvenIsBounded, FullBpIsNat
<1> QED
  BY <1>2, <1>5 DEF s, t

\* The commercial feature is a share between floor and cap.
LEMMA CommercialIsBounded ==
  ASSUME NEW amount \in Int
  PROVE  CommercialBp(amount) \in 0..FullBp
<1> DEFINE range == Policy.cap - Policy.floor
           over == Lesser(Greater(amount, Policy.floor), Policy.cap) - Policy.floor
<1>1. range \in Nat \ {0} /\ over \in 0..range
  BY PolicyAssumption DEF Lesser, Greater
<1>2. CommercialBp(amount) = RoundHalfEven(over * FullBp, range)
  BY DEF CommercialBp
<1> HIDE DEF range, over
<1>3. over * FullBp \in Nat /\ over * FullBp <= FullBp * range
  BY <1>1, SMT DEF FullBp
<1> QED
  BY <1>1, <1>2, <1>3, HalfEvenIsBounded, FullBpIsNat

\* The weighted priority is a share: the weights of a policy sum to FullBp.
LEMMA PriorityIsBounded ==
  ASSUME NEW issued, Policy.dimensions # {}, NEW amount \in Int, NEW elapsed \in Int
  PROVE  PriorityBp(issued, amount, elapsed) \in 0..FullBp
<1> DEFINE w == Policy.weights
           u == Urgency(Days(elapsed))
           r == ReadinessBp(issued)
           c == CommercialBp(amount)
           total == w.urgency * u + w.readiness * r + w.commercial * c
<1>1. u \in 0..FullBp /\ r \in 0..FullBp /\ c \in 0..FullBp
  <2>1. Days(elapsed) \in Int
    BY TimeAssumption, CeilDivIsLeast DEF Days
  <2> QED
    BY <2>1, UrgencyIsBounded, ReadinessIsBounded, CommercialIsBounded
<1>2. /\ w.urgency \in Nat /\ w.readiness \in Nat /\ w.commercial \in Nat
      /\ w.urgency + w.readiness + w.commercial = FullBp
  BY PolicyAssumption
<1>3. PriorityBp(issued, amount, elapsed) = RoundHalfEven(total, FullBp)
  BY DEF PriorityBp
<1> HIDE DEF w, u, r, c
<1>4. total \in Nat /\ total <= FullBp * FullBp
  <2>1. w.urgency * u \in Nat /\ w.urgency * u <= w.urgency * FullBp
    BY <1>1, <1>2, WeightedIsBounded
  <2>2. w.readiness * r \in Nat /\ w.readiness * r <= w.readiness * FullBp
    BY <1>1, <1>2, WeightedIsBounded
  <2>3. w.commercial * c \in Nat /\ w.commercial * c <= w.commercial * FullBp
    BY <1>1, <1>2, WeightedIsBounded
  <2> QED
    BY <1>2, <2>1, <2>2, <2>3, SMT DEF FullBp
<1> QED
  BY <1>3, <1>4, HalfEvenIsBounded, FullBpIsNat

-----------------------------------------------------------------------------
(***************************************************************************)
(* Working windows and the features of a fit.                              *)
(***************************************************************************)
\* The longest working window of a consultant is at most a day.
LEMMA WindowIsBounded ==
  ASSUME NEW consultant, ConsultantIsTyped(consultant)
  PROVE  LongestWindow(consultant) \in 0..MinutesPerDay
<1> DEFINE minutes == {WindowMinutes(s) : s \in consultant.spans}
<1>1. CASE ~ValidWindow(consultant)
  BY <1>1 DEF LongestWindow, MinutesPerDay
<1>2. CASE ValidWindow(consultant)
  <2>1. \A s \in consultant.spans : WindowMinutes(s) \in 0..MinutesPerDay
    <3>1. SUFFICES ASSUME NEW s \in consultant.spans PROVE WindowMinutes(s) \in 0..MinutesPerDay
      OBVIOUS
    <3>2. PICK a, b : a = s[1] /\ b = s[2] /\ a \in Int /\ b \in Int
      BY DEF ConsultantIsTyped
    <3>3. (b - a) % MinutesPerDay \in 0..MinutesPerDay
      <4>1. PICK d \in Int : d = b - a
        BY <3>2
      <4>2. d % 1440 \in 0..1440
        BY SMT
      <4> QED
        BY <4>1, <4>2 DEF MinutesPerDay
    <3>4. WindowMinutes(s) = MinutesPerDay \/ WindowMinutes(s) = (b - a) % MinutesPerDay
      BY <3>2 DEF WindowMinutes
    <3>5. MinutesPerDay \in 0..MinutesPerDay
      BY DEF MinutesPerDay
    <3> QED
      BY <3>3, <3>4, <3>5
  <2>2. minutes \subseteq 0..MinutesPerDay /\ minutes # {}
    BY <1>2, <2>1 DEF ValidWindow
  <2>3. Max(minutes) \in minutes
    <3> HIDE DEF minutes
    <3>1. MinutesPerDay \in Nat
      BY DEF MinutesPerDay
    <3> QED
      BY <2>2, <3>1, GreatestOf
  <2> QED
    BY <1>2, <2>2, <2>3 DEF LongestWindow
<1> QED
  BY <1>1, <1>2

(***************************************************************************)
(* The four components of a fit are basis points.                          *)
(***************************************************************************)
LEMMA PartIsBounded ==
  ASSUME NEW n \in Nat, NEW d \in Nat \ {0}, n <= d
  PROVE  (n * FullBp) \div d \in 0..FullBp
<1> DEFINE q == (n * FullBp) \div d
<1>1. q \in Int /\ d * q <= n * FullBp /\ n * FullBp < d * q + d
  BY SMT DEF FullBp
<1>2. n * FullBp <= FullBp * d /\ d * q = q * d /\ q * d + d = (q + 1) * d
  BY <1>1, SMT DEF FullBp
<1>3. n * FullBp \in Nat
  BY SMT DEF FullBp
<1> HIDE DEF q
<1>4. q <= FullBp
  <2>1. SUFFICES ASSUME FullBp + 1 <= q PROVE FALSE
    BY <1>1, FullBpIsNat
  <2>2. (FullBp + 1) * d <= q * d
    BY <1>1, <2>1, ProductOrder, FullBpIsNat
  <2>3. (FullBp + 1) * d = FullBp * d + d
    BY SMT DEF FullBp
  <2>4. FullBp * d \in Int /\ q * d \in Int
    BY <1>1, SMT DEF FullBp
  <2> QED
    BY <1>1, <1>2, <1>3, <2>2, <2>3, <2>4, SMT
<1>5. q >= 0
  <2>1. SUFFICES ASSUME q + 1 <= 0 PROVE FALSE
    BY <1>1
  <2>2. (q + 1) * d <= 0 * d
    BY <1>1, <2>1, ProductOrder
  <2> QED
    BY <1>1, <1>2, <1>3, <2>2, SMT
<1> QED
  BY <1>1, <1>4, <1>5 DEF q

\* The surplus of a required level is a share of what the scale leaves above it.
LEMMA SurplusIsBounded ==
  ASSUME NEW deal, NEW consultant, ConsultantIsTyped(consultant), NEW s \in DOMAIN Policy.catalog,
         CurrentLevels(consultant, s, asOf) # {}
  PROVE  SkillSurplus(deal, consultant, s) \in 0..FullBp
<1> DEFINE minimum == Policy.catalog[s]
           level == CHOOSE l \in CurrentLevels(consultant, s, asOf) : TRUE
<1>1. minimum \in 0..4
  BY PolicyAssumption
<1>2. level \in 0..4
  BY DEF CurrentLevels, ConsultantIsTyped
<1>3. SkillSurplus(deal, consultant, s) =
        (Greater(0, level - minimum) * FullBp) \div Greater(1, 4 - minimum)
  BY DEF SkillSurplus
<1> HIDE DEF minimum, level
<1>4. /\ minimum \in {0, 1, 2, 3, 4}
      /\ level \in {0, 1, 2, 3, 4}
  BY <1>1, <1>2
<1>5. /\ Greater(0, level - minimum) \in Nat /\ Greater(1, 4 - minimum) \in Nat \ {0}
      /\ Greater(0, level - minimum) <= Greater(1, 4 - minimum)
  BY <1>4 DEF Greater
<1>6. (Greater(0, level - minimum) * FullBp) \div Greater(1, 4 - minimum) \in 0..FullBp
  BY <1>5, PartIsBounded
<1> QED
  BY <1>3, <1>6

\* The skill feature of a fit, a rounded mean of shares, is a share.
LEMMA SkillIsBounded ==
  ASSUME NEW deal, DealIsTyped(deal), NEW consultant, ConsultantIsTyped(consultant),
         deal.skills \subseteq DOMAIN Policy.catalog,
         \A s \in deal.skills : CurrentLevels(consultant, s, asOf) # {}
  PROVE  SkillBp(deal, consultant) \in 0..FullBp
<1> DEFINE surplus == [s \in deal.skills |-> SkillSurplus(deal, consultant, s)]
           full == [s \in deal.skills |-> FullBp]
           n == Cardinality(deal.skills)
<1>1. CASE deal.skills = {}
  BY <1>1, FullBpIsNat DEF SkillBp
<1>2. CASE deal.skills # {}
  <2>1. IsFiniteSet(deal.skills) /\ n \in Nat \ {0}
    BY <1>2, FS_EmptySet, FS_CardinalityType DEF DealIsTyped
  <2>2. \A s \in deal.skills : surplus[s] \in 0..FullBp /\ full[s] = FullBp
    BY SurplusIsBounded
  <2>3. SumFunctionOnSet(surplus, deal.skills) \in Nat
    <3>1. \A s \in deal.skills : surplus[s] \in Nat
      BY <2>2
    <3> HIDE DEF surplus
    <3> QED
      BY <2>1, <3>1, SumIsNat
  <2>4. SumFunctionOnSet(surplus, deal.skills) <= SumFunctionOnSet(full, deal.skills)
    <3>1. \A s \in deal.skills : surplus[s] \in Int /\ full[s] \in Int /\ surplus[s] <= full[s]
      BY <2>2, FullBpIsNat
    <3> HIDE DEF surplus, full
    <3> QED
      BY <2>1, <3>1, SumOrder
  <2>5. SumFunctionOnSet(full, deal.skills) = FullBp * n
    <3>1. \A s \in deal.skills : full[s] = FullBp
      OBVIOUS
    <3> HIDE DEF full
    <3> QED
      BY <2>1, <3>1, FullBpIsNat, SumOfConstant
  <2>6. SkillBp(deal, consultant) = RoundHalfEven(SumFunctionOnSet(surplus, deal.skills), n)
    BY <1>2 DEF SkillBp, SumFunction
  <2> HIDE DEF surplus, full, n
  <2> QED
    BY <2>1, <2>3, <2>4, <2>5, <2>6, HalfEvenIsBounded, FullBpIsNat
<1> QED
  BY <1>1, <1>2

\* The overlap feature of a fit is a share.
LEMMA OverlapIsBounded ==
  ASSUME NEW deal, DealIsTyped(deal), NEW minutes \in 0..MinutesPerDay
  PROVE  OverlapBp(deal, minutes) \in 0..FullBp
<1> DEFINE floor == RequiredOverlap(deal)
           a == Greater(0, minutes - floor) * FullBp
           b == Greater(1, MinutesPerDay - floor)
<1>1. floor \in Int
  <2>1. deal.overlap \in Int /\ Policy.minimumOverlap \in Int
    BY PolicyAssumption DEF DealIsTyped
  <2> QED
    BY <2>1 DEF RequiredOverlap, Greater
<1>2. a \in Nat /\ b \in Nat \ {0}
  <2> HIDE DEF floor
  <2> QED
    BY <1>1, SMT DEF Greater, MinutesPerDay, FullBp
<1>3. OverlapBp(deal, minutes) = Lesser(FullBp, a \div b)
  BY DEF OverlapBp
<1> HIDE DEF a, b
<1>4. a \div b \in Nat
  BY <1>2, SMT
<1> QED
  BY <1>3, <1>4, FullBpIsNat DEF Lesser

\* The headroom feature of a fit is a share, whatever the receipt sums to.
LEMMA HeadroomIsBounded ==
  ASSUME NEW deal, NEW issued, NEW w,
         SumThrough(issued, "net", w) \in Int, SumThrough(issued, "free", w) \in Int,
         deal.effort \in Nat
  PROVE  HeadroomBp(deal, issued, w) \in 0..FullBp
<1> DEFINE net == SumThrough(issued, "net", w)
           over == Greater(0, SumThrough(issued, "free", w) - deal.effort) * FullBp
<1>1. net \in Int /\ over \in Nat
  BY DEF Greater, FullBp
<1>2. HeadroomBp(deal, issued, w) = IF net <= 0 THEN 0 ELSE Lesser(FullBp, over \div net)
  BY DEF HeadroomBp
<1> HIDE DEF net, over
<1>3. net > 0 => over \div net \in Nat
  BY <1>1, SMT
<1> QED
  BY <1>1, <1>2, <1>3, FullBpIsNat DEF Lesser

\* The weighted fit is a share: the match weights of a policy sum to FullBp.
LEMMA WeightedFitIsBounded ==
  ASSUME NEW s \in 0..FullBp, NEW c \in 0..FullBp, NEW o \in 0..FullBp, NEW h \in 0..FullBp
  PROVE  RoundHalfEven(Policy.match.skill * s + Policy.match.continuity * c
                       + Policy.match.overlap * o + Policy.match.headroom * h, FullBp) \in 0..FullBp
<1> DEFINE m == Policy.match
           p == m.skill * s
           q == m.continuity * c
           r == m.overlap * o
           t == m.headroom * h
           total == p + q + r + t
<1>1. /\ m.skill \in Nat /\ m.continuity \in Nat /\ m.overlap \in Nat /\ m.headroom \in Nat
      /\ m.skill + m.continuity + m.overlap + m.headroom = FullBp
  BY PolicyAssumption
<1> HIDE DEF m
<1>2. p \in Nat /\ p <= m.skill * FullBp
  BY <1>1, WeightedIsBounded
<1>3. q \in Nat /\ q <= m.continuity * FullBp
  BY <1>1, WeightedIsBounded
<1>4. r \in Nat /\ r <= m.overlap * FullBp
  BY <1>1, WeightedIsBounded
<1>5. t \in Nat /\ t <= m.headroom * FullBp
  BY <1>1, WeightedIsBounded
<1>6. total \in Nat /\ total <= FullBp * FullBp
  <2> HIDE DEF p, q, r, t
  <2> QED
    BY <1>1, <1>2, <1>3, <1>4, <1>5, SMT DEF FullBp
<1> QED
  BY <1>6, HalfEvenIsBounded, FullBpIsNat DEF m

-----------------------------------------------------------------------------
(***************************************************************************)
(* The weekly capacity of a consultant.                                    *)
(***************************************************************************)
WithinCeiling(deal, issued, w) ==
  /\ SumThrough(issued, "net", w) > 0
  /\ ProjectedUtilization(deal, issued, w) <= Policy.ceiling

OneRowAWeek(consultant) ==
  \A r, s \in consultant.availability : r # s => r.week # s.week

Units(work) == [i \in DOMAIN work |-> work[i].units]

\* Workload rows are finitely many and their units natural numbers.
LEMMA UnitsAreTyped ==
  ASSUME NEW consultant, ConsultantIsTyped(consultant)
  PROVE  /\ IsFiniteSet(DOMAIN consultant.work) /\ DOMAIN consultant.work \subseteq Nat
         /\ \A i \in DOMAIN consultant.work : Units(consultant.work)[i] \in Nat
<1>1. DOMAIN consultant.work = 1..Len(consultant.work) /\ Len(consultant.work) \in Nat
  BY DEF ConsultantIsTyped
<1>2. IsFiniteSet(1..Len(consultant.work))
  BY <1>1, FS_Interval
<1> QED
  BY <1>1, <1>2 DEF Units, ConsultantIsTyped

\* The active units of a week are a natural number.
LEMMA ActiveIsNat ==
  ASSUME NEW consultant, ConsultantIsTyped(consultant), NEW w
  PROVE  ActiveUnits(consultant.work, w) \in Nat
<1> DEFINE work == consultant.work
           counted == {i \in DOMAIN work : work[i].week = w /\ work[i].active /\ ~Repeats(work, i)}
<1>1. IsFiniteSet(counted) /\ \A i \in counted : Units(work)[i] \in Nat
  BY UnitsAreTyped, FS_Subset
<1>2. ActiveUnits(work, w) = SumFunctionOnSet(Units(work), counted)
  BY DEF ActiveUnits, Units
<1> HIDE DEF counted
<1> QED
  BY <1>1, <1>2, SumIsNat

(***************************************************************************)
(* A bucket of weekly capacity, and what a COMPLETE one says of the rows.  *)
(***************************************************************************)
LEMMA BucketFacts ==
  ASSUME NEW consultant, ConsultantIsTyped(consultant), NEW w \in Weeks
  PROVE  LET b == Bucket(consultant, w)
         IN /\ b.net \in Int /\ b.free \in Nat
            /\ b.active = ActiveUnits(consultant.work, w)
            /\ b.state = "COMPLETE" =>
                 /\ consultant.populationComplete /\ w \notin ConflictWeeks(consultant.work)
                 /\ b.free + b.active = b.net
                 /\ \E r \in consultant.availability :
                      r.week = w /\ r.state = "COMPLETE" /\ b.net = r.scheduled - r.timeOff
<1> DEFINE active == ActiveUnits(consultant.work, w)
           rows == {r \in consultant.availability : r.week = w}
           row == CHOOSE r \in rows : TRUE
           free == row.scheduled - row.timeOff - active
           state == IF \/ row.state = "CONFLICT" \/ w \in ConflictWeeks(consultant.work)
                       \/ free < 0
                    THEN "CONFLICT"
                    ELSE IF row.state # "COMPLETE" \/ ~consultant.populationComplete
                    THEN "INCOMPLETE" ELSE "COMPLETE"
           b == Bucket(consultant, w)
<1>1. active \in Nat
  BY ActiveIsNat
<1>2. CASE rows = {}
  <2>1. b = [net |-> 0, active |-> active, free |-> 0, state |-> "INCOMPLETE"]
    BY <1>2 DEF Bucket
  <2> QED
    BY <2>1
<1>3. CASE rows # {}
  <2>1. b = [net |-> row.scheduled - row.timeOff, active |-> active,
             free |-> IF state = "COMPLETE" THEN free ELSE 0, state |-> state]
    <3> HIDE DEF active, row
    <3> QED
      BY <1>3 DEF Bucket, active, row
  <2>2. row \in consultant.availability /\ row.week = w
    BY <1>3
  <2>3. row.scheduled \in Nat /\ row.timeOff \in Nat
    BY <2>2 DEF ConsultantIsTyped
  <2> HIDE DEF row, active, b
  <2>4. b.net = row.scheduled - row.timeOff /\ b.active = active
        /\ b.state = state /\ b.free = IF state = "COMPLETE" THEN free ELSE 0
    BY <2>1
  <2>5. state = "COMPLETE" => /\ row.state = "COMPLETE" /\ consultant.populationComplete
                              /\ w \notin ConflictWeeks(consultant.work) /\ free >= 0
    BY <1>1, <2>3
  <2>6. b.state = "COMPLETE" => b.free = b.net - b.active /\ b.free >= 0
    BY <2>4, <2>5
  <2>7. b.net \in Int /\ b.active \in Nat /\ b.free \in Nat
    BY <1>1, <2>3, <2>4, <2>5
  <2> HIDE DEF state
  <2>8. b.state = "COMPLETE" =>
          \E r \in consultant.availability :
             r.week = w /\ r.state = "COMPLETE" /\ b.net = r.scheduled - r.timeOff
    BY <2>2, <2>4, <2>5
  <2> QED
    BY <2>4, <2>5, <2>6, <2>7, <2>8 DEF b, active
<1> QED
  BY <1>2, <1>3

\* Every week up to the completeness horizon is COMPLETE.
LEMMA ThroughFacts ==
  ASSUME NEW buckets
  PROVE  /\ CompleteThrough(buckets) \in 0..4
         /\ \A v \in 1..CompleteThrough(buckets) : buckets[v].state = "COMPLETE"
<1> DEFINE S == {0} \cup {w \in Weeks : \A v \in 1..w : buckets[v].state = "COMPLETE"}
<1>1. S \subseteq 0..4 /\ S # {}
  BY DEF Weeks
<1>2. Max(S) \in S
  <2> HIDE DEF S
  <2> QED
    BY <1>1, GreatestOf
<1>3. Max(S) \in 0..4 /\ \A v \in 1..Max(S) : buckets[v].state = "COMPLETE"
  BY <1>1, <1>2
<1> QED
  BY <1>3 DEF CompleteThrough

\* What a capacity receipt says of its buckets.
LEMMA CapacityFacts ==
  ASSUME NEW consultant, ConsultantIsTyped(consultant)
  PROVE  LET r == WeeklyCapacity(consultant)
         IN /\ r.through \in 0..4
            /\ \A w \in Weeks : /\ r.buckets[w] = Bucket(consultant, w)
                                /\ r.buckets[w].net \in Int /\ r.buckets[w].free \in Nat
                                /\ r.buckets[w].active \in Nat
            /\ \A w \in 1..r.through : w \in Weeks /\ r.buckets[w].state = "COMPLETE"
<1> DEFINE r == WeeklyCapacity(consultant)
<1>1. r.through = CompleteThrough(r.buckets) /\ \A w \in Weeks : r.buckets[w] = Bucket(consultant, w)
  BY DEF WeeklyCapacity
<1>2. /\ r.through \in 0..4
      /\ \A w \in 1..r.through : w \in Weeks /\ r.buckets[w].state = "COMPLETE"
  <2> HIDE DEF r
  <2> QED
    BY <1>1, ThroughFacts DEF Weeks
<1>3. ASSUME NEW w \in Weeks
      PROVE  r.buckets[w].net \in Int /\ r.buckets[w].free \in Nat /\ r.buckets[w].active \in Nat
  <2> HIDE DEF r
  <2> QED
    BY <1>1, BucketFacts, ActiveIsNat
<1> QED
  BY <1>1, <1>2, <1>3

\* Sums of a capacity receipt up to a week are integers.
LEMMA ThroughIsInt ==
  ASSUME NEW consultant, ConsultantIsTyped(consultant), NEW w \in Weeks
  PROVE  /\ SumThrough(WeeklyCapacity(consultant), "net", w) \in Int
         /\ SumThrough(WeeklyCapacity(consultant), "free", w) \in Int
<1>1. IsFiniteSet(1..w) /\ 1..w \subseteq Weeks
  BY FS_Interval DEF Weeks
<1> DEFINE r == WeeklyCapacity(consultant)
           net == [v \in Weeks |-> r.buckets[v]["net"]]
           free == [v \in Weeks |-> r.buckets[v]["free"]]
<1>2. \A v \in 1..w : net[v] \in Int /\ free[v] \in Int
  BY <1>1, CapacityFacts
<1>3. SumThrough(r, "net", w) = SumFunctionOnSet(net, 1..w)
  BY DEF SumThrough
<1>4. SumThrough(r, "free", w) = SumFunctionOnSet(free, 1..w)
  BY DEF SumThrough
<1>5. SumFunctionOnSet(net, 1..w) \in Int
  <2> HIDE DEF net
  <2> QED
    BY <1>1, <1>2, SumTakesOut
<1>6. SumFunctionOnSet(free, 1..w) \in Int
  <2> HIDE DEF free
  <2> QED
    BY <1>1, <1>2, SumTakesOut
<1> QED
  BY <1>3, <1>4, <1>5, <1>6

-----------------------------------------------------------------------------
(***************************************************************************)
(* From a capacity receipt to the rows it was computed from.               *)
(***************************************************************************)
(***************************************************************************)
(* In a week that is not in conflict no row repeats another: every active  *)
(* row of the week is counted.                                             *)
(***************************************************************************)
LEMMA QuietWeek ==
  ASSUME NEW consultant, ConsultantIsTyped(consultant),
         NEW w \in Weeks, w \notin ConflictWeeks(consultant.work)
  PROVE  /\ ActiveUnits(consultant.work, w) = Booked(consultant, {w})
         /\ \A i, j \in DOMAIN consultant.work :
              i # j /\ consultant.work[i].id = consultant.work[j].id
                => consultant.work[i].week # consultant.work[j].week \/ consultant.work[i].week # w
<1> DEFINE work == consultant.work
<1>1. \A i \in DOMAIN work : work[i].week = w => ~Repeats(work, i)
  BY DEF ConflictWeeks
<1>2. {i \in DOMAIN work : work[i].week = w /\ work[i].active /\ ~Repeats(work, i)}
        = {i \in DOMAIN work : work[i].week \in {w} /\ work[i].active}
  BY <1>1
<1>3. ActiveUnits(work, w) = Booked(consultant, {w})
  BY <1>2, Zenon DEF ActiveUnits, Booked
<1>4. ASSUME NEW i \in DOMAIN work, NEW j \in DOMAIN work,
             i < j, work[i].id = work[j].id, work[i].week = work[j].week
      PROVE  work[j].week # w
  <2>1. i \in 1..(j - 1)
    BY <1>4 DEF ConsultantIsTyped
  <2>2. Repeats(work, j)
    BY <1>4, <2>1 DEF Repeats
  <2> QED
    BY <1>1, <2>2
<1>5. \A i, j \in DOMAIN work : i \in Int /\ j \in Int /\ (i # j => i < j \/ j < i)
  BY DEF ConsultantIsTyped
<1> QED
  BY <1>3, <1>4, <1>5

\* With one row a week, what a week offers is what its row offers.
LEMMA OfferedInAWeek ==
  ASSUME NEW consultant, ConsultantIsTyped(consultant), OneRowAWeek(consultant),
         NEW row \in consultant.availability
  PROVE  Offered(consultant, {row.week}) = row.scheduled - row.timeOff
<1> DEFINE net == [r \in consultant.availability |-> r.scheduled - r.timeOff]
           w == row.week
<1>1. {r \in consultant.availability : r.week \in {w}} = {row}
  BY DEF OneRowAWeek
<1>2. Offered(consultant, {w}) = SumFunctionOnSet(net, {row})
  BY <1>1, Zenon DEF Offered
<1>3. net[row] = row.scheduled - row.timeOff /\ net[row] \in Int
  BY DEF ConsultantIsTyped
<1> HIDE DEF net
<1> QED
  BY <1>2, <1>3, SumOfOne

(***************************************************************************)
(* What is booked, and offered, up to a week is the sum over the weeks.    *)
(***************************************************************************)
LEMMA BookedByWeek ==
  ASSUME NEW consultant, ConsultantIsTyped(consultant), NEW w \in Weeks, NEW h,
         \A v \in 1..w : h[v] = Booked(consultant, {v})
  PROVE  Booked(consultant, 1..w) = SumFunctionOnSet(h, 1..w)
<1> DEFINE work == consultant.work
           active == {i \in DOMAIN work : work[i].active}
           f == Units(work)
           key == [i \in active |-> work[i].week]
<1>1. IsFiniteSet(active)
  BY UnitsAreTyped, FS_Subset
<1>2. KeyedTerms(f, key, active)
  <2>1. \A i \in active : key[i] \in Weeks
    BY DEF ConsultantIsTyped
  <2>2. \A i \in active : f[i] \in Nat
    BY UnitsAreTyped
  <2> HIDE DEF f, key
  <2> QED
    BY <2>1, <2>2 DEF Weeks, KeyedTerms
<1>3. \A W : Booked(consultant, W) = SumFunctionOnSet(f, Keyed(active, key, W))
  <2>1. SUFFICES ASSUME NEW W
                 PROVE  Booked(consultant, W) = SumFunctionOnSet(f, Keyed(active, key, W))
    OBVIOUS
  <2>2. {i \in DOMAIN work : work[i].week \in W /\ work[i].active} = Keyed(active, key, W)
    BY DEF Keyed
  <2> QED
    BY <2>2, Zenon DEF Booked, Units
<1>4. KeyedSums(h, f, key, active, w)
  BY <1>3 DEF KeyedSums
<1>5. w \in Nat
  BY DEF Weeks
<1> HIDE DEF active, key, f
<1>6. SumFunctionOnSet(f, Keyed(active, key, 1..w)) = SumFunctionOnSet(h, 1..w)
  BY <1>1, <1>2, <1>4, <1>5, SumByKey, ZenonT(90)
<1> QED
  BY <1>3, <1>6

\* What is offered up to a week is the sum over the weeks.
LEMMA OfferedByWeek ==
  ASSUME NEW consultant, ConsultantIsTyped(consultant), NEW w \in Weeks, NEW h,
         \A v \in 1..w : h[v] = Offered(consultant, {v})
  PROVE  Offered(consultant, 1..w) = SumFunctionOnSet(h, 1..w)
<1> DEFINE rows == consultant.availability
           f == [r \in rows |-> r.scheduled - r.timeOff]
           key == [r \in rows |-> r.week]
<1>1. IsFiniteSet(rows)
  BY DEF ConsultantIsTyped
<1>2. KeyedTerms(f, key, rows)
  BY DEF ConsultantIsTyped, Weeks, KeyedTerms
<1>3. \A W : Offered(consultant, W) = SumFunctionOnSet(f, Keyed(rows, key, W))
  <2>1. SUFFICES ASSUME NEW W
                 PROVE  Offered(consultant, W) = SumFunctionOnSet(f, Keyed(rows, key, W))
    OBVIOUS
  <2>2. {r \in consultant.availability : r.week \in W} = Keyed(rows, key, W)
    BY DEF Keyed
  <2> QED
    BY <2>2, Zenon DEF Offered
<1>4. KeyedSums(h, f, key, rows, w)
  BY <1>3 DEF KeyedSums
<1>5. w \in Nat
  BY DEF Weeks
<1> HIDE DEF rows, key, f
<1>6. SumFunctionOnSet(f, Keyed(rows, key, 1..w)) = SumFunctionOnSet(h, 1..w)
  BY <1>1, <1>2, <1>4, <1>5, SumByKey, ZenonT(90)
<1> QED
  BY <1>3, <1>6

(***************************************************************************)
(* A receipt that is complete up to a week, has enough free units and a    *)
(* utilization that rounds to at most the ceiling has room in the rows it  *)
(* was computed from.                                                      *)
(***************************************************************************)
LEMMA ReceiptMeansRoom ==
  ASSUME NEW consultant, ConsultantIsTyped(consultant), OneRowAWeek(consultant),
         NEW deal, DealIsTyped(deal), NEW w \in Weeks,
         WeeklyCapacity(consultant).through >= w,
         SumThrough(WeeklyCapacity(consultant), "free", w) >= deal.effort,
         WithinCeiling(deal, WeeklyCapacity(consultant), w)
  PROVE  HasRoom(deal, consultant, w)
<1> DEFINE r == WeeklyCapacity(consultant)
           net == [v \in Weeks |-> r.buckets[v].net]
           active == [v \in Weeks |-> r.buckets[v].active]
           free == [v \in Weeks |-> r.buckets[v]["free"]]
<1>1. /\ 1..w \subseteq Weeks /\ IsFiniteSet(1..w) /\ w \in 1..w
      /\ \A v \in 1..w : v \in 1..r.through
  <2>1. r.through \in Int /\ r.through >= w
    BY CapacityFacts
  <2>2. w \in Int /\ w >= 1 /\ w <= 4
    BY DEF Weeks
  <2>3. IsFiniteSet(1..w)
    BY <2>2, FS_Interval
  <2>4. \A v \in 1..w : v \in 1..r.through
    <3> HIDE DEF r
    <3> QED BY <2>1, <2>2
  <2> QED
    BY <2>2, <2>3, <2>4 DEF Weeks
<1>2. ASSUME NEW v \in 1..w
      PROVE  /\ v \in Weeks /\ net[v] \in Int /\ active[v] \in Int /\ free[v] \in Nat
             /\ net[v] = free[v] + active[v]
             /\ active[v] = Booked(consultant, {v}) /\ net[v] = Offered(consultant, {v})
             /\ v \notin ConflictWeeks(consultant.work) /\ consultant.populationComplete
             /\ \E row \in consultant.availability : row.week = v /\ row.state = "COMPLETE"
  <2>1. /\ v \in Weeks /\ r.buckets[v] = Bucket(consultant, v)
        /\ r.buckets[v].state = "COMPLETE"
    BY <1>1, CapacityFacts
  <2>2. /\ net[v] = Bucket(consultant, v).net /\ free[v] = Bucket(consultant, v).free
        /\ active[v] = Bucket(consultant, v).active
    BY <2>1
  <2> HIDE DEF r, net, active, free
  <2>3. /\ net[v] \in Int /\ free[v] \in Nat /\ active[v] = ActiveUnits(consultant.work, v)
        /\ v \notin ConflictWeeks(consultant.work) /\ consultant.populationComplete
        /\ free[v] + active[v] = net[v]
        /\ \E row \in consultant.availability :
             row.week = v /\ row.state = "COMPLETE" /\ net[v] = row.scheduled - row.timeOff
    BY <2>1, <2>2, BucketFacts
  <2>4. active[v] \in Nat /\ active[v] = Booked(consultant, {v})
    BY <2>1, <2>3, ActiveIsNat, QuietWeek
  <2>5. net[v] = Offered(consultant, {v})
    BY <2>3, OfferedInAWeek
  <2> QED
    BY <2>1, <2>3, <2>4, <2>5
<1>11. \A v \in 1..w : free[v] \in Nat /\ active[v] \in Int /\ net[v] \in Int
                       /\ net[v] = free[v] + active[v]
  BY <1>2
<1>3. SumThrough(r, "free", w) = SumFunctionOnSet(free, 1..w)
  BY DEF SumThrough
<1>4. SumThrough(r, "free", w) >= deal.effort /\ deal.effort \in Nat
  BY DEF DealIsTyped
<1>12. SumThrough(r, "net", w) = SumFunctionOnSet(net, 1..w)
  BY DEF SumThrough
<1>13. SumThrough(r, "active", w) = SumFunctionOnSet(active, 1..w)
  BY DEF SumThrough
<1>14. \A v \in 1..w : active[v] \in Nat
  BY <1>1, CapacityFacts
<1>15. WithinCeiling(deal, r, w)
  OBVIOUS
<1> HIDE DEF r, net, active, free
<1>5. SumFunctionOnSet(net, 1..w) = SumFunctionOnSet(free, 1..w) + SumFunctionOnSet(active, 1..w)
  <2>1. \A v \in 1..w : free[v] \in Int /\ active[v] \in Int /\ net[v] = free[v] + active[v]
    BY <1>11
  <2> QED
    BY <1>1, <2>1, SumOfSums
<1>6. /\ SumFunctionOnSet(net, 1..w) = Offered(consultant, 1..w)
      /\ SumFunctionOnSet(active, 1..w) = Booked(consultant, 1..w)
  <2>1. (\A v \in 1..w : active[v] = Booked(consultant, {v})) /\ (\A v \in 1..w : net[v] = Offered(consultant, {v}))
    BY <1>2
  <2>2. Offered(consultant, 1..w) = SumFunctionOnSet(net, 1..w)
    BY <2>1, OfferedByWeek
  <2>3. Booked(consultant, 1..w) = SumFunctionOnSet(active, 1..w)
    BY <2>1, BookedByWeek
  <2> QED
    BY <2>2, <2>3
<1>7. SumFunctionOnSet(free, 1..w) \in Int /\ SumFunctionOnSet(active, 1..w) \in Int
  <2>1. \A v \in 1..w : free[v] \in Int /\ active[v] \in Int
    BY <1>11
  <2> QED
    BY <1>1, <2>1, SumTakesOut
<1>8. Booked(consultant, 1..w) + deal.effort <= Offered(consultant, 1..w)
  BY <1>3, <1>4, <1>5, <1>6, <1>7
<1>16. 2 * (Booked(consultant, 1..w) + deal.effort) * FullBp
         <= (2 * Policy.ceiling + 1) * Offered(consultant, 1..w)
  <2> DEFINE b == SumFunctionOnSet(active, 1..w)
             o == SumFunctionOnSet(net, 1..w)
  <2>1. b \in Nat
    BY <1>1, <1>14, SumIsNat
  <2>2. o \in Int
    BY <1>1, <1>11, SumTakesOut
  <2>3. o > 0 /\ RoundHalfEven((b + deal.effort) * FullBp, o) <= Policy.ceiling
    BY <1>12, <1>13, <1>15 DEF WithinCeiling, ProjectedUtilization
  <2> HIDE DEF b, o
  <2>4. (b + deal.effort) * FullBp \in Nat /\ o \in Nat \ {0} /\ Policy.ceiling \in Nat
    <3>1. (b + deal.effort) * FullBp \in Nat
      BY <1>4, <2>1, SMT DEF FullBp
    <3>2. PICK k \in 0..FullBp : Policy.ceiling = k
      BY PolicyAssumption
    <3>3. k \in Nat
      BY FullBpIsNat
    <3>. QED  BY <2>2, <2>3, <3>1, <3>2, <3>3
  <2>5. 2 * ((b + deal.effort) * FullBp) <= (2 * Policy.ceiling + 1) * o
    BY <2>3, <2>4, HalfEvenIsNear
  <2>6. 2 * ((b + deal.effort) * FullBp) = 2 * (b + deal.effort) * FullBp
    BY <1>4, <2>1, SMT DEF FullBp
  <2>7. b = Booked(consultant, 1..w) /\ o = Offered(consultant, 1..w)
    BY <1>6 DEF b, o
  <2> QED
    BY <2>5, <2>6, <2>7
<1>9. \A v \in 1..w : Booked(consultant, {v}) <= Offered(consultant, {v})
  <2>1. SUFFICES ASSUME NEW v \in 1..w PROVE active[v] <= net[v]
    BY <1>2
  <2> QED
    BY <1>11
<1>10. \A i, j \in DOMAIN consultant.work :
         i # j /\ consultant.work[i].id = consultant.work[j].id
           => consultant.work[i].week # consultant.work[j].week \/ consultant.work[i].week > w
  <2>1. SUFFICES ASSUME NEW i \in DOMAIN consultant.work, NEW j \in DOMAIN consultant.work,
                        i # j, consultant.work[i].id = consultant.work[j].id,
                        consultant.work[i].week = consultant.work[j].week,
                        ~(consultant.work[i].week > w)
                 PROVE  FALSE
    OBVIOUS
  <2>2. consultant.work[i].week \in 1..w
    <3>1. consultant.work[i].week \in Weeks
      BY DEF ConsultantIsTyped
    <3> QED
      BY <2>1, <3>1 DEF Weeks
  <2>3. PICK v \in 1..w : v = consultant.work[i].week
    BY <2>2
  <2>4. v \in Weeks /\ v \notin ConflictWeeks(consultant.work)
    BY <1>2
  <2> QED
    BY <2>1, <2>3, <2>4, QuietWeek
<1> QED
  BY <1>1, <1>2, <1>8, <1>9, <1>10, <1>16 DEF HasRoom

-----------------------------------------------------------------------------
(***************************************************************************)
(* What every receipt of a run still says of the frozen rows: readiness,   *)
(* capacity and the two heatmaps are what the rows give, whenever they     *)
(* were computed; an eligible pair passed the checks of capacity and of    *)
(* skills; shares are of FullBp.                                           *)
(***************************************************************************)
ReadinessFollows ==
  \A d \in Deals : Done(readiness[d]) =>
    readiness[d] = Readiness(input.deals[d]) /\ Policy.dimensions # {}

PriorityFollows ==
  \A d \in Deals : Done(priority[d]) => priority[d].week \in Weeks /\ priority[d].bp \in 0..FullBp

CapacityFollows ==
  \A c \in Consultants : Done(capacity[c]) =>
    /\ OneRowAWeek(input.consultants[c])
    /\ capacity[c] = WeeklyCapacity(input.consultants[c])

Cleared(r, deal, issued) ==
  /\ issued.through >= r.week
  /\ SumThrough(issued, "free", r.week) >= deal.effort
  /\ WithinCeiling(deal, issued, r.week)
  /\ deal.skills \subseteq DOMAIN Policy.catalog

EligibilityFollows ==
  \A d \in Deals, c \in Consultants : Done(eligibility[<<d, c>>]) =>
    LET r == eligibility[<<d, c>>]
    IN /\ Done(capacity[c]) /\ r.week \in Weeks /\ r.minutes \in 0..MinutesPerDay
       /\ r.eligible => Cleared(r, input.deals[d], capacity[c])

FitFollows ==
  \A d \in Deals, c \in Consultants : Done(fit[<<d, c>>]) => fit[<<d, c>>].bp \in 0..FullBp

Raises(demands) == {RaisedEffort(dem) : dem \in demands}

CellsFollow ==
  /\ heatmap # NoCells =>
       /\ \A c \in Consultants : capacity[c] # Pending
       /\ heatmap = Cells(input.demands)
  /\ scenario # NoCells => heatmap # NoCells /\ scenario = Cells(Raises(input.demands))

Shapes ==
  /\ input \in Inputs /\ asOf \in 0..MaxDelay
  /\ DOMAIN readiness = Deals /\ DOMAIN priority = Deals /\ DOMAIN capacity = Consultants
  /\ DOMAIN eligibility = Pairs /\ DOMAIN fit = Pairs

ReceiptsFollow ==
  /\ Shapes /\ ReadinessFollows /\ PriorityFollows /\ CapacityFollows
  /\ EligibilityFollows /\ FitFollows /\ CellsFollow

-----------------------------------------------------------------------------
(***************************************************************************)
(* Each part stands while what it speaks of stays as it is.                *)
(***************************************************************************)
LEMMA CellsStay ==
  ASSUME input' = input, capacity' = capacity, NEW demands
  PROVE  Cells(demands)' = Cells(demands)
<1> USE DEF Consultants, Active, Matching, Suppliers, Done
<1>1. Groups(demands)' = Groups(demands)
  BY DEF Groups
<1>2. \A g, w : Cell(demands, g, w)' = Cell(demands, g, w)
  BY DEF Cell
<1> QED
  BY <1>1, <1>2 DEF Cells

\* Each part of the invariant stands while what it speaks of stays as it is.
LEMMA PartsStay ==
  ASSUME ReceiptsFollow, input' = input
  PROVE  /\ readiness' = readiness => ReadinessFollows'
         /\ priority' = priority => PriorityFollows'
         /\ capacity' = capacity => CapacityFollows'
         /\ capacity' = capacity /\ eligibility' = eligibility => EligibilityFollows'
         /\ fit' = fit => FitFollows'
         /\ capacity' = capacity /\ heatmap' = heatmap /\ scenario' = scenario => CellsFollow'
<1> USE DEF ReceiptsFollow, Deals, Consultants
<1>1. readiness' = readiness => ReadinessFollows'
  BY DEF ReadinessFollows, Done
<1>2. priority' = priority => PriorityFollows'
  BY DEF PriorityFollows, Done
<1>3. capacity' = capacity => CapacityFollows'
  BY DEF CapacityFollows, Done
<1>4. capacity' = capacity /\ eligibility' = eligibility => EligibilityFollows'
  BY DEF EligibilityFollows, Done
<1>5. fit' = fit => FitFollows'
  BY DEF FitFollows, Done
<1>6. ASSUME capacity' = capacity, heatmap' = heatmap, scenario' = scenario PROVE CellsFollow'
  <2>1. Cells(input.demands)' = Cells(input.demands)
    <3>1. PICK demands : demands = input.demands
      OBVIOUS
    <3>2. Cells(demands)' = Cells(demands)
      BY <1>6, CellsStay
    <3> QED
      BY <3>1, <3>2
  <2>2. Cells(Raises(input.demands))' = Cells(Raises(input.demands))
    <3>1. PICK demands : demands = Raises(input.demands)
      OBVIOUS
    <3>2. Cells(demands)' = Cells(demands)
      BY <1>6, CellsStay
    <3> QED
      BY <3>1, <3>2
  <2> QED
    BY <1>6, <2>1, <2>2 DEF CellsFollow, NoCells, Pending
<1> QED
  BY <1>1, <1>2, <1>3, <1>4, <1>5, <1>6

-----------------------------------------------------------------------------
(***************************************************************************)
(* What a new receipt says, for each function that issues one.             *)
(***************************************************************************)
LEMMA PriorityIsTyped ==
  ASSUME NEW deal, DealIsTyped(deal), Policy.dimensions # {}, NEW issued, NEW elapsed \in Int,
         NEW r, r = Priority(deal, issued, elapsed), Done(r)
  PROVE  r.week \in Weeks /\ r.bp \in 0..FullBp
<1> DEFINE amount == CHOOSE a \in CommercialValue(deal) : TRUE
<1>1. /\ CommercialValue(deal) # {} /\ InHorizon(elapsed)
      /\ r.week = DueWeekBucket(elapsed) /\ r.bp = PriorityBp(issued, amount, elapsed)
  BY DEF Priority, Done, Raised
<1>2. amount \in Int
  <2>1. amount \in CommercialValue(deal)
    BY <1>1
  <2>2. CommercialValue(deal) \subseteq Int
    BY DEF CommercialValue, DealIsTyped
  <2> QED
    BY <2>1, <2>2
<1>3. r.week \in Weeks
  BY <1>1, DueWeekBucketIsFirst DEF IsDueWeek
<1> HIDE DEF amount
<1> QED
  BY <1>1, <1>2, <1>3, PriorityIsBounded

\* What evaluate_eligibility says of a pair it has just looked at.
LEMMA EligibilityFollowsRows ==
  ASSUME ReceiptsFollow, NEW d \in Deals, NEW c \in Consultants, EvaluateEligibility(d, c)
  PROVE  LET r == eligibility'[<<d, c>>]
         IN Done(r) => /\ r.week \in Weeks /\ r.minutes \in 0..MinutesPerDay
                       /\ r.eligible => Cleared(r, input.deals[d], capacity[c])
<1> DEFINE r == eligibility'[<<d, c>>]
<1>1. SUFFICES ASSUME Done(r)
               PROVE  /\ r.week \in Weeks /\ r.minutes \in 0..MinutesPerDay
                      /\ r.eligible => Cleared(r, input.deals[d], capacity[c])
  OBVIOUS
<1>2. r = Eligibility(d, c) /\ Done(priority[d])
  BY <1>1 DEF EvaluateEligibility, ReceiptsFollow, Shapes, Pairs, Done, Raised
<1>3. /\ r.week = priority[d].week /\ r.minutes = LongestWindow(input.consultants[c])
      /\ r.eligible => \A id \in DOMAIN Checks(d, c) : Checks(d, c)[id]
  BY <1>2 DEF Eligibility
<1>4. r.week \in Weeks
  BY <1>2, <1>3 DEF ReceiptsFollow, PriorityFollows
<1>5. ConsultantIsTyped(input.consultants[c])
  BY InputsAssumption DEF ReceiptsFollow, Shapes, Consultants
<1>6. r.minutes \in 0..MinutesPerDay
  BY <1>3, <1>5, WindowIsBounded
<1>7. ASSUME r.eligible PROVE Cleared(r, input.deals[d], capacity[c])
  <2>1. /\ "SKILLS" \in DOMAIN Checks(d, c) /\ "CUMULATIVE_CAPACITY" \in DOMAIN Checks(d, c)
        /\ "UTILIZATION" \in DOMAIN Checks(d, c)
    BY DEF Checks
  <2>2. Checks(d, c).SKILLS /\ Checks(d, c).CUMULATIVE_CAPACITY /\ Checks(d, c).UTILIZATION
    BY <1>3, <1>7, <2>1
  <2>3. /\ SkillsPass(input.deals[d], input.consultants[c], asOf)
        /\ capacity[c].through >= priority[d].week
        /\ SumThrough(capacity[c], "free", priority[d].week) >= input.deals[d].effort
        /\ WithinCeiling(input.deals[d], capacity[c], priority[d].week)
    BY <2>2 DEF Checks, WithinCeiling
  <2> QED
    BY <1>3, <2>3 DEF Cleared, SkillsPass
<1> QED
  BY <1>4, <1>6, <1>7

\* The fit that compute_consultant_fit has just issued is a share.
LEMMA FitIsBounded ==
  ASSUME ReceiptsFollow, NEW d \in Deals, NEW c \in Consultants, ComputeConsultantFit(d, c)
  PROVE  Done(fit'[<<d, c>>]) => fit'[<<d, c>>].bp \in 0..FullBp
<1> DEFINE deal == input.deals[d]
           consultant == input.consultants[c]
           r == eligibility[<<d, c>>]
           skill == SkillBp(deal, consultant)
           continuity == IF deal.continuity = c THEN FullBp ELSE 0
           overlap == OverlapBp(deal, r.minutes)
           headroom == HeadroomBp(deal, capacity[c], r.week)
<1>1. SUFFICES ASSUME Done(fit'[<<d, c>>]) PROVE fit'[<<d, c>>].bp \in 0..FullBp
  OBVIOUS
<1>2. fit'[<<d, c>>] = Fit(d, c) /\ ~FitRaises(d, c) /\ Done(r) /\ r.eligible
  BY <1>1 DEF ComputeConsultantFit, ReceiptsFollow, Shapes, Pairs, Done, Raised
<1>3. fit'[<<d, c>>].bp = RoundHalfEven(Policy.match.skill * skill + Policy.match.continuity * continuity
                       + Policy.match.overlap * overlap + Policy.match.headroom * headroom, FullBp)
  BY <1>2 DEF Fit
<1>4. DealIsTyped(deal) /\ ConsultantIsTyped(consultant)
  BY InputsAssumption DEF ReceiptsFollow, Shapes, Consultants, Deals
<1>5. /\ Done(capacity[c]) /\ r.week \in Weeks /\ r.minutes \in 0..MinutesPerDay
      /\ deal.skills \subseteq DOMAIN Policy.catalog
  BY <1>2 DEF ReceiptsFollow, EligibilityFollows, Cleared
<1>6. capacity[c] = WeeklyCapacity(consultant)
  BY <1>5 DEF ReceiptsFollow, CapacityFollows
<1>7. skill \in 0..FullBp
  <2>1. \A s \in deal.skills : CurrentLevels(consultant, s, asOf) # {}
    BY <1>2 DEF FitRaises
  <2> QED
    BY <1>4, <1>5, <2>1, SkillIsBounded
<1>8. continuity \in 0..FullBp
  BY FullBpIsNat
<1>9. overlap \in 0..FullBp
  BY <1>4, <1>5, OverlapIsBounded
<1>10. headroom \in 0..FullBp
  <2>1. SumThrough(capacity[c], "net", r.week) \in Int /\ SumThrough(capacity[c], "free", r.week) \in Int
    BY <1>4, <1>5, <1>6, ThroughIsInt
  <2>2. deal.effort \in Nat
    BY <1>4 DEF DealIsTyped
  <2> QED
    BY <2>1, <2>2, HeadroomIsBounded
<1> DEFINE total == Policy.match.skill * skill + Policy.match.continuity * continuity
                       + Policy.match.overlap * overlap + Policy.match.headroom * headroom
<1>11. RoundHalfEven(total, FullBp) \in 0..FullBp
  <2> HIDE DEF skill, continuity, overlap, headroom
  <2> QED
    BY <1>7, <1>8, <1>9, <1>10, WeightedFitIsBounded
<1>12. fit'[<<d, c>>].bp = RoundHalfEven(total, FullBp)
  BY <1>3
<1> HIDE DEF total
<1> QED
  BY <1>11, <1>12

-----------------------------------------------------------------------------
\* Every call, at every as_of, keeps ReceiptsFollow: a receipt is issued once and nothing
\* it was computed from changes afterwards.
LEMMA ReceiptsFollowInductive == Spec => []ReceiptsFollow
<1>1. Init => ReceiptsFollow
  <2> SUFFICES ASSUME Init PROVE ReceiptsFollow
    OBVIOUS
  <2>1. 0 \in 0..MaxDelay
    BY TimeAssumption
  <2> QED
    BY <2>1 DEF Init, ReceiptsFollow, Shapes, ReadinessFollows, PriorityFollows,
       CapacityFollows, EligibilityFollows, FitFollows, CellsFollow, Done, Pending, Pairs
<1>2. ReceiptsFollow /\ [Next]_vars => ReceiptsFollow'
  <2> SUFFICES ASSUME ReceiptsFollow, [Next]_vars PROVE ReceiptsFollow'
    OBVIOUS
  <2>0. Shapes /\ (Shapes' => input' \in Inputs)
    BY DEF ReceiptsFollow, Shapes
  <2>1. ASSUME NEW d \in Deals, ComputeReadiness(d) PROVE ReceiptsFollow'
    <3>1. UNCHANGED <<input, asOf, priority, capacity, eligibility, fit, heatmap, scenario>>
      BY <2>1 DEF ComputeReadiness
    <3>2. Shapes' /\ Deals' = Deals
      BY <2>0, <2>1, <3>1 DEF ComputeReadiness, Shapes, Deals, Consultants, Pairs
    <3>3. ReadinessFollows'
      <4> SUFFICES ASSUME NEW e \in Deals, Done(readiness'[e])
                   PROVE  readiness'[e] = Readiness(input.deals[e]) /\ Policy.dimensions # {}
        BY <3>1, <3>2 DEF ReadinessFollows, Done
      <4>1. CASE e = d
        BY <2>0, <2>1, <4>1 DEF ComputeReadiness, Shapes, Done, Raised
      <4>2. CASE e # d
        <5>1. readiness'[e] = readiness[e]
          BY <2>0, <2>1, <4>2 DEF ComputeReadiness, Shapes
        <5> QED
          BY <5>1 DEF ReceiptsFollow, ReadinessFollows, Done
      <4> QED
        BY <4>1, <4>2
    <3> QED
      BY <3>1, <3>2, <3>3, PartsStay DEF ReceiptsFollow
  <2>2. ASSUME NEW d \in Deals, ScorePriority(d) PROVE ReceiptsFollow'
    <3>1. UNCHANGED <<input, asOf, readiness, capacity, eligibility, fit, heatmap, scenario>>
      BY <2>2 DEF ScorePriority
    <3>2. Shapes' /\ Deals' = Deals
      BY <2>0, <2>2, <3>1 DEF ScorePriority, Shapes, Deals, Consultants, Pairs
    <3>3. PriorityFollows'
      <4> SUFFICES ASSUME NEW e \in Deals, Done(priority'[e])
                   PROVE  priority'[e].week \in Weeks /\ priority'[e].bp \in 0..FullBp
        BY <3>1, <3>2 DEF PriorityFollows, Done
      <4>1. CASE e = d
        <5> DEFINE deal == input.deals[d]
        <5>1. priority'[d] = Priority(deal, readiness[d], deal.due - asOf)
          BY <2>0, <2>2 DEF ScorePriority, Shapes
        <5>2. DealIsTyped(deal)
          BY <2>0, InputsAssumption DEF Shapes, Deals
        <5>3. deal.due - asOf \in Int
          BY <2>0, <5>2, TimeAssumption DEF Shapes, DealIsTyped
        <5>4. Policy.dimensions # {}
          BY <2>2 DEF ScorePriority, ReceiptsFollow, ReadinessFollows
        <5>5. Done(priority'[d])
          BY <4>1
        <5> HIDE DEF deal
        <5> QED
          BY <4>1, <5>1, <5>2, <5>3, <5>4, <5>5, PriorityIsTyped
      <4>2. CASE e # d
        <5>1. priority'[e] = priority[e]
          BY <2>0, <2>2, <4>2 DEF ScorePriority, Shapes
        <5> QED
          BY <5>1 DEF ReceiptsFollow, PriorityFollows, Done
      <4> QED
        BY <4>1, <4>2
    <3> QED
      BY <3>1, <3>2, <3>3, PartsStay DEF ReceiptsFollow
  <2>3. ASSUME NEW c \in Consultants, ComputeWeeklyCapacity(c) PROVE ReceiptsFollow'
    <3>1. /\ UNCHANGED <<input, asOf, readiness, priority, eligibility, fit, heatmap, scenario>>
          /\ capacity[c] = Pending
      BY <2>3 DEF ComputeWeeklyCapacity
    <3>2. Shapes' /\ Deals' = Deals /\ Consultants' = Consultants
      BY <2>0, <2>3, <3>1 DEF ComputeWeeklyCapacity, Shapes, Deals, Consultants, Pairs
    <3>3. \A g \in Consultants : g # c => capacity'[g] = capacity[g]
      BY <2>0, <2>3 DEF ComputeWeeklyCapacity, Shapes
    <3>4. CapacityFollows'
      <4> SUFFICES ASSUME NEW g \in Consultants, Done(capacity'[g])
                   PROVE  /\ OneRowAWeek(input.consultants[g])
                          /\ capacity'[g] = WeeklyCapacity(input.consultants[g])
        BY <3>1, <3>2 DEF CapacityFollows, Done
      <4>1. CASE g = c
        BY <2>0, <2>3, <4>1 DEF ComputeWeeklyCapacity, Shapes, Done, Raised, OneRowAWeek
      <4>2. CASE g # c
        BY <3>3, <4>2 DEF ReceiptsFollow, CapacityFollows, Done
      <4> QED
        BY <4>1, <4>2
    <3>5. EligibilityFollows'
      <4> SUFFICES ASSUME NEW d \in Deals, NEW g \in Consultants, Done(eligibility[<<d, g>>])
                   PROVE  LET r == eligibility[<<d, g>>]
                          IN /\ Done(capacity'[g]) /\ r.week \in Weeks
                             /\ r.minutes \in 0..MinutesPerDay
                             /\ r.eligible => Cleared(r, input.deals[d], capacity'[g])
        BY <3>1, <3>2 DEF EligibilityFollows, Done
      <4>1. g # c
        BY <3>1 DEF ReceiptsFollow, EligibilityFollows, Done, Pending
      <4> QED
        BY <3>3, <4>1 DEF ReceiptsFollow, EligibilityFollows
    <3>6. CellsFollow'
      <4>1. heatmap = NoCells /\ scenario = NoCells
        BY <3>1 DEF ReceiptsFollow, CellsFollow
      <4> QED
        BY <3>1, <4>1 DEF CellsFollow, NoCells
    <3> QED
      BY <3>1, <3>2, <3>4, <3>5, <3>6, PartsStay DEF ReceiptsFollow
  <2>4. ASSUME NEW d \in Deals, NEW c \in Consultants, EvaluateEligibility(d, c)
        PROVE  ReceiptsFollow'
    <3>1. /\ UNCHANGED <<input, asOf, readiness, priority, capacity, fit, heatmap, scenario>>
          /\ Done(capacity[c])
      BY <2>4 DEF EvaluateEligibility
    <3>2. Shapes' /\ Deals' = Deals /\ Consultants' = Consultants
      BY <2>0, <2>4, <3>1 DEF EvaluateEligibility, Shapes, Deals, Consultants, Pairs
    <3>3. EligibilityFollows'
      <4> SUFFICES ASSUME NEW e \in Deals, NEW g \in Consultants, Done(eligibility'[<<e, g>>])
                   PROVE  LET r == eligibility'[<<e, g>>]
                          IN /\ Done(capacity[g]) /\ r.week \in Weeks
                             /\ r.minutes \in 0..MinutesPerDay
                             /\ r.eligible => Cleared(r, input.deals[e], capacity[g])
        BY <3>1, <3>2 DEF EligibilityFollows, Done
      <4>1. CASE e = d /\ g = c
        BY <2>4, <3>1, <4>1, EligibilityFollowsRows
      <4>2. CASE ~(e = d /\ g = c)
        <5>1. eligibility'[<<e, g>>] = eligibility[<<e, g>>]
          BY <2>0, <2>4, <4>2 DEF EvaluateEligibility, Shapes, Pairs
        <5> QED
          BY <5>1 DEF ReceiptsFollow, EligibilityFollows
      <4> QED
        BY <4>1, <4>2
    <3> QED
      BY <3>1, <3>2, <3>3, PartsStay DEF ReceiptsFollow
  <2>5. ASSUME NEW d \in Deals, NEW c \in Consultants, ComputeConsultantFit(d, c)
        PROVE  ReceiptsFollow'
    <3>1. UNCHANGED <<input, asOf, readiness, priority, capacity, eligibility, heatmap, scenario>>
      BY <2>5 DEF ComputeConsultantFit
    <3>2. Shapes' /\ Deals' = Deals /\ Consultants' = Consultants
      BY <2>0, <2>5, <3>1 DEF ComputeConsultantFit, Shapes, Deals, Consultants, Pairs
    <3>3. FitFollows'
      <4> SUFFICES ASSUME NEW e \in Deals, NEW g \in Consultants, Done(fit'[<<e, g>>])
                   PROVE  fit'[<<e, g>>].bp \in 0..FullBp
        BY <3>1, <3>2 DEF FitFollows, Done
      <4>1. CASE e = d /\ g = c
        BY <2>5, <4>1, FitIsBounded
      <4>2. CASE ~(e = d /\ g = c)
        <5>1. fit'[<<e, g>>] = fit[<<e, g>>]
          BY <2>0, <2>5, <4>2 DEF ComputeConsultantFit, Shapes, Pairs
        <5> QED
          BY <5>1 DEF ReceiptsFollow, FitFollows
      <4> QED
        BY <4>1, <4>2
    <3> QED
      BY <3>1, <3>2, <3>3, PartsStay DEF ReceiptsFollow
  <2>6. CASE ComputeCapacityHeatmap
    <3>1. /\ UNCHANGED <<input, asOf, readiness, priority, capacity, eligibility, fit, scenario>>
          /\ \A c \in Consultants : capacity[c] # Pending
          /\ heatmap = NoCells /\ heatmap' = Cells(input.demands)
      BY <2>6 DEF ComputeCapacityHeatmap
    <3>2. Shapes' /\ Consultants' = Consultants
      BY <2>0, <3>1 DEF Shapes, Deals, Consultants, Pairs
    <3>3. scenario = NoCells
      BY <3>1 DEF ReceiptsFollow, CellsFollow
    <3>4. Cells(input.demands)' = Cells(input.demands)
      <4>1. PICK demands : demands = input.demands
        OBVIOUS
      <4>2. Cells(demands)' = Cells(demands)
        BY <3>1, CellsStay
      <4> QED
        BY <3>1, <4>1, <4>2
    <3>5. CellsFollow'
      BY <3>1, <3>2, <3>3, <3>4 DEF CellsFollow, NoCells, Pending
    <3> QED
      BY <3>1, <3>2, <3>5, PartsStay DEF ReceiptsFollow
  <2>7. CASE RunEmeaScenario
    <3>1. /\ UNCHANGED <<input, asOf, readiness, priority, capacity, eligibility, fit, heatmap>>
          /\ heatmap # NoCells /\ scenario' = Cells(Raises(input.demands))
      BY <2>7 DEF RunEmeaScenario, Raises
    <3>2. Shapes' /\ Consultants' = Consultants
      BY <2>0, <3>1 DEF Shapes, Deals, Consultants, Pairs
    <3>3. /\ Cells(input.demands)' = Cells(input.demands)
          /\ Cells(Raises(input.demands))' = Cells(Raises(input.demands))
      <4>1. PICK demands, raised : demands = input.demands /\ raised = Raises(input.demands)
        OBVIOUS
      <4>2. Cells(demands)' = Cells(demands)
        BY <3>1, CellsStay
      <4>3. Cells(raised)' = Cells(raised)
        BY <3>1, CellsStay
      <4> QED
        BY <3>1, <4>1, <4>2, <4>3
    <3>4. CellsFollow'
      BY <3>1, <3>2, <3>3 DEF ReceiptsFollow, CellsFollow, NoCells, Pending
    <3> QED
      BY <3>1, <3>2, <3>4, PartsStay DEF ReceiptsFollow
  <2>8. CASE Later
    <3>1. /\ UNCHANGED <<input, readiness, priority, capacity, eligibility, fit, heatmap, scenario>>
          /\ asOf' = asOf + 1 /\ asOf < MaxDelay
      BY <2>8 DEF Later
    <3>2. Shapes'
      BY <2>0, <3>1, TimeAssumption DEF Shapes, Deals, Consultants, Pairs
    <3> QED
      BY <3>1, <3>2, PartsStay DEF ReceiptsFollow
  <2>9. CASE UNCHANGED vars
    <3>1. UNCHANGED <<input, asOf, readiness, priority, capacity, eligibility, fit, heatmap, scenario>>
      BY <2>9 DEF vars
    <3>2. Shapes'
      BY <2>0, <3>1 DEF Shapes, Deals, Consultants, Pairs
    <3> QED
      BY <3>1, <3>2, PartsStay DEF ReceiptsFollow
  <2> QED
    BY <2>1, <2>2, <2>3, <2>4, <2>5, <2>6, <2>7, <2>8, <2>9 DEF Next
<1> QED
  BY <1>1, <1>2, PTL DEF Spec

\* The type invariant is a part of ReceiptsFollow.
LEMMA ReceiptsAreTyped == ReceiptsFollow => TypeOK
<1> SUFFICES ASSUME ReceiptsFollow PROVE TypeOK
  OBVIOUS
<1>1. ASSUME NEW d \in Deals, Done(readiness[d])
      PROVE  /\ readiness[d].states \in [Policy.dimensions -> {"SUPPORTED", "UNKNOWN", "CONFLICT"}]
             /\ readiness[d].lane \in {"ASSIGNMENT_ELIGIBLE", "DEAL_INSPECTION"}
  <2>1. readiness[d] = Readiness(input.deals[d])
    BY <1>1 DEF ReceiptsFollow, ReadinessFollows
  <2>2. \A x : DimensionState(input.deals[d], x) \in {"SUPPORTED", "UNKNOWN", "CONFLICT"}
    BY DEF DimensionState
  <2> QED
    BY <2>1, <2>2 DEF Readiness
<1>2. BpOk(priority)
  BY DEF BpOk, ReceiptsFollow, Shapes, PriorityFollows
<1>3. BpOk(fit)
  BY DEF BpOk, ReceiptsFollow, Shapes, FitFollows, Pairs
<1>4. ASSUME NEW c \in Consultants, Done(capacity[c])
      PROVE  /\ capacity[c].through \in 0..4
             /\ \A w \in Weeks : capacity[c].buckets[w].free \in Nat
  <2>1. capacity[c] = WeeklyCapacity(input.consultants[c])
    BY <1>4 DEF ReceiptsFollow, CapacityFollows
  <2>2. ConsultantIsTyped(input.consultants[c])
    BY InputsAssumption DEF ReceiptsFollow, Shapes, Consultants
  <2> QED
    BY <2>1, <2>2, CapacityFacts
<1>5. \A p \in Pairs : Done(eligibility[p]) => /\ eligibility[p].week \in Weeks
                                               /\ eligibility[p].minutes \in 0..MinutesPerDay
  BY DEF ReceiptsFollow, EligibilityFollows, Pairs
<1> QED
  BY <1>1, <1>2, <1>3, <1>4, <1>5 DEF TypeOK, ReceiptsFollow, Shapes

(***************************************************************************)
(* Every pair the engine calls eligible has room in the frozen rows        *)
(* themselves, whatever the rows, the policy and the order of the calls.   *)
(***************************************************************************)
THEOREM EligiblePairsHaveRoom == Spec => []EligibleMeansRoom
<1>1. ReceiptsFollow => EligibleMeansRoom
  <2> SUFFICES ASSUME ReceiptsFollow, NEW d \in Deals, NEW c \in Consultants,
                      Done(eligibility[<<d, c>>]), eligibility[<<d, c>>].eligible
               PROVE  HasRoom(input.deals[d], input.consultants[c], eligibility[<<d, c>>].week)
    BY ReceiptsAreTyped DEF EligibleMeansRoom
  <2> DEFINE w == eligibility[<<d, c>>].week
             deal == input.deals[d]
             consultant == input.consultants[c]
  <2>1. /\ w \in Weeks /\ Done(capacity[c])
        /\ capacity[c].through >= w /\ SumThrough(capacity[c], "free", w) >= deal.effort
        /\ WithinCeiling(deal, capacity[c], w)
    BY DEF ReceiptsFollow, EligibilityFollows, Cleared
  <2>2. capacity[c] = WeeklyCapacity(consultant) /\ OneRowAWeek(consultant)
    BY <2>1 DEF ReceiptsFollow, CapacityFollows
  <2>3. DealIsTyped(deal) /\ ConsultantIsTyped(consultant)
    BY InputsAssumption DEF ReceiptsFollow, Shapes, Deals, Consultants
  <2> HIDE DEF w, deal, consultant
  <2>4. HasRoom(deal, consultant, w)
    BY <2>1, <2>2, <2>3, ReceiptMeansRoom
  <2> QED
    BY <2>4 DEF w, deal, consultant
<1>2. Spec => []ReceiptsFollow
  BY ReceiptsFollowInductive
<1> QED
  BY <1>1, <1>2, PTL

-----------------------------------------------------------------------------
(***************************************************************************)
(* The order of the workload rows.                                         *)
(***************************************************************************)
(***************************************************************************)
(* A week is in conflict when two of its rows carry one work id, in        *)
(* whatever order they are listed.                                         *)
(***************************************************************************)
LEMMA ConflictIsUnordered ==
  ASSUME NEW consultant, ConsultantIsTyped(consultant), NEW w
  PROVE  w \in ConflictWeeks(consultant.work) <=>
           \E i, j \in DOMAIN consultant.work :
             /\ i # j /\ consultant.work[i].id = consultant.work[j].id
             /\ consultant.work[i].week = w /\ consultant.work[j].week = w
<1> DEFINE work == consultant.work
<1>1. \A i \in DOMAIN work : i \in Nat /\ 1..(i - 1) \subseteq DOMAIN work
  BY DEF ConsultantIsTyped
<1>2. ASSUME w \in ConflictWeeks(work)
      PROVE  \E i, j \in DOMAIN work : /\ i # j /\ work[i].id = work[j].id
                                       /\ work[i].week = w /\ work[j].week = w
  <2>1. PICK i \in DOMAIN work : Repeats(work, i) /\ work[i].week = w
    BY <1>2 DEF ConflictWeeks
  <2>2. PICK j \in 1..(i - 1) : work[j].id = work[i].id /\ work[j].week = work[i].week
    BY <2>1 DEF Repeats
  <2>3. j \in DOMAIN work /\ j # i
    BY <1>1, <2>2
  <2> QED
    BY <2>1, <2>2, <2>3
<1>3. ASSUME NEW i \in DOMAIN work, NEW j \in DOMAIN work, i < j, work[i].id = work[j].id,
             work[i].week = w, work[j].week = w
      PROVE  w \in ConflictWeeks(work)
  <2>1. i \in 1..(j - 1)
    BY <1>3 DEF ConsultantIsTyped
  <2>2. Repeats(work, j)
    BY <1>3, <2>1 DEF Repeats
  <2> QED
    BY <1>3, <2>2 DEF ConflictWeeks
<1>4. \A i, j \in DOMAIN work : i # j => i < j \/ j < i
  BY <1>1
<1> QED
  BY <1>2, <1>3, <1>4

(***************************************************************************)
(* A one-to-one map of a finite set into itself reaches every element.     *)
(***************************************************************************)
LEMMA PermutationIsOnto ==
  ASSUME NEW S, IsFiniteSet(S), NEW p \in [S -> S], \A i, j \in S : p[i] = p[j] => i = j
  PROVE  \A j \in S : \E i \in S : p[i] = j
<1>1. p \in Injection(S, S)
  BY DEF Injection, IsInjective
<1>2. p \in Surjection(S, S)
  BY <1>1, FS_Injection
<1> QED
  BY <1>2 DEF Surjection

Relisted(consultant, p) ==
  [consultant EXCEPT !.work = [i \in DOMAIN consultant.work |-> consultant.work[p[i]]]]

\* A relisted consultant differs in its workload rows only.
LEMMA RelistedFacts ==
  ASSUME NEW consultant, ConsultantIsTyped(consultant),
         NEW p \in [DOMAIN consultant.work -> DOMAIN consultant.work]
  PROVE  LET other == Relisted(consultant, p)
         IN /\ other.work = [i \in DOMAIN consultant.work |-> consultant.work[p[i]]]
            /\ other.availability = consultant.availability
            /\ other.populationComplete = consultant.populationComplete
<1>1. {"availability", "work", "populationComplete"} \subseteq DOMAIN consultant
  BY DEF ConsultantIsTyped
<1> QED
  BY <1>1 DEF Relisted

\* Relisting the rows leaves the same weeks in conflict.
LEMMA ConflictIsRelisted ==
  ASSUME NEW consultant, ConsultantIsTyped(consultant), NEW w,
         NEW p \in [DOMAIN consultant.work -> DOMAIN consultant.work],
         \A i, j \in DOMAIN consultant.work : p[i] = p[j] => i = j
  PROVE  w \in ConflictWeeks(Relisted(consultant, p).work) <=> w \in ConflictWeeks(consultant.work)
<1> DEFINE work == consultant.work
           relisted == [i \in DOMAIN work |-> work[p[i]]]
<1>0. w \in ConflictWeeks(work) <=>
        \E i, j \in DOMAIN work : /\ i # j /\ work[i].id = work[j].id
                                  /\ work[i].week = w /\ work[j].week = w
  BY ConflictIsUnordered, Zenon
<1>1. \A j \in DOMAIN work : \E i \in DOMAIN work : p[i] = j
  BY UnitsAreTyped, PermutationIsOnto
<1>2. \A i \in DOMAIN work : i \in Nat /\ 1..(i - 1) \subseteq DOMAIN work
  BY DEF ConsultantIsTyped
<1>3. ASSUME w \in ConflictWeeks(relisted) PROVE w \in ConflictWeeks(work)
  <2>1. PICK i \in DOMAIN relisted : Repeats(relisted, i) /\ relisted[i].week = w
    BY <1>3 DEF ConflictWeeks
  <2>2. PICK j \in 1..(i - 1) : relisted[j].id = relisted[i].id /\ relisted[j].week = relisted[i].week
    BY <2>1 DEF Repeats
  <2>3. j \in DOMAIN work /\ i \in DOMAIN work /\ j # i
    <3>1. i \in DOMAIN work
      OBVIOUS
    <3> HIDE DEF work, relisted
    <3> QED
      BY <1>2, <3>1
  <2>5. relisted[i] = work[p[i]] /\ relisted[j] = work[p[j]]
    BY <2>3
  <2>6. p[i] \in DOMAIN work /\ p[j] \in DOMAIN work /\ p[i] # p[j]
    BY <2>3
  <2>7. /\ p[i] \in DOMAIN work /\ p[j] \in DOMAIN work /\ p[i] # p[j]
        /\ work[p[i]].id = work[p[j]].id /\ work[p[i]].week = w /\ work[p[j]].week = w
    <3> HIDE DEF work, relisted
    <3> QED
      BY <2>1, <2>2, <2>5, <2>6
  <2> QED
    BY <1>0, <2>7, Zenon
<1>4. ASSUME w \in ConflictWeeks(work) PROVE w \in ConflictWeeks(relisted)
  <2>1. PICK i \in DOMAIN work, j \in DOMAIN work :
          i # j /\ work[i].id = work[j].id /\ work[i].week = w /\ work[j].week = w
    BY <1>0, <1>4, Zenon
  <2>2. PICK k \in DOMAIN work, l \in DOMAIN work : p[k] = i /\ p[l] = j
    BY <1>1
  <2>3. k # l /\ relisted[k] = work[i] /\ relisted[l] = work[j]
    BY <2>1, <2>2
  <2>4. ASSUME NEW m \in DOMAIN work, NEW n \in DOMAIN work, m < n,
               relisted[m].id = relisted[n].id, relisted[m].week = w, relisted[n].week = w
        PROVE  w \in ConflictWeeks(relisted)
    <3>1. m \in 1..(n - 1)
      BY <2>4 DEF ConsultantIsTyped
    <3>2. Repeats(relisted, n)
      <4> HIDE DEF relisted
      <4> QED BY <2>4, <3>1 DEF Repeats
    <3>3. n \in DOMAIN relisted
      OBVIOUS
    <3> HIDE DEF relisted
    <3> QED
      BY <2>4, <3>2, <3>3 DEF ConflictWeeks
  <2>5. k < l \/ l < k
    BY <1>2, <2>3
  <2>6. /\ relisted[k].id = relisted[l].id /\ relisted[k].week = w /\ relisted[l].week = w
    BY <2>1, <2>3
  <2> HIDE DEF relisted
  <2> QED
    BY <2>4, <2>5, <2>6
<1>5. Relisted(consultant, p).work = relisted
  BY RelistedFacts
<1> QED
  BY <1>3, <1>4, <1>5

-----------------------------------------------------------------------------
Plain(work, w) == {i \in DOMAIN work : work[i].week = w /\ work[i].active}

\* In a week without a conflict every active row is counted.
LEMMA QuietUnits ==
  ASSUME NEW work, NEW w, w \notin ConflictWeeks(work)
  PROVE  ActiveUnits(work, w) = SumFunctionOnSet(Units(work), Plain(work, w))
<1>1. {i \in DOMAIN work : work[i].week = w /\ work[i].active /\ ~Repeats(work, i)} = Plain(work, w)
  BY DEF ConflictWeeks, Plain
<1> QED
  BY <1>1, Zenon DEF ActiveUnits, Units

\* Relisting the rows leaves the active units of a week without conflict.
LEMMA UnitsAreRelisted ==
  ASSUME NEW consultant, ConsultantIsTyped(consultant),
         NEW w, w \notin ConflictWeeks(consultant.work),
         NEW p \in [DOMAIN consultant.work -> DOMAIN consultant.work],
         \A i, j \in DOMAIN consultant.work : p[i] = p[j] => i = j
  PROVE  ActiveUnits(Relisted(consultant, p).work, w) = ActiveUnits(consultant.work, w)
<1> DEFINE work == consultant.work
           relisted == [i \in DOMAIN work |-> work[p[i]]]
           S == Plain(relisted, w)
           f == Units(work)
           g == Units(relisted)
<1>1. Relisted(consultant, p).work = relisted
  BY RelistedFacts
<1>2. w \notin ConflictWeeks(relisted)
  BY <1>1, ConflictIsRelisted
<1>3. \A j \in DOMAIN work : \E i \in DOMAIN work : p[i] = j
  BY UnitsAreTyped, PermutationIsOnto
<1>4. IsFiniteSet(S) /\ S \subseteq DOMAIN work
  <2>1. S \subseteq DOMAIN work
    BY DEF Plain
  <2> HIDE DEF S
  <2> QED
    BY <2>1, UnitsAreTyped, FS_Subset
<1>5. Plain(work, w) = Images(p, S)
  <2>1. ASSUME NEW x \in S PROVE p[x] \in Plain(work, w)
    BY DEF Plain
  <2>2. ASSUME NEW j \in Plain(work, w) PROVE \E x \in S : p[x] = j
    BY <1>3 DEF Plain
  <2> HIDE DEF S
  <2> QED
    BY <2>1, <2>2 DEF Images
<1>6. Renames(g, f, p, S)
  <2>1. SUFFICES ASSUME NEW x \in S PROVE g[x] \in Int /\ f[p[x]] = g[x]
    BY DEF Renames
  <2>2. x \in DOMAIN work /\ p[x] \in DOMAIN work
    BY <1>4
  <2>3. g[x] = work[p[x]].units /\ f[p[x]] = work[p[x]].units
    BY <2>2 DEF Units
  <2>4. f[p[x]] \in Nat
    BY <2>2, UnitsAreTyped
  <2> QED
    BY <2>3, <2>4
<1>7. OneToOne(p, S)
  BY <1>4 DEF OneToOne
<1>8. /\ ActiveUnits(work, w) = SumFunctionOnSet(f, Plain(work, w))
      /\ ActiveUnits(relisted, w) = SumFunctionOnSet(g, S)
  BY <1>2, QuietUnits
<1>9. SumFunctionOnSet(f, Images(p, S)) = SumFunctionOnSet(g, S)
  <2> HIDE DEF S, f, g
  <2> QED
    BY <1>4, <1>6, <1>7, SumRenamed
<1>10. SumFunctionOnSet(f, Plain(work, w)) = SumFunctionOnSet(g, S)
  <2> HIDE DEF S, f, g
  <2> QED
    BY <1>5, <1>9, Zenon
<1> HIDE DEF S, f, g, relisted
<1> QED
  BY <1>1, <1>8, <1>10

\* Relisting the rows leaves the state and the free units of every week: in a week in
\* conflict nothing is free, in another every active row counts.
LEMMA BucketIsRelisted ==
  ASSUME NEW consultant, ConsultantIsTyped(consultant), NEW w,
         NEW p \in [DOMAIN consultant.work -> DOMAIN consultant.work],
         \A i, j \in DOMAIN consultant.work : p[i] = p[j] => i = j
  PROVE  /\ Bucket(Relisted(consultant, p), w).state = Bucket(consultant, w).state
         /\ Bucket(Relisted(consultant, p), w).free = Bucket(consultant, w).free
<1> DEFINE other == Relisted(consultant, p)
           rows == {r \in consultant.availability : r.week = w}
<1>1. /\ other.availability = consultant.availability
      /\ other.populationComplete = consultant.populationComplete
      /\ w \in ConflictWeeks(other.work) <=> w \in ConflictWeeks(consultant.work)
  BY RelistedFacts, ConflictIsRelisted
<1> HIDE DEF other
<1>2. CASE rows = {}
  <2>1. {r \in other.availability : r.week = w} = {}
    BY <1>1, <1>2
  <2> QED
    BY <1>2, <2>1 DEF Bucket, other
<1>3. CASE rows # {} /\ w \in ConflictWeeks(consultant.work)
  <2>1. {r \in other.availability : r.week = w} # {}
    BY <1>1, <1>3
  <2>2. Bucket(consultant, w).state = "CONFLICT" /\ Bucket(consultant, w).free = 0
    BY <1>3 DEF Bucket
  <2>3. Bucket(other, w).state = "CONFLICT" /\ Bucket(other, w).free = 0
    BY <1>1, <1>3, <2>1 DEF Bucket
  <2> QED
    BY <2>2, <2>3 DEF other
<1>4. CASE w \notin ConflictWeeks(consultant.work)
  <2>1. ActiveUnits(other.work, w) = ActiveUnits(consultant.work, w)
    BY <1>4, UnitsAreRelisted DEF other
  <2>2. Bucket(other, w) = Bucket(consultant, w)
    BY <1>1, <1>4, <2>1 DEF Bucket
  <2> QED
    BY <2>2 DEF other
<1> QED
  BY <1>2, <1>3, <1>4

\* Relisting the rows leaves the whole receipt but its active units.
LEMMA CapacityIsRelisted ==
  ASSUME NEW consultant, ConsultantIsTyped(consultant),
         NEW p \in [DOMAIN consultant.work -> DOMAIN consultant.work],
         \A i, j \in DOMAIN consultant.work : p[i] = p[j] => i = j
  PROVE  LET r == WeeklyCapacity(consultant)
             other == WeeklyCapacity(Relisted(consultant, p))
         IN /\ other.through = r.through
            /\ \A w \in Weeks : /\ other.buckets[w].state = r.buckets[w].state
                                /\ other.buckets[w].free = r.buckets[w].free
<1> DEFINE r == WeeklyCapacity(consultant)
           other == WeeklyCapacity(Relisted(consultant, p))
           Full(b) == {w \in Weeks : \A v \in 1..w : b[v].state = "COMPLETE"}
<1>1. \A w \in Weeks : /\ r.buckets[w] = Bucket(consultant, w)
                       /\ other.buckets[w] = Bucket(Relisted(consultant, p), w)
  BY DEF WeeklyCapacity
<1>2. r.through = CompleteThrough(r.buckets) /\ other.through = CompleteThrough(other.buckets)
  BY DEF WeeklyCapacity
<1> HIDE DEF r, other
<1>3. \A w \in Weeks : /\ other.buckets[w].state = r.buckets[w].state
                       /\ other.buckets[w].free = r.buckets[w].free
  BY <1>1, BucketIsRelisted
<1>4. \A w \in Weeks : 1..w \subseteq Weeks
  BY DEF Weeks
<1>5. {0} \cup Full(other.buckets) = {0} \cup Full(r.buckets)
  <2>1. \A w \in Weeks : w \in Full(other.buckets) <=> w \in Full(r.buckets)
    BY <1>3, <1>4
  <2> QED
    BY <2>1
<1>6. other.through = r.through
  BY <1>2, <1>5, Zenon DEF CompleteThrough
<1> QED
  BY <1>3, <1>6 DEF r, other

(***************************************************************************)
(* The order of the workload rows never decides a state, the free units or *)
(* the completeness horizon.                                               *)
(***************************************************************************)
LEMMA RowOrderNeverDecides == ReceiptsFollow => RowOrderIsIrrelevant
<1> SUFFICES ASSUME ReceiptsFollow, NEW c \in Consultants, Done(capacity[c]),
                    NEW work \in Reorderings(input.consultants[c].work)
             PROVE  LET other == WeeklyCapacity([input.consultants[c] EXCEPT !.work = work])
                    IN /\ other.through = capacity[c].through
                       /\ \A w \in Weeks : /\ other.buckets[w].state = capacity[c].buckets[w].state
                                           /\ other.buckets[w].free = capacity[c].buckets[w].free
  BY DEF RowOrderIsIrrelevant
<1> DEFINE consultant == input.consultants[c]
<1>1. PICK p \in [DOMAIN consultant.work -> DOMAIN consultant.work] :
        /\ \A i, j \in DOMAIN consultant.work : p[i] = p[j] => i = j
        /\ work = [i \in DOMAIN consultant.work |-> consultant.work[p[i]]]
  BY DEF Reorderings
<1>2. [consultant EXCEPT !.work = work] = Relisted(consultant, p)
  BY <1>1, Zenon DEF Relisted
<1>3. ConsultantIsTyped(consultant)
  BY InputsAssumption DEF ReceiptsFollow, Shapes, Consultants
<1>4. capacity[c] = WeeklyCapacity(consultant)
  BY DEF ReceiptsFollow, CapacityFollows
<1> HIDE DEF consultant
<1>5. LET r == WeeklyCapacity(consultant)
          other == WeeklyCapacity(Relisted(consultant, p))
      IN /\ other.through = r.through
         /\ \A w \in Weeks : /\ other.buckets[w].state = r.buckets[w].state
                             /\ other.buckets[w].free = r.buckets[w].free
  BY <1>1, <1>3, CapacityIsRelisted
<1>6. WeeklyCapacity([input.consultants[c] EXCEPT !.work = work])
        = WeeklyCapacity(Relisted(consultant, p))
  BY <1>2, Zenon DEF consultant
<1> QED
  BY <1>4, <1>5, <1>6

-----------------------------------------------------------------------------
(***************************************************************************)
(* The cells of a heatmap.                                                 *)
(***************************************************************************)
(***************************************************************************)
(* A cell of the heatmap, field by field.                                  *)
(***************************************************************************)
Column(g, w, field) == [c \in Suppliers(g) |-> capacity[c].buckets[w][field]]

Total(g, w, field) == SumFunctionOnSet(Column(g, w, field), Suppliers(g))

Unsupplied(g) == Matching(g) \ Suppliers(g)

\* A cell of the heatmap, field by field.
LEMMA CellFields ==
  ASSUME NEW demands, NEW g, NEW w
  PROVE  /\ Cell(demands, g, w).demand = Demand(demands, g, w)
         /\ Cell(demands, g, w).supply = Total(g, w, "net")
         /\ Cell(demands, g, w).active = Total(g, w, "active")
         /\ Cell(demands, g, w).free = Total(g, w, "free")
         /\ Cell(demands, g, w).utilization =
              IF Total(g, w, "net") = 0 THEN 0
              ELSE CeilDiv((Total(g, w, "active") + Demand(demands, g, w)) * FullBp, Total(g, w, "net"))
         /\ Cell(demands, g, w).surplus = Total(g, w, "free") - Demand(demands, g, w)
         /\ Cell(demands, g, w).excluded = Unsupplied(g)
<1>1. \A field : SumFunction([c \in Suppliers(g) |-> capacity[c].buckets[w][field]]) = Total(g, w, field)
  <2>1. SUFFICES ASSUME NEW field
                 PROVE  SumFunction([c \in Suppliers(g) |-> capacity[c].buckets[w][field]])
                          = Total(g, w, field)
    OBVIOUS
  <2>2. DOMAIN [c \in Suppliers(g) |-> capacity[c].buckets[w][field]] = Suppliers(g)
    OBVIOUS
  <2> QED
    BY <2>2, Zenon DEF SumFunction, Column, Total
<1>2. Cell(demands, g, w) =
        [demand |-> Demand(demands, g, w), supply |-> Total(g, w, "net"),
         active |-> Total(g, w, "active"), free |-> Total(g, w, "free"),
         utilization |->
           IF Total(g, w, "net") = 0 THEN 0
           ELSE CeilDiv((Total(g, w, "active") + Demand(demands, g, w)) * FullBp, Total(g, w, "net")),
         surplus |-> Total(g, w, "free") - Demand(demands, g, w),
         excluded |-> Matching(g) \ Suppliers(g)]
  BY <1>1, Zenon DEF Cell
<1> QED
  BY <1>2 DEF Unsupplied

\* A supplier has four complete weeks, in which free and active units make up the net units.
LEMMA SuppliersAreComplete ==
  ASSUME ReceiptsFollow, NEW g, NEW w \in Weeks
  PROVE  /\ IsFiniteSet(Suppliers(g))
         /\ \A c \in Suppliers(g) :
              /\ Column(g, w, "net")[c] \in Int /\ Column(g, w, "active")[c] \in Int
              /\ Column(g, w, "free")[c] \in Int
              /\ Column(g, w, "net")[c] = Column(g, w, "free")[c] + Column(g, w, "active")[c]
<1>1. Suppliers(g) \subseteq Consultants
  BY DEF Suppliers, Matching, Active
<1>2. IsFiniteSet(Consultants)
  BY InputsAssumption DEF ReceiptsFollow, Shapes, Consultants
<1>3. IsFiniteSet(Suppliers(g))
  BY <1>1, <1>2, FS_Subset
<1>4. ASSUME NEW c \in Suppliers(g)
      PROVE  LET b == capacity[c].buckets[w]
             IN b.net \in Int /\ b.active \in Int /\ b.free \in Int /\ b.net = b.free + b.active
  <2> DEFINE consultant == input.consultants[c]
             b == capacity[c].buckets[w]
  <2>1. c \in Consultants /\ Done(capacity[c]) /\ capacity[c].through = 4
    BY DEF Suppliers, Matching, Active
  <2>2. ConsultantIsTyped(consultant)
    BY <2>1, InputsAssumption DEF ReceiptsFollow, Shapes, Consultants
  <2>3. capacity[c] = WeeklyCapacity(consultant)
    BY <2>1 DEF ReceiptsFollow, CapacityFollows
  <2>4. w \in 1..4
    BY DEF Weeks
  <2> HIDE DEF consultant
  <2>5. b = Bucket(consultant, w) /\ b.state = "COMPLETE" /\ b.active \in Nat
    BY <2>1, <2>2, <2>3, <2>4, CapacityFacts
  <2> HIDE DEF b
  <2>6. b.net \in Int /\ b.free \in Nat /\ b.free + b.active = b.net
    BY <2>2, <2>5, BucketFacts
  <2> QED
    BY <2>5, <2>6 DEF b
<1> QED
  BY <1>3, <1>4 DEF Column

\* The demand of a cell is a natural number.
LEMMA DemandIsNat ==
  ASSUME NEW demands, IsFiniteSet(demands), \A d \in demands : d.effort \in Nat, NEW g, NEW w
  PROVE  Demand(demands, g, w) \in Nat
<1> DEFINE S == {dem \in demands : dem.region = g[1] /\ g[2] \in dem.skills /\ dem.week = w}
           f == [dem \in demands |-> dem.effort]
<1>1. IsFiniteSet(S)
  BY FS_Subset
<1>2. \A x \in S : f[x] \in Nat
  OBVIOUS
<1>3. Demand(demands, g, w) = SumFunctionOnSet(f, S)
  BY Zenon DEF Demand
<1> HIDE DEF S, f
<1> QED
  BY <1>1, <1>2, <1>3, SumIsNat

(***************************************************************************)
(* A share of the net units, rounded up, is above the whole exactly when   *)
(* the part is above the net units.                                        *)
(***************************************************************************)
LEMMA ShareAboveWhole ==
  ASSUME NEW n \in Int, NEW d \in Nat \ {0}
  PROVE  CeilDiv(n * FullBp, d) > FullBp <=> n > d
<1> DEFINE q == CeilDiv(n * FullBp, d)
<1>1. FullBp \in Nat \ {0} /\ n * FullBp \in Int
  BY FullBpIsNat
<1>2. q \in Int /\ n * FullBp <= q * d /\ (q - 1) * d < n * FullBp
  <2> PICK m \in Int : m = n * FullBp
    BY <1>1
  <2> QED
    BY CeilDivIsLeast
<1> HIDE DEF q
<1>3. FullBp * d = d * FullBp /\ d * FullBp \in Int
  BY <1>1
<1>4. ASSUME q > FullBp PROVE n > d
  <2>1. FullBp * d <= (q - 1) * d /\ (q - 1) * d \in Int
    BY <1>1, <1>2, <1>4, ProductOrder
  <2>2. d * FullBp < n * FullBp
    <3> PICK a \in Int, b \in Int, e \in Int : a = d * FullBp /\ b = n * FullBp /\ e = (q - 1) * d
      BY <1>1, <1>3, <2>1
    <3>1. a <= e /\ e < b
      BY <1>2, <1>3, <2>1, Zenon
    <3>2. a < b
      BY <3>1
    <3> QED
      BY <3>2
  <2> QED
    BY <1>1, <2>2, ProductOrder
<1>5. ASSUME n > d PROVE q > FullBp
  <2>1. ~(q <= FullBp)
    <3>1. SUFFICES ASSUME q <= FullBp PROVE FALSE
      OBVIOUS
    <3>2. q * d <= FullBp * d
      BY <1>1, <1>2, <3>1, ProductOrder
    <3>3. ~(n * FullBp <= d * FullBp)
      <4>1. d * FullBp < n * FullBp
        <5>1. n * FullBp = d * FullBp + (n - d) * FullBp /\ (n - d) * FullBp > 0
          BY <1>5 DEF FullBp
        <5> QED
          BY <1>1, <1>3, <5>1
      <4> QED
        BY <1>1, <1>3, <4>1
    <3> PICK a \in Int, b \in Int, e \in Int : a = d * FullBp /\ b = n * FullBp /\ e = q * d
      BY <1>1, <1>2, <1>3
    <3>4. b <= e /\ e <= a /\ ~(b <= a)
      BY <1>2, <1>3, <3>2, <3>3, Zenon
    <3> QED
      BY <3>4
  <2> QED
    BY <1>1, <1>2, <2>1
<1> QED
  BY <1>4, <1>5 DEF q

\* A cell is over 100% exactly when it is in deficit.
LEMMA CellAgreesWithItself ==
  ASSUME ReceiptsFollow, NEW demands, IsFiniteSet(demands), \A d \in demands : d.effort \in Nat,
         NEW g, NEW w \in Weeks, Cell(demands, g, w).supply > 0
  PROVE  Cell(demands, g, w).utilization > FullBp <=> Cell(demands, g, w).surplus < 0
<1> DEFINE cell == Cell(demands, g, w)
           net == Total(g, w, "net")
           active == Total(g, w, "active")
           free == Total(g, w, "free")
           demand == Demand(demands, g, w)
<1>1. /\ cell.supply = net
      /\ cell.utilization = IF net = 0 THEN 0 ELSE CeilDiv((active + demand) * FullBp, net)
      /\ cell.surplus = free - demand
  BY CellFields, Zenon
<1>2. net \in Int /\ active \in Int /\ free \in Int /\ net = free + active
  <2>1. PICK S : S = Suppliers(g)
    OBVIOUS
  <2>2. PICK f, h, k : f = Column(g, w, "free") /\ h = Column(g, w, "active") /\ k = Column(g, w, "net")
    OBVIOUS
  <2>3. IsFiniteSet(S) /\ \A c \in S : f[c] \in Int /\ h[c] \in Int /\ k[c] \in Int
                                       /\ k[c] = f[c] + h[c]
    BY <2>1, <2>2, SuppliersAreComplete
  <2>4. SumFunctionOnSet(f, S) \in Int
    BY <2>3, SumTakesOut
  <2>5. SumFunctionOnSet(h, S) \in Int
    BY <2>3, SumTakesOut
  <2>6. SumFunctionOnSet(k, S) = SumFunctionOnSet(f, S) + SumFunctionOnSet(h, S)
    BY <2>3, SumOfSums
  <2> QED
    BY <2>1, <2>2, <2>4, <2>5, <2>6 DEF Total
<1>3. demand \in Nat
  BY DemandIsNat
<1>7. net > 0
  BY <1>1, Zenon
<1> HIDE DEF cell, net, active, free, demand
<1>4. net \in Nat \ {0} /\ active + demand \in Int
  BY <1>7, <1>2, <1>3
<1>5. cell.utilization > FullBp <=> active + demand > net
  <2>1. PICK n \in Int : n = active + demand
    BY <1>4
  <2>2. cell.utilization = CeilDiv(n * FullBp, net)
    BY <1>1, <1>4, <2>1
  <2>3. CeilDiv(n * FullBp, net) > FullBp <=> n > net
    BY <1>4, ShareAboveWhole
  <2> QED
    BY <2>1, <2>2, <2>3
<1>6. cell.surplus < 0 <=> active + demand > net
  BY <1>1, <1>2, <1>3
<1> QED
  BY <1>5, <1>6 DEF cell

-----------------------------------------------------------------------------
(***************************************************************************)
(* The scenario against the heatmap.                                       *)
(***************************************************************************)
Touching(demands, g, w) == {dem \in demands : dem.region = g[1] /\ g[2] \in dem.skills /\ dem.week = w}
Efforts(demands) == [dem \in demands |-> dem.effort]
Raise(demands) == [dem \in demands |-> RaisedEffort(dem)]

(***************************************************************************)
(* apply_emea_effort_assumption changes the effort of EMEA demands only,   *)
(* to the first whole number that is a quarter more.                       *)
(***************************************************************************)
LEMMA RaisedFacts ==
  ASSUME NEW demands, DemandsAreTyped(demands), NEW dem \in demands
  PROVE  /\ RaisedEffort(dem).region = dem.region /\ RaisedEffort(dem).skills = dem.skills
         /\ RaisedEffort(dem).week = dem.week /\ RaisedEffort(dem).deal = dem.deal
         /\ RaisedEffort(dem).effort \in Nat
         /\ dem.region # "EMEA" => RaisedEffort(dem).effort = dem.effort
         /\ dem.region = "EMEA" => 4 * RaisedEffort(dem).effort - 5 * dem.effort \in 0..3
<1>1. DOMAIN dem = {"deal", "region", "skills", "week", "effort"} /\ dem.effort \in Nat
  BY DEF DemandsAreTyped
<1>2. CASE dem.region # "EMEA"
  BY <1>1, <1>2 DEF RaisedEffort
<1>3. CASE dem.region = "EMEA"
  <2> DEFINE e == CeilDiv(5 * dem.effort, 4)
  <2>1. e \in Nat /\ 4 * e - 5 * dem.effort \in 0..3
    <3> PICK n \in Nat : n = dem.effort
      BY <1>1
    <3>1. CeilDiv(5 * n, 4) \in Nat /\ 4 * CeilDiv(5 * n, 4) - 5 * n \in 0..3
      BY SMT DEF CeilDiv
    <3> QED
      BY <3>1
  <2>2. RaisedEffort(dem) = [dem EXCEPT !.effort = e]
    BY <1>3 DEF RaisedEffort
  <2> HIDE DEF e
  <2> QED
    BY <1>1, <1>3, <2>1, <2>2
<1> QED
  BY <1>2, <1>3

\* The raised demands are as many as the demands, one for each deal.
LEMMA RaisesAreTyped ==
  ASSUME NEW demands, DemandsAreTyped(demands)
  PROVE  /\ OneToOne(Raise(demands), demands)
         /\ Raises(demands) = Images(Raise(demands), demands)
         /\ IsFiniteSet(Raises(demands)) /\ \A d \in Raises(demands) : d.effort \in Nat
<1>1. OneToOne(Raise(demands), demands)
  <2> SUFFICES ASSUME NEW x \in demands, NEW y \in demands, RaisedEffort(x) = RaisedEffort(y)
               PROVE  x = y
    BY DEF OneToOne, Raise
  <2>1. x.deal = y.deal
    BY RaisedFacts
  <2> QED
    BY <2>1 DEF DemandsAreTyped
<1>2. Raises(demands) = Images(Raise(demands), demands)
  BY DEF Raises, Images, Raise
<1>3. \A d \in Raises(demands) : d.effort \in Nat
  BY RaisedFacts DEF Raises
<1>4. IsFiniteSet(demands)
  BY DEF DemandsAreTyped
<1>5. IsFiniteSet(Images(Raise(demands), demands))
  <2> DEFINE zero == [x \in demands |-> 0]
             zeros == [x \in Images(Raise(demands), demands) |-> 0]
  <2>1. Renames(zero, zeros, Raise(demands), demands)
    BY DEF Renames, Images
  <2> HIDE DEF zero, zeros
  <2> QED
    BY <1>1, <1>4, <2>1, SumRenamed
<1> QED
  BY <1>1, <1>2, <1>3, <1>5

\* The demand of a cell in the scenario, summed over the demands as they were.
LEMMA DemandRaised ==
  ASSUME NEW demands, DemandsAreTyped(demands), NEW g, NEW w
  PROVE  Demand(Raises(demands), g, w)
           = SumFunctionOnSet([dem \in demands |-> RaisedEffort(dem).effort], Touching(demands, g, w))
<1> DEFINE f == Efforts(Raises(demands))
           h == [dem \in demands |-> RaisedEffort(dem).effort]
           S == Touching(demands, g, w)
           b == Raise(demands)
<1>1. S \subseteq demands
  BY DEF Touching
<1>2. IsFiniteSet(S)
  <2>1. IsFiniteSet(demands)
    BY DEF DemandsAreTyped
  <2> QED
    BY <1>1, <2>1, FS_Subset
<1>3. OneToOne(b, S)
  BY <1>1, RaisesAreTyped DEF OneToOne
<1>4. Renames(h, f, b, S)
  <2> SUFFICES ASSUME NEW x \in S PROVE h[x] \in Int /\ f[b[x]] = h[x]
    BY DEF Renames
  <2>1. x \in demands /\ b[x] = RaisedEffort(x) /\ h[x] = RaisedEffort(x).effort
    BY <1>1 DEF Raise
  <2>2. RaisedEffort(x) \in Raises(demands)
    BY <2>1 DEF Raises
  <2>3. f[b[x]] = RaisedEffort(x).effort
    BY <2>1, <2>2 DEF Efforts
  <2>4. RaisedEffort(x).effort \in Nat
    BY <2>1, RaisedFacts
  <2> QED
    BY <2>1, <2>3, <2>4
<1>5. Touching(Raises(demands), g, w) = Images(b, S)
  <2>1. ASSUME NEW x \in S PROVE b[x] \in Touching(Raises(demands), g, w)
    <3>1. x \in demands /\ b[x] = RaisedEffort(x) /\ x.region = g[1] /\ g[2] \in x.skills /\ x.week = w
      BY DEF Touching, Raise
    <3>2. /\ RaisedEffort(x).region = x.region /\ RaisedEffort(x).skills = x.skills
          /\ RaisedEffort(x).week = x.week
      BY <3>1, RaisedFacts
    <3>3. RaisedEffort(x) \in Raises(demands)
      BY <3>1 DEF Raises
    <3> QED
      BY <3>1, <3>2, <3>3 DEF Touching
  <2>2. ASSUME NEW y \in Touching(Raises(demands), g, w) PROVE \E x \in S : b[x] = y
    <3>1. PICK x \in demands : y = RaisedEffort(x)
      BY DEF Touching, Raises
    <3>2. /\ RaisedEffort(x).region = x.region /\ RaisedEffort(x).skills = x.skills
          /\ RaisedEffort(x).week = x.week
      BY <3>1, RaisedFacts
    <3>3. x \in S /\ b[x] = y
      BY <3>1, <3>2 DEF Touching, Raise
    <3> QED
      BY <3>3
  <2> HIDE DEF S, b
  <2> QED
    BY <2>1, <2>2 DEF Images
<1>6. Demand(Raises(demands), g, w) = SumFunctionOnSet(f, Touching(Raises(demands), g, w))
  BY Zenon DEF Demand, Efforts, Touching
<1> HIDE DEF f, h, S, b
<1>7. SumFunctionOnSet(f, Images(b, S)) = SumFunctionOnSet(h, S)
  BY <1>2, <1>3, <1>4, SumRenamed
<1>8. SumFunctionOnSet(f, Touching(Raises(demands), g, w)) = SumFunctionOnSet(h, S)
  BY <1>5, <1>7, Zenon
<1> QED
  BY <1>6, <1>8 DEF h, S

(***************************************************************************)
(* The raised demand of a cell: the same outside EMEA, and in EMEA a       *)
(* quarter more, with less than one unit of rounding for each deal.        *)
(***************************************************************************)
LEMMA DemandGrowsByAQuarter ==
  ASSUME NEW demands, DemandsAreTyped(demands), NEW g, NEW w
  PROVE  LET before == Demand(demands, g, w)
             after == Demand(Raises(demands), g, w)
         IN IF g[1] # "EMEA" THEN after = before
            ELSE 4 * after - 5 * before \in 0..(3 * Cardinality(demands))
<1> DEFINE S == Touching(demands, g, w)
           e == Efforts(demands)
           h == [dem \in demands |-> RaisedEffort(dem).effort]
<1>1. S \subseteq demands /\ \A x \in S : x.region = g[1]
  BY DEF Touching
<1>2. /\ IsFiniteSet(S) /\ Cardinality(S) \in Nat
      /\ Cardinality(demands) \in Nat /\ Cardinality(S) <= Cardinality(demands)
  <2>1. IsFiniteSet(demands)
    BY DEF DemandsAreTyped
  <2> HIDE DEF S
  <2> QED
    BY <1>1, <2>1, FS_Subset, FS_CardinalityType
<1>3. Demand(demands, g, w) = SumFunctionOnSet(e, S)
  BY Zenon DEF Demand, Efforts, Touching
<1>4. Demand(Raises(demands), g, w) = SumFunctionOnSet(h, S)
  BY DemandRaised
<1>5. \A x \in S : /\ e[x] \in Int /\ h[x] \in Int
                   /\ g[1] # "EMEA" => h[x] = e[x]
                   /\ g[1] = "EMEA" => 4 * h[x] - 5 * e[x] \in 0..3
  <2> SUFFICES ASSUME NEW x \in S
               PROVE  /\ e[x] \in Int /\ h[x] \in Int
                      /\ g[1] # "EMEA" => h[x] = e[x]
                      /\ g[1] = "EMEA" => 4 * h[x] - 5 * e[x] \in 0..3
    OBVIOUS
  <2>1. x \in demands /\ x.region = g[1]
    BY <1>1
  <2>2. e[x] = x.effort /\ h[x] = RaisedEffort(x).effort
    BY <2>1 DEF Efforts
  <2>3. x.effort \in Nat
    BY <2>1 DEF DemandsAreTyped
  <2> HIDE DEF e, h
  <2> QED
    BY <2>1, <2>2, <2>3, RaisedFacts
<1> HIDE DEF S, e, h
<1>6. CASE g[1] # "EMEA"
  <2>1. SumFunctionOnSet(h, S) = SumFunctionOnSet(e, S)
    BY <1>2, <1>5, <1>6, SumAlike
  <2> QED
    BY <1>3, <1>4, <1>6, <2>1
<1>7. CASE g[1] = "EMEA"
  <2> DEFINE e2 == [x \in S |-> e[x] + e[x]]
             e4 == [x \in S |-> e2[x] + e2[x]]
             e5 == [x \in S |-> e4[x] + e[x]]
             h2 == [x \in S |-> h[x] + h[x]]
             h4 == [x \in S |-> h2[x] + h2[x]]
             more == [x \in S |-> h4[x] - e5[x]]
             most == [x \in S |-> 3]
  <2>1. \A x \in S : /\ e[x] \in Int /\ e2[x] \in Int /\ e4[x] \in Int /\ e5[x] \in Int
                     /\ h[x] \in Int /\ h2[x] \in Int /\ h4[x] \in Int
                     /\ e2[x] = e[x] + e[x] /\ e4[x] = e2[x] + e2[x] /\ e5[x] = e4[x] + e[x]
                     /\ h2[x] = h[x] + h[x] /\ h4[x] = h2[x] + h2[x]
    BY <1>5
  <2>2. \A x \in S : /\ more[x] \in Nat /\ more[x] <= most[x] /\ most[x] = 3
                     /\ h4[x] = more[x] + e5[x]
    <3> SUFFICES ASSUME NEW x \in S
                 PROVE  /\ more[x] \in Nat /\ more[x] <= most[x] /\ most[x] = 3
                        /\ h4[x] = more[x] + e5[x]
      OBVIOUS
    <3>1. more[x] = h4[x] - e5[x] /\ most[x] = 3
      OBVIOUS
    <3>2. 4 * h[x] - 5 * e[x] \in 0..3
      BY <1>5, <1>7
    <3> HIDE DEF e2, e4, e5, h2, h4, more, most
    <3> QED
      BY <2>1, <3>1, <3>2
  <2> HIDE DEF e2, e4, e5, h2, h4, more, most
  <2>3. /\ SumFunctionOnSet(e, S) \in Int /\ SumFunctionOnSet(h, S) \in Int
        /\ SumFunctionOnSet(more, S) \in Nat
    <3>1. SumFunctionOnSet(e, S) \in Int
      BY <1>2, <2>1, SumTakesOut
    <3>2. SumFunctionOnSet(h, S) \in Int
      BY <1>2, <2>1, SumTakesOut
    <3>3. SumFunctionOnSet(more, S) \in Nat
      BY <1>2, <2>2, SumIsNat
    <3> QED
      BY <3>1, <3>2, <3>3
  <2>4. SumFunctionOnSet(e2, S) = SumFunctionOnSet(e, S) + SumFunctionOnSet(e, S)
    BY <1>2, <2>1, SumOfSums
  <2>5. SumFunctionOnSet(e4, S) = SumFunctionOnSet(e2, S) + SumFunctionOnSet(e2, S)
    BY <1>2, <2>1, SumOfSums
  <2>6. SumFunctionOnSet(e5, S) = SumFunctionOnSet(e4, S) + SumFunctionOnSet(e, S)
    BY <1>2, <2>1, SumOfSums
  <2>7. SumFunctionOnSet(h2, S) = SumFunctionOnSet(h, S) + SumFunctionOnSet(h, S)
    BY <1>2, <2>1, SumOfSums
  <2>8. SumFunctionOnSet(h4, S) = SumFunctionOnSet(h2, S) + SumFunctionOnSet(h2, S)
    BY <1>2, <2>1, SumOfSums
  <2>9. SumFunctionOnSet(h4, S) = SumFunctionOnSet(more, S) + SumFunctionOnSet(e5, S)
    BY <1>2, <2>1, <2>2, SumOfSums
  <2>10. SumFunctionOnSet(more, S) <= SumFunctionOnSet(most, S)
    BY <1>2, <2>2, SumOrder
  <2>11. SumFunctionOnSet(most, S) = 3 * Cardinality(S)
    BY <1>2, <2>2, SumOfConstant
  <2>12. 4 * SumFunctionOnSet(h, S) - 5 * SumFunctionOnSet(e, S) \in 0..(3 * Cardinality(demands))
    BY <1>2, <2>3, <2>4, <2>5, <2>6, <2>7, <2>8, <2>9, <2>10, <2>11
  <2> QED
    BY <1>3, <1>4, <1>7, <2>12
<1> QED
  BY <1>6, <1>7

-----------------------------------------------------------------------------
\* The scenario has the cells of the heatmap.
LEMMA GroupsStay ==
  ASSUME NEW demands, DemandsAreTyped(demands)
  PROVE  Groups(Raises(demands)) = Groups(demands)
<1> DEFINE Of(D) == UNION {{dem.region} \X dem.skills : dem \in D}
<1>1. ASSUME NEW x PROVE x \in Of(Raises(demands)) <=> x \in Of(demands)
  <2>1. ASSUME NEW dem \in demands
        PROVE  {RaisedEffort(dem).region} \X RaisedEffort(dem).skills = {dem.region} \X dem.skills
    BY RaisedFacts
  <2> QED
    BY <2>1 DEF Raises
<1>2. Of(Raises(demands)) = Of(demands)
  <2> HIDE DEF Of
  <2> QED
    BY <1>1
<1> QED
  BY <1>2, Zenon DEF Groups

\* Two cells of one region, skill and week differ by their demand only.
LEMMA CellsShareSupply ==
  ASSUME NEW demands, NEW others, NEW g, NEW w
  PROVE  LET before == Cell(demands, g, w)
             after == Cell(others, g, w)
         IN /\ after.supply = before.supply /\ after.active = before.active
            /\ after.free = before.free /\ after.excluded = before.excluded
            /\ after.demand = Demand(others, g, w) /\ before.demand = Demand(demands, g, w)
BY CellFields

\* The demands of a run, raised or not, are finitely many and typed.
LEMMA DemandsOfARun ==
  ASSUME ReceiptsFollow
  PROVE  /\ DemandsAreTyped(input.demands)
         /\ IsFiniteSet(input.demands) /\ \A d \in input.demands : d.effort \in Nat
         /\ IsFiniteSet(Raises(input.demands)) /\ \A d \in Raises(input.demands) : d.effort \in Nat
<1>1. DemandsAreTyped(input.demands)
  BY InputsAssumption DEF ReceiptsFollow, Shapes
<1>2. IsFiniteSet(input.demands) /\ \A d \in input.demands : d.effort \in Nat
  BY <1>1 DEF DemandsAreTyped
<1>3. IsFiniteSet(Raises(input.demands)) /\ \A d \in Raises(input.demands) : d.effort \in Nat
  BY <1>1, RaisesAreTyped
<1> QED
  BY <1>1, <1>2, <1>3

\* Every cell of either heatmap is over 100% exactly when in deficit.
LEMMA CellsAgreeWithThemselves == ReceiptsFollow => OverfullMeansDeficit
<1> SUFFICES ASSUME ReceiptsFollow, NEW cells \in {heatmap, scenario}, NEW gw \in DOMAIN cells,
                    cells[gw].supply > 0
             PROVE  cells[gw].utilization > FullBp <=> cells[gw].surplus < 0
  BY DEF OverfullMeansDeficit
<1>1. cells # NoCells
  BY DEF NoCells
<1>2. PICK demands : /\ cells = Cells(demands) /\ IsFiniteSet(demands)
                     /\ \A d \in demands : d.effort \in Nat
  <2>1. cells = Cells(input.demands) \/ cells = Cells(Raises(input.demands))
    BY <1>1 DEF ReceiptsFollow, CellsFollow
  <2> QED
    BY <2>1, DemandsOfARun
<1>3. gw[2] \in Weeks /\ cells[gw] = Cell(demands, gw[1], gw[2])
  BY <1>2 DEF Cells
<1>4. Cell(demands, gw[1], gw[2]).supply > 0
  BY <1>3, Zenon
<1>5. Cell(demands, gw[1], gw[2]).utilization > FullBp <=> Cell(demands, gw[1], gw[2]).surplus < 0
  BY <1>2, <1>3, <1>4, CellAgreesWithItself
<1> QED
  BY <1>3, <1>5, Zenon

\* The scenario differs from the heatmap by a quarter of EMEA demand.
LEMMA ScenarioFollowsHeatmap == ReceiptsFollow => ScenarioAddsAQuarter
<1> SUFFICES ASSUME ReceiptsFollow, scenario # NoCells PROVE ScenarioAddsAQuarter
  BY DEF ScenarioAddsAQuarter
<1>1. PICK demands : demands = input.demands
  OBVIOUS
<1>2. heatmap = Cells(demands) /\ scenario = Cells(Raises(demands)) /\ DemandsAreTyped(demands)
  BY <1>1, DemandsOfARun DEF ReceiptsFollow, CellsFollow
<1>3. DOMAIN scenario = DOMAIN heatmap /\ DOMAIN heatmap = Groups(demands) \X Weeks
  <2>1. DOMAIN heatmap = Groups(demands) \X Weeks
    BY <1>2 DEF Cells
  <2>2. DOMAIN scenario = Groups(Raises(demands)) \X Weeks
    BY <1>2 DEF Cells
  <2>3. Groups(Raises(demands)) = Groups(demands)
    BY <1>2, GroupsStay
  <2> QED
    BY <2>1, <2>2, <2>3, Zenon
<1>4. ASSUME NEW gw \in DOMAIN heatmap
      PROVE  LET before == heatmap[gw]
                 after == scenario[gw]
                 added == 4 * after.demand - 5 * before.demand
             IN IF gw[1][1] # "EMEA" THEN after = before
                ELSE /\ added \in 0..(3 * Cardinality(input.demands))
                     /\ \A field \in {"supply", "active", "free", "excluded"} :
                          after[field] = before[field]
  <2> DEFINE g == gw[1]
             w == gw[2]
             before == Cell(demands, g, w)
             after == Cell(Raises(demands), g, w)
  <2>1. heatmap[gw] = before
    BY <1>2, <1>3 DEF Cells
  <2>2. scenario[gw] = after
    <3>1. gw \in Groups(Raises(demands)) \X Weeks
      BY <1>3, <1>2, GroupsStay, Zenon
    <3> QED
      BY <1>2, <3>1 DEF Cells
  <2>3. /\ after.supply = before.supply /\ after.active = before.active
        /\ after.free = before.free /\ after.excluded = before.excluded
        /\ after.demand = Demand(Raises(demands), g, w) /\ before.demand = Demand(demands, g, w)
    BY CellsShareSupply
  <2>4. CASE g[1] # "EMEA"
    <3>1. Demand(Raises(demands), g, w) = Demand(demands, g, w)
      BY <1>2, <2>4, DemandGrowsByAQuarter
    <3>2. after = before
      BY <3>1, Zenon DEF Cell
    <3> QED
      BY <2>1, <2>2, <2>4, <3>2
  <2>5. CASE g[1] = "EMEA"
    <3>1. 4 * Demand(Raises(demands), g, w) - 5 * Demand(demands, g, w) \in 0..(3 * Cardinality(demands))
      BY <1>2, <2>5, DemandGrowsByAQuarter
    <3> HIDE DEF before, after
    <3>2. /\ heatmap[gw].demand = Demand(demands, g, w)
          /\ scenario[gw].demand = Demand(Raises(demands), g, w)
          /\ \A field \in {"supply", "active", "free", "excluded"} :
               scenario[gw][field] = heatmap[gw][field]
      BY <2>1, <2>2, <2>3
    <3> QED
      BY <1>1, <2>5, <3>1, <3>2
  <2> QED
    BY <2>4, <2>5
<1> QED
  BY <1>3, <1>4 DEF ScenarioAddsAQuarter

(***************************************************************************)
(* The order of the workload rows never decides what a consultant can take *)
(* on, a cell's utilization and its surplus never contradict each other,   *)
(* and the scenario changes nothing but EMEA demand, by a quarter.         *)
(***************************************************************************)
THEOREM CapacityStaysOneStory == Spec => []CapacityTellsOneStory
<1>1. ReceiptsFollow => CapacityTellsOneStory
  BY RowOrderNeverDecides, CellsAgreeWithThemselves, ScenarioFollowsHeatmap
  DEF CapacityTellsOneStory, CellsAgree
<1>2. Spec => []ReceiptsFollow
  BY ReceiptsFollowInductive
<1> QED
  BY <1>1, <1>2, PTL

-----------------------------------------------------------------------------
(***************************************************************************)
(* The portfolio optimizer.                                                *)
(***************************************************************************)

\* A finite set of numbers that is not empty has a greatest one, which Max is.
LEMMA FiniteHasMax ==
  ASSUME NEW S, IsFiniteSet(S), S \subseteq Int, S # {}
  PROVE  Max(S) \in S /\ \A m \in S : m <= Max(S)
<1> DEFINE Good == {T \in SUBSET S : T # {} => \E x \in T : \A m \in T : m <= x}
<1>1. ASSUME NEW T \in SUBSET S, \A x \in T : T \ {x} \in Good PROVE T \in Good
  <2> SUFFICES ASSUME T # {}
               PROVE  \E x \in T : \A m \in T : m <= x
    OBVIOUS
  <2>1. PICK x \in T : TRUE
    OBVIOUS
  <2>2. CASE T \ {x} = {}
    BY <2>1, <2>2
  <2>3. CASE T \ {x} # {}
    <3>1. PICK y \in T \ {x} : \A m \in T \ {x} : m <= y
      BY <1>1, <2>1, <2>3
    <3>2. x \in Int /\ y \in Int
      BY <2>1, <3>1
    <3>3. CASE x <= y
      BY <2>1, <3>1, <3>2, <3>3
    <3>4. CASE y <= x
      BY <2>1, <3>1, <3>2, <3>4
    <3> QED
      BY <3>2, <3>3, <3>4
  <2> QED
    BY <2>2, <2>3
<1>2. SUBSET S \subseteq Good
  <2> HIDE DEF Good
  <2> QED
    BY <1>1, FiniteByRemoval
<1>3. \E x \in S : \A m \in S : x >= m
  BY <1>2
<1> QED
  BY <1>3 DEF Max

\* The values of a function on a finite set are finitely many.
LEMMA ImagesAreFinite ==
  ASSUME NEW f, NEW S, IsFiniteSet(S)
  PROVE  IsFiniteSet({f[x] : x \in S})
<1> DEFINE T == {f[x] : x \in S}
<1>1. [x \in S |-> f[x]] \in Surjection(S, T)
  BY DEF Surjection
<1> QED
  BY <1>1, FS_Surjection

-----------------------------------------------------------------------------
(***************************************************************************)
(* The figures of a selection.                                             *)
(***************************************************************************)
OfAProblem == IsProblem(problem) /\ eligible \subseteq problem.cleared

\* There are finitely many pairs, and so selections.
LEMMA PairsAreFinite ==
  ASSUME OfAProblem
  PROVE  /\ eligible \subseteq DealPairs /\ IsFiniteSet(eligible)
         /\ IsFiniteSet(SUBSET eligible)
         /\ \A S \in SUBSET eligible : IsFiniteSet(S)
<1>1. eligible \subseteq DealPairs
  BY DEF OfAProblem, IsProblem
<1>2. IsFiniteSet(DealPairs)
  BY IdsAssumption, FS_Product DEF DealPairs
<1>3. IsFiniteSet(eligible)
  BY <1>1, <1>2, FS_Subset
<1> QED
  BY <1>1, <1>3, FS_Subset, FS_SUBSET

\* A figure of a selection is the sum of its pairs'.
LEMMA FiguresAreNat ==
  ASSUME NEW figure, NEW S, IsFiniteSet(S), \A p \in S : figure[p] \in Nat
  PROVE  SumOver(figure, S) \in Nat
<1>1. \A p \in S : [q \in S |-> figure[q]][p] \in Nat
  OBVIOUS
<1> QED
  BY <1>1, SumIsNat DEF SumOver

\* Each pair has an effort, a priority, a fit and a rank.
LEMMA PairsHaveFigures ==
  ASSUME OfAProblem, NEW p \in eligible
  PROVE  /\ EffortOf[p] \in Nat /\ PriorityOf[p] \in Nat /\ problem.fit[p] \in Nat
         /\ Rank(p) \in Nat
<1>1. p \in DealPairs /\ p[1] \in DealIds
  BY PairsAreFinite DEF DealPairs
<1>2. EffortOf[p] \in Nat /\ PriorityOf[p] \in Nat /\ problem.fit[p] \in Nat
  <2>1. EffortOf[p] = problem.effort[p[1]] /\ PriorityOf[p] = problem.priority[p[1]]
    BY DEF EffortOf, PriorityOf
  <2>2. problem.effort[p[1]] \in Nat
    BY <1>1 DEF OfAProblem, IsProblem
  <2>3. problem.priority[p[1]] \in 0..FullBp /\ problem.fit[p] \in 0..FullBp
    BY <1>1 DEF OfAProblem, IsProblem
  <2> QED
    BY <2>1, <2>2, <2>3, FullBpIsNat
<1>3. Rank(p) \in Nat
  <2>1. IsFiniteSet({q \in eligible : q[1] < p[1] \/ (q[1] = p[1] /\ q[2] <= p[2])})
    BY PairsAreFinite, FS_Subset
  <2> QED
    BY <2>1, FS_CardinalityType DEF Rank
<1> QED
  BY <1>2, <1>3

\* What a consultant has over the first weeks.
LEMMA HoursAreNat ==
  ASSUME OfAProblem, NEW c \in ConsultantIds, NEW w \in Horizon
  PROVE  Net(c, w) \in Nat /\ Workload(c, w) \in Nat
<1>1. /\ IsFiniteSet(1..w)
      /\ \A i \in 1..w : /\ problem.capacity[c][i].net \in Nat
                         /\ problem.capacity[c][i].workload \in Nat
  <2>1. w \in Nat /\ 1..w \subseteq Horizon
    BY HorizonAssumption DEF Horizon
  <2>2. IsFiniteSet(1..w)
    BY <2>1, FS_Interval
  <2>3. \A i \in Horizon : problem.capacity[c][i] \in BucketType
    BY DEF OfAProblem, IsProblem
  <2> QED
    BY <2>1, <2>2, <2>3 DEF BucketType
<1>2. SumFunctionOnSet([i \in 1..w |-> problem.capacity[c][i].net], 1..w) \in Nat
  <2>1. \A i \in 1..w : [j \in 1..w |-> problem.capacity[c][j].net][i] \in Nat
    BY <1>1
  <2> QED
    BY <1>1, <2>1, SumIsNat
<1>3. SumFunctionOnSet([i \in 1..w |-> problem.capacity[c][i].workload], 1..w) \in Nat
  <2>1. \A i \in 1..w : [j \in 1..w |-> problem.capacity[c][j].workload][i] \in Nat
    BY <1>1
  <2> QED
    BY <1>1, <2>1, SumIsNat
<1> QED
  BY <1>2, <1>3 DEF Net, Workload

\* The effort a selection asks of a consultant up to a week.
LEMMA AssignedIsNat ==
  ASSUME OfAProblem, NEW S \in SUBSET eligible, NEW c, NEW w
  PROVE  Assigned(S, c, w) \in Nat
<1> DEFINE T == {p \in S : p[2] = c /\ problem.due[p[1]] <= w}
<1>1. T \in SUBSET eligible
  OBVIOUS
<1>2. IsFiniteSet(T) /\ \A p \in T : EffortOf[p] \in Nat
  BY <1>1, PairsAreFinite, PairsHaveFigures
<1> QED
  BY <1>2, FiguresAreNat DEF Assigned

\* The peak of the candidates' weeks.
LEMMA PeakIsNat ==
  ASSUME OfAProblem, NEW S \in SUBSET eligible
  PROVE  Peak(S) \in Nat
<1> DEFINE Q == Candidates \X Horizon
           share == [q \in Q |-> Utilization(S, q[1], q[2])]
<1>1. Candidates \subseteq ConsultantIds /\ IsFiniteSet(Candidates)
  <2>1. Candidates \subseteq ConsultantIds
    BY PairsAreFinite DEF Candidates, DealPairs
  <2> QED
    BY <2>1, IdsAssumption, FS_Subset
<1>2. \A c \in Candidates, w \in Horizon : Utilization(S, c, w) \in Nat
  <2> SUFFICES ASSUME NEW c \in Candidates, NEW w \in Horizon
               PROVE  Utilization(S, c, w) \in Nat
    OBVIOUS
  <2>1. Net(c, w) \in Nat /\ Workload(c, w) \in Nat /\ Assigned(S, c, w) \in Nat
    BY <1>1, HoursAreNat, AssignedIsNat
  <2>2. CASE Net(c, w) = 0
    BY <2>2 DEF Utilization
  <2>3. CASE Net(c, w) # 0
    <3>1. PICK n \in Nat : n = (Workload(c, w) + Assigned(S, c, w)) * FullBp
      BY <2>1 DEF FullBp
    <3>2. PICK d \in Nat \ {0} : d = Net(c, w)
      BY <2>1, <2>3
    <3>3. (n + d - 1) \div d \in Nat
      BY <3>1, <3>2, SMT
    <3> QED
      BY <2>3, <3>1, <3>2, <3>3 DEF Utilization, CeilDiv
  <2> QED
    BY <2>2, <2>3
<1>3. IsFiniteSet(Q)
  <2>1. IsFiniteSet(Horizon)
    BY HorizonAssumption, FS_Interval DEF Horizon
  <2> QED
    BY <1>1, <2>1, FS_Product
<1>4. \A q \in Q : share[q] = Utilization(S, q[1], q[2]) /\ share[q] \in Nat
  BY <1>2
<1>5. Peak(S) = Max({0} \cup {share[q] : q \in Q})
  <2>1. {Utilization(S, q[1], q[2]) : q \in Q} = {share[q] : q \in Q}
    BY <1>4
  <2> QED
    BY <2>1 DEF Peak
<1> HIDE DEF share, Q
<1>6. IsFiniteSet({share[q] : q \in Q})
  BY <1>3, ImagesAreFinite
<1>7. IsFiniteSet({0} \cup {share[q] : q \in Q})
  BY <1>6, FS_Union, FS_Singleton
<1>8. {0} \cup {share[q] : q \in Q} \subseteq Nat
  BY <1>4
<1>9. Max({0} \cup {share[q] : q \in Q}) \in {0} \cup {share[q] : q \in Q}
  <2>1. {0} \cup {share[q] : q \in Q} # {} /\ {0} \cup {share[q] : q \in Q} \subseteq Int
    BY <1>8
  <2> QED
    BY <1>7, <2>1, FiniteHasMax
<1> QED
  BY <1>5, <1>8, <1>9

\* The four figures that are compared.
LEMMA ObjectivesAreInts ==
  ASSUME OfAProblem, NEW S \in SUBSET eligible
  PROVE  /\ PriorityTotal(S) \in Nat /\ MatchTotal(S) \in Nat /\ Peak(S) \in Nat
         /\ TieCost(S) \in Nat
         /\ Objectives(S) \in Seq(Int) /\ Len(Objectives(S)) = 4
         /\ \A i \in 1..4 : Objectives(S)[i] \in Int
<1>1. IsFiniteSet(S) /\ \A p \in S : /\ PriorityOf[p] \in Nat /\ problem.fit[p] \in Nat
                                     /\ Rank(p) \in Nat
  BY PairsAreFinite, PairsHaveFigures
<1>2. PriorityTotal(S) \in Nat /\ MatchTotal(S) \in Nat
  BY <1>1, FiguresAreNat DEF PriorityTotal, MatchTotal
<1>3. TieCost(S) \in Nat
  <2>1. \A p \in S : [q \in S |-> Rank(q)][p] \in Nat
    BY <1>1
  <2> QED
    BY <1>1, <2>1, SumIsNat DEF TieCost
<1>4. Peak(S) \in Nat
  BY PeakIsNat
<1>5. \A a, b, c, d \in Int : /\ <<a, b, c, d>> \in Seq(Int) /\ Len(<<a, b, c, d>>) = 4
                              /\ \A i \in 1..4 : <<a, b, c, d>>[i] \in Int
  OBVIOUS
<1>6. 0 - Peak(S) \in Int /\ 0 - TieCost(S) \in Int
  BY <1>3, <1>4
<1> QED
  BY <1>2, <1>3, <1>4, <1>5, <1>6 DEF Objectives

(***************************************************************************)
(* The weeks of a candidate nobody is assigned to ask least of him: where  *)
(* some selection fits, one without him does.                              *)
(***************************************************************************)
LEMMA UnassignedFits ==
  ASSUME OfAProblem, NEW S \in SUBSET eligible, NEW T \in SUBSET eligible,
         NEW c \in ConsultantIds, NEW w \in Horizon, WeekFits(S, c, w), \A p \in T : p[2] # c
  PROVE  WeekFits(T, c, w)
<1>1. Assigned(T, c, w) = 0
  <2>1. {p \in T : p[2] = c /\ problem.due[p[1]] <= w} = {}
    OBVIOUS
  <2> QED
    BY <2>1, SumOfNone DEF Assigned, SumOver
<1>2. Net(c, w) \in Nat /\ Workload(c, w) \in Nat /\ Assigned(S, c, w) \in Nat
  BY HoursAreNat, AssignedIsNat
<1>3. Complete(c, w) /\ Assigned(S, c, w) <= Net(c, w) - Workload(c, w)
      /\ (Workload(c, w) + Assigned(S, c, w)) * FullBp <= Ceiling * Net(c, w)
  BY DEF WeekFits
<1>4. 0 <= Net(c, w) - Workload(c, w)
  BY <1>2, <1>3
<1>5. (Workload(c, w) + 0) * FullBp <= Ceiling * Net(c, w)
  <2>1. PICK k \in Int : k = Ceiling * Net(c, w)
    BY <1>2, HorizonAssumption DEF FullBp
  <2> QED
    BY <1>2, <1>3, <2>1 DEF FullBp
<1> QED
  BY <1>1, <1>3, <1>4, <1>5 DEF WeekFits

\* Every candidate's weeks fit some selection, in a model that has one.
CandidatesFit == \A c \in Candidates, w \in Horizon : \E S \in SUBSET eligible : WeekFits(S, c, w)

\* Model and verifier then accept the same selections.
LEMMA ModelIsVerifier ==
  ASSUME OfAProblem, NEW must, CandidatesFit
  PROVE  Selections(must) = OracleSelections(must)
<1>1. ASSUME NEW S \in SUBSET eligible, Model(S, must)
      PROVE  Verified(S, must)
  BY <1>1 DEF Model, Verified, Candidates
<1>2. ASSUME NEW S \in SUBSET eligible, Verified(S, must)
      PROVE  Model(S, must)
  <2> SUFFICES ASSUME NEW c \in Candidates, NEW w \in Horizon
               PROVE  WeekFits(S, c, w)
    BY <1>2 DEF Model, Verified
  <2>1. CASE \E p \in S : p[2] = c
    BY <1>2, <2>1 DEF Verified
  <2>2. CASE \A p \in S : p[2] # c
    <3>1. PICK T \in SUBSET eligible : WeekFits(T, c, w)
      BY DEF CandidatesFit
    <3>2. c \in ConsultantIds
      BY PairsAreFinite DEF Candidates, DealPairs
    <3> QED
      BY <2>2, <3>1, <3>2, UnassignedFits
  <2> QED
    BY <2>1, <2>2
<1> QED
  BY <1>1, <1>2 DEF Selections, OracleSelections

\* So they do in any model that has a selection.
LEMMA SelectionsAreVerified ==
  ASSUME OfAProblem, NEW must, Selections(must) # {}
  PROVE  Selections(must) = OracleSelections(must)
<1>1. PICK S \in SUBSET eligible : Model(S, must)
  BY DEF Selections
<1>2. CandidatesFit
  BY <1>1 DEF Model, CandidatesFit
<1> QED
  BY <1>2, ModelIsVerifier

-----------------------------------------------------------------------------
(***************************************************************************)
(* The inductive invariant.  A selection agrees with the phases solved so  *)
(* far if it reaches their optima.  The optimum of a phase bounds every    *)
(* selection that agrees with the phases before it, and is reached.        *)
(***************************************************************************)
Agrees(S, n) == \A j \in 1..n : Objectives(S)[j] = fixed[j]

PhasesFollow ==
  /\ fixed \in Seq(Int) /\ Len(fixed) <= 3
  /\ \A i \in 1..Len(fixed), S \in Selections(forced) :
       Agrees(S, i - 1) => Objectives(S)[i] <= fixed[i]
  /\ fixed # <<>> => Remaining # {}

ReceiptHolds(r, must) ==
  /\ r.status \in Statuses \ {"MODEL_INVALID"} /\ Honest(r)
  /\ r.status = "OPTIMAL" => r.assignments \in OracleBest(must)
  /\ r.status = "INFEASIBLE" => Selections(must) = {}

SolveInv ==
  /\ OfAProblem
  /\ stage \in {"SOLVE", "RECOMMENDED", "COUNTERFACTUAL", "DONE"}
  /\ forced \subseteq eligible /\ Cardinality(forced) <= 1
  /\ stage \in {"SOLVE", "RECOMMENDED"} => forced = {} /\ alternative = NoReceipt
  /\ PhasesFollow /\ (~Solving => fixed = <<>>)
  /\ ReceiptHolds(receipt, {}) /\ ReceiptHolds(alternative, forced)

\* At most three optima are fixed.
LEMMA PhasesAreTyped == PhasesFollow => fixed \in Seq(Int) /\ Len(fixed) \in 0..3
<1> SUFFICES ASSUME PhasesFollow
             PROVE  fixed \in Seq(Int) /\ Len(fixed) \in 0..3
  OBVIOUS
<1>1. fixed \in Seq(Int) /\ Len(fixed) <= 3
  BY DEF PhasesFollow
<1>2. PICK n \in Nat : n = Len(fixed)
  BY <1>1
<1>3. n <= 3
  BY <1>1, <1>2
<1> QED
  BY <1>1, <1>2, <1>3

\* A sequence continues another when it has its elements.
LEMMA PrefixAgrees ==
  ASSUME NEW o \in Seq(Int), NEW s \in Seq(Int), NEW n \in 0..3, Len(s) = n, Len(o) = 4
  PROVE  SubSeq(o, 1, Len(s)) = s <=> \A j \in 1..n : o[j] = s[j]
<1>1. SubSeq(o, 1, n) = [j \in 1..n |-> o[j]]
  <2>1. \A j \in 1..n : j + 1 - 1 = j /\ n - 1 + 1 = n
    OBVIOUS
  <2> QED
    BY <2>1
<1>2. s = [j \in 1..n |-> s[j]]
  OBVIOUS
<1> QED
  BY <1>1, <1>2

\* What remains is what agrees with every phase so far.
LEMMA RemainingAgrees ==
  ASSUME OfAProblem, PhasesFollow, NEW S \in Selections(forced)
  PROVE  S \in Remaining <=> Agrees(S, Len(fixed))
<1>1. Objectives(S) \in Seq(Int) /\ Len(Objectives(S)) = 4
  BY ObjectivesAreInts DEF Selections
<1>2. fixed \in Seq(Int) /\ Len(fixed) \in 0..3
  BY PhasesAreTyped
<1> QED
  BY <1>1, <1>2, PrefixAgrees DEF Remaining, Agrees

\* The best of what remains are those, and none is better.
LEMMA BestIsOptimal ==
  ASSUME OfAProblem, PhasesFollow, NEW S \in Best
  PROVE  /\ S \in Remaining
         /\ \A T \in Remaining : Objectives(T)[Len(fixed) + 1] <= Objectives(S)[Len(fixed) + 1]
<1> DEFINE i == Len(fixed) + 1
           value == [T \in Remaining |-> Objectives(T)[i]]
<1>1. i \in 1..4
  <2>1. PICK n \in 0..3 : n = Len(fixed)
    BY PhasesAreTyped
  <2>2. \A m \in 0..3 : m + 1 \in 1..4
    OBVIOUS
  <2> QED
    BY <2>1, <2>2, Zenon
<1>2. Remaining \subseteq SUBSET eligible /\ IsFiniteSet(Remaining)
  <2>1. Remaining \subseteq SUBSET eligible
    BY DEF Remaining, Selections
  <2> QED
    BY <2>1, PairsAreFinite, FS_Subset
<1>3. S \in Remaining /\ value[S] = Max({value[T] : T \in Remaining})
  BY DEF Best, BestOf
<1>4. \A T \in Remaining : value[T] \in Int /\ value[T] = Objectives(T)[i]
  BY <1>1, <1>2, ObjectivesAreInts
<1> HIDE DEF value
<1>5. IsFiniteSet({value[T] : T \in Remaining})
  BY <1>2, ImagesAreFinite
<1>6. \A m \in {value[T] : T \in Remaining} : m <= Max({value[T] : T \in Remaining})
  <2>1. {value[T] : T \in Remaining} \subseteq Int /\ {value[T] : T \in Remaining} # {}
    BY <1>3, <1>4
  <2> QED
    BY <1>5, <2>1, FiniteHasMax
<1> QED
  BY <1>3, <1>4, <1>6

\* The figures, the selections and the oracle read the problem only.
LEMMA FiguresRest ==
  ASSUME UNCHANGED <<problem, eligible>>
  PROVE  /\ \A S : Objectives(S)' = Objectives(S)
         /\ \A must : Selections(must)' = Selections(must)
         /\ \A must : OracleBest(must)' = OracleBest(must)
         /\ OfAProblem' = OfAProblem
<1>1. \A S : Objectives(S)' = Objectives(S)
  BY DEF Objectives, PriorityTotal, MatchTotal, TieCost, Peak, Utilization, Candidates, Net,
     Workload, Assigned, SumOver, EffortOf, PriorityOf, Rank
<1>2. \A S, c, w : WeekFits(S, c, w)' = WeekFits(S, c, w)
  BY DEF WeekFits, Complete, Net, Workload, Assigned, SumOver, EffortOf
<1>3. \A S, must : Model(S, must)' = Model(S, must) /\ Verified(S, must)' = Verified(S, must)
  BY <1>2 DEF Model, Verified, Candidates
<1>4. \A must : /\ Selections(must)' = Selections(must)
                /\ OracleSelections(must)' = OracleSelections(must)
  BY <1>3 DEF Selections, OracleSelections
<1>5. \A must : OracleBest(must)' = OracleBest(must)
  BY <1>1, <1>4 DEF OracleBest
<1> QED
  BY <1>1, <1>4, <1>5 DEF OfAProblem

\* A receipt that is left alone holds as long as the problem is.
LEMMA ReceiptsRest ==
  ASSUME UNCHANGED <<problem, eligible>>, NEW r, NEW must, ReceiptHolds(r, must)
  PROVE  ReceiptHolds(r, must)'
BY FiguresRest DEF ReceiptHolds, Honest

\* The optimum of a phase is fixed for the phases after it.
LEMMA PhaseKeeps ==
  ASSUME SolveInv, SolvePhase
  PROVE  SolveInv'
<1>1. PICK S \in Best : fixed' = Append(fixed, Objectives(S)[Len(fixed) + 1])
  BY DEF SolvePhase
<1>2. /\ UNCHANGED <<problem, eligible, forced, receipt, alternative, stage>> /\ Len(fixed) < 3
      /\ OfAProblem /\ PhasesFollow /\ Solving
  BY DEF SolvePhase, SolveInv
<1>3. PICK n \in 0..2 : n = Len(fixed)
  <2>1. PICK m \in Nat : m = Len(fixed)
    BY <1>2 DEF PhasesFollow
  <2>2. m \in 0..2
    BY <1>2, <2>1
  <2> QED
    BY <2>1, <2>2
<1>4. PICK v : v = Objectives(S)[n + 1]
  OBVIOUS
<1>5. /\ S \in Remaining /\ v \in Int
      /\ \A T \in Remaining : Objectives(T)[n + 1] <= v
  <2>1. S \in Remaining /\ \A T \in Remaining : Objectives(T)[n + 1] <= v
    BY <1>2, <1>3, <1>4, BestIsOptimal, Zenon
  <2>2. S \in SUBSET eligible /\ n + 1 \in 1..4
    BY <2>1 DEF Remaining, Selections
  <2> QED
    BY <1>2, <1>4, <2>1, <2>2, ObjectivesAreInts
<1>6. /\ fixed' \in Seq(Int) /\ Len(fixed') = n + 1
      /\ \A j \in 1..n : fixed'[j] = fixed[j]
      /\ fixed'[n + 1] = v
  <2>1. fixed' = Append(fixed, v) /\ fixed \in Seq(Int)
    BY <1>1, <1>2, <1>3, <1>4 DEF PhasesFollow
  <2> QED
    BY <1>3, <1>5, <2>1
<1>7. /\ \A T : Objectives(T)' = Objectives(T)
      /\ Selections(forced)' = Selections(forced) /\ OfAProblem'
  BY <1>2, FiguresRest
<1>8. \A T, k \in 0..n : Agrees(T, k)' <=> Agrees(T, k)
  <2>1. \A k \in 0..n : \A j \in 1..k : j \in 1..n
    OBVIOUS
  <2> QED
    BY <1>6, <1>7, <2>1 DEF Agrees
<1>9. ASSUME NEW i \in 1..(n + 1), NEW T \in Selections(forced), Agrees(T, i - 1)'
      PROVE  Objectives(T)[i] <= fixed'[i]
  <2>1. Agrees(T, i - 1)
    <3>1. \A j \in 1..(i - 1) : j \in 1..n
      BY <1>9
    <3> QED
      BY <1>6, <1>7, <1>9, <3>1 DEF Agrees
  <2>2. CASE i \in 1..n
    BY <1>2, <1>3, <1>6, <2>1, <2>2 DEF PhasesFollow
  <2>3. CASE i = n + 1
    <3>1. Agrees(T, Len(fixed))
      BY <1>3, <2>1, <2>3
    <3>2. T \in Remaining
      BY <1>2, <3>1, RemainingAgrees
    <3> QED
      BY <1>5, <1>6, <2>3, <3>2
  <2> QED
    BY <1>9, <2>2, <2>3
<1>10. Remaining' # {}
  <2>1. S \in Selections(forced) /\ Agrees(S, n)
    <3>1. S \in Selections(forced)
      BY <1>5 DEF Remaining
    <3> QED
      BY <1>2, <1>3, <1>5, <3>1, RemainingAgrees
  <2>2. \A j \in 1..(n + 1) : Objectives(S)[j] = fixed'[j]
    BY <1>4, <1>6, <2>1 DEF Agrees
  <2>3. Objectives(S) \in Seq(Int) /\ Len(Objectives(S)) = 4 /\ n + 1 \in 0..3
    BY <1>2, <2>1, ObjectivesAreInts DEF Selections
  <2>4. SubSeq(Objectives(S), 1, Len(fixed')) = fixed'
    BY <1>6, <2>2, <2>3, PrefixAgrees
  <2> QED
    BY <1>7, <2>1, <2>4 DEF Remaining
<1>11. PhasesFollow'
  <2>1. Len(fixed') <= 3
    BY <1>6
  <2> QED
    BY <1>6, <1>7, <1>9, <1>10, <2>1 DEF PhasesFollow
<1>12. ReceiptHolds(receipt, {})' /\ ReceiptHolds(alternative, forced)'
  <2>1. ReceiptHolds(receipt, {}) /\ ReceiptHolds(alternative, forced)
    BY DEF SolveInv
  <2>2. \A r, must : ReceiptHolds(r, must) => ReceiptHolds(r, must)'
    BY <1>2, ReceiptsRest
  <2> QED
    BY <1>2, <2>1, <2>2 DEF ReceiptHolds
<1> QED
  BY <1>2, <1>7, <1>11, <1>12 DEF SolveInv, Solving

\* A receipt with an outcome other than OPTIMAL and INFEASIBLE holds nothing.
LEMMA FailuresHold ==
  ASSUME NEW status \in Statuses \ {"MODEL_INVALID", "OPTIMAL"}, NEW must,
         status = "INFEASIBLE" => Selections(must) = {}
  PROVE  ReceiptHolds(Failure(status), must)
BY DEF ReceiptHolds, Failure, Honest

\* A solve that ends with a receipt that holds is done.
LEMMA FinishKeeps ==
  ASSUME SolveInv, Solving, NEW r, ReceiptHolds(r, forced), Finish(r)
  PROVE  SolveInv'
<1>1. UNCHANGED <<problem, eligible, forced>> /\ fixed' = <<>>
  BY DEF Finish
<1>2. OfAProblem'
  BY <1>1, FiguresRest DEF SolveInv
<1>3. PhasesFollow'
  <2>1. <<>> \in Seq(Int) /\ Len(<<>>) = 0 /\ 0 <= 3 /\ 1..0 = {}
    OBVIOUS
  <2> QED
    BY <1>1, <2>1 DEF PhasesFollow
<1>4. \A q, must : ReceiptHolds(q, must) => ReceiptHolds(q, must)'
  BY <1>1, ReceiptsRest
<1>5. CASE stage = "SOLVE"
  <2>1. receipt' = r /\ stage' = "RECOMMENDED" /\ UNCHANGED alternative
    BY <1>5 DEF Finish
  <2>2. /\ forced = {} /\ alternative = NoReceipt
        /\ ReceiptHolds(r, {}) /\ ReceiptHolds(NoReceipt, {})
    BY <1>5 DEF SolveInv
  <2>3. ReceiptHolds(r, {})' /\ ReceiptHolds(NoReceipt, {})'
    BY <1>4, <2>2
  <2>4. ReceiptHolds(receipt, {})' /\ ReceiptHolds(alternative, forced)'
    BY <1>1, <2>1, <2>2, <2>3 DEF ReceiptHolds
  <2>5. ~Solving'
    BY <2>1 DEF Solving
  <2> QED
    BY <1>1, <1>2, <1>3, <2>1, <2>2, <2>4, <2>5 DEF SolveInv
<1>6. CASE stage = "COUNTERFACTUAL"
  <2>1. alternative' = r /\ stage' = "DONE" /\ UNCHANGED receipt
    BY <1>6 DEF Finish
  <2>2. PICK q, f : q = receipt /\ f = forced
    OBVIOUS
  <2>3. ReceiptHolds(r, f) /\ ReceiptHolds(q, {})
    BY <2>2 DEF SolveInv
  <2>4. ReceiptHolds(r, f)' /\ ReceiptHolds(q, {})'
    BY <1>4, <2>3
  <2>5. ReceiptHolds(receipt, {})' /\ ReceiptHolds(alternative, forced)'
    BY <1>1, <2>1, <2>2, <2>4 DEF ReceiptHolds
  <2>6. ~Solving' /\ stage' \notin {"SOLVE", "RECOMMENDED"}
    BY <2>1 DEF Solving
  <2> QED
    BY <1>1, <1>2, <1>3, <2>1, <2>5, <2>6 DEF SolveInv
<1> QED
  BY <1>5, <1>6 DEF Solving

\* Without phases behind it, a solve that has nothing left had no selection.
LEMMA NothingRemains ==
  ASSUME OfAProblem, PhasesFollow, Remaining = {}
  PROVE  Selections(forced) = {}
<1>1. fixed = <<>> /\ Len(fixed) = 0
  BY DEF PhasesFollow
<1>2. \A S : Agrees(S, Len(fixed))
  BY <1>1 DEF Agrees
<1> QED
  BY <1>2, RemainingAgrees

\* The selection of the last phase is one the oracle finds best.
LEMMA LastPhaseIsOracleBest ==
  ASSUME OfAProblem, PhasesFollow, Len(fixed) = 3, NEW S \in Best
  PROVE  /\ Verified(S, forced) /\ SubSeq(Objectives(S), 1, 3) = fixed
         /\ S \in OracleBest(forced)
<1>1. S \in Remaining /\ \A T \in Remaining : Objectives(T)[4] <= Objectives(S)[4]
  <2>1. Len(fixed) + 1 = 4
    OBVIOUS
  <2> QED
    BY <2>1, BestIsOptimal
<1>2. S \in Selections(forced) /\ S \in SUBSET eligible
  BY <1>1 DEF Remaining, Selections
<1>3. Selections(forced) = OracleSelections(forced)
  BY <1>2, SelectionsAreVerified
<1>4. Agrees(S, 3)
  BY <1>1, <1>2, RemainingAgrees
<1>5. ASSUME NEW T \in Selections(forced) PROVE ~LexLess(Objectives(S), Objectives(T))
  <2> SUFFICES ASSUME NEW i \in 1..4, Objectives(S)[i] < Objectives(T)[i],
                      \A j \in 1..(i - 1) : Objectives(S)[j] = Objectives(T)[j]
               PROVE  FALSE
    BY <1>2, ObjectivesAreInts DEF LexLess
  <2>1. Objectives(S)[i] \in Int /\ Objectives(T)[i] \in Int
    <3>1. T \in SUBSET eligible
      BY DEF Selections
    <3> QED
      BY <1>2, <3>1, ObjectivesAreInts
  <2>2. Agrees(T, i - 1)
    <3>1. \A j \in 1..(i - 1) : j \in 1..3
      OBVIOUS
    <3> QED
      BY <1>4, <3>1 DEF Agrees
  <2>3. CASE i \in 1..3
    <3>1. Objectives(T)[i] <= fixed[i]
      BY <2>2, <2>3 DEF PhasesFollow
    <3>2. Objectives(S)[i] = fixed[i]
      BY <1>4, <2>3 DEF Agrees
    <3> QED
      BY <2>1, <3>1, <3>2
  <2>4. CASE i = 4
    <3>1. Agrees(T, Len(fixed))
      BY <2>2, <2>4
    <3>2. T \in Remaining
      BY <3>1, RemainingAgrees
    <3> QED
      BY <1>1, <2>1, <2>4, <3>2
  <2> QED
    BY <2>3, <2>4
<1>6. S \in OracleBest(forced)
  BY <1>2, <1>3, <1>5 DEF OracleBest
<1>7. Verified(S, forced) /\ SubSeq(Objectives(S), 1, 3) = fixed
  BY <1>1, <1>2, <1>3 DEF OracleSelections, Remaining
<1> QED
  BY <1>6, <1>7

\* The last phase ends on a receipt the oracle agrees with.
LEMMA TieBreakKeeps ==
  ASSUME SolveInv, TieBreak
  PROVE  SolveInv'
<1>1. Solving /\ Len(fixed) = 3 /\ OfAProblem /\ PhasesFollow
  BY DEF TieBreak, SolveInv
<1> DEFINE values(S) == SubSeq(Objectives(S), 1, 3)
           optimal(S) == [status |-> "OPTIMAL", assignments |-> S, objectives |-> values(S)]
<1>2. PICK S \in Best : Finish(IF Verified(S, forced) /\ values(S) = fixed
                               THEN optimal(S) ELSE Failure("MODEL_INVALID"))
  BY DEF TieBreak
<1>3. Verified(S, forced) /\ values(S) = fixed /\ S \in OracleBest(forced)
  BY <1>1, LastPhaseIsOracleBest
<1>4. ReceiptHolds(optimal(S), forced)
  <2>1. S \in SUBSET eligible
    BY <1>3 DEF Verified
  <2>2. values(S) \in Nat \X Nat \X Int
    <3>1. ASSUME NEW a \in Nat, NEW b \in Nat, NEW c \in Int, NEW d \in Int
          PROVE  SubSeq(<<a, b, c, d>>, 1, 3) \in Nat \X Nat \X Int
      <4>1. \A i \in 1..3 : <<a, b, c, d>>[i] \in Int
        OBVIOUS
      <4>2. /\ Len(SubSeq(<<a, b, c, d>>, 1, 3)) = 3
            /\ SubSeq(<<a, b, c, d>>, 1, 3) \in Seq(Int)
            /\ \A i \in 1..3 : SubSeq(<<a, b, c, d>>, 1, 3)[i] = <<a, b, c, d>>[i]
        BY <4>1, SubSeqProperties
      <4>3. <<a, b, c>> \in Seq(Int) /\ Len(<<a, b, c>>) = 3
            /\ \A i \in 1..3 : <<a, b, c, d>>[i] = <<a, b, c>>[i]
        OBVIOUS
      <4>4. SubSeq(<<a, b, c, d>>, 1, 3) = <<a, b, c>>
        BY <4>2, <4>3, SeqEqual
      <4> QED
        BY <4>4
    <3>2. /\ PriorityTotal(S) \in Nat /\ MatchTotal(S) \in Nat
          /\ 0 - Peak(S) \in Int /\ 0 - TieCost(S) \in Int
      BY <1>1, <2>1, ObjectivesAreInts
    <3> QED
      BY <3>1, <3>2 DEF Objectives
  <2> HIDE DEF values
  <2> QED
    BY <1>3, <2>1, <2>2 DEF ReceiptHolds, Statuses, Honest
<1>5. Finish(optimal(S))
  BY <1>2, <1>3
<1> QED
  BY <1>1, <1>4, <1>5, FinishKeeps

\* What is forced is one of the eligible pairs.
LEMMA CounterfactualKeeps ==
  ASSUME SolveInv, Counterfactual
  PROVE  SolveInv'
<1>1. PICK p \in eligible : forced' = {p}
  BY DEF Counterfactual, RunnersUp, Rejected
<1>2. /\ UNCHANGED <<problem, eligible, fixed, receipt, alternative>>
      /\ stage = "RECOMMENDED" /\ stage' = "COUNTERFACTUAL"
  BY DEF Counterfactual
<1>3. OfAProblem' /\ fixed = <<>> /\ alternative = NoReceipt
  BY <1>2, FiguresRest DEF SolveInv, Solving
<1>4. PhasesFollow'
  <2>1. <<>> \in Seq(Int) /\ Len(<<>>) = 0 /\ 0 <= 3 /\ 1..0 = {}
    OBVIOUS
  <2> QED
    BY <1>2, <1>3, <2>1 DEF PhasesFollow
<1>5. ReceiptHolds(receipt, {})' /\ ReceiptHolds(alternative, forced)'
  <2>1. ReceiptHolds(receipt, {})
    BY DEF SolveInv
  <2>2. ReceiptHolds(receipt, {})'
    BY <1>2, <2>1, ReceiptsRest DEF ReceiptHolds
  <2>3. ReceiptHolds(alternative, forced)'
    BY <1>2, <1>3 DEF ReceiptHolds, NoReceipt, Statuses, Honest
  <2> QED
    BY <2>2, <2>3
<1>6. Cardinality(forced') <= 1
  BY <1>1, FS_Singleton
<1> QED
  BY <1>1, <1>2, <1>3, <1>4, <1>5, <1>6 DEF SolveInv, Solving

\* The invariant holds at first, and every step keeps it.
LEMMA SolveInvInit == SolveInit => SolveInv
<1> SUFFICES ASSUME SolveInit
             PROVE  SolveInv
  OBVIOUS
<1>1. OfAProblem
  BY ProblemsAssumption DEF SolveInit, OfAProblem, EligiblePairs
<1>2. PhasesFollow
  <2>1. <<>> \in Seq(Int) /\ Len(<<>>) = 0 /\ 0 <= 3 /\ 1..0 = {}
    OBVIOUS
  <2> QED
    BY <2>1 DEF SolveInit, PhasesFollow
<1>3. \A must : ReceiptHolds(NoReceipt, must)
  BY DEF ReceiptHolds, NoReceipt, Statuses, Honest
<1>4. ReceiptHolds(receipt, {}) /\ ReceiptHolds(alternative, forced)
  BY <1>3 DEF SolveInit
<1>5. Cardinality({}) <= 1
  BY FS_EmptySet
<1> QED
  BY <1>1, <1>2, <1>4, <1>5 DEF SolveInit, SolveInv

LEMMA SolveInvStep == SolveInv /\ [SolveNext]_solveVars => SolveInv'
<1> SUFFICES ASSUME SolveInv, [SolveNext]_solveVars
             PROVE  SolveInv'
  OBVIOUS
<1>1. ASSUME NothingToSolve PROVE SolveInv'
  <2>1. ReceiptHolds(Failure("NO_FEASIBLE_ASSIGNMENT"), forced)
    BY FailuresHold DEF Statuses
  <2> QED
    BY <1>1, <2>1, FinishKeeps DEF NothingToSolve
<1>2. ASSUME SolvePhase PROVE SolveInv'
  BY <1>2, PhaseKeeps
<1>3. ASSUME Infeasible PROVE SolveInv'
  <2>1. Selections(forced) = {}
    BY <1>3, NothingRemains DEF Infeasible, SolveInv
  <2>2. ReceiptHolds(Failure("INFEASIBLE"), forced)
    BY <2>1, FailuresHold DEF Statuses
  <2> QED
    BY <1>3, <2>2, FinishKeeps DEF Infeasible
<1>4. ASSUME NEW status \in {"FEASIBLE", "UNKNOWN"}, TimeLimit(status) PROVE SolveInv'
  <2>1. ReceiptHolds(Failure(status), forced)
    BY FailuresHold DEF Statuses
  <2> QED
    BY <1>4, <2>1, FinishKeeps DEF TimeLimit
<1>5. ASSUME TieBreak PROVE SolveInv'
  BY <1>5, TieBreakKeeps
<1>6. ASSUME Counterfactual PROVE SolveInv'
  BY <1>6, CounterfactualKeeps
<1>7. ASSUME UNCHANGED solveVars PROVE SolveInv'
  <2>1. UNCHANGED <<problem, eligible, forced, fixed, receipt, alternative, stage>>
    BY <1>7 DEF solveVars
  <2>2. /\ OfAProblem' = OfAProblem
        /\ \A S : Objectives(S)' = Objectives(S)
        /\ \A must : /\ Selections(must)' = Selections(must)
                     /\ OracleBest(must)' = OracleBest(must)
    BY <2>1, FiguresRest
  <2>3. Remaining' = Remaining /\ \A S, i : Agrees(S, i)' = Agrees(S, i)
    BY <2>1, <2>2 DEF Remaining, Agrees
  <2>4. PhasesFollow'
    BY <2>1, <2>2, <2>3 DEF SolveInv, PhasesFollow
  <2>5. ReceiptHolds(receipt, {})' /\ ReceiptHolds(alternative, forced)'
    BY <2>1, <2>2 DEF SolveInv, ReceiptHolds, Honest
  <2> QED
    BY <2>1, <2>2, <2>4, <2>5 DEF SolveInv, Solving
<1> QED
  BY <1>1, <1>2, <1>3, <1>4, <1>5, <1>6, <1>7 DEF SolveNext

LEMMA SolveInvHolds == SolveSpec => []SolveInv
BY SolveInvInit, SolveInvStep, PTL DEF SolveSpec

(***************************************************************************)
(* Whatever the deals, the consultants, their hours and what CP-SAT        *)
(* returns among its optima: the four solves of optimizer.solve_portfolio  *)
(* end on a selection brute_force_oracle finds best, for the               *)
(* recommendation and for the counterfactual of a forced pair, and         *)
(* _verify_constraints has nothing to object to.                           *)
(***************************************************************************)
THEOREM SolverStaysWithOracle == SolveSpec => []SolverAgreesWithOracle
<1>1. SolveInv => SolverAgreesWithOracle
  <2> SUFFICES ASSUME SolveInv
               PROVE  SolverAgreesWithOracle
    OBVIOUS
  <2>1. ReceiptHolds(receipt, {}) /\ ReceiptHolds(alternative, forced)
    BY DEF SolveInv
  <2>2. \A r \in Receipts : r.status \in Statuses \ {"MODEL_INVALID"} /\ Honest(r)
    BY <2>1 DEF ReceiptHolds, Receipts
  <2>3. forced \subseteq DealPairs
    BY PairsAreFinite DEF SolveInv
  <2>4. SolveTypeOK
    BY <2>2, <2>3 DEF SolveInv, OfAProblem, PhasesFollow, SolveTypeOK
  <2>5. OptimalMeansOracleBest
    BY <2>1 DEF ReceiptHolds, OptimalMeansOracleBest
  <2>6. VerifierNeverObjects
    BY <2>2 DEF VerifierNeverObjects
  <2> QED
    BY <2>4, <2>5, <2>6 DEF SolverAgreesWithOracle
<1> QED
  BY <1>1, SolveInvHolds, PTL

(***************************************************************************)
(* Where every candidate's weeks are complete and within the ceiling       *)
(* before anything is assigned, an INFEASIBLE receipt of                   *)
(* optimizer.solve_portfolio is one whose problem brute_force_oracle finds *)
(* nothing for either.                                                     *)
(***************************************************************************)
THEOREM InfeasibleStaysGenuine == SolveSpec => []InfeasibleMeansNoSelectionWhenOpen
<1>1. SolveInv => InfeasibleMeansNoSelectionWhenOpen
  <2> SUFFICES ASSUME SolveInv, CandidatesAreOpen
               PROVE  InfeasibleMeansNoSelection
    BY DEF InfeasibleMeansNoSelectionWhenOpen
  <2>1. OfAProblem /\ CandidatesFit
    BY DEF SolveInv, CandidatesAreOpen, CandidatesFit
  <2>2. \A must : Selections(must) = OracleSelections(must)
    BY <2>1, ModelIsVerifier
  <2>3. ReceiptHolds(receipt, {}) /\ ReceiptHolds(alternative, forced)
    BY DEF SolveInv
  <2> QED
    BY <2>2, <2>3 DEF ReceiptHolds, InfeasibleMeansNoSelection
<1> QED
  BY <1>1, SolveInvHolds, PTL

==============================================================================
