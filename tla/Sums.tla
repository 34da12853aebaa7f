-------------------------------- MODULE Sums --------------------------------
(***************************************************************************)
(* Facts about the sums of the community modules, for the modules whose    *)
(* properties add up rows: what a wallet holds for its bids, what the      *)
(* receipts of an invoice come to, what a customer owes on all invoices.   *)
(*                                                                         *)
(* SumFunction is a fold, and folds are defined by recursion over sets. It *)
(* is shown once that the recursion has a solution (SumExists) and that    *)
(* taking out any element gives the same sum (SumAny); the rest follows by *)
(* induction on the size of a set, with a set for the predicate.           *)
(***************************************************************************)
EXTENDS Integers, FiniteSets, Functions, FiniteSetTheorems, WellFoundedInduction, TLAPS

-----------------------------------------------------------------------------
(* Induction                                                               *)

\* The order of the natural numbers, as the theorem on minimal elements takes it.
LEMMA NatOrder == IsWellFoundedOn({ss \in Nat \X Nat : ss[1] < ss[2]}, Nat)
BY NatLessThanWellFounded DEF OpToRel

\* A set of natural numbers that is not empty has a least element.
LEMMA LeastElement ==
    ASSUME NEW T, T \subseteq Nat, T # {}
    PROVE  \E n \in T : \A m \in T : n <= m
<1> DEFINE R == {ss \in Nat \X Nat : ss[1] < ss[2]}
<1>0. IsWellFoundedOn(R, Nat)
  BY NatOrder
<1>1. PICK n \in T : \A m \in T : ~(<<m, n>> \in R)
  <2> HIDE DEF R
  <2> QED BY <1>0, WFMin
<1>2. \A m \in T : ~(m < n)
  BY <1>1
<1> QED BY <1>2

\* Induction over the natural numbers, with a set for the predicate.
LEMMA NatSetInduction ==
    ASSUME NEW T, 0 \in T, \A n \in Nat : n \in T => n + 1 \in T
    PROVE  Nat \subseteq T
<1> SUFFICES ASSUME Nat \ T # {} PROVE FALSE
  OBVIOUS
<1>1. PICK n \in Nat \ T : \A m \in Nat \ T : n <= m
  BY LeastElement
<1>2. n - 1 \in Nat /\ n - 1 \notin Nat \ T
  BY <1>1
<1> QED BY <1>1, <1>2

-----------------------------------------------------------------------------
(* The recursion of a sum has a solution                                   *)

\* The element a fold takes first, the recursion it follows, and the subsets of
\* at most n elements.
Any(R) == CHOOSE y \in R : TRUE
Adds(g, D, f) == g = [R \in D |-> IF R = {} THEN 0 ELSE f[Any(R)] + g[R \ {Any(R)}]]
Upto(S, n) == {R \in SUBSET S : Cardinality(R) <= n}

LEMMA AnyIn == \A R : R # {} => Any(R) \in R
BY DEF Any

\* The recursive definition behind SumFunctionOnSet has a solution on the subsets of
\* a finite set: one of the subsets of n elements, for each n.
LEMMA SumExists ==
    ASSUME NEW f, NEW S, IsFiniteSet(S)
    PROVE  \E g : Adds(g, SUBSET S, f)
<1> DEFINE T == {n \in Nat : \E g : Adds(g, Upto(S, n), f)}
<1>0. \A R \in SUBSET S : /\ IsFiniteSet(R) /\ Cardinality(R) \in Nat
                          /\ Cardinality(R) <= Cardinality(S)
                          /\ \A x \in R : /\ R \ {x} \in SUBSET S
                                          /\ Cardinality(R \ {x}) = Cardinality(R) - 1
                          /\ Cardinality(R) = 0 <=> R = {}
  BY FS_Subset, FS_CardinalityType, FS_RemoveElement, FS_EmptySet
<1>1. 0 \in T
  <2> DEFINE g == [R \in Upto(S, 0) |-> 0]
  <2>1. Upto(S, 0) = {{}}
    BY <1>0 DEF Upto
  <2>2. Adds(g, Upto(S, 0), f)
    BY <2>1 DEF Adds
  <2> QED BY <2>2
<1>2. ASSUME NEW n \in Nat, n \in T PROVE n + 1 \in T
  <2>1. PICK g : Adds(g, Upto(S, n), f)
    BY <1>2
  <2> DEFINE h == [R \in Upto(S, n + 1) |->
                      IF R = {} THEN 0 ELSE f[Any(R)] + g[R \ {Any(R)}]]
  <2>2. ASSUME NEW R \in Upto(S, n + 1), R # {}
        PROVE  h[R \ {Any(R)}] = g[R \ {Any(R)}]
    <3> DEFINE Q == R \ {Any(R)}
    <3>1. Q \in Upto(S, n) /\ Q \in Upto(S, n + 1)
      BY <1>0, <2>2, AnyIn DEF Upto
    <3>2. g[Q] = IF Q = {} THEN 0 ELSE f[Any(Q)] + g[Q \ {Any(Q)}]
      <4> HIDE DEF Q
      <4> QED BY <2>1, <3>1 DEF Adds
    <3>3. h[Q] = IF Q = {} THEN 0 ELSE f[Any(Q)] + g[Q \ {Any(Q)}]
      <4> HIDE DEF Q
      <4> QED BY <3>1
    <3> QED BY <3>2, <3>3
  <2>3. h = [R \in Upto(S, n + 1) |-> IF R = {} THEN 0 ELSE f[Any(R)] + h[R \ {Any(R)}]]
    <3> DEFINE k == [R \in Upto(S, n + 1) |-> IF R = {} THEN 0 ELSE f[Any(R)] + h[R \ {Any(R)}]]
    <3>1. \A R \in Upto(S, n + 1) : h[R] = k[R]
      <4> TAKE R \in Upto(S, n + 1)
      <4>1. h[R] = IF R = {} THEN 0 ELSE f[Any(R)] + g[R \ {Any(R)}]
        OBVIOUS
      <4>2. k[R] = IF R = {} THEN 0 ELSE f[Any(R)] + h[R \ {Any(R)}]
        <5> HIDE DEF h
        <5> QED OBVIOUS
      <4> HIDE DEF h, k
      <4> QED BY <2>2, <4>1, <4>2
    <3>2. DOMAIN h = DOMAIN k /\ h = [R \in Upto(S, n + 1) |-> h[R]] /\ k = [R \in Upto(S, n + 1) |-> k[R]]
      OBVIOUS
    <3> QED BY <3>1, <3>2, Zenon
  <2>4. Adds(h, Upto(S, n + 1), f)
    <3> HIDE DEF h
    <3> QED BY <2>3 DEF Adds
  <2> QED BY <2>4
<1>3. Cardinality(S) \in T
  <2> HIDE DEF T
  <2> QED BY <1>0, <1>1, <1>2, NatSetInduction
<1>4. Upto(S, Cardinality(S)) = SUBSET S
  BY <1>0 DEF Upto
<1> QED BY <1>3, <1>4

\* SumFunctionOnSet is that solution.
LEMMA SumIsChosen ==
    ASSUME NEW f, NEW S
    PROVE  SumFunctionOnSet(f, S) = (CHOOSE g : Adds(g, SUBSET S, f))[S]
BY Zenon DEF SumFunctionOnSet, FoldFunctionOnSet, MapThenFoldSet, Adds, Any

LEMMA SumChosen ==
    ASSUME NEW f, NEW S, IsFiniteSet(S)
    PROVE  Adds(CHOOSE g : Adds(g, SUBSET S, f), SUBSET S, f)
BY SumExists, Zenon

\* Two solutions agree on the smaller of their sets.
LEMMA SumAgrees ==
    ASSUME NEW f, NEW S, NEW Q, NEW g, NEW h, IsFiniteSet(S), Q \subseteq S,
           Adds(g, SUBSET S, f), Adds(h, SUBSET Q, f)
    PROVE  g[Q] = h[Q]
<1> DEFINE T == {n \in Nat : \A R \in SUBSET Q : Cardinality(R) = n => g[R] = h[R]}
<1>0. \A R \in SUBSET Q : /\ IsFiniteSet(R) /\ Cardinality(R) \in Nat
                          /\ \A x \in R : /\ R \ {x} \in SUBSET Q
                                          /\ Cardinality(R \ {x}) = Cardinality(R) - 1
                          /\ Cardinality(R) = 0 <=> R = {}
  BY FS_Subset, FS_CardinalityType, FS_RemoveElement, FS_EmptySet
<1>1. \A R \in SUBSET Q :
          /\ g[R] = IF R = {} THEN 0 ELSE f[Any(R)] + g[R \ {Any(R)}]
          /\ h[R] = IF R = {} THEN 0 ELSE f[Any(R)] + h[R \ {Any(R)}]
  <2> TAKE R \in SUBSET Q
  <2>1. R \in SUBSET S
    OBVIOUS
  <2>2. g[R] = IF R = {} THEN 0 ELSE f[Any(R)] + g[R \ {Any(R)}]
    BY <2>1 DEF Adds
  <2>3. h[R] = IF R = {} THEN 0 ELSE f[Any(R)] + h[R \ {Any(R)}]
    BY DEF Adds
  <2> QED BY <2>2, <2>3
<1>2. 0 \in T
  BY <1>0, <1>1
<1>3. ASSUME NEW n \in Nat, n \in T PROVE n + 1 \in T
  <2>1. SUFFICES ASSUME NEW R \in SUBSET Q, Cardinality(R) = n + 1 PROVE g[R] = h[R]
    OBVIOUS
  <2>2. R # {}
    BY <1>0, <2>1
  <2>3. R \ {Any(R)} \in SUBSET Q /\ Cardinality(R \ {Any(R)}) = n
    BY <1>0, <2>1, <2>2, AnyIn
  <2>4. g[R \ {Any(R)}] = h[R \ {Any(R)}]
    BY <1>3, <2>3
  <2> QED BY <1>1, <2>2, <2>4
<1>4. Nat \subseteq T
  <2> HIDE DEF T
  <2> QED BY <1>2, <1>3, NatSetInduction
<1>5. Q \in SUBSET Q
  OBVIOUS
<1> QED BY <1>0, <1>4, <1>5

-----------------------------------------------------------------------------
(* Sums                                                                    *)

\* Nothing adds up to 0.
LEMMA SumEmpty ==
    ASSUME NEW f
    PROVE  SumFunctionOnSet(f, {}) = 0
<1>1. Adds(CHOOSE g : Adds(g, SUBSET {}, f), SUBSET {}, f)
  BY SumChosen, FS_EmptySet
<1>2. (CHOOSE g : Adds(g, SUBSET {}, f))[{}] = 0
  BY <1>1 DEF Adds
<1> QED BY <1>2, SumIsChosen

\* A sum is one of its terms, the one the definition takes first, and the others.
LEMMA SumPick ==
    ASSUME NEW f, NEW S, IsFiniteSet(S), S # {}
    PROVE  SumFunctionOnSet(f, S) = f[Any(S)] + SumFunctionOnSet(f, S \ {Any(S)})
<1> DEFINE Q == S \ {Any(S)}
           g == CHOOSE k : Adds(k, SUBSET S, f)
           h == CHOOSE k : Adds(k, SUBSET Q, f)
<1>1. Q \in SUBSET S /\ IsFiniteSet(Q)
  BY FS_Subset
<1>2. Adds(g, SUBSET S, f)
  BY SumChosen
<1>3. Adds(h, SUBSET Q, f)
  <2> HIDE DEF Q
  <2> QED BY <1>1, SumChosen
<1>4. g[Q] = h[Q]
  <2> HIDE DEF Q, g, h
  <2>1. Q \subseteq S
    BY <1>1
  <2> QED BY <1>2, <1>3, <2>1, SumAgrees
<1>5. g[S] = f[Any(S)] + g[Q]
  <2> HIDE DEF g
  <2> QED BY <1>2 DEF Adds
<1>6. SumFunctionOnSet(f, S) = g[S] /\ SumFunctionOnSet(f, Q) = h[Q]
  BY SumIsChosen
<1> HIDE DEF g, h
<1> QED BY <1>4, <1>5, <1>6

\* What holds of a set when it holds of the set without one of its elements, holds
\* of every subset of a finite set.
LEMMA SizeInduction ==
    ASSUME NEW D, IsFiniteSet(D), NEW T, {} \in T,
           \A R \in SUBSET D : (R # {} /\ \A x \in R : R \ {x} \in T) => R \in T
    PROVE  SUBSET D \subseteq T
<1> DEFINE N == {n \in Nat : \A R \in SUBSET D : Cardinality(R) = n => R \in T}
<1>0. \A R \in SUBSET D : /\ IsFiniteSet(R) /\ Cardinality(R) \in Nat
                          /\ \A x \in R : /\ R \ {x} \in SUBSET D
                                          /\ Cardinality(R \ {x}) = Cardinality(R) - 1
                          /\ Cardinality(R) = 0 <=> R = {}
  BY FS_Subset, FS_CardinalityType, FS_RemoveElement, FS_EmptySet
<1>1. 0 \in N
  BY <1>0
<1>2. ASSUME NEW n \in Nat, n \in N PROVE n + 1 \in N
  <2>1. SUFFICES ASSUME NEW R \in SUBSET D, Cardinality(R) = n + 1 PROVE R \in T
    OBVIOUS
  <2>2. R # {}
    BY <1>0, <2>1
  <2>3. \A x \in R : R \ {x} \in SUBSET D /\ Cardinality(R \ {x}) = n
    BY <1>0, <2>1
  <2>4. \A x \in R : R \ {x} \in T
    BY <1>2, <2>3
  <2> QED BY <2>2, <2>4
<1>3. Nat \subseteq N
  <2> HIDE DEF N
  <2> QED BY <1>1, <1>2, NatSetInduction
<1> QED BY <1>0, <1>3

\* A sum of integers is an integer.
LEMMA SumInt ==
    ASSUME NEW f, NEW S, IsFiniteSet(S), \A x \in S : f[x] \in Int
    PROVE  SumFunctionOnSet(f, S) \in Int
<1> DEFINE T == {R \in SUBSET S : SumFunctionOnSet(f, R) \in Int}
<1>1. {} \in T
  BY SumEmpty
<1>2. \A R \in SUBSET S : (R # {} /\ \A x \in R : R \ {x} \in T) => R \in T
  <2> SUFFICES ASSUME NEW R \in SUBSET S, R # {}, \A x \in R : R \ {x} \in T PROVE R \in T
    OBVIOUS
  <2>1. IsFiniteSet(R)
    BY FS_Subset
  <2>2. SumFunctionOnSet(f, R) = f[Any(R)] + SumFunctionOnSet(f, R \ {Any(R)})
    BY <2>1, SumPick
  <2>3. Any(R) \in R
    BY AnyIn
  <2> QED BY <2>2, <2>3
<1>3. SUBSET S \subseteq T
  <2> HIDE DEF T
  <2> QED BY <1>1, <1>2, SizeInduction
<1> QED BY <1>3

\* A sum is any of its terms and the others.
LEMMA SumAny ==
    ASSUME NEW f, NEW S, IsFiniteSet(S), \A x \in S : f[x] \in Int
    PROVE  \A x \in S : SumFunctionOnSet(f, S) = f[x] + SumFunctionOnSet(f, S \ {x})
<1> DEFINE T == {R \in SUBSET S : \A x \in R :
                    SumFunctionOnSet(f, R) = f[x] + SumFunctionOnSet(f, R \ {x})}
<1>1. {} \in T
  OBVIOUS
<1>2. \A R \in SUBSET S : (R # {} /\ \A x \in R : R \ {x} \in T) => R \in T
  <2> SUFFICES ASSUME NEW R \in SUBSET S, R # {}, \A x \in R : R \ {x} \in T, NEW x \in R
               PROVE  SumFunctionOnSet(f, R) = f[x] + SumFunctionOnSet(f, R \ {x})
    OBVIOUS
  <2> DEFINE p == Any(R)
  <2>1. IsFiniteSet(R) /\ p \in R
    BY FS_Subset, AnyIn
  <2>2. SumFunctionOnSet(f, R) = f[p] + SumFunctionOnSet(f, R \ {p})
    BY <2>1, SumPick
  <2>3. CASE x = p
    BY <2>2, <2>3
  <2>4. CASE x # p
    <3> DEFINE Q == (R \ {p}) \ {x}
    <3>1. (R \ {x}) \ {p} = Q
      OBVIOUS
    <3>2. R \ {p} \in T /\ x \in R \ {p} /\ R \ {x} \in T /\ p \in R \ {x}
      BY <2>1, <2>4
    <3>3. SumFunctionOnSet(f, R \ {p}) = f[x] + SumFunctionOnSet(f, Q)
      BY <3>2
    <3>4. SumFunctionOnSet(f, R \ {x}) = f[p] + SumFunctionOnSet(f, Q)
      BY <3>1, <3>2
    <3>5. SumFunctionOnSet(f, Q) \in Int /\ f[x] \in Int /\ f[p] \in Int
      <4>1. IsFiniteSet(Q) /\ Q \subseteq S
        BY FS_Subset
      <4>2. SumFunctionOnSet(f, Q) \in Int
        <5> HIDE DEF Q
        <5> QED BY <4>1, SumInt
      <4> QED BY <2>1, <4>2
    <3> HIDE DEF p, Q
    <3> QED BY <2>2, <3>3, <3>4, <3>5
  <2> QED BY <2>3, <2>4
<1>3. SUBSET S \subseteq T
  <2> HIDE DEF T
  <2> QED BY <1>1, <1>2, SizeInduction
<1> QED BY <1>3

\* Equal terms, equal sums.
LEMMA SumSame ==
    ASSUME NEW f, NEW g, NEW S, IsFiniteSet(S),
           \A x \in S : f[x] \in Int /\ g[x] = f[x]
    PROVE  SumFunctionOnSet(g, S) = SumFunctionOnSet(f, S)
<1> DEFINE T == {R \in SUBSET S : SumFunctionOnSet(g, R) = SumFunctionOnSet(f, R)}
<1>1. {} \in T
  BY SumEmpty
<1>2. \A R \in SUBSET S : (R # {} /\ \A x \in R : R \ {x} \in T) => R \in T
  <2> SUFFICES ASSUME NEW R \in SUBSET S, R # {}, \A x \in R : R \ {x} \in T PROVE R \in T
    OBVIOUS
  <2>1. IsFiniteSet(R) /\ Any(R) \in R
    BY FS_Subset, AnyIn
  <2>2. SumFunctionOnSet(f, R) = f[Any(R)] + SumFunctionOnSet(f, R \ {Any(R)})
    BY <2>1, SumPick
  <2>3. SumFunctionOnSet(g, R) = g[Any(R)] + SumFunctionOnSet(g, R \ {Any(R)})
    BY <2>1, SumPick
  <2> QED BY <2>1, <2>2, <2>3
<1>3. SUBSET S \subseteq T
  <2> HIDE DEF T
  <2> QED BY <1>1, <1>2, SizeInduction
<1> QED BY <1>3

\* The sum of two functions is the sum of their sums.
LEMMA SumPlus ==
    ASSUME NEW f, NEW g, NEW h, NEW S, IsFiniteSet(S),
           \A x \in S : f[x] \in Int /\ g[x] \in Int /\ h[x] = f[x] + g[x]
    PROVE  SumFunctionOnSet(h, S) = SumFunctionOnSet(f, S) + SumFunctionOnSet(g, S)
<1> DEFINE T == {R \in SUBSET S :
                   SumFunctionOnSet(h, R) = SumFunctionOnSet(f, R) + SumFunctionOnSet(g, R)}
<1>1. {} \in T
  BY SumEmpty
<1>2. \A R \in SUBSET S : (R # {} /\ \A x \in R : R \ {x} \in T) => R \in T
  <2> SUFFICES ASSUME NEW R \in SUBSET S, R # {}, \A x \in R : R \ {x} \in T PROVE R \in T
    OBVIOUS
  <2> DEFINE p == Any(R)
             Q == R \ {p}
  <2>1. IsFiniteSet(R) /\ p \in R /\ IsFiniteSet(Q) /\ Q \subseteq S
    BY FS_Subset, AnyIn
  <2>2. /\ SumFunctionOnSet(f, R) = f[p] + SumFunctionOnSet(f, Q)
        /\ SumFunctionOnSet(g, R) = g[p] + SumFunctionOnSet(g, Q)
        /\ SumFunctionOnSet(h, R) = h[p] + SumFunctionOnSet(h, Q)
    BY <2>1, SumPick
  <2>3. SumFunctionOnSet(f, Q) \in Int /\ SumFunctionOnSet(g, Q) \in Int
    <3> HIDE DEF Q
    <3> QED BY <2>1, SumInt
  <2>4. SumFunctionOnSet(h, Q) = SumFunctionOnSet(f, Q) + SumFunctionOnSet(g, Q)
    BY <2>1
  <2>5. f[p] \in Int /\ g[p] \in Int /\ h[p] = f[p] + g[p]
    BY <2>1
  <2>6. SumFunctionOnSet(h, R) = SumFunctionOnSet(f, R) + SumFunctionOnSet(g, R)
    <3> HIDE DEF p, Q
    <3> QED BY <2>2, <2>3, <2>4, <2>5
  <2> QED BY <2>6
<1>3. SUBSET S \subseteq T
  <2> HIDE DEF T
  <2> QED BY <1>1, <1>2, SizeInduction
<1> QED BY <1>3

\* A sum changes by what its terms change at one point.
LEMMA SumChange ==
    ASSUME NEW f, NEW g, NEW S, NEW x, IsFiniteSet(S), x \in S,
           \A y \in S : f[y] \in Int /\ g[y] \in Int,
           \A y \in S \ {x} : g[y] = f[y]
    PROVE  SumFunctionOnSet(g, S) = SumFunctionOnSet(f, S) + g[x] - f[x]
<1>1. IsFiniteSet(S \ {x})
  BY FS_Subset
<1>2. SumFunctionOnSet(f, S) = f[x] + SumFunctionOnSet(f, S \ {x})
  BY SumAny
<1>3. SumFunctionOnSet(g, S) = g[x] + SumFunctionOnSet(g, S \ {x})
  BY SumAny
<1>4. SumFunctionOnSet(g, S \ {x}) = SumFunctionOnSet(f, S \ {x})
  BY <1>1, SumSame
<1>5. SumFunctionOnSet(f, S \ {x}) \in Int
  BY <1>1, SumInt
<1> QED BY <1>2, <1>3, <1>4, <1>5

\* Zeros add up to 0.
LEMMA SumZero ==
    ASSUME NEW f, NEW S, IsFiniteSet(S), \A x \in S : f[x] = 0
    PROVE  SumFunctionOnSet(f, S) = 0
<1> DEFINE T == {R \in SUBSET S : SumFunctionOnSet(f, R) = 0}
<1>1. {} \in T
  BY SumEmpty
<1>2. \A R \in SUBSET S : (R # {} /\ \A x \in R : R \ {x} \in T) => R \in T
  <2> SUFFICES ASSUME NEW R \in SUBSET S, R # {}, \A x \in R : R \ {x} \in T PROVE R \in T
    OBVIOUS
  <2>1. IsFiniteSet(R) /\ Any(R) \in R
    BY FS_Subset, AnyIn
  <2>2. SumFunctionOnSet(f, R) = f[Any(R)] + SumFunctionOnSet(f, R \ {Any(R)})
    BY <2>1, SumPick
  <2> QED BY <2>1, <2>2
<1>3. SUBSET S \subseteq T
  <2> HIDE DEF T
  <2> QED BY <1>1, <1>2, SizeInduction
<1> QED BY <1>3

\* A sum of natural numbers is a natural number, and no less than any of its terms.
LEMMA SumAtLeast ==
    ASSUME NEW f, NEW S, IsFiniteSet(S), \A x \in S : f[x] \in Nat
    PROVE  SumFunctionOnSet(f, S) \in Nat /\ \A x \in S : f[x] <= SumFunctionOnSet(f, S)
<1> DEFINE T == {R \in SUBSET S : SumFunctionOnSet(f, R) \in Nat}
<1>1. {} \in T
  BY SumEmpty
<1>2. \A R \in SUBSET S : (R # {} /\ \A x \in R : R \ {x} \in T) => R \in T
  <2> SUFFICES ASSUME NEW R \in SUBSET S, R # {}, \A x \in R : R \ {x} \in T PROVE R \in T
    OBVIOUS
  <2>1. IsFiniteSet(R) /\ Any(R) \in R
    BY FS_Subset, AnyIn
  <2>2. SumFunctionOnSet(f, R) = f[Any(R)] + SumFunctionOnSet(f, R \ {Any(R)})
    BY <2>1, SumPick
  <2> QED BY <2>1, <2>2
<1>3. SUBSET S \subseteq T
  <2> HIDE DEF T
  <2> QED BY <1>1, <1>2, SizeInduction
<1>4. \A x \in S : SumFunctionOnSet(f, S) = f[x] + SumFunctionOnSet(f, S \ {x})
  BY SumAny
<1>5. SumFunctionOnSet(f, S) \in Nat /\ \A x \in S : SumFunctionOnSet(f, S \ {x}) \in Nat
  BY <1>3
<1>6. ASSUME NEW x \in S PROVE f[x] <= SumFunctionOnSet(f, S)
  <2>1. /\ SumFunctionOnSet(f, S) = f[x] + SumFunctionOnSet(f, S \ {x})
        /\ SumFunctionOnSet(f, S \ {x}) \in Nat /\ f[x] \in Nat
    BY <1>4, <1>5
  <2> QED BY <2>1
<1> QED BY <1>5, <1>6

\* The sum of a function written at one point.
LEMMA SumWrite ==
    ASSUME NEW S, NEW f \in [S -> Int], NEW g \in [S -> Int], NEW x \in S,
           IsFiniteSet(S), g = [f EXCEPT ![x] = g[x]]
    PROVE  SumFunctionOnSet(g, S) = SumFunctionOnSet(f, S) + g[x] - f[x]
<1>1. \A y \in S : f[y] \in Int /\ g[y] \in Int
  OBVIOUS
<1>2. \A y \in S \ {x} : g[y] = f[y]
  OBVIOUS
<1>3. x \in S
  OBVIOUS
<1> QED BY <1>1, <1>2, <1>3, SumChange

\* A finite set of integers that is not empty has a greatest element.
LEMMA FiniteMax ==
    ASSUME NEW S, IsFiniteSet(S), S \subseteq Int, S # {}
    PROVE  \E m \in S : \A y \in S : m >= y
<1> DEFINE T == {R \in SUBSET S : R = {} \/ \E m \in R : \A y \in R : m >= y}
<1>1. {} \in T
  OBVIOUS
<1>2. \A R \in SUBSET S : (R # {} /\ \A x \in R : R \ {x} \in T) => R \in T
  <2> SUFFICES ASSUME NEW R \in SUBSET S, R # {}, \A x \in R : R \ {x} \in T
               PROVE  \E m \in R : \A y \in R : m >= y
    OBVIOUS
  <2>1. PICK x \in R : TRUE
    OBVIOUS
  <2>2. CASE R \ {x} = {}
    BY <2>1, <2>2
  <2>3. ASSUME NEW k \in R \ {x}, \A y \in R \ {x} : k >= y
        PROVE  \E m \in R : \A y \in R : m >= y
    <3>1. CASE x >= k
      BY <2>1, <2>3, <3>1
    <3>2. CASE k >= x
      BY <2>1, <2>3, <3>2
    <3> QED BY <2>1, <2>3, <3>1, <3>2
  <2> QED BY <2>1, <2>2, <2>3
<1>3. SUBSET S \subseteq T
  <2> HIDE DEF T
  <2> QED BY <1>1, <1>2, SizeInduction
<1> QED BY <1>3

\* Zeros outside a set can be left out of a sum.
LEMMA SumWithin ==
    ASSUME NEW D, NEW S \in SUBSET D, NEW g \in [D -> Int],
           IsFiniteSet(D), \A x \in D \ S : g[x] = 0
    PROVE  SumFunctionOnSet(g, D) = SumFunctionOnSet(g, S)
<1> DEFINE T == {R \in SUBSET D : SumFunctionOnSet(g, R) = SumFunctionOnSet(g, R \cap S)}
<1>1. {} \in T
  OBVIOUS
<1>2. \A R \in SUBSET D : (R # {} /\ \A x \in R : R \ {x} \in T) => R \in T
  <2> SUFFICES ASSUME NEW R \in SUBSET D, R # {}, \A x \in R : R \ {x} \in T PROVE R \in T
    OBVIOUS
  <2>1. PICK x \in R : TRUE
    OBVIOUS
  <2>2. IsFiniteSet(R) /\ IsFiniteSet(R \cap S)
    BY FS_Subset
  <2>3. SumFunctionOnSet(g, R) = g[x] + SumFunctionOnSet(g, R \ {x})
    <3>1. \A y \in R : g[y] \in Int
      OBVIOUS
    <3> QED BY <2>1, <2>2, <3>1, SumAny
  <2>4. SumFunctionOnSet(g, R \ {x}) = SumFunctionOnSet(g, (R \ {x}) \cap S)
    BY <2>1
  <2>5. SumFunctionOnSet(g, R \ {x}) \in Int
    <3>1. IsFiniteSet(R \ {x}) /\ \A y \in R \ {x} : g[y] \in Int
      BY FS_Subset
    <3> QED BY <3>1, SumInt
  <2>6. CASE x \in S
    <3>1. (R \cap S) \ {x} = (R \ {x}) \cap S /\ x \in R \cap S /\ \A y \in R \cap S : g[y] \in Int
      BY <2>1, <2>6
    <3>2. SumFunctionOnSet(g, R \cap S) = g[x] + SumFunctionOnSet(g, (R \cap S) \ {x})
      <4> HIDE DEF T
      <4>1. \A y \in R \cap S :
                SumFunctionOnSet(g, R \cap S) = g[y] + SumFunctionOnSet(g, (R \cap S) \ {y})
        BY <2>2, <3>1, SumAny
      <4> QED BY <3>1, <4>1
    <3> QED BY <2>3, <2>4, <3>1, <3>2
  <2>7. CASE x \notin S
    <3>1. R \cap S = (R \ {x}) \cap S /\ g[x] = 0
      BY <2>1, <2>7
    <3> QED BY <2>3, <2>4, <2>5, <3>1
  <2> QED BY <2>6, <2>7
<1>3. SUBSET D \subseteq T
  <2> HIDE DEF T
  <2> QED BY <1>1, <1>2, SizeInduction
<1>4. D \cap S = S
  OBVIOUS
<1> QED BY <1>3, <1>4

\* SumFunction adds over the whole domain.
LEMMA SumFunctionIs ==
    ASSUME NEW S, NEW f \in [S -> Int]
    PROVE  SumFunction(f) = SumFunctionOnSet(f, S)
BY DEF SumFunction

\* A sum over a set is a sum over any larger one, with zeros.
LEMMA SumWide ==
    ASSUME NEW D, NEW S \in SUBSET D, NEW f \in [S -> Int], IsFiniteSet(D)
    PROVE  SumFunction(f) = SumFunctionOnSet([x \in D |-> IF x \in S THEN f[x] ELSE 0], D)
<1> DEFINE g == [x \in D |-> IF x \in S THEN f[x] ELSE 0]
<1>1. g \in [D -> Int] /\ \A x \in D \ S : g[x] = 0
  OBVIOUS
<1>2. \A x \in S : f[x] \in Int /\ g[x] = f[x]
  OBVIOUS
<1>3. IsFiniteSet(S)
  BY FS_Subset
<1> HIDE DEF g
<1>4. SumFunctionOnSet(g, D) = SumFunctionOnSet(g, S)
  BY <1>1, SumWithin
<1>5. SumFunctionOnSet(g, S) = SumFunctionOnSet(f, S)
  BY <1>2, <1>3, SumSame
<1>6. SumFunction(f) = SumFunctionOnSet(f, S)
  BY SumFunctionIs
<1>7. SumFunction(f) = SumFunctionOnSet(g, D)
  BY <1>4, <1>5, <1>6
<1> QED BY <1>7 DEF g

-----------------------------------------------------------------------------
(* Sums that change, each from one predicate                               *)

\* g on Q is f on S, but at x.
Moved(D, S, Q, x, f, g) ==
    /\ IsFiniteSet(D) /\ S \subseteq D /\ Q \subseteq D /\ x \in D
    /\ f \in [S -> Int] /\ g \in [Q -> Int]
    /\ Q \ {x} = S \ {x} /\ \A y \in Q \ {x} : g[y] = f[y]

\* What f contributes at x.
At(S, f, x) == IF x \in S THEN f[x] ELSE 0

\* A sum changes by what it changes at one point, whether the point comes, goes or stays.
LEMMA SumMoved ==
    ASSUME NEW D, NEW S, NEW Q, NEW x, NEW f, NEW g, Moved(D, S, Q, x, f, g)
    PROVE  /\ SumFunction(f) \in Int /\ SumFunction(g) \in Int
           /\ At(S, f, x) \in Int /\ At(Q, g, x) \in Int
           /\ SumFunction(g) = SumFunction(f) + At(Q, g, x) - At(S, f, x)
<1> DEFINE F == [y \in D |-> IF y \in S THEN f[y] ELSE 0]
           G == [y \in D |-> IF y \in Q THEN g[y] ELSE 0]
<1>0. /\ IsFiniteSet(D) /\ S \in SUBSET D /\ Q \in SUBSET D /\ x \in D
      /\ f \in [S -> Int] /\ g \in [Q -> Int]
      /\ Q \ {x} = S \ {x} /\ \A y \in Q \ {x} : g[y] = f[y]
  BY DEF Moved
<1>1. F \in [D -> Int] /\ G \in [D -> Int]
  BY <1>0
<1>2. \A y \in D \ {x} : G[y] = F[y]
  BY <1>0
<1>3. G = [F EXCEPT ![x] = G[x]]
  BY <1>1, <1>2
<1>4. SumFunction(f) = SumFunctionOnSet(F, D) /\ SumFunction(g) = SumFunctionOnSet(G, D)
  BY <1>0, SumWide
<1>5. F[x] = At(S, f, x) /\ G[x] = At(Q, g, x)
  BY <1>0 DEF At
<1>6. \A y \in D : F[y] \in Int /\ G[y] \in Int
  BY <1>1
<1> HIDE DEF F, G
<1>7. SumFunctionOnSet(G, D) = SumFunctionOnSet(F, D) + G[x] - F[x]
  BY <1>0, <1>1, <1>3, SumWrite
<1>8. SumFunctionOnSet(F, D) \in Int /\ SumFunctionOnSet(G, D) \in Int
  BY <1>0, <1>6, SumInt
<1>9. F[x] \in Int /\ G[x] \in Int
  BY <1>0, <1>6
<1> QED BY <1>4, <1>5, <1>7, <1>8, <1>9

\* The lesser of two, what is left of a after b, and what is due before i.
Smaller(a, b) == IF a <= b THEN a ELSE b
Rest(a, b) == IF a > b THEN a - b ELSE 0
Earlier(S, d, i) == SumFunctionOnSet(d, {j \in S : j < i})

\* A sum of natural numbers over a subset is any of its terms and the others.
LEMMA SumSplit ==
    ASSUME NEW D, NEW f \in [D -> Nat], NEW R \in SUBSET D, NEW x \in R, IsFiniteSet(D)
    PROVE  SumFunctionOnSet(f, R) = f[x] + SumFunctionOnSet(f, R \ {x})
<1>1. IsFiniteSet(R) /\ \A y \in R : f[y] \in Int
  BY FS_Subset
<1> QED BY <1>1, SumAny

\* What is served in the order of the numbers adds up to n, or to all there is.
LEMMA OldestFirst ==
    ASSUME NEW S, NEW d \in [S -> Nat], NEW n \in Nat, NEW part \in [S -> Nat], IsFiniteSet(S)
    PROVE  S \subseteq Nat /\ (\A i \in S : part[i] = Smaller(d[i], Rest(n, Earlier(S, d, i))))
               => SumFunctionOnSet(part, S) = Smaller(n, SumFunctionOnSet(d, S))
<1>0. \A R \in SUBSET S : \A x \in R :
          /\ SumFunctionOnSet(part, R) = part[x] + SumFunctionOnSet(part, R \ {x})
          /\ SumFunctionOnSet(d, R) = d[x] + SumFunctionOnSet(d, R \ {x})
  <2> TAKE R \in SUBSET S
  <2> TAKE x \in R
  <2>2. SumFunctionOnSet(part, R) = part[x] + SumFunctionOnSet(part, R \ {x})
    BY SumSplit
  <2>3. SumFunctionOnSet(d, R) = d[x] + SumFunctionOnSet(d, R \ {x})
    BY SumSplit
  <2> QED BY <2>2, <2>3
<1> SUFFICES ASSUME S \subseteq Nat,
                    \A i \in S : part[i] = Smaller(d[i], Rest(n, Earlier(S, d, i)))
             PROVE  SumFunctionOnSet(part, S) = Smaller(n, SumFunctionOnSet(d, S))
  OBVIOUS
<1> DEFINE T == {R \in SUBSET S : (\A i \in R : \A j \in S : j < i => j \in R)
                                      => SumFunctionOnSet(part, R) = Smaller(n, SumFunctionOnSet(d, R))}
<1>1. {} \in T
  BY SumEmpty DEF Smaller
<1>2. \A R \in SUBSET S : (R # {} /\ \A x \in R : R \ {x} \in T) => R \in T
  <2> SUFFICES ASSUME NEW R \in SUBSET S, R # {}, \A x \in R : R \ {x} \in T,
                      \A i \in R : \A j \in S : j < i => j \in R
               PROVE  SumFunctionOnSet(part, R) = Smaller(n, SumFunctionOnSet(d, R))
    OBVIOUS
  <2>1. IsFiniteSet(R) /\ R \subseteq Int
    <3>1. IsFiniteSet(R)
      BY FS_Subset, Zenon
    <3>2. R \subseteq Int
      OBVIOUS
    <3> QED BY <3>1, <3>2
  <2>2. PICK m \in R : \A y \in R : m >= y
    BY <2>1, FiniteMax
  <2> DEFINE Q == R \ {m}
  <2>3. {j \in S : j < m} = Q
    <3>1. ASSUME NEW j \in S, j < m PROVE j \in Q
      BY <3>1
    <3>2. ASSUME NEW j \in Q PROVE j \in S /\ j < m
      <4>1. j \in Nat /\ m \in Nat /\ j # m /\ m >= j
        BY <2>2
      <4> QED BY <4>1
    <3> QED BY <3>1, <3>2, Zenon
  <2>4. \A i \in Q : \A j \in S : j < i => j \in Q
    <3> SUFFICES ASSUME NEW i \in Q, NEW j \in S, j < i PROVE j \in Q
      OBVIOUS
    <3>1. j \in R /\ i \in Nat /\ j \in Nat /\ m \in Nat /\ m >= i
      BY <2>2
    <3> QED BY <3>1
  <2>5. SumFunctionOnSet(part, Q) = Smaller(n, SumFunctionOnSet(d, Q))
    BY <2>2, <2>4
  <2>6. /\ SumFunctionOnSet(part, R) = part[m] + SumFunctionOnSet(part, Q)
        /\ SumFunctionOnSet(d, R) = d[m] + SumFunctionOnSet(d, Q)
    BY <1>0
  <2>7. part[m] = Smaller(d[m], Rest(n, SumFunctionOnSet(d, Q)))
    <3>1. part[m] = Smaller(d[m], Rest(n, Earlier(S, d, m)))
      OBVIOUS
    <3> QED BY <2>3, <3>1 DEF Earlier
  <2>8. SumFunctionOnSet(d, Q) \in Nat /\ d[m] \in Nat
    <3>1. IsFiniteSet(Q) /\ \A x \in Q : d[x] \in Nat
      BY <2>1, FS_Subset
    <3> HIDE DEF Q
    <3> QED BY <3>1, SumAtLeast
  <2> HIDE DEF Q
  <2> QED BY <2>5, <2>6, <2>7, <2>8 DEF Smaller, Rest
<1>3. SUBSET S \subseteq T
  <2> HIDE DEF T
  <2> QED BY <1>1, <1>2, SizeInduction
<1> QED BY <1>3

\* g is f, and 0 where f is not defined.
Padded(D, S, f, g) ==
    /\ IsFiniteSet(D) /\ S \subseteq D /\ f \in [S -> Int] /\ g \in [D -> Int]
    /\ \A x \in S : g[x] = f[x]
    /\ \A x \in D \ S : g[x] = 0

\* Padding with zeros changes no sum.
LEMMA SumPadded ==
    ASSUME NEW D, NEW S, NEW f, NEW g, Padded(D, S, f, g)
    PROVE  SumFunction(f) \in Int /\ SumFunction(g) = SumFunction(f)
<1>1. /\ IsFiniteSet(D) /\ S \in SUBSET D /\ f \in [S -> Int] /\ g \in [D -> Int]
      /\ \A x \in S : g[x] = f[x] /\ f[x] \in Int
      /\ \A x \in D \ S : g[x] = 0
  BY DEF Padded
<1>2. SumFunctionOnSet(g, D) = SumFunctionOnSet(g, S)
  BY <1>1, SumWithin
<1>3. IsFiniteSet(S)
  BY <1>1, FS_Subset
<1>4. SumFunctionOnSet(g, S) = SumFunctionOnSet(f, S) /\ SumFunctionOnSet(f, S) \in Int
  BY <1>1, <1>3, SumSame, SumInt
<1>5. SumFunction(f) = SumFunctionOnSet(f, S) /\ SumFunction(g) = SumFunctionOnSet(g, D)
  BY <1>1 DEF SumFunction
<1> QED BY <1>2, <1>4, <1>5

\* h is f and g together.
Together(S, f, g, h) ==
    /\ IsFiniteSet(S) /\ f \in [S -> Int] /\ g \in [S -> Int] /\ h \in [S -> Int]
    /\ \A x \in S : h[x] = f[x] + g[x]

\* The sum of two functions, as a fact about one predicate.
LEMMA SumTogether ==
    ASSUME NEW S, NEW f, NEW g, NEW h, Together(S, f, g, h)
    PROVE  /\ SumFunction(f) \in Int /\ SumFunction(g) \in Int
           /\ SumFunction(h) = SumFunction(f) + SumFunction(g)
<1>1. /\ IsFiniteSet(S) /\ f \in [S -> Int] /\ g \in [S -> Int] /\ h \in [S -> Int]
      /\ \A x \in S : f[x] \in Int /\ g[x] \in Int /\ h[x] = f[x] + g[x]
  BY DEF Together
<1>2. SumFunctionOnSet(h, S) = SumFunctionOnSet(f, S) + SumFunctionOnSet(g, S)
  BY <1>1, SumPlus
<1>3. SumFunctionOnSet(f, S) \in Int /\ SumFunctionOnSet(g, S) \in Int
  BY <1>1, SumInt
<1>4. /\ SumFunction(f) = SumFunctionOnSet(f, S) /\ SumFunction(g) = SumFunctionOnSet(g, S)
      /\ SumFunction(h) = SumFunctionOnSet(h, S)
  BY <1>1 DEF SumFunction
<1> QED BY <1>2, <1>3, <1>4

\* The sum of a function to the integers is an integer.
LEMMA SumIsInt ==
    ASSUME NEW S, NEW f \in [S -> Int], IsFiniteSet(S)
    PROVE  SumFunction(f) \in Int
<1>1. \A x \in S : f[x] \in Int
  OBVIOUS
<1>2. SumFunctionOnSet(f, S) \in Int
  BY <1>1, SumInt
<1> QED BY <1>2 DEF SumFunction

\* Each x of S takes what is left of n after those before it, up to its own d.
Served(S, d, n, part) ==
    /\ IsFiniteSet(S) /\ S \subseteq Nat /\ n \in Nat
    /\ d \in [S -> Nat] /\ part \in [S -> Nat]
    /\ \A i \in S : part[i] = Smaller(d[i], Rest(n, Earlier(S, d, i)))

\* Together they take n, or all there is.
LEMMA SumServed ==
    ASSUME NEW S, NEW d, NEW n, NEW part, Served(S, d, n, part)
    PROVE  SumFunction(part) = Smaller(n, SumFunction(d))
<1>1. /\ IsFiniteSet(S) /\ n \in Nat /\ d \in [S -> Nat] /\ part \in [S -> Nat]
      /\ S \subseteq Nat /\ \A i \in S : part[i] = Smaller(d[i], Rest(n, Earlier(S, d, i)))
  BY DEF Served
<1>2. SumFunctionOnSet(part, S) = Smaller(n, SumFunctionOnSet(d, S))
  BY <1>1, OldestFirst
<1> QED BY <1>1, <1>2 DEF SumFunction

=============================================================================
