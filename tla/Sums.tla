-------------------------------- MODULE Sums --------------------------------
(***************************************************************************)
(* Lemmas about sums over finite sets (SumFunctionOnSet of the community   *)
(* modules), which the caps on an owner's queued requests and on an        *)
(* account's spending are stated with.                                     *)
(*                                                                         *)
(* The sum is a fold: a recursive function that takes one element after    *)
(* the other, in an order CHOOSE decides.  That the recursion has a        *)
(* solution (TableExists), and that the order does not matter              *)
(* (SumWithout), is shown by induction in its first-order form: a smallest *)
(* counterexample exists, and loses an element (SubsetsOf).                *)
(***************************************************************************)
EXTENDS Integers, FiniteSetsExt, FiniteSetTheorems, TLAPS

\* A leaf that names no prover is tried with SMT, then with Zenon.
USE SMTT(30), ZenonT(30)

\* A set of numbers that is not empty has a least one.
LEMMA LeastNumber ==
    ASSUME NEW T \in SUBSET Nat, T # {}
    PROVE  \E x \in T : \A y \in T : x <= y
<1>1. PICK x \in T : \A y \in T : ~(<<y, x>> \in OpToRel(<, Nat))
  BY WFMin, NatLessThanWellFounded, Zenon
<1>2. \A y \in T : ~(y < x)
  BY <1>1, Zenon DEF OpToRel
<1>3. QED
  BY <1>2

\* Induction over the subsets of a finite set, over a set of them: a smallest
\* one outside it would lose an element and be inside.
LEMMA SubsetsOf ==
    ASSUME NEW U, IsFiniteSet(U), NEW Good \in SUBSET SUBSET U,
           \A s \in SUBSET U : (\A x \in s : s \ {x} \in Good) => s \in Good
    PROVE  Good = SUBSET U
<1> DEFINE Bad == {n \in Nat : \E s \in SUBSET U : Cardinality(s) = n /\ s \notin Good}
<1>1. SUFFICES ASSUME NEW t \in SUBSET U, t \notin Good PROVE FALSE
  OBVIOUS
<1>2. \A s \in SUBSET U : IsFiniteSet(s) /\ Cardinality(s) \in Nat
  BY FS_Subset, FS_CardinalityType
<1>3. Bad \in SUBSET Nat /\ Bad # {}
  BY <1>1, <1>2
<1>4. PICK n \in Bad : \A m \in Bad : n <= m
  <2> HIDE DEF Bad
  <2>1. QED
    BY <1>3, LeastNumber
<1>5. PICK s \in SUBSET U : Cardinality(s) = n /\ s \notin Good
  BY <1>4
<1>6. ASSUME NEW x \in s PROVE s \ {x} \in Good
  <2>1. Cardinality(s \ {x}) = n - 1 /\ Cardinality(s \ {x}) \in Nat /\ s \ {x} \in SUBSET U
    BY <1>2, <1>5, <1>6, FS_RemoveElement
  <2>2. n - 1 \notin Bad
    <3>1. n \in Nat
      BY <1>4
    <3> HIDE DEF Bad
    <3>2. QED
      BY <1>4, <3>1
  <2>3. QED
    BY <2>1, <2>2
<1>7. QED
  BY <1>5, <1>6

\* The equation by which the fold defines its sums.
Picked(s) == CHOOSE x \in s : TRUE

SumStep(f, S, g) ==
    [s \in SUBSET S |-> IF s = {} THEN 0 ELSE f[Picked(s)] + g[s \ {Picked(s)}]]

SumTable(f, S) == CHOOSE g : g = SumStep(f, S, g)

\* The fold is the last entry of the table that solves the equation.
LEMMA SumIsTable ==
    ASSUME NEW f, NEW S
    PROVE  SumFunctionOnSet(f, S) = SumTable(f, S)[S]
BY DEF SumFunctionOnSet, FoldFunctionOnSet, MapThenFoldSet, SumStep, SumTable, Picked

\* The element the fold takes first.
LEMMA PickedIn == ASSUME NEW s, s # {} PROVE Picked(s) \in s
BY DEF Picked

\* The equation has a solution: by induction on the size of the sets covered.
LEMMA TableExists ==
    ASSUME NEW f, NEW S, IsFiniteSet(S)
    PROVE  SumTable(f, S) = SumStep(f, S, SumTable(f, S))
<1> DEFINE Upto(n) == {s \in SUBSET S : Cardinality(s) <= n}
           Body(g, s) == IF s = {} THEN 0 ELSE f[Picked(s)] + g[s \ {Picked(s)}]
           Solves(g, n) == g = [s \in Upto(n) |-> Body(g, s)]
           Bad == {n \in Nat : \A g : ~ Solves(g, n)}
<1>1. \A s \in SUBSET S : IsFiniteSet(s) /\ Cardinality(s) \in Nat
  BY FS_Subset, FS_CardinalityType
<1>2. Bad = {}
  <2>1. SUFFICES ASSUME Bad # {} PROVE FALSE
    BY Zenon
  <2>2. PICK n \in Bad : \A m \in Bad : n <= m
    <3>1. Bad \in SUBSET Nat
      OBVIOUS
    <3> HIDE DEF Bad
    <3>2. QED
      BY <2>1, <3>1, LeastNumber
  <2>3. n \in Nat /\ \A g : ~ Solves(g, n)
    BY <2>2, Zenon
  <2>4. CASE n = 0
    <3>1. \A s \in Upto(0) : s = {}
      BY <1>1, FS_EmptySet
    <3> DEFINE zero == [s \in Upto(0) |-> 0]
    <3>2. Solves(zero, 0)
      BY <3>1
    <3>3. QED
      BY <2>3, <2>4, <3>2, Zenon
  <2>5. CASE n # 0
    <3>1. n - 1 \in Nat /\ n - 1 \notin Bad
      <4>1. n - 1 \in Nat
        BY <2>3, <2>5
      <4> HIDE DEF Bad
      <4>2. QED
        BY <2>2, <2>3, <4>1
    <3>2. PICK h : Solves(h, n - 1)
      BY <3>1, Zenon
    <3> DEFINE more == [s \in Upto(n) |-> Body(h, s)]
    <3>3. ASSUME NEW s \in Upto(n), s # {}
          PROVE  s \ {Picked(s)} \in Upto(n - 1) /\ s \ {Picked(s)} \in Upto(n)
      <4>1. Cardinality(s \ {Picked(s)}) = Cardinality(s) - 1 /\ s \ {Picked(s)} \in SUBSET S
        BY <1>1, <3>3, PickedIn, FS_RemoveElement
      <4>2. Cardinality(s) \in Nat /\ Cardinality(s) <= n
        BY <1>1
      <4>3. QED
        BY <2>3, <4>1, <4>2
    <3>4. ASSUME NEW s \in Upto(n - 1) PROVE s \in Upto(n) /\ h[s] = Body(h, s)
      <4>1. s \in Upto(n)
        BY <1>1, <2>3
      <4>2. h = [t \in Upto(n - 1) |-> Body(h, t)]
        BY <3>2, Zenon
      <4> HIDE DEF Body, Upto
      <4>3. QED
        BY <4>1, <4>2
    <3>5. ASSUME NEW s \in Upto(n - 1) PROVE more[s] = h[s]
      <4> HIDE DEF Body, Upto
      <4>1. QED
        BY <3>4
    <3>6. ASSUME NEW s \in Upto(n) PROVE Body(more, s) = Body(h, s)
      <4>1. CASE s = {}
        BY <4>1
      <4>2. CASE s # {}
        <5>1. more[s \ {Picked(s)}] = h[s \ {Picked(s)}]
          BY <3>3, <3>5, <4>2, Zenon
        <5> HIDE DEF more
        <5>2. QED
          BY <4>2, <5>1
      <4>3. QED
        BY <4>1, <4>2
    <3>7. Solves(more, n)
      <4> HIDE DEF Body, Upto
      <4>1. QED
        BY <3>6
    <3>8. QED
      BY <2>3, <3>7, Zenon
  <2>6. QED
    BY <2>4, <2>5
<1>3. PICK g : Solves(g, Cardinality(S))
  <2>1. Cardinality(S) \in Nat /\ Cardinality(S) \notin Bad
    BY <1>1, <1>2, Zenon
  <2> HIDE DEF Solves
  <2>2. QED
    BY <2>1
<1>4. Upto(Cardinality(S)) = SUBSET S
  <2>1. ASSUME NEW s \in SUBSET S PROVE Cardinality(s) <= Cardinality(S)
    BY FS_Subset
  <2>2. QED
    BY <2>1
<1>5. g = SumStep(f, S, g)
  BY <1>3, <1>4, Zenon DEF SumStep
<1>6. QED
  BY <1>5, Zenon DEF SumTable

\* A sum is the entry of any larger table.
LEMMA SumInTable ==
    ASSUME NEW f, NEW U, IsFiniteSet(U), NEW S \in SUBSET U
    PROVE  SumFunctionOnSet(f, S) = SumTable(f, U)[S]
<1> DEFINE Good == {s \in SUBSET S : SumTable(f, S)[s] = SumTable(f, U)[s]}
<1>1. IsFiniteSet(S) /\ SUBSET S \subseteq SUBSET U
  BY FS_Subset
<1>2. PICK g, h : g = SumTable(f, S) /\ h = SumTable(f, U)
  OBVIOUS
<1>3. g = SumStep(f, S, g) /\ h = SumStep(f, U, h)
  BY <1>1, <1>2, TableExists
<1>4. ASSUME NEW s \in SUBSET S, \A x \in s : s \ {x} \in Good
      PROVE  s \in Good
  <2>1. /\ g[s] = IF s = {} THEN 0 ELSE f[Picked(s)] + g[s \ {Picked(s)}]
        /\ h[s] = IF s = {} THEN 0 ELSE f[Picked(s)] + h[s \ {Picked(s)}]
    BY <1>1, <1>3, Zenon DEF SumStep
  <2>2. s # {} => g[s \ {Picked(s)}] = h[s \ {Picked(s)}]
    BY <1>2, <1>4, PickedIn
  <2>3. g[s] = h[s]
    BY <2>1, <2>2
  <2>4. QED
    BY <1>2, <2>3
<1>5. Good = SUBSET S
  <2>1. Good \in SUBSET SUBSET S
    OBVIOUS
  <2> HIDE DEF Good
  <2>2. QED
    BY <1>1, <1>4, <2>1, SubsetsOf, Zenon
<1>6. S \in Good
  BY <1>5
<1>7. QED
  BY <1>6, SumIsTable

\* The sum over nothing, and over a set in terms of the element that the fold
\* takes first.
LEMMA SumUnfolds ==
    ASSUME NEW f, NEW S, IsFiniteSet(S)
    PROVE  /\ S = {} => SumFunctionOnSet(f, S) = 0
           /\ S # {} => SumFunctionOnSet(f, S) = f[Picked(S)] + SumFunctionOnSet(f, S \ {Picked(S)})
<1>1. PICK g : g = SumTable(f, S)
  OBVIOUS
<1>2. g = SumStep(f, S, g)
  BY <1>1, TableExists
<1>3. SumFunctionOnSet(f, S) = g[S]
  BY <1>1, SumIsTable
<1>4. SumFunctionOnSet(f, S \ {Picked(S)}) = g[S \ {Picked(S)}]
  BY <1>1, SumInTable
<1>5. g[S] = IF S = {} THEN 0 ELSE f[Picked(S)] + g[S \ {Picked(S)}]
  BY <1>2, Zenon DEF SumStep
<1>6. QED
  BY <1>3, <1>4, <1>5

\* A sum of numbers is a number.
LEMMA SumIsNat ==
    ASSUME NEW D, IsFiniteSet(D), NEW f \in [D -> Nat], NEW T \in SUBSET D
    PROVE  SumFunctionOnSet(f, T) \in Nat
<1> DEFINE Total(S) == SumFunctionOnSet(f, S)
           Good == {S \in SUBSET D : Total(S) \in Nat}
<1>1. ASSUME NEW S \in SUBSET D
      PROVE  /\ S = {} => Total(S) = 0
             /\ S # {} => Total(S) = f[Picked(S)] + Total(S \ {Picked(S)})
  BY FS_Subset, SumUnfolds, Zenon
<1> HIDE DEF Total
<1>2. ASSUME NEW S \in SUBSET D, \A x \in S : S \ {x} \in Good
      PROVE  S \in Good
  <2>1. S # {} => Picked(S) \in S
    BY PickedIn
  <2>2. CASE S = {}
    <3>1. Total(S) = 0
      BY <1>1, <2>2, Zenon
    <3>2. Total(S) \in Nat
      BY <3>1
    <3>3. QED
      BY <3>2
  <2>3. CASE S # {}
    <3>1. PICK y \in S : y = Picked(S)
      BY <2>1, <2>3
    <3>2. Total(S) = f[y] + Total(S \ {y})
      BY <1>1, <2>3, <3>1
    <3>3. Total(S \ {y}) \in Nat /\ f[y] \in Nat
      BY <1>2
    <3>4. Total(S) \in Nat
      BY <3>2, <3>3
    <3>5. QED
      BY <3>4
  <2>4. QED
    BY <2>2, <2>3
<1>3. Good = SUBSET D
  <2>1. Good \in SUBSET SUBSET D
    OBVIOUS
  <2> HIDE DEF Good
  <2>2. QED
    BY <1>2, <2>1, SubsetsOf, Zenon
<1>4. QED
  BY <1>3 DEF Total

\* It loses what an element adds when it loses the element, whichever it is.
LEMMA SumWithout ==
    ASSUME NEW D, IsFiniteSet(D), NEW f \in [D -> Nat], NEW T \in SUBSET D, NEW z \in T
    PROVE  SumFunctionOnSet(f, T) = f[z] + SumFunctionOnSet(f, T \ {z})
<1> DEFINE Total(S) == SumFunctionOnSet(f, S)
           Good == {S \in SUBSET D : \A x \in S : Total(S) = f[x] + Total(S \ {x})}
<1>1. ASSUME NEW S \in SUBSET D
      PROVE  /\ S # {} => Total(S) = f[Picked(S)] + Total(S \ {Picked(S)})
             /\ Total(S) \in Nat
  BY FS_Subset, SumUnfolds, SumIsNat
<1> HIDE DEF Total
<1>2. ASSUME NEW S \in SUBSET D, \A x \in S : S \ {x} \in Good, NEW x \in S
      PROVE  Total(S) = f[x] + Total(S \ {x})
  <2>1. PICK y \in S : y = Picked(S)
    BY PickedIn
  <2>2. Total(S) = f[y] + Total(S \ {y})
    BY <1>1, <2>1
  <2>3. CASE x = y
    BY <2>2, <2>3
  <2>4. CASE x # y
    <3>1. PICK R \in SUBSET D : R = (S \ {x}) \ {y} /\ R = (S \ {y}) \ {x}
      BY Zenon
    <3>2. Total(S \ {y}) = f[x] + Total(R)
      BY <1>2, <2>4, <3>1
    <3>3. Total(S \ {x}) = f[y] + Total(R)
      BY <1>2, <2>4, <3>1
    <3>4. Total(R) \in Nat
      BY <1>1, Zenon
    <3>5. f[x] \in Nat /\ f[y] \in Nat
      OBVIOUS
    <3>6. QED
      BY <2>2, <3>2, <3>3, <3>4, <3>5
  <2>5. QED
    BY <2>3, <2>4
<1>3. Good = SUBSET D
  <2>1. Good \in SUBSET SUBSET D
    OBVIOUS
  <2>2. \A S \in SUBSET D : (\A x \in S : S \ {x} \in Good) => S \in Good
    BY <1>2
  <2> HIDE DEF Good
  <2>3. QED
    BY <2>1, <2>2, SubsetsOf, Zenon
<1>4. QED
  BY <1>3 DEF Total

\* A sum depends on its terms only, and grows with them.
LEMMA SumGrows ==
    ASSUME NEW D, IsFiniteSet(D), NEW f \in [D -> Nat], NEW g \in [D -> Nat],
           NEW T \in SUBSET D, \A x \in T : f[x] <= g[x]
    PROVE  SumFunctionOnSet(f, T) <= SumFunctionOnSet(g, T)
<1> DEFINE F(S) == SumFunctionOnSet(f, S)
           G(S) == SumFunctionOnSet(g, S)
           Good == {S \in SUBSET T : F(S) <= G(S)}
<1>1. ASSUME NEW S \in SUBSET T
      PROVE  /\ F(S) \in Nat /\ G(S) \in Nat
             /\ S = {} => F(S) = 0 /\ G(S) = 0
             /\ \A x \in S : F(S) = f[x] + F(S \ {x}) /\ G(S) = g[x] + G(S \ {x})
  <2>1. S \in SUBSET D /\ IsFiniteSet(S)
    BY FS_Subset
  <2>2. F(S) \in Nat /\ G(S) \in Nat
    BY <2>1, SumIsNat
  <2>3. S = {} => F(S) = 0 /\ G(S) = 0
    BY <2>1, SumUnfolds
  <2>4. ASSUME NEW x \in S PROVE F(S) = f[x] + F(S \ {x}) /\ G(S) = g[x] + G(S \ {x})
    BY <2>1, SumWithout
  <2>5. QED
    BY <2>2, <2>3, <2>4
<1> HIDE DEF F, G
<1>2. ASSUME NEW S \in SUBSET T, \A x \in S : S \ {x} \in Good
      PROVE  S \in Good
  <2>1. CASE S = {}
    BY <1>1, <2>1
  <2>2. CASE S # {}
    <3>1. PICK x \in S : TRUE
      BY <2>2
    <3>2. F(S \ {x}) <= G(S \ {x}) /\ f[x] <= g[x] /\ f[x] \in Nat /\ g[x] \in Nat
      BY <1>2, <3>1
    <3>3. F(S \ {x}) \in Nat /\ G(S \ {x}) \in Nat
      BY <1>1
    <3>4. F(S) = f[x] + F(S \ {x}) /\ G(S) = g[x] + G(S \ {x})
      BY <1>1
    <3>5. F(S) <= G(S)
      BY <3>2, <3>3, <3>4
    <3>6. QED
      BY <3>5
  <2>3. QED
    BY <2>1, <2>2
<1>3. Good = SUBSET T
  <2>1. Good \in SUBSET SUBSET T /\ IsFiniteSet(T)
    BY FS_Subset
  <2> HIDE DEF Good
  <2>2. QED
    BY <1>2, <2>1, SubsetsOf, Zenon
<1>4. QED
  BY <1>3 DEF F, G

\* Equal terms, equal sums.
LEMMA SumSame ==
    ASSUME NEW D, IsFiniteSet(D), NEW f \in [D -> Nat], NEW g \in [D -> Nat],
           NEW T \in SUBSET D, \A x \in T : f[x] = g[x]
    PROVE  SumFunctionOnSet(f, T) = SumFunctionOnSet(g, T)
<1>1. \A x \in T : f[x] <= g[x] /\ g[x] <= f[x]
  OBVIOUS
<1>2. SumFunctionOnSet(f, T) <= SumFunctionOnSet(g, T) /\ SumFunctionOnSet(g, T) <= SumFunctionOnSet(f, T)
  BY <1>1, SumGrows
<1>3. SumFunctionOnSet(f, T) \in Nat /\ SumFunctionOnSet(g, T) \in Nat
  BY SumIsNat
<1>4. QED
  BY <1>2, <1>3

\* Changing one term changes the sum by the difference.
LEMMA SumUpdated ==
    ASSUME NEW D, IsFiniteSet(D), NEW f \in [D -> Nat], NEW g \in [D -> Nat], NEW z \in D,
           \A x \in D : x # z => g[x] = f[x]
    PROVE  SumFunctionOnSet(g, D) + f[z] = SumFunctionOnSet(f, D) + g[z]
<1>1. /\ SumFunctionOnSet(g, D) = g[z] + SumFunctionOnSet(g, D \ {z})
      /\ SumFunctionOnSet(f, D) = f[z] + SumFunctionOnSet(f, D \ {z})
  BY SumWithout
<1>2. SumFunctionOnSet(g, D \ {z}) = SumFunctionOnSet(f, D \ {z})
  <2>1. D \ {z} \in SUBSET D /\ \A x \in D \ {z} : g[x] = f[x]
    OBVIOUS
  <2>2. QED
    BY <2>1, SumSame
<1>3. SumFunctionOnSet(f, D \ {z}) \in Nat
  BY SumIsNat
<1>4. f[z] \in Nat /\ g[z] \in Nat
  OBVIOUS
<1>5. QED
  BY <1>1, <1>2, <1>3, <1>4

\* The sum of sums.
LEMMA SumAdds ==
    ASSUME NEW D, IsFiniteSet(D), NEW f \in [D -> Nat], NEW g \in [D -> Nat], NEW h \in [D -> Nat],
           \A x \in D : h[x] = f[x] + g[x]
    PROVE  SumFunctionOnSet(h, D) = SumFunctionOnSet(f, D) + SumFunctionOnSet(g, D)
<1> DEFINE F(S) == SumFunctionOnSet(f, S)
           G(S) == SumFunctionOnSet(g, S)
           H(S) == SumFunctionOnSet(h, S)
           Good == {S \in SUBSET D : H(S) = F(S) + G(S)}
<1>1. ASSUME NEW S \in SUBSET D
      PROVE  /\ F(S) \in Nat /\ G(S) \in Nat
             /\ S = {} => F(S) = 0 /\ G(S) = 0 /\ H(S) = 0
             /\ \A x \in S : F(S) = f[x] + F(S \ {x}) /\ G(S) = g[x] + G(S \ {x}) /\ H(S) = h[x] + H(S \ {x})
  <2>1. F(S) \in Nat /\ G(S) \in Nat
    BY SumIsNat
  <2>2. S = {} => F(S) = 0 /\ G(S) = 0 /\ H(S) = 0
    BY FS_Subset, SumUnfolds, Zenon
  <2>3. ASSUME NEW x \in S
        PROVE  F(S) = f[x] + F(S \ {x}) /\ G(S) = g[x] + G(S \ {x}) /\ H(S) = h[x] + H(S \ {x})
    BY SumWithout
  <2>4. QED
    BY <2>1, <2>2, <2>3
<1> HIDE DEF F, G, H
<1>2. ASSUME NEW S \in SUBSET D, \A x \in S : S \ {x} \in Good
      PROVE  S \in Good
  <2>1. CASE S = {}
    <3>1. H(S) = F(S) + G(S)
      BY <1>1, <2>1
    <3>2. QED
      BY <3>1
  <2>2. CASE S # {}
    <3>1. PICK x \in S : TRUE
      BY <2>2
    <3>2. PICK R \in SUBSET D : R = S \ {x}
      BY Zenon
    <3>3. H(R) = F(R) + G(R)
      BY <1>2, <3>1, <3>2
    <3>4. F(R) \in Nat /\ G(R) \in Nat
      BY <1>1
    <3>5. F(S) = f[x] + F(R) /\ G(S) = g[x] + G(R) /\ H(S) = h[x] + H(R)
      BY <1>1, <3>2, Zenon
    <3>6. h[x] = f[x] + g[x] /\ f[x] \in Nat /\ g[x] \in Nat
      OBVIOUS
    <3>7. H(S) = F(S) + G(S)
      BY <3>3, <3>4, <3>5, <3>6
    <3>8. QED
      BY <3>7
  <2>3. QED
    BY <2>1, <2>2
<1>3. Good = SUBSET D
  <2>1. Good \in SUBSET SUBSET D
    OBVIOUS
  <2> HIDE DEF Good
  <2>2. QED
    BY <1>2, <2>1, SubsetsOf, Zenon
<1>4. QED
  BY <1>3 DEF F, G, H

\* A sum over some is the sum over all with nothing for the others.
LEMMA SumOfSome ==
    ASSUME NEW D, IsFiniteSet(D), NEW f \in [D -> Nat], NEW g \in [D -> Nat], NEW T \in SUBSET D,
           \A x \in D : g[x] = IF x \in T THEN f[x] ELSE 0
    PROVE  SumFunctionOnSet(g, D) = SumFunctionOnSet(f, T)
<1> DEFINE F(S) == SumFunctionOnSet(f, S)
           G(S) == SumFunctionOnSet(g, S)
           Good == {S \in SUBSET D : G(S) = F(S \cap T)}
<1>1. ASSUME NEW S \in SUBSET D
      PROVE  /\ F(S) \in Nat /\ G(S) \in Nat
             /\ S = {} => F(S) = 0 /\ G(S) = 0
             /\ \A x \in S : F(S) = f[x] + F(S \ {x}) /\ G(S) = g[x] + G(S \ {x})
  <2>1. F(S) \in Nat /\ G(S) \in Nat
    BY SumIsNat
  <2>2. S = {} => F(S) = 0 /\ G(S) = 0
    BY FS_Subset, SumUnfolds, Zenon
  <2>3. ASSUME NEW x \in S PROVE F(S) = f[x] + F(S \ {x}) /\ G(S) = g[x] + G(S \ {x})
    BY SumWithout
  <2>4. QED
    BY <2>1, <2>2, <2>3
<1> HIDE DEF F, G
<1>2. ASSUME NEW S \in SUBSET D, \A x \in S : S \ {x} \in Good
      PROVE  S \in Good
  <2>1. CASE S = {}
    <3>1. S \cap T = S
      BY <2>1
    <3>2. G(S) = F(S)
      BY <1>1, <2>1
    <3>3. QED
      BY <3>1, <3>2
  <2>2. CASE S # {}
    <3>1. PICK x \in S : TRUE
      BY <2>2
    <3>2. PICK P \in SUBSET D, R \in SUBSET D, Q \in SUBSET D :
             P = S \ {x} /\ R = S \cap T /\ Q = P \cap T
      BY Zenon
    <3>3. G(P) = F(Q)
      BY <1>2, <3>1, <3>2
    <3>4. G(S) = g[x] + G(P) /\ G(P) \in Nat
      BY <1>1, <3>2
    <3>5. CASE x \in T
      <4>1. x \in R /\ R \ {x} = Q
        BY <3>2, <3>5
      <4>2. F(R) = f[x] + F(Q)
        BY <1>1, <4>1
      <4>3. g[x] = f[x]
        BY <3>5
      <4>4. G(S) = F(R)
        BY <3>3, <3>4, <4>2, <4>3
      <4>5. QED
        BY <3>2, <4>4
    <3>6. CASE x \notin T
      <4>1. R = Q
        BY <3>2, <3>6
      <4>2. g[x] = 0
        BY <3>6
      <4>3. G(S) = F(R)
        BY <3>3, <3>4, <4>1, <4>2
      <4>4. QED
        BY <3>2, <4>3
    <3>7. QED
      BY <3>5, <3>6
  <2>3. QED
    BY <2>1, <2>2
<1>3. Good = SUBSET D
  <2>1. Good \in SUBSET SUBSET D
    OBVIOUS
  <2> HIDE DEF Good
  <2>2. QED
    BY <1>2, <2>1, SubsetsOf, Zenon
<1>4. D \cap T = T /\ D \in Good
  BY <1>3
<1>5. QED
  BY <1>4, Zenon DEF F, G

\* The sum of a constant over a set.
LEMMA SumOfConstant ==
    ASSUME NEW D, IsFiniteSet(D), NEW k \in Nat, NEW f \in [D -> Nat], NEW T \in SUBSET D,
           \A x \in T : f[x] = k
    PROVE  SumFunctionOnSet(f, T) = k * Cardinality(T)
<1> DEFINE F(S) == SumFunctionOnSet(f, S)
           Good == {S \in SUBSET T : F(S) = k * Cardinality(S)}
<1>1. ASSUME NEW S \in SUBSET T
      PROVE  /\ S = {} => F(S) = 0 /\ Cardinality(S) = 0
             /\ Cardinality(S) \in Nat
             /\ \A x \in S : F(S) = k + F(S \ {x}) /\ Cardinality(S \ {x}) = Cardinality(S) - 1
  <2>1. S \in SUBSET D /\ IsFiniteSet(S) /\ Cardinality(S) \in Nat
    BY FS_Subset, FS_CardinalityType
  <2>2. S = {} => F(S) = 0 /\ Cardinality(S) = 0
    BY <2>1, FS_EmptySet, SumUnfolds
  <2>3. ASSUME NEW x \in S PROVE F(S) = k + F(S \ {x}) /\ Cardinality(S \ {x}) = Cardinality(S) - 1
    <3>1. F(S) = f[x] + F(S \ {x}) /\ f[x] = k
      BY <2>1, SumWithout
    <3>2. Cardinality(S \ {x}) = Cardinality(S) - 1
      BY <2>1, FS_RemoveElement, Zenon
    <3>3. QED
      BY <3>1, <3>2
  <2>4. QED
    BY <2>1, <2>2, <2>3
<1> HIDE DEF F
<1>2. ASSUME NEW S \in SUBSET T, \A x \in S : S \ {x} \in Good
      PROVE  S \in Good
  <2>1. CASE S = {}
    <3>1. F(S) = k * Cardinality(S)
      BY <1>1, <2>1
    <3>2. QED
      BY <3>1
  <2>2. CASE S # {}
    <3>1. PICK x \in S : TRUE
      BY <2>2
    <3>2. F(S \ {x}) = k * Cardinality(S \ {x})
      BY <1>2, <3>1
    <3>3. PICK n \in Nat : n = Cardinality(S)
      BY <1>1
    <3>4. F(S) = k + k * (n - 1)
      BY <1>1, <3>1, <3>2, <3>3
    <3>5. k + k * (n - 1) = k * n
      BY <3>3
    <3>6. QED
      BY <3>3, <3>4, <3>5
  <2>3. QED
    BY <2>1, <2>2
<1>3. Good = SUBSET T
  <2>1. Good \in SUBSET SUBSET T /\ IsFiniteSet(T)
    BY FS_Subset
  <2> HIDE DEF Good
  <2>2. QED
    BY <1>2, <2>1, SubsetsOf, Zenon
<1>4. QED
  BY <1>3 DEF F
=============================================================================
