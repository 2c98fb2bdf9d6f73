------------------------------ MODULE SumProofs ------------------------------
(***************************************************************************)
(* Facts about sums, the SUM(amount) of the ledgers, for any finite set of *)
(* rows and any amounts that are natural numbers.                          *)
(*                                                                         *)
(* A sum is defined by recursion over a set.  It is reasoned about without *)
(* an induction rule: Units makes of a row of n Credits n different        *)
(* Credits, so that their number obeys the equation that defines the sum   *)
(* (UnitsFold), and of the sets on which the two differ, had there been    *)
(* any, a smallest one would exist and contradict the equation             *)
(* (SumCounts).  The rest of the module is about numbers of units, which   *)
(* the theorems on finite sets know.                                       *)
(***************************************************************************)
EXTENDS Functions, FiniteSetTheorems, TLAPS

\* f[x] different units for every x of S.
Units(f, S) == UNION {{x} \X (1..f[x]) : x \in S}

\* One element has as many units as its amount.
LEMMA OwnUnits ==
  ASSUME NEW x, NEW n \in Nat
  PROVE  IsFiniteSet({x} \X (1..n)) /\ Cardinality({x} \X (1..n)) = n
<1>1. IsFiniteSet({x}) /\ Cardinality({x}) = 1 BY FS_Singleton
<1>2. IsFiniteSet(1..n) /\ Cardinality(1..n) = n BY FS_Interval
<1>3. /\ IsFiniteSet({x} \X (1..n))
      /\ Cardinality({x} \X (1..n)) = Cardinality({x}) * Cardinality(1..n)
  BY <1>1, <1>2, FS_Product
<1> QED BY <1>1, <1>2, <1>3

\* A new element brings its own units.
LEMMA UnitsAdd ==
  ASSUME NEW S, NEW f, NEW x, x \notin S, IsFiniteSet(Units(f, S)),
         f[x] \in Nat
  PROVE  /\ IsFiniteSet(Units(f, S \cup {x}))
         /\ Cardinality(Units(f, S \cup {x})) = Cardinality(Units(f, S)) + f[x]
<1> DEFINE before == Units(f, S)
           after == Units(f, S \cup {x})
           own == {x} \X (1..f[x])
<1>1. IsFiniteSet(own) /\ Cardinality(own) = f[x] BY OwnUnits
<1>2. after = before \cup own BY DEF Units
<1>3. before \cap own = {} BY DEF Units
<1>4. IsFiniteSet(before) OBVIOUS
<1> HIDE DEF before, after, own
<1>5. Cardinality({}) = 0 BY FS_EmptySet
<1>6. Cardinality(before) \in Nat BY <1>4, FS_CardinalityType
<1>7. /\ IsFiniteSet(before \cup own)
      /\ Cardinality(before \cup own)
           = Cardinality(before) + Cardinality(own) - Cardinality(before \cap own)
  BY <1>1, <1>4, FS_Union
<1>8. Cardinality(before \cap own) = 0 BY <1>3, <1>5, Zenon
<1>9. Cardinality(after) = Cardinality(before) + f[x]
  BY <1>1, <1>2, <1>6, <1>7, <1>8, SMT
<1>10. IsFiniteSet(after) BY <1>2, <1>7, Zenon
<1> QED BY <1>9, <1>10 DEF before, after

\* Finitely many elements have finitely many units.
LEMMA UnitsFinite ==
  ASSUME NEW S, IsFiniteSet(S), NEW f, \A x \in S : f[x] \in Nat
  PROVE  IsFiniteSet(Units(f, S))
<1> DEFINE parts == {{x} \X (1..f[x]) : x \in S}
           part == [x \in S |-> {x} \X (1..f[x])]
<1>1. part \in Surjection(S, parts) BY DEF Surjection
<1>2. IsFiniteSet(parts) BY <1>1, FS_Surjection
<1>3. ASSUME NEW x \in S PROVE IsFiniteSet({x} \X (1..f[x])) BY OwnUnits
<1>4. \A p \in parts : IsFiniteSet(p) BY <1>3, Zenon
<1>5. IsFiniteSet(UNION parts) BY <1>2, <1>4, FS_UNION
<1> QED BY <1>5 DEF Units

-----------------------------------------------------------------------------
(* Sums count units                                                        *)

\* The right-hand side of the equation that defines a sum: f of one
\* element, chosen, plus the sum g of the rest.
Fold(f, S, g) ==
  [s \in SUBSET S |->
     IF s = {} THEN 0
     ELSE f[CHOOSE x \in s : TRUE] + g[s \ {CHOOSE x \in s : TRUE}]]

\* The community operator, down to the equation it is a solution of.
LEMMA SumUnfolds ==
  ASSUME NEW S, NEW f
  PROVE  SumFunctionOnSet(f, S) = (CHOOSE g : g = Fold(f, S, g))[S]
BY DEF SumFunctionOnSet, FoldFunctionOnSet, MapThenFoldSet, Fold

\* How many units each subset of S has.
Count(f, S) == [s \in SUBSET S |-> Cardinality(Units(f, s))]

\* The numbers of units solve that equation.
LEMMA UnitsFold ==
  ASSUME NEW S, IsFiniteSet(S), NEW f, \A x \in S : f[x] \in Nat
  PROVE  Count(f, S) = Fold(f, S, Count(f, S))
<1> SUFFICES ASSUME NEW s \in SUBSET S
             PROVE  Count(f, S)[s] = Fold(f, S, Count(f, S))[s]
  BY DEF Count, Fold
<1>1. CASE s = {}
  <2>1. Units(f, s) = {} BY <1>1 DEF Units
  <2> QED BY <1>1, <2>1, FS_EmptySet DEF Count, Fold
<1>2. CASE s # {}
  <2> DEFINE x == CHOOSE y \in s : TRUE
             rest == s \ {x}
  <2>1. x \in s BY <1>2
  <2>2. rest \in SUBSET S /\ x \notin rest /\ s = rest \cup {x} BY <2>1
  <2>3. f[x] \in Nat BY <2>1
  <2>4. IsFiniteSet(rest) BY FS_Subset
  <2>5. IsFiniteSet(Units(f, rest)) BY <2>4, UnitsFinite
  <2>6. Cardinality(Units(f, rest)) \in Nat BY <2>5, FS_CardinalityType
  <2>7. Fold(f, S, Count(f, S))[s] = f[x] + Count(f, S)[rest]
    BY <1>2 DEF Fold
  <2> HIDE DEF x, rest
  <2>8. Cardinality(Units(f, s)) = Cardinality(Units(f, rest)) + f[x]
    BY <2>2, <2>3, <2>5, UnitsAdd
  <2>9. Count(f, S)[rest] = Cardinality(Units(f, rest)) BY <2>2 DEF Count
  <2> QED BY <2>3, <2>6, <2>7, <2>8, <2>9 DEF Count
<1> QED BY <1>1, <1>2

\* So a sum is a number of units: a smallest set on which the two differ would
\* be empty, for which both are 0, or have an element without which they agree.
LEMMA SumCounts ==
  ASSUME NEW S, IsFiniteSet(S), NEW f, \A x \in S : f[x] \in Nat
  PROVE  SumFunctionOnSet(f, S) = Cardinality(Units(f, S))
<1> DEFINE sum == CHOOSE g : g = Fold(f, S, g)
           wrong == {s \in SUBSET S : sum[s] # Count(f, S)[s]}
<1>1. Count(f, S) = Fold(f, S, Count(f, S)) BY UnitsFold
<1>2. sum = Fold(f, S, sum) BY <1>1
<1> HIDE DEF sum
<1>3. wrong = {}
  <2> SUFFICES ASSUME wrong # {} PROVE FALSE OBVIOUS
  <2>1. IsWellFoundedOn(StrictSubsetOrdering(S), SUBSET S)
    BY FS_StrictSubsetOrderingWellFounded, FS_FiniteSubsetsOfFinite
  <2>2. PICK s \in wrong : \A r \in wrong : <<r, s>> \notin StrictSubsetOrdering(S)
    BY <2>1, WFMin
  <2> DEFINE x == CHOOSE y \in s : TRUE
             rest == s \ {x}
  <2>3. s \in SUBSET S /\ sum[s] # Count(f, S)[s] OBVIOUS
  <2>4. CASE s = {}
    <3>1. sum[s] = 0 /\ Count(f, S)[s] = 0
      BY <1>1, <1>2, <2>4 DEF Fold
    <3> QED BY <2>3, <3>1
  <2>5. CASE s # {}
    <3>1. x \in s BY <2>5
    <3>2. rest \in SUBSET S /\ rest # s /\ rest \subseteq s BY <2>3, <3>1
    <3>3. rest \notin wrong
      BY <2>2, <2>3, <3>2 DEF StrictSubsetOrdering
    <3>4. sum[rest] = Count(f, S)[rest] BY <3>2, <3>3
    <3>5. sum[s] = f[x] + sum[rest] BY <1>2, <2>3, <2>5 DEF Fold
    <3>6. Count(f, S)[s] = f[x] + Count(f, S)[rest]
      BY <1>1, <2>3, <2>5 DEF Fold
    <3> QED BY <2>3, <3>4, <3>5, <3>6
  <2> QED BY <2>4, <2>5
<1>4. sum[S] = Count(f, S)[S] BY <1>3
<1>5. SumFunctionOnSet(f, S) = sum[S] BY SumUnfolds DEF sum
<1> QED BY <1>4, <1>5 DEF Count

-----------------------------------------------------------------------------
(* Sums                                                                    *)

\* A sum of natural numbers is one.
LEMMA SumNat ==
  ASSUME NEW S, IsFiniteSet(S), NEW f, \A x \in S : f[x] \in Nat
  PROVE  SumFunctionOnSet(f, S) \in Nat
BY SumCounts, UnitsFinite, FS_CardinalityType

\* One more row adds its amount.
LEMMA SumAdd ==
  ASSUME NEW S, IsFiniteSet(S), NEW x, x \notin S,
         NEW f, \A y \in S \cup {x} : f[y] \in Nat
  PROVE  SumFunctionOnSet(f, S \cup {x}) = SumFunctionOnSet(f, S) + f[x]
<1>1. IsFiniteSet(S \cup {x}) BY FS_AddElement
<1>2. SumFunctionOnSet(f, S \cup {x}) = Cardinality(Units(f, S \cup {x}))
  BY <1>1, SumCounts
<1>3. SumFunctionOnSet(f, S) = Cardinality(Units(f, S)) BY SumCounts
<1>4. IsFiniteSet(Units(f, S)) /\ f[x] \in Nat BY UnitsFinite
<1>5. Cardinality(Units(f, S \cup {x})) = Cardinality(Units(f, S)) + f[x]
  BY <1>4, UnitsAdd
<1> QED BY <1>2, <1>3, <1>5

\* Rows that have no amount, or a larger one elsewhere, sum up to less there.
LEMMA SumCovered ==
  ASSUME NEW S, IsFiniteSet(S), NEW T, IsFiniteSet(T),
         NEW f, \A x \in S : f[x] \in Nat,
         NEW g, \A x \in T : g[x] \in Nat,
         \A x \in S : f[x] = 0 \/ (x \in T /\ f[x] <= g[x])
  PROVE  SumFunctionOnSet(f, S) <= SumFunctionOnSet(g, T)
<1>1. \A x \in S : 1..f[x] = {} \/ (x \in T /\ 1..f[x] \subseteq 1..g[x])
  OBVIOUS
<1>2. Units(f, S) \in SUBSET Units(g, T) BY <1>1 DEF Units
<1>3. IsFiniteSet(Units(g, T)) BY UnitsFinite
<1>4. Cardinality(Units(f, S)) <= Cardinality(Units(g, T))
  BY <1>2, <1>3, FS_Subset
<1> QED BY <1>4, SumCounts

\* Fewer rows, of smaller amounts, sum up to less.
LEMMA SumMonotone ==
  ASSUME NEW T, IsFiniteSet(T), NEW S \in SUBSET T,
         NEW f, \A x \in S : f[x] \in Nat,
         NEW g, \A x \in T : g[x] \in Nat,
         \A x \in S : f[x] <= g[x]
  PROVE  SumFunctionOnSet(f, S) <= SumFunctionOnSet(g, T)
<1>1. IsFiniteSet(S) BY FS_Subset
<1> QED BY <1>1, SumCovered

\* Only the amounts of the rows summed up matter.
LEMMA SumSame ==
  ASSUME NEW S, IsFiniteSet(S), NEW f, NEW g,
         \A x \in S : f[x] \in Nat /\ g[x] = f[x]
  PROVE  SumFunctionOnSet(g, S) = SumFunctionOnSet(f, S)
<1>1. \A x \in S : 1..f[x] = 1..g[x] OBVIOUS
<1>2. Units(f, S) = Units(g, S) BY <1>1 DEF Units
<1> QED BY <1>2, SumCounts

\* When one row changes, the sum changes by as much.
LEMMA SumChange ==
  ASSUME NEW S, IsFiniteSet(S), NEW x \in S,
         NEW f, \A y \in S : f[y] \in Nat,
         NEW g, \A y \in S : g[y] \in Nat,
         \A y \in S \ {x} : g[y] = f[y]
  PROVE  SumFunctionOnSet(g, S) = SumFunctionOnSet(f, S) - f[x] + g[x]
<1> DEFINE rest == S \ {x}
<1>1. IsFiniteSet(rest) BY FS_RemoveElement
<1>2. S = rest \cup {x} /\ x \notin rest OBVIOUS
<1>3. \A y \in rest : f[y] \in Nat /\ g[y] = f[y] OBVIOUS
<1>4. f[x] \in Nat /\ g[x] \in Nat OBVIOUS
<1> HIDE DEF rest
<1>5. SumFunctionOnSet(f, S) = SumFunctionOnSet(f, rest) + f[x]
  BY <1>1, <1>2, SumAdd
<1>6. SumFunctionOnSet(g, S) = SumFunctionOnSet(g, rest) + g[x]
  BY <1>1, <1>2, SumAdd
<1>7. SumFunctionOnSet(g, rest) = SumFunctionOnSet(f, rest)
  BY <1>1, <1>3, SumSame
<1>8. SumFunctionOnSet(f, rest) \in Nat BY <1>1, <1>3, SumNat
<1> QED BY <1>4, <1>5, <1>6, <1>7, <1>8

\* No rows, no amount.
LEMMA SumEmpty == ASSUME NEW f PROVE SumFunctionOnSet(f, {}) = 0
<1>1. IsFiniteSet({}) /\ Cardinality({}) = 0 BY FS_EmptySet
<1>2. Units(f, {}) = {} BY DEF Units
<1>3. SumFunctionOnSet(f, {}) = Cardinality(Units(f, {})) BY <1>1, SumCounts
<1> QED BY <1>1, <1>2, <1>3
=============================================================================
