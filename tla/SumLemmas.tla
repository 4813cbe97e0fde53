----------------------------- MODULE SumLemmas -----------------------------
(***************************************************************************)
(* Facts about SumFunctionOnSet of the community modules, which adds up    *)
(* the values of a function over a finite set.  It is a fold, defined by   *)
(* recursion over subsets that always removes a CHOOSEn element; the       *)
(* lemmas establish that the recursion is well defined and that any        *)
(* element can be split off, which is what the proofs about the pool use.  *)
(***************************************************************************)
EXTENDS Integers, FiniteSets, Functions, FiniteSetTheorems,
        WellFoundedInduction, TLAPS

Pick(s) == CHOOSE x \in s : TRUE

Rest(s) == s \ {Pick(s)}

(* g is the table of the sums of w over the subsets of S.                  *)
IsSum(g, w, S) ==
    g = [s \in SUBSET S |-> IF s = {} THEN 0 ELSE w[Pick(s)] + g[Rest(s)]]

(* A nonempty collection of subsets of a finite set has a minimal member.  *)
(* Every induction below takes the collection of counterexamples.          *)
LEMMA MinimalSubset ==
    ASSUME NEW U, IsFiniteSet(U), NEW B \in SUBSET SUBSET U, B # {}
    PROVE  \E m \in B : \A t \in SUBSET m : t # m => t \notin B
<1>1. IsWellFoundedOn(StrictSubsetOrdering(U), SUBSET U)
  BY FS_StrictSubsetOrderingWellFounded, FS_FiniteSubsetsOfFinite
<1>2. PICK m \in B : \A t \in B : <<t, m>> \notin StrictSubsetOrdering(U)
  BY <1>1, WFMin, Zenon
<1>3. ASSUME NEW t \in SUBSET m, t # m, t \in B
      PROVE  FALSE
  <2>1. <<t, m>> \in StrictSubsetOrdering(U)
    BY <1>3 DEF StrictSubsetOrdering
  <2> QED BY <2>1, <1>2, <1>3
<1> QED BY <1>3, <1>2

(* The fold unfolded.                                                      *)
LEMMA SumIsTableLookup ==
    ASSUME NEW w, NEW S
    PROVE  SumFunctionOnSet(w, S) = (CHOOSE g : IsSum(g, w, S))[S]
BY DEF SumFunctionOnSet, FoldFunctionOnSet, MapThenFoldSet, IsSum, Pick, Rest

LEMMA PickRest ==
    ASSUME NEW s, s # {}
    PROVE  Pick(s) \in s /\ Rest(s) \in SUBSET s /\ Rest(s) # s
BY DEF Pick, Rest

LEMMA IsSumAt ==
    ASSUME NEW g, NEW w, NEW S, IsSum(g, w, S), NEW s \in SUBSET S
    PROVE  g[s] = IF s = {} THEN 0 ELSE w[Pick(s)] + g[Rest(s)]
<1>1. g = [r \in SUBSET S |-> IF r = {} THEN 0 ELSE w[Pick(r)] + g[Rest(r)]]
  BY DEF IsSum
<1> QED BY <1>1, Zenon

LEMMA IsSumUnique ==
    ASSUME NEW w, NEW S, IsFiniteSet(S), NEW T \in SUBSET S,
           NEW g, IsSum(g, w, S), NEW h, IsSum(h, w, T)
    PROVE  g[T] = h[T]
<1> DEFINE B == {s \in SUBSET T : g[s] # h[s]}
<1>1. SUFFICES ASSUME B # {} PROVE FALSE
  <2>1. T \in SUBSET T
    OBVIOUS
  <2> QED BY <2>1
<1>2. IsFiniteSet(T)
  BY FS_Subset
<1>3. PICK m \in B : \A t \in SUBSET m : t # m => t \notin B
  <2>1. B \in SUBSET SUBSET T
    OBVIOUS
  <2> HIDE DEF B
  <2> QED BY <1>1, <1>2, <2>1, MinimalSubset, Zenon
<1>4. m \in SUBSET S /\ m \in SUBSET T
  OBVIOUS
<1>5. m # {}
  BY <1>3, <1>4, IsSumAt
<1>6. g[Rest(m)] = h[Rest(m)]
  BY <1>3, <1>5, PickRest
<1>7. g[m] = w[Pick(m)] + g[Rest(m)] /\ h[m] = w[Pick(m)] + h[Rest(m)]
  BY <1>4, <1>5, IsSumAt
<1> QED BY <1>3, <1>6, <1>7

(* A table for S restricts to a table for each subset of S.                *)
LEMMA IsSumRestrict ==
    ASSUME NEW w, NEW S, NEW T \in SUBSET S, NEW g, IsSum(g, w, S)
    PROVE  \E h : IsSum(h, w, T)
<1> DEFINE h == [s \in SUBSET T |-> g[s]]
<1>1. \A s \in SUBSET T : g[s] = IF s = {} THEN 0 ELSE w[Pick(s)] + h[Rest(s)]
  <2> TAKE s \in SUBSET T
  <2>1. s \in SUBSET S
    OBVIOUS
  <2>2. s # {} => Rest(s) \in SUBSET T
    BY PickRest
  <2>3. s # {} => h[Rest(s)] = g[Rest(s)]
    BY <2>2
  <2>4. g[s] = IF s = {} THEN 0 ELSE w[Pick(s)] + g[Rest(s)]
    BY <2>1, IsSumAt
  <2> HIDE DEF h
  <2> QED BY <2>3, <2>4, Zenon
<1>2. IsSum(h, w, T)
  BY <1>1, Zenon DEF IsSum
<1> QED BY <1>2

(* Where tables exist, the sum obeys the recursion.                        *)
LEMMA SumStep ==
    ASSUME NEW w, NEW S, IsFiniteSet(S), \E g : IsSum(g, w, S)
    PROVE  SumFunctionOnSet(w, S) =
             IF S = {} THEN 0 ELSE w[Pick(S)] + SumFunctionOnSet(w, Rest(S))
<1> DEFINE gS == CHOOSE g : IsSum(g, w, S)
           gR == CHOOSE g : IsSum(g, w, Rest(S))
<1>1. IsSum(gS, w, S)
  BY Zenon
<1>2. SumFunctionOnSet(w, S) = gS[S]
  BY SumIsTableLookup
<1>3. CASE S = {}
  BY <1>1, <1>2, <1>3, IsSumAt
<1>4. CASE S # {}
  <2>1. Rest(S) \in SUBSET S
    BY <1>4, PickRest
  <2>2. IsSum(gR, w, Rest(S))
    BY <1>1, <2>1, IsSumRestrict, Zenon
  <2>3. gS[Rest(S)] = gR[Rest(S)]
    BY <1>1, <2>1, <2>2, IsSumUnique
  <2>4. SumFunctionOnSet(w, Rest(S)) = gR[Rest(S)]
    BY SumIsTableLookup
  <2>5. S \in SUBSET S
    OBVIOUS
  <2>6. gS[S] = w[Pick(S)] + gS[Rest(S)]
    BY <1>1, <1>4, <2>5, IsSumAt
  <2> QED BY <1>2, <1>4, <2>3, <2>4, <2>6
<1> QED BY <1>3, <1>4

LEMMA IsSumExists ==
    ASSUME NEW w, NEW U, IsFiniteSet(U)
    PROVE  \A S \in SUBSET U : \E g : IsSum(g, w, S)
<1> DEFINE B == {S \in SUBSET U : ~ \E g : IsSum(g, w, S)}
<1>1. SUFFICES ASSUME B # {} PROVE FALSE
  OBVIOUS
<1>2. PICK m \in B : \A t \in SUBSET m : t # m => t \notin B
  <2>1. B \in SUBSET SUBSET U
    OBVIOUS
  <2> HIDE DEF B
  <2> QED BY <1>1, <2>1, MinimalSubset, Zenon
<1>3. \A t \in SUBSET m : IsFiniteSet(t)
  BY FS_Subset
<1> DEFINE G == [s \in SUBSET m |->
                   IF s = {} THEN 0 ELSE w[Pick(s)] + SumFunctionOnSet(w, Rest(s))]
<1>4. ASSUME NEW s \in SUBSET m, s # m
      PROVE  G[s] = SumFunctionOnSet(w, s)
  <2>1. \E g : IsSum(g, w, s)
    BY <1>2, <1>4
  <2> QED BY <1>3, <2>1, SumStep
<1>5. ASSUME NEW s \in SUBSET m, s # {}
      PROVE  G[Rest(s)] = SumFunctionOnSet(w, Rest(s))
  <2>1. Rest(s) \in SUBSET m /\ Rest(s) # m
    BY <1>5, PickRest
  <2> HIDE DEF G
  <2> QED BY <1>4, <2>1
<1>6. \A s \in SUBSET m : G[s] = IF s = {} THEN 0 ELSE w[Pick(s)] + G[Rest(s)]
  <2> TAKE s \in SUBSET m
  <2>1. G[s] = IF s = {} THEN 0 ELSE w[Pick(s)] + SumFunctionOnSet(w, Rest(s))
    OBVIOUS
  <2> HIDE DEF G
  <2> QED BY <1>5, <2>1, Zenon
<1>7. IsSum(G, w, m)
  <2>1. G = [s \in SUBSET m |-> G[s]]
    BY Zenon
  <2> HIDE DEF G
  <2>2. G = [s \in SUBSET m |-> IF s = {} THEN 0 ELSE w[Pick(s)] + G[Rest(s)]]
    BY <1>6, <2>1, Zenon
  <2> QED BY <2>2, Zenon DEF IsSum
<1> QED BY <1>7, <1>2

(* The recursion, for every finite set.                                    *)
LEMMA SumRecursion ==
    ASSUME NEW w, NEW S, IsFiniteSet(S)
    PROVE  SumFunctionOnSet(w, S) =
             IF S = {} THEN 0 ELSE w[Pick(S)] + SumFunctionOnSet(w, Rest(S))
<1>1. S \in SUBSET S
  OBVIOUS
<1>2. \E g : IsSum(g, w, S)
  BY <1>1, IsSumExists, Zenon
<1> QED BY <1>2, SumStep, Zenon

(* The sum over no elements.                                               *)
LEMMA SumEmpty ==
    ASSUME NEW w
    PROVE  SumFunctionOnSet(w, {}) = 0
BY FS_EmptySet, SumRecursion

(* A sum of naturals is a natural.                                         *)
LEMMA SumType ==
    ASSUME NEW S, IsFiniteSet(S), NEW w, \A s \in S : w[s] \in Nat
    PROVE  SumFunctionOnSet(w, S) \in Nat
<1> DEFINE B == {T \in SUBSET S : SumFunctionOnSet(w, T) \notin Nat}
<1>1. SUFFICES ASSUME B # {} PROVE FALSE
  <2>1. S \in SUBSET S
    OBVIOUS
  <2> QED BY <2>1
<1>2. PICK m \in B : \A t \in SUBSET m : t # m => t \notin B
  <2>1. B \in SUBSET SUBSET S
    OBVIOUS
  <2> HIDE DEF B
  <2> QED BY <1>1, <2>1, MinimalSubset, Zenon
<1>3. IsFiniteSet(m) /\ m \in SUBSET S
  BY FS_Subset
<1>4. m # {}
  <2>1. SumFunctionOnSet(w, {}) \in Nat
    BY SumEmpty
  <2> QED BY <2>1
<1>5. SumFunctionOnSet(w, Rest(m)) \in Nat /\ w[Pick(m)] \in Nat
  BY <1>2, <1>3, <1>4, PickRest
<1>6. SumFunctionOnSet(w, m) = w[Pick(m)] + SumFunctionOnSet(w, Rest(m))
  BY <1>3, <1>4, SumRecursion
<1> QED BY <1>2, <1>5, <1>6

(* Functions that agree on a set have the same sum over it.                *)
LEMMA SumCongruence ==
    ASSUME NEW S, IsFiniteSet(S), NEW v, NEW w, \A s \in S : v[s] = w[s]
    PROVE  SumFunctionOnSet(v, S) = SumFunctionOnSet(w, S)
<1> DEFINE B == {T \in SUBSET S : SumFunctionOnSet(v, T) # SumFunctionOnSet(w, T)}
<1>1. SUFFICES ASSUME B # {} PROVE FALSE
  <2>1. S \in SUBSET S
    OBVIOUS
  <2> QED BY <2>1
<1>2. PICK m \in B : \A t \in SUBSET m : t # m => t \notin B
  <2>1. B \in SUBSET SUBSET S
    OBVIOUS
  <2> HIDE DEF B
  <2> QED BY <1>1, <2>1, MinimalSubset, Zenon
<1>3. IsFiniteSet(m) /\ m \in SUBSET S
  BY FS_Subset
<1>4. m # {}
  BY <1>2, SumEmpty
<1>5. /\ SumFunctionOnSet(v, Rest(m)) = SumFunctionOnSet(w, Rest(m))
      /\ v[Pick(m)] = w[Pick(m)]
  BY <1>2, <1>3, <1>4, PickRest
<1>6. /\ SumFunctionOnSet(v, m) = v[Pick(m)] + SumFunctionOnSet(v, Rest(m))
      /\ SumFunctionOnSet(w, m) = w[Pick(m)] + SumFunctionOnSet(w, Rest(m))
  BY <1>3, <1>4, SumRecursion
<1> QED BY <1>2, <1>5, <1>6

(* Any element can be split off a sum of naturals.                         *)
LEMMA SumSplit ==
    ASSUME NEW S, IsFiniteSet(S), NEW w, \A s \in S : w[s] \in Nat, NEW y \in S
    PROVE  SumFunctionOnSet(w, S) = w[y] + SumFunctionOnSet(w, S \ {y})
<1> DEFINE B == {T \in SUBSET S :
                   \E z \in T : SumFunctionOnSet(w, T)
                                  # w[z] + SumFunctionOnSet(w, T \ {z})}
<1>1. SUFFICES ASSUME B # {} PROVE FALSE
  <2>1. S \in SUBSET S
    OBVIOUS
  <2> QED BY <2>1
<1>2. PICK m \in B : \A t \in SUBSET m : t # m => t \notin B
  <2>1. B \in SUBSET SUBSET S
    OBVIOUS
  <2> HIDE DEF B
  <2> QED BY <1>1, <2>1, MinimalSubset, Zenon
<1>3. PICK z \in m : SumFunctionOnSet(w, m) # w[z] + SumFunctionOnSet(w, m \ {z})
  OBVIOUS
<1> DEFINE x == Pick(m)
           r == m \ {x}
           q == m \ {z}
           b == m \ {x, z}
<1>4. m \in SUBSET S /\ IsFiniteSet(m) /\ IsFiniteSet(b)
  <2>1. m \in SUBSET S /\ b \in SUBSET S
    OBVIOUS
  <2> QED BY <2>1, FS_Subset
<1>5. x \in m
  BY PickRest
<1>6. SumFunctionOnSet(w, m) = w[x] + SumFunctionOnSet(w, r)
  BY <1>4, SumRecursion DEF Rest
<1>7. x # z
  BY <1>3, <1>6
<1>8. SumFunctionOnSet(w, r) = w[z] + SumFunctionOnSet(w, b)
  <2>1. r \in SUBSET m /\ r # m /\ z \in r /\ r \in SUBSET S /\ r \ {z} = b
    BY <1>4, <1>5, <1>7
  <2>2. r \notin B
    BY <1>2, <2>1
  <2> HIDE DEF x, r, b
  <2> QED BY <2>1, <2>2
<1>9. SumFunctionOnSet(w, q) = w[x] + SumFunctionOnSet(w, b)
  <2>1. q \in SUBSET m /\ q # m /\ x \in q /\ q \in SUBSET S /\ q \ {x} = b
    BY <1>4, <1>5, <1>7
  <2>2. q \notin B
    BY <1>2, <2>1
  <2> HIDE DEF x, q, b
  <2> QED BY <2>1, <2>2
<1>10. w[x] \in Nat /\ w[z] \in Nat /\ SumFunctionOnSet(w, b) \in Nat
  <2>1. \A s \in b : w[s] \in Nat
    BY <1>4
  <2> QED BY <1>4, <1>5, <2>1, SumType
<1> HIDE DEF x, r, q, b
<1>11. SumFunctionOnSet(w, m) = w[z] + SumFunctionOnSet(w, q)
  BY <1>6, <1>8, <1>9, <1>10
<1> QED BY <1>3, <1>11 DEF q

(* The effect of one more, one less and one changed element.               *)
LEMMA SumAdd ==
    ASSUME NEW S, IsFiniteSet(S), NEW w, NEW v, NEW y, y \notin S,
           \A s \in S : w[s] \in Nat /\ v[s] = w[s], v[y] \in Nat
    PROVE  SumFunctionOnSet(v, S \cup {y}) = SumFunctionOnSet(w, S) + v[y]
<1>1. IsFiniteSet(S \cup {y}) /\ (S \cup {y}) \ {y} = S
  BY FS_AddElement
<1>2. \A s \in S \cup {y} : v[s] \in Nat
  OBVIOUS
<1>3. SumFunctionOnSet(v, S \cup {y}) = v[y] + SumFunctionOnSet(v, S)
  BY <1>1, <1>2, SumSplit
<1>4. SumFunctionOnSet(v, S) = SumFunctionOnSet(w, S)
  BY SumCongruence
<1>5. SumFunctionOnSet(w, S) \in Nat
  BY SumType
<1> QED BY <1>3, <1>4, <1>5

LEMMA SumRemove ==
    ASSUME NEW S, IsFiniteSet(S), NEW w, NEW v, NEW y \in S,
           \A s \in S : w[s] \in Nat, \A s \in S \ {y} : v[s] = w[s]
    PROVE  /\ SumFunctionOnSet(v, S \ {y}) = SumFunctionOnSet(w, S) - w[y]
           /\ w[y] <= SumFunctionOnSet(w, S)
<1>1. IsFiniteSet(S \ {y})
  BY FS_RemoveElement
<1>2. SumFunctionOnSet(w, S) = w[y] + SumFunctionOnSet(w, S \ {y})
  BY SumSplit
<1>3. SumFunctionOnSet(v, S \ {y}) = SumFunctionOnSet(w, S \ {y})
  BY <1>1, SumCongruence
<1>4. SumFunctionOnSet(w, S \ {y}) \in Nat
  BY <1>1, SumType
<1> QED BY <1>2, <1>3, <1>4

LEMMA SumChange ==
    ASSUME NEW S, IsFiniteSet(S), NEW w, NEW v, NEW y \in S,
           \A s \in S : w[s] \in Nat /\ v[s] \in Nat,
           \A s \in S \ {y} : v[s] = w[s]
    PROVE  SumFunctionOnSet(v, S) = SumFunctionOnSet(w, S) - w[y] + v[y]
<1>1. IsFiniteSet(S \ {y})
  BY FS_RemoveElement
<1>2. /\ SumFunctionOnSet(w, S) = w[y] + SumFunctionOnSet(w, S \ {y})
      /\ SumFunctionOnSet(v, S) = v[y] + SumFunctionOnSet(v, S \ {y})
  BY SumSplit
<1>3. SumFunctionOnSet(v, S \ {y}) = SumFunctionOnSet(w, S \ {y})
  BY <1>1, SumCongruence
<1>4. SumFunctionOnSet(w, S \ {y}) \in Nat
  BY <1>1, SumType
<1> QED BY <1>2, <1>3, <1>4

(* Fewer and smaller summands.                                             *)
LEMMA SumAtMost ==
    ASSUME NEW S, IsFiniteSet(S), NEW v, NEW w,
           \A s \in S : v[s] \in Nat /\ w[s] \in Nat /\ v[s] <= w[s]
    PROVE  SumFunctionOnSet(v, S) <= SumFunctionOnSet(w, S)
<1> DEFINE B == {T \in SUBSET S :
                   ~(SumFunctionOnSet(v, T) <= SumFunctionOnSet(w, T))}
<1>1. SUFFICES ASSUME B # {} PROVE FALSE
  <2>1. S \in SUBSET S
    OBVIOUS
  <2> QED BY <2>1
<1>2. PICK m \in B : \A t \in SUBSET m : t # m => t \notin B
  <2>1. B \in SUBSET SUBSET S
    OBVIOUS
  <2> HIDE DEF B
  <2> QED BY <1>1, <2>1, MinimalSubset, Zenon
<1>3. IsFiniteSet(m) /\ m \in SUBSET S
  BY FS_Subset
<1>4. m # {}
  <2>1. SumFunctionOnSet(v, {}) = 0 /\ SumFunctionOnSet(w, {}) = 0
    BY SumEmpty
  <2> QED BY <2>1
<1>5. Rest(m) \in SUBSET m /\ Rest(m) # m /\ Pick(m) \in m
  BY <1>4, PickRest
<1>6. /\ SumFunctionOnSet(v, Rest(m)) <= SumFunctionOnSet(w, Rest(m))
      /\ v[Pick(m)] \in Nat /\ w[Pick(m)] \in Nat /\ v[Pick(m)] <= w[Pick(m)]
  BY <1>2, <1>3, <1>5
<1>7. /\ SumFunctionOnSet(v, m) = v[Pick(m)] + SumFunctionOnSet(v, Rest(m))
      /\ SumFunctionOnSet(w, m) = w[Pick(m)] + SumFunctionOnSet(w, Rest(m))
  BY <1>3, <1>4, SumRecursion
<1>8. SumFunctionOnSet(v, Rest(m)) \in Nat /\ SumFunctionOnSet(w, Rest(m)) \in Nat
  <2>1. IsFiniteSet(Rest(m)) /\ Rest(m) \in SUBSET S
    BY <1>3, <1>5, FS_Subset
  <2>2. \A s \in Rest(m) : v[s] \in Nat /\ w[s] \in Nat
    BY <2>1
  <2> QED BY <2>1, <2>2, SumType
<1>9. SumFunctionOnSet(v, m) <= SumFunctionOnSet(w, m)
  BY <1>6, <1>7, <1>8
<1> QED BY <1>2, <1>9

LEMMA SumOfPart ==
    ASSUME NEW S, IsFiniteSet(S), NEW T \in SUBSET S, NEW w, \A s \in S : w[s] \in Nat
    PROVE  SumFunctionOnSet(w, T) <= SumFunctionOnSet(w, S)
<1> DEFINE B == {U \in SUBSET S :
                   T \subseteq U /\ ~(SumFunctionOnSet(w, T) <= SumFunctionOnSet(w, U))}
<1>1. SUFFICES ASSUME B # {} PROVE FALSE
  <2>1. S \in SUBSET S
    OBVIOUS
  <2> QED BY <2>1
<1>2. PICK m \in B : \A t \in SUBSET m : t # m => t \notin B
  <2>1. B \in SUBSET SUBSET S
    OBVIOUS
  <2> HIDE DEF B
  <2> QED BY <1>1, <2>1, MinimalSubset, Zenon
<1>3. IsFiniteSet(m) /\ m \in SUBSET S /\ T \subseteq m /\ IsFiniteSet(T)
  BY FS_Subset
<1>4. SumFunctionOnSet(w, T) \in Nat
  BY <1>3, SumType
<1>5. PICK y \in m : y \notin T
  <2>1. m # T
    BY <1>4
  <2> HIDE DEF B
  <2> QED BY <1>3, <2>1
<1>6. m \ {y} \in SUBSET m /\ m \ {y} # m /\ T \subseteq m \ {y}
  BY <1>3, <1>5
<1>7. SumFunctionOnSet(w, T) <= SumFunctionOnSet(w, m \ {y})
  BY <1>2, <1>3, <1>6
<1>8. SumFunctionOnSet(w, m) = w[y] + SumFunctionOnSet(w, m \ {y})
  BY <1>3, <1>5, SumSplit
<1>9. SumFunctionOnSet(w, m \ {y}) \in Nat /\ w[y] \in Nat
  <2>1. IsFiniteSet(m \ {y}) /\ m \ {y} \in SUBSET S
    BY <1>3, <1>5, FS_Subset
  <2> QED BY <1>3, <2>1, SumType
<1>10. SumFunctionOnSet(w, T) <= SumFunctionOnSet(w, m)
  BY <1>4, <1>7, <1>8, <1>9
<1> QED BY <1>2, <1>10

=============================================================================
