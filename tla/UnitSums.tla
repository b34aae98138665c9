------------------------------ MODULE UnitSums ------------------------------
(***************************************************************************)
(* Sums over finite sets, as MapThenSumSet of the community modules        *)
(* computes them: by picking elements one after the other.  The result     *)
(* does not depend on the order, adds up over disjoint sets and follows    *)
(* the values at its elements, which is what the accounts of stock units   *)
(* rest on.  The induction is over the subsets of a finite set.            *)
(***************************************************************************)
EXTENDS Integers, FiniteSets, FiniteSetsExt, FiniteSetTheorems, TLAPS

Pick(s) == CHOOSE x \in s : TRUE

\* g gives the sum of f over every subset of S.
Summing(g, f, S) ==
  g = [s \in SUBSET S |-> IF s = {} THEN 0 ELSE f[Pick(s)] + g[s \ {Pick(s)}]]

SumOver(f, S) == MapThenSumSet(LAMBDA k : f[k], S)

IntegersOn(f, S) == \A x \in S : f[x] \in Int

-----------------------------------------------------------------------------

LEMMA PickInSet == \A s : s # {} => Pick(s) \in s
BY DEF Pick

\* What holds of a set whenever it holds of its proper subsets holds of every
\* subset of a finite set.
LEMMA SubsetInduction ==
  ASSUME NEW S, IsFiniteSet(S), NEW G,
         \A T \in SUBSET S : (\A U \in SUBSET T : U # T => U \in G) => T \in G
  PROVE  SUBSET S \subseteq G
<1> SUFFICES ASSUME (SUBSET S) \ G # {} PROVE FALSE
  OBVIOUS
<1> DEFINE Bad == (SUBSET S) \ G
<1>1. FiniteSubsetsOf(S) = SUBSET S
  BY FS_FiniteSubsetsOfFinite
<1>2. IsWellFoundedOn(StrictSubsetOrdering(S), SUBSET S)
  <2>1. IsWellFoundedOn(StrictSubsetOrdering(S), FiniteSubsetsOf(S))
    BY FS_StrictSubsetOrderingWellFounded
  <2> QED
    BY <1>1, <2>1, Zenon
<1>3. Bad \subseteq SUBSET S /\ Bad # {}
  OBVIOUS
<1> HIDE DEF Bad
<1>4. \E T \in Bad : \A U \in Bad : <<U, T>> \notin StrictSubsetOrdering(S)
  BY <1>2, <1>3, WFMin
<1>5. PICK T \in Bad : \A U \in Bad : <<U, T>> \notin StrictSubsetOrdering(S)
  BY <1>4
<1>6. T \in SUBSET S /\ T \notin G
  BY DEF Bad
<1>7. ASSUME NEW U \in SUBSET T, U # T PROVE U \in G
  <2>1. U \in SUBSET S
    BY <1>6
  <2>2. <<U, T>> \in StrictSubsetOrdering(S)
    BY <1>6, <1>7, <2>1 DEF StrictSubsetOrdering
  <2> QED
    BY <1>5, <2>1, <2>2 DEF Bad
<1> QED
  BY <1>6, <1>7

\* Two such functions agree where they sum the same values.
LEMMA SummingAgrees ==
  ASSUME NEW A, IsFiniteSet(A), NEW B, A \subseteq B,
         NEW f, NEW e, \A x \in A : f[x] = e[x],
         NEW g, Summing(g, f, A), NEW h, Summing(h, e, B)
  PROVE  \A s \in SUBSET A : g[s] = h[s]
<1> DEFINE G == {s \in SUBSET A : g[s] = h[s]}
<1>1. ASSUME NEW T \in SUBSET A, \A U \in SUBSET T : U # T => U \in G
      PROVE  T \in G
  <2>1. T \in SUBSET B
    OBVIOUS
  <2>2. /\ g[T] = IF T = {} THEN 0 ELSE f[Pick(T)] + g[T \ {Pick(T)}]
        /\ h[T] = IF T = {} THEN 0 ELSE e[Pick(T)] + h[T \ {Pick(T)}]
    BY <2>1 DEF Summing
  <2>3. CASE T = {}
    BY <2>2, <2>3
  <2>4. CASE T # {}
    <3>1. Pick(T) \in T
      BY <2>4, PickInSet
    <3>2. T \ {Pick(T)} \in G
      BY <1>1, <3>1
    <3> QED
      BY <2>2, <2>4, <3>1, <3>2
  <2> QED
    BY <2>3, <2>4
<1> HIDE DEF G
<1>2. SUBSET A \subseteq G
  BY <1>1, SubsetInduction
<1> QED
  BY <1>2 DEF G

\* Every finite set has one.
LEMMA SummingExists ==
  ASSUME NEW S, IsFiniteSet(S), NEW f
  PROVE  \E g : Summing(g, f, S)
<1> DEFINE G == {T \in SUBSET S : \E g : Summing(g, f, T)}
<1>1. ASSUME NEW T \in SUBSET S, \A U \in SUBSET T : U # T => U \in G
      PROVE  T \in G
  <2> DEFINE sum(U) == CHOOSE g : Summing(g, f, U)
             val(U) == sum(U)[U]
             g0 == [s \in SUBSET T |-> IF s = {} THEN 0
                                       ELSE f[Pick(s)] + val(s \ {Pick(s)})]
  <2>1. ASSUME NEW U \in SUBSET T, U # T
        PROVE  /\ Summing(sum(U), f, U)
               /\ IsFiniteSet(U)
    <3>1. U \in G
      BY <1>1, <2>1
    <3>2. \E g : Summing(g, f, U)
      BY <3>1
    <3> QED
      BY <3>2, FS_Subset
  <2> HIDE DEF sum, G
  <2>2. ASSUME NEW U \in SUBSET T, U # T
        PROVE  val(U) = IF U = {} THEN 0 ELSE f[Pick(U)] + val(U \ {Pick(U)})
    <3> DEFINE V == U \ {Pick(U)}
    <3>1. val(U) = IF U = {} THEN 0 ELSE f[Pick(U)] + sum(U)[V]
      BY <2>1, <2>2 DEF Summing
    <3>2. V \in SUBSET T /\ V \in SUBSET U /\ V # T
      BY <2>2
    <3>3. /\ Summing(sum(V), f, V) /\ IsFiniteSet(V)
          /\ Summing(sum(U), f, U)
      BY <2>1, <2>2, <3>2
    <3>4. \A s \in SUBSET V : sum(V)[s] = sum(U)[s]
      <4>1. V \subseteq U /\ \A x \in V : f[x] = f[x]
        OBVIOUS
      <4> HIDE DEF V
      <4> QED
        BY <3>3, <4>1, SummingAgrees
    <3> QED
      BY <3>1, <3>4
  <2> HIDE DEF val
  <2>3. ASSUME NEW s \in SUBSET T, s # {}
        PROVE  g0[s] = f[Pick(s)] + g0[s \ {Pick(s)}]
    <3>1. Pick(s) \in s
      BY <2>3, PickInSet
    <3>2. s \ {Pick(s)} \in SUBSET T /\ s \ {Pick(s)} # T
      BY <3>1
    <3>3. g0[s \ {Pick(s)}] = val(s \ {Pick(s)})
      BY <2>2, <3>2
    <3> QED
      BY <2>3, <3>3
  <2>4. Summing(g0, f, T)
    <3>1. \A s \in SUBSET T :
            g0[s] = IF s = {} THEN 0 ELSE f[Pick(s)] + g0[s \ {Pick(s)}]
      BY <2>3
    <3>2. g0 = [s \in SUBSET T |-> g0[s]]
      OBVIOUS
    <3> HIDE DEF g0
    <3> QED
      BY <3>1, <3>2 DEF Summing
  <2> QED
    BY <2>4 DEF G
<1> HIDE DEF G
<1>2. SUBSET S \subseteq G
  BY <1>1, SubsetInduction
<1> QED
  BY <1>2 DEF G

\* The sum is what any such function gives.
LEMMA SumOverSumming ==
  ASSUME NEW S, IsFiniteSet(S), NEW f, NEW g, Summing(g, f, S)
  PROVE  \A T \in SUBSET S : SumOver(f, T) = g[T]
<1> SUFFICES ASSUME NEW T \in SUBSET S PROVE SumOver(f, T) = g[T]
  OBVIOUS
<1>1. SumOver(f, T) = (CHOOSE h : Summing(h, f, T))[T]
  BY DEF SumOver, MapThenSumSet, MapThenFoldSet, Summing, Pick
<1> DEFINE c == CHOOSE h : Summing(h, f, T)
<1>2. IsFiniteSet(T)
  BY FS_Subset
<1>3. Summing(c, f, T)
  BY <1>2, SummingExists
<1> HIDE DEF c
<1>4. \A s \in SUBSET T : c[s] = g[s]
  <2>1. T \subseteq S /\ \A x \in T : f[x] = f[x]
    OBVIOUS
  <2>2. ASSUME NEW e, \A x \in T : f[x] = e[x], Summing(g, e, S)
        PROVE  \A s \in SUBSET T : c[s] = g[s]
    BY <1>2, <1>3, <2>1, <2>2, SummingAgrees
  <2> QED
    BY <2>1, <2>2
<1> QED
  BY <1>1, <1>4 DEF c

\* Nothing adds up to nothing.
LEMMA SumOverEmpty == \A f : SumOver(f, {}) = 0
<1> SUFFICES ASSUME NEW f PROVE SumOver(f, {}) = 0
  OBVIOUS
<1>1. IsFiniteSet({})
  BY FS_EmptySet
<1>2. PICK g : Summing(g, f, {})
  BY <1>1, SummingExists
<1>3. \A T \in SUBSET {} : SumOver(f, T) = g[T]
  BY <1>1, <1>2, SumOverSumming
<1>4. {} \in SUBSET {} /\ g[{}] = 0
  BY <1>2 DEF Summing
<1> QED
  BY <1>3, <1>4

LEMMA SumOverPick ==
  ASSUME NEW S, IsFiniteSet(S), NEW f
  PROVE  \A T \in SUBSET S : T # {} =>
           SumOver(f, T) = f[Pick(T)] + SumOver(f, T \ {Pick(T)})
<1>1. PICK g : Summing(g, f, S)
  BY SummingExists
<1>2. \A T \in SUBSET S : SumOver(f, T) = g[T]
  BY <1>1, SumOverSumming
<1> QED
  BY <1>1, <1>2 DEF Summing

\* The sum follows the values at the elements.
LEMMA SumOverSame ==
  ASSUME NEW S, IsFiniteSet(S), NEW f, NEW e, \A x \in S : f[x] = e[x]
  PROVE  SumOver(f, S) = SumOver(e, S)
<1>1. PICK g : Summing(g, f, S)
  BY SummingExists
<1>2. PICK h : Summing(h, e, S)
  BY SummingExists
<1>3. \A s \in SUBSET S : g[s] = h[s]
  BY <1>1, <1>2, SummingAgrees
<1> QED
  BY <1>1, <1>2, <1>3, SumOverSumming

\* Integers add up to an integer, natural numbers to a natural number.
LEMMA SumOverType ==
  ASSUME NEW S, IsFiniteSet(S), NEW f, IntegersOn(f, S)
  PROVE  /\ \A T \in SUBSET S : SumOver(f, T) \in Int
         /\ (\A x \in S : f[x] \in Nat) => \A T \in SUBSET S : SumOver(f, T) \in Nat
<1> DEFINE G == {T \in SUBSET S :
                   /\ SumOver(f, T) \in Int
                   /\ (\A x \in S : f[x] \in Nat) => SumOver(f, T) \in Nat}
<1>1. ASSUME NEW T \in SUBSET S, \A U \in SUBSET T : U # T => U \in G
      PROVE  T \in G
  <2>1. CASE T = {}
    BY <2>1, SumOverEmpty
  <2>2. CASE T # {}
    <3>1. Pick(T) \in T
      BY <2>2, PickInSet
    <3>2. T \ {Pick(T)} \in G
      BY <1>1, <3>1
    <3>3. SumOver(f, T) = f[Pick(T)] + SumOver(f, T \ {Pick(T)})
      BY <2>2, SumOverPick
    <3> QED
      BY <3>1, <3>2, <3>3 DEF IntegersOn
  <2> QED
    BY <2>1, <2>2
<1> HIDE DEF G
<1>2. SUBSET S \subseteq G
  BY <1>1, SubsetInduction
<1> QED
  BY <1>2 DEF G

\* Any element can be taken out first.
LEMMA SumOverElement ==
  ASSUME NEW S, IsFiniteSet(S), NEW f, IntegersOn(f, S)
  PROVE  \A T \in SUBSET S : \A y \in T :
           SumOver(f, T) = f[y] + SumOver(f, T \ {y})
<1> DEFINE G == {T \in SUBSET S : \A y \in T :
                   SumOver(f, T) = f[y] + SumOver(f, T \ {y})}
<1>1. ASSUME NEW T \in SUBSET S, \A U \in SUBSET T : U # T => U \in G
      PROVE  T \in G
  <2> SUFFICES ASSUME NEW y \in T PROVE SumOver(f, T) = f[y] + SumOver(f, T \ {y})
    OBVIOUS
  <2> DEFINE x == Pick(T)
  <2>1. x \in T
    BY PickInSet
  <2>2. SumOver(f, T) = f[x] + SumOver(f, T \ {x})
    BY SumOverPick
  <2> HIDE DEF x
  <2>3. CASE x # y
    <3>1. /\ T \ {x} \in G /\ y \in T \ {x}
          /\ T \ {y} \in G /\ x \in T \ {y}
      BY <1>1, <2>1, <2>3
    <3>2. /\ SumOver(f, T \ {x}) = f[y] + SumOver(f, (T \ {x}) \ {y})
          /\ SumOver(f, T \ {y}) = f[x] + SumOver(f, (T \ {y}) \ {x})
      BY <3>1
    <3>3. (T \ {x}) \ {y} = (T \ {y}) \ {x} /\ (T \ {x}) \ {y} \in SUBSET S
      OBVIOUS
    <3> DEFINE rest == SumOver(f, (T \ {x}) \ {y})
    <3>4. f[x] \in Int /\ f[y] \in Int /\ rest \in Int
      BY <2>1, <3>3, SumOverType DEF IntegersOn
    <3>5. SumOver(f, T \ {y}) = f[x] + rest /\ SumOver(f, T) = f[x] + (f[y] + rest)
      BY <2>2, <3>2, <3>3
    <3> HIDE DEF rest
    <3> QED
      BY <3>4, <3>5
  <2> QED
    BY <2>2, <2>3
<1> HIDE DEF G
<1>2. SUBSET S \subseteq G
  BY <1>1, SubsetInduction
<1> QED
  BY <1>2 DEF G

\* A new element adds its value.
LEMMA SumOverAdd ==
  ASSUME NEW S, IsFiniteSet(S), NEW y, y \notin S, NEW f, IntegersOn(f, S \cup {y})
  PROVE  SumOver(f, S \cup {y}) = f[y] + SumOver(f, S)
<1>1. IsFiniteSet(S \cup {y}) /\ (S \cup {y}) \ {y} = S
  BY FS_AddElement
<1>2. S \cup {y} \in SUBSET (S \cup {y}) /\ y \in S \cup {y}
  OBVIOUS
<1> DEFINE R == S \cup {y}
<1> HIDE DEF R
<1>3. IsFiniteSet(R) /\ IntegersOn(f, R) /\ R \in SUBSET R /\ y \in R /\ R \ {y} = S
  BY <1>1, <1>2 DEF R
<1>4. SumOver(f, R) = f[y] + SumOver(f, R \ {y})
  BY <1>3, SumOverElement
<1> QED
  BY <1>3, <1>4 DEF R

\* Sums over two sets with nothing in common add up.
LEMMA SumOverUnion ==
  ASSUME NEW A, IsFiniteSet(A), NEW B, IsFiniteSet(B), A \cap B = {},
         NEW f, IntegersOn(f, A \cup B)
  PROVE  SumOver(f, A \cup B) = SumOver(f, A) + SumOver(f, B)
<1> DEFINE G == {T \in SUBSET A : SumOver(f, T \cup B) = SumOver(f, T) + SumOver(f, B)}
<1>0. SumOver(f, B) \in Int /\ \A T \in SUBSET A : SumOver(f, T) \in Int
  <2>1. IntegersOn(f, A) /\ IntegersOn(f, B)
    BY DEF IntegersOn
  <2> QED
    BY <2>1, SumOverType
<1>1. ASSUME NEW T \in SUBSET A, \A U \in SUBSET T : U # T => U \in G
      PROVE  T \in G
  <2>1. CASE T = {}
    <3>1. T \cup B = B
      BY <2>1
    <3>2. SumOver(f, T) = 0
      BY <2>1, SumOverEmpty
    <3>3. SumOver(f, B) = 0 + SumOver(f, B)
      BY <1>0
    <3>4. SumOver(f, T \cup B) = SumOver(f, T) + SumOver(f, B)
      BY <3>1, <3>2, <3>3, Zenon
    <3> QED
      BY <3>4
  <2>2. CASE T # {}
    <3>1. PICK y \in T : TRUE
      BY <2>2
    <3> DEFINE U == T \ {y}
    <3>2. /\ U \in G /\ U \cup {y} = T /\ y \notin U /\ y \notin U \cup B
          /\ (U \cup B) \cup {y} = T \cup B
      BY <1>1, <3>1
    <3>3. /\ IsFiniteSet(U) /\ IsFiniteSet(U \cup B)
          /\ IntegersOn(f, U \cup {y}) /\ IntegersOn(f, (U \cup B) \cup {y})
      <4>1. IsFiniteSet(T)
        BY FS_Subset
      <4>2. IsFiniteSet(U)
        BY <4>1, FS_RemoveElement
      <4> QED
        BY <4>2, FS_Union DEF IntegersOn
    <3>4. f[y] \in Int /\ SumOver(f, U) \in Int
      BY <1>0, <3>1 DEF IntegersOn
    <3> HIDE DEF U
    <3>5. SumOver(f, U \cup {y}) = f[y] + SumOver(f, U)
      BY <3>2, <3>3, SumOverAdd
    <3>6. SumOver(f, (U \cup B) \cup {y}) = f[y] + SumOver(f, U \cup B)
      BY <3>2, <3>3, SumOverAdd
    <3>7. SumOver(f, U \cup B) = SumOver(f, U) + SumOver(f, B)
      BY <3>2
    <3>8. SumOver(f, T) = f[y] + SumOver(f, U) /\ SumOver(f, T \cup B) = f[y] + SumOver(f, U \cup B)
      BY <3>2, <3>5, <3>6
    <3>9. SumOver(f, T \cup B) = SumOver(f, T) + SumOver(f, B)
      BY <1>0, <3>4, <3>7, <3>8
    <3> QED
      BY <3>9
  <2> QED
    BY <2>1, <2>2
<1> HIDE DEF G
<1>2. SUBSET A \subseteq G
  BY <1>1, SubsetInduction
<1> QED
  BY <1>2 DEF G

\* Leaving values out that are not negative does not add to the sum, and
\* leaving zeros out does not change it.
LEMMA SumOverPart ==
  ASSUME NEW S, IsFiniteSet(S), NEW T \in SUBSET S, NEW f, \A x \in S : f[x] \in Nat
  PROVE  /\ SumOver(f, T) <= SumOver(f, S)
         /\ (\A x \in S \ T : f[x] = 0) => SumOver(f, T) = SumOver(f, S)
<1> DEFINE G == {R \in SUBSET (S \ T) : (\A x \in R : f[x] = 0) => SumOver(f, R) = 0}
           rest == S \ T
<1>1. /\ IsFiniteSet(T) /\ IsFiniteSet(rest) /\ T \cup rest = S /\ T \cap rest = {}
      /\ IntegersOn(f, S)
  <2>1. rest \in SUBSET S
    OBVIOUS
  <2>2. IsFiniteSet(T) /\ IsFiniteSet(rest)
    BY <2>1, FS_Subset
  <2> QED
    BY <2>2 DEF IntegersOn
<1>2. \A R \in SUBSET S : SumOver(f, R) \in Nat
  BY <1>1, SumOverType
<1>3. ASSUME NEW R \in SUBSET rest, \A U \in SUBSET R : U # R => U \in G
      PROVE  R \in G
  <2> SUFFICES ASSUME \A x \in R : f[x] = 0 PROVE SumOver(f, R) = 0
    OBVIOUS
  <2>1. CASE R = {}
    BY <2>1, SumOverEmpty
  <2>2. CASE R # {}
    <3>1. Pick(R) \in R
      BY <2>2, PickInSet
    <3>2. SumOver(f, R \ {Pick(R)}) = 0
      BY <1>3, <3>1
    <3>3. SumOver(f, R) = f[Pick(R)] + SumOver(f, R \ {Pick(R)})
      BY <2>2, SumOverPick
    <3> QED
      BY <3>1, <3>2, <3>3
  <2> QED
    BY <2>1, <2>2
<1>4. SUBSET rest \subseteq G
  <2> HIDE DEF G, rest
  <2> QED
    BY <1>1, <1>3, SubsetInduction
<1>5. (\A x \in rest : f[x] = 0) => SumOver(f, rest) = 0
  <2>1. rest \in SUBSET rest
    OBVIOUS
  <2> QED
    BY <1>4, <2>1
<1>6. SumOver(f, T \cup rest) = SumOver(f, T) + SumOver(f, rest)
  <2> HIDE DEF rest
  <2> QED
    BY <1>1, SumOverUnion
<1>7. SumOver(f, T) \in Nat /\ SumOver(f, rest) \in Nat
  BY <1>2
<1>8. SumOver(f, S) = SumOver(f, T) + SumOver(f, rest)
  BY <1>1, <1>6
<1> HIDE DEF rest
<1>9. SumOver(f, T) <= SumOver(f, S)
  BY <1>7, <1>8
<1>10. SumOver(f, rest) = 0 => SumOver(f, T) = SumOver(f, S)
  BY <1>7, <1>8
<1> QED
  BY <1>5, <1>9, <1>10 DEF rest

\* A sum over a field of records is one over a function.
LEMMA UnitsAreSums ==
  ASSUME NEW h, NEW S, IsFiniteSet(S), NEW f, \A k \in S : f[k] = h[k].qty
  PROVE  MapThenSumSet(LAMBDA k : h[k].qty, S) = SumOver(f, S)
<1> DEFINE Adds(g) == g = [s \in SUBSET S |-> IF s = {} THEN 0
                                              ELSE h[Pick(s)].qty + g[s \ {Pick(s)}]]
           c == CHOOSE g : Adds(g)
<1>1. MapThenSumSet(LAMBDA k : h[k].qty, S) = c[S]
  BY DEF MapThenSumSet, MapThenFoldSet, Pick
<1>2. \A g : Adds(g) <=> Summing(g, f, S)
  <2> SUFFICES ASSUME NEW g PROVE Adds(g) <=> Summing(g, f, S)
    OBVIOUS
  <2>1. \A s \in SUBSET S : s # {} => h[Pick(s)].qty = f[Pick(s)]
    BY PickInSet
  <2> QED
    BY <2>1 DEF Summing
<1>3. \E g : Summing(g, f, S)
  BY SummingExists
<1> HIDE DEF Adds
<1>4. Summing(c, f, S)
  <2>1. \E g : Adds(g)
    BY <1>2, <1>3
  <2>2. Adds(c)
    BY <2>1
  <2> HIDE DEF c
  <2> QED
    BY <1>2, <2>2
<1> HIDE DEF c
<1>5. \A T \in SUBSET S : SumOver(f, T) = c[T]
  BY <1>4, SumOverSumming
<1> QED
  BY <1>1, <1>5

=============================================================================
