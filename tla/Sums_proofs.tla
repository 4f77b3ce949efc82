------------------------------ MODULE Sums_proofs -------------------------------
(***************************************************************************)
(* What a sum over a finite set is, proved from the recursive function it  *)
(* is defined by.                                                          *)
(*                                                                         *)
(* The induction theorems of the library take a predicate and cannot be    *)
(* cited here.  The induction is done on sets instead: if a fact fails for *)
(* some subset of a finite set then there is one for which it fails and    *)
(* which has no smaller one (SmallestExists).                              *)
(***************************************************************************)
EXTENDS Sums, FiniteSetTheorems, TLAPS

-------------------------------------------------------------------------------
(* The recursion behind a sum *)

Picked(s) == CHOOSE x \in s : TRUE

Step(f, g, s) == IF s = {} THEN 0 ELSE f[Picked(s)] + g[s \ {Picked(s)}]

Solves(g, f, S) == g = [s \in SUBSET S |-> Step(f, g, s)]

Solution(f, S) == CHOOSE g : Solves(g, f, S)

LEMMA SumIsSolution ==
  ASSUME NEW f, NEW S
  PROVE  SumOver(f, S) = Solution(f, S)[S]
BY DEF SumOver, MapThenSumSet, MapThenFoldSet, Solution, Solves, Step, Picked

LEMMA PickedIsIn ==
  ASSUME NEW s, s # {}
  PROVE  Picked(s) \in s
BY DEF Picked

\* A non-empty set of subsets of a finite set has one with no smaller one in it.
LEMMA SmallestExists ==
  ASSUME NEW S, IsFiniteSet(S), NEW Sets, Sets \subseteq SUBSET S, Sets # {}
  PROVE  \E s \in Sets : \A t \in Sets : t \subseteq s => t = s
<1> DEFINE smaller == StrictSubsetOrdering(S)
<1>1. IsWellFoundedOn(smaller, SUBSET S)
  BY FS_StrictSubsetOrderingWellFounded, FS_FiniteSubsetsOfFinite
<1> HIDE DEF smaller
<1>2. PICK s \in Sets : \A t \in Sets : <<t, s>> \notin smaller
  BY <1>1, WFMin
<1>3. \A t \in Sets : t \subseteq s => t = s
  <2> SUFFICES ASSUME NEW t \in Sets, t \subseteq s, t # s PROVE FALSE
    OBVIOUS
  <2>1. <<t, s>> \in smaller
    BY DEF smaller, StrictSubsetOrdering
  <2> QED BY <1>2, <2>1
<1> QED BY <1>3

\* Two solutions agree where both say something.
LEMMA SolutionsAgree ==
  ASSUME NEW S, IsFiniteSet(S), NEW f,
         NEW A \in SUBSET S, NEW g, Solves(g, f, A),
         NEW B \in SUBSET S, NEW h, Solves(h, f, B)
  PROVE  \A s \in SUBSET (A \cap B) : g[s] = h[s]
<1> DEFINE bad == {s \in SUBSET (A \cap B) : g[s] # h[s]}
<1>0. bad \subseteq SUBSET S
  OBVIOUS
<1> SUFFICES ASSUME bad # {} PROVE FALSE
  OBVIOUS
<1> HIDE DEF bad
<1>1. PICK s \in bad : \A t \in bad : t \subseteq s => t = s
  BY <1>0, SmallestExists
<1> USE DEF bad
<1>2. /\ s \in SUBSET A /\ s \in SUBSET B /\ g[s] # h[s]
      /\ g[s] = Step(f, g, s) /\ h[s] = Step(f, h, s)
  <2>1. s \in SUBSET A /\ s \in SUBSET B /\ g[s] # h[s]
    BY <1>1
  <2> HIDE DEF bad
  <2>2. g[s] = Step(f, g, s)
    BY <2>1 DEF Solves
  <2>3. h[s] = Step(f, h, s)
    BY <2>1 DEF Solves
  <2> QED BY <2>1, <2>2, <2>3
<1>3. s # {}
  BY <1>2 DEF Step
<1>4. Picked(s) \in s
  BY <1>3, PickedIsIn
<1>5. s \ {Picked(s)} \notin bad
  BY <1>1, <1>4
<1>6. g[s \ {Picked(s)}] = h[s \ {Picked(s)}]
  BY <1>2, <1>5
<1> QED BY <1>2, <1>6 DEF Step

LEMMA SolutionExists ==
  ASSUME NEW S, IsFiniteSet(S), NEW f
  PROVE  Solves(Solution(f, S), f, S)
<1> DEFINE bad == {T \in SUBSET S : ~ \E g : Solves(g, f, T)}
<1>1. bad = {}
  <2> SUFFICES ASSUME bad # {} PROVE FALSE
    OBVIOUS
  <2>0. bad \subseteq SUBSET S
    OBVIOUS
  <2> HIDE DEF bad
  <2>1. PICK T \in bad : \A U \in bad : U \subseteq T => U = T
    BY <2>0, SmallestExists
  <2> USE DEF bad
  <2>2. \A U \in SUBSET T : U # T => Solves(Solution(f, U), f, U)
    <3> SUFFICES ASSUME NEW U \in SUBSET T, U # T PROVE Solves(Solution(f, U), f, U)
      OBVIOUS
    <3>1. \E g : Solves(g, f, U)
      BY <2>1
    <3> QED BY <3>1 DEF Solution
  <2> DEFINE rest(s) == s \ {Picked(s)}
             h == [s \in SUBSET T |-> Step(f, Solution(f, rest(s)), s)]
  <2>3. \A s \in SUBSET T : s # {} => /\ Picked(s) \in s
                                      /\ rest(s) \in SUBSET T /\ rest(s) # T
    BY PickedIsIn
  <2>4. ASSUME NEW u \in SUBSET T, u # T PROVE h[u] = Solution(f, u)[u]
    <3>1. Solution(f, u)[u] = Step(f, Solution(f, u), u)
      BY <2>2, <2>4 DEF Solves
    <3>2. CASE u = {}
      BY <3>1, <3>2 DEF Step
    <3>3. CASE u # {}
      <4>1. Solution(f, rest(u))[rest(u)] = Solution(f, u)[rest(u)]
        <5>1. rest(u) \in SUBSET u /\ rest(u) # T /\ u \in SUBSET S
          BY <2>1, <2>3, <3>3
        <5>2. Solves(Solution(f, rest(u)), f, rest(u)) /\ Solves(Solution(f, u), f, u)
          BY <2>2, <2>4, <5>1
        <5>3. rest(u) \in SUBSET S /\ rest(u) \in SUBSET (rest(u) \cap u)
          <6> HIDE DEF rest, bad, h
          <6>1. \A x \in rest(u) : x \in u /\ x \in S
            BY <5>1
          <6> QED BY <6>1
        <5> HIDE DEF rest
        <5>4. \A s \in SUBSET (rest(u) \cap u) : Solution(f, rest(u))[s] = Solution(f, u)[s]
          <6> HIDE DEF bad, h
          <6>1. u \in SUBSET S /\ rest(u) \in SUBSET S
            BY <5>1, <5>3
          <6>2. Solves(Solution(f, rest(u)), f, rest(u)) /\ Solves(Solution(f, u), f, u)
            BY <5>2
          <6> QED BY <6>1, <6>2, SolutionsAgree
        <5> QED BY <5>3, <5>4
      <4> QED BY <3>1, <3>3, <4>1 DEF Step
    <3> QED BY <3>2, <3>3
  <2>5. ASSUME NEW s \in SUBSET T PROVE h[s] = Step(f, h, s)
    <3>1. CASE s = {}
      BY <3>1 DEF Step
    <3>2. CASE s # {}
      <4>1. h[rest(s)] = Solution(f, rest(s))[rest(s)]
        BY <2>3, <2>4, <3>2
      <4> QED BY <3>2, <4>1 DEF Step
    <3> QED BY <3>1, <3>2
  <2>6. h = [s \in SUBSET T |-> h[s]]
    OBVIOUS
  <2> HIDE DEF h
  <2>7. Solves(h, f, T)
    BY <2>5, <2>6 DEF Solves
  <2> QED BY <2>1, <2>7
<1>2. \E g : Solves(g, f, S)
  BY <1>1
<1> QED BY <1>2 DEF Solution

-------------------------------------------------------------------------------
(* Sums *)

LEMMA SumEmpty ==
  ASSUME NEW f
  PROVE  SumOver(f, {}) = 0
<1>1. Solves(Solution(f, {}), f, {})
  BY SolutionExists, FS_EmptySet
<1> QED BY <1>1, SumIsSolution DEF Solves, Step

LEMMA SumUnfolds ==
  ASSUME NEW S, IsFiniteSet(S), S # {}, NEW f
  PROVE  SumOver(f, S) = f[Picked(S)] + SumOver(f, S \ {Picked(S)})
<1> DEFINE rest == S \ {Picked(S)}
<1>1. IsFiniteSet(rest)
  BY FS_Subset
<1>2. Solves(Solution(f, S), f, S) /\ Solves(Solution(f, rest), f, rest)
  BY <1>1, SolutionExists
<1> HIDE DEF rest
<1>3. rest \in SUBSET S
  BY DEF rest
<1>4. Solution(f, S)[rest] = Solution(f, rest)[rest]
  <2>1. \A s \in SUBSET (S \cap rest) : Solution(f, S)[s] = Solution(f, rest)[s]
    <3>1. S \in SUBSET S
      OBVIOUS
    <3> QED BY <1>2, <1>3, <3>1, SolutionsAgree
  <2>2. rest \in SUBSET (S \cap rest)
    BY <1>3
  <2> QED BY <2>1, <2>2
<1>5. Solution(f, S)[S] = f[Picked(S)] + Solution(f, S)[rest]
  BY <1>2 DEF Solves, Step, rest
<1> QED BY <1>4, <1>5, SumIsSolution DEF rest

LEMMA SumIsInt ==
  ASSUME NEW S, IsFiniteSet(S), NEW f, \A x \in S : f[x] \in Int
  PROVE  SumOver(f, S) \in Int
<1> DEFINE bad == {T \in SUBSET S : SumOver(f, T) \notin Int}
<1>0. bad \subseteq SUBSET S
  OBVIOUS
<1> SUFFICES ASSUME bad # {} PROVE FALSE
  OBVIOUS
<1> HIDE DEF bad
<1>1. PICK T \in bad : \A U \in bad : U \subseteq T => U = T
  BY <1>0, SmallestExists
<1> USE DEF bad
<1>2. T # {}
  <2> SUFFICES ASSUME T = {} PROVE FALSE
    OBVIOUS
  <2>1. SumOver(f, T) = 0
    BY SumEmpty
  <2> QED BY <1>1, <2>1
<1>3. Picked(T) \in T
  BY <1>2, PickedIsIn
<1>4. IsFiniteSet(T)
  BY <1>1, FS_Subset
<1>5. SumOver(f, T) = f[Picked(T)] + SumOver(f, T \ {Picked(T)})
  BY <1>2, <1>4, SumUnfolds
<1>6. SumOver(f, T \ {Picked(T)}) \in Int
  BY <1>1, <1>3
<1>7. f[Picked(T)] \in Int
  BY <1>1, <1>3
<1> QED BY <1>1, <1>5, <1>6, <1>7

\* The order in which a sum is taken does not matter.
LEMMA SumRemoves ==
  ASSUME NEW S, IsFiniteSet(S), NEW f, \A x \in S : f[x] \in Int, NEW x \in S
  PROVE  SumOver(f, S) = f[x] + SumOver(f, S \ {x})
<1> DEFINE Right(T, y) == SumOver(f, T) = f[y] + SumOver(f, T \ {y})
           bad == {T \in SUBSET S : \E y \in T : ~Right(T, y)}
<1>0. bad \subseteq SUBSET S
  OBVIOUS
<1> SUFFICES ASSUME bad # {} PROVE FALSE
  OBVIOUS
<1> HIDE DEF bad
<1>1. PICK T \in bad : \A U \in bad : U \subseteq T => U = T
  BY <1>0, SmallestExists
<1> USE DEF bad
<1>2. PICK y \in T : ~Right(T, y)
  BY <1>1
<1> DEFINE z == Picked(T)
<1>3. z \in T /\ T \in SUBSET S /\ IsFiniteSet(T)
  BY <1>1, <1>2, PickedIsIn, FS_Subset
<1>4. Right(T, z)
  BY <1>3, SumUnfolds
<1>5. y # z
  BY <1>2, <1>4
<1> HIDE DEF z
<1>6. Right(T \ {z}, y) /\ Right(T \ {y}, z)
  <2>1. T \ {z} \notin bad /\ T \ {y} \notin bad
    BY <1>1, <1>2, <1>3
  <2>2. /\ T \ {z} \in SUBSET S /\ y \in T \ {z}
        /\ T \ {y} \in SUBSET S /\ z \in T \ {y}
    BY <1>2, <1>3, <1>5
  <2> QED BY <2>1, <2>2
<1>7. (T \ {z}) \ {y} = (T \ {y}) \ {z}
  OBVIOUS
<1>8. f[y] \in Int /\ f[z] \in Int /\ SumOver(f, (T \ {y}) \ {z}) \in Int
  <2>1. IsFiniteSet((T \ {y}) \ {z})
    BY <1>3, FS_Subset
  <2>2. \A v \in (T \ {y}) \ {z} : f[v] \in Int
    BY <1>3
  <2> QED BY <1>2, <1>3, <2>1, <2>2, SumIsInt
<1>9. SumOver(f, T) = f[y] + SumOver(f, T \ {y})
  <2> DEFINE both == SumOver(f, (T \ {y}) \ {z})
  <2>1. both \in Int
    BY <1>8
  <2>2. SumOver(f, T) = f[z] + SumOver(f, T \ {z}) /\ SumOver(f, T \ {z}) = f[y] + both
    BY <1>4, <1>6, <1>7
  <2>3. SumOver(f, T \ {y}) = f[z] + both
    BY <1>6
  <2> HIDE DEF both
  <2> QED BY <1>8, <2>1, <2>2, <2>3
<1> QED BY <1>2, <1>9

LEMMA SumAdds ==
  ASSUME NEW S, IsFiniteSet(S), NEW x, x \notin S, NEW f, \A y \in S \cup {x} : f[y] \in Int
  PROVE  SumOver(f, S \cup {x}) = SumOver(f, S) + f[x]
<1>1. IsFiniteSet(S \cup {x}) /\ (S \cup {x}) \ {x} = S
  BY FS_AddElement
<1>2. SumOver(f, S \cup {x}) = f[x] + SumOver(f, S)
  BY <1>1, SumRemoves
<1>3. SumOver(f, S) \in Int /\ f[x] \in Int
  BY SumIsInt
<1> QED BY <1>2, <1>3

\* Two sums compare as their summands do.
LEMMA SumGrows ==
  ASSUME NEW S, IsFiniteSet(S), NEW f, NEW g,
         \A x \in S : f[x] \in Int /\ g[x] \in Int /\ f[x] <= g[x]
  PROVE  SumOver(f, S) <= SumOver(g, S)
<1> DEFINE bad == {T \in SUBSET S : ~(SumOver(f, T) <= SumOver(g, T))}
<1>0. bad \subseteq SUBSET S
  OBVIOUS
<1> SUFFICES ASSUME bad # {} PROVE FALSE
  OBVIOUS
<1> HIDE DEF bad
<1>1. PICK T \in bad : \A U \in bad : U \subseteq T => U = T
  BY <1>0, SmallestExists
<1> USE DEF bad
<1>2. T # {}
  <2> SUFFICES ASSUME T = {} PROVE FALSE
    OBVIOUS
  <2>1. SumOver(f, T) = 0 /\ SumOver(g, T) = 0
    BY SumEmpty
  <2> QED BY <1>1, <2>1
<1> DEFINE y == Picked(T)
<1>3. y \in T /\ T \in SUBSET S /\ IsFiniteSet(T) /\ IsFiniteSet(T \ {y})
  BY <1>1, <1>2, PickedIsIn, FS_Subset
<1>4. /\ SumOver(f, T) = f[y] + SumOver(f, T \ {y})
      /\ SumOver(g, T) = g[y] + SumOver(g, T \ {y})
  BY <1>3, SumRemoves
<1>5. SumOver(f, T \ {y}) <= SumOver(g, T \ {y})
  BY <1>1, <1>3
<1>6. SumOver(f, T \ {y}) \in Int /\ SumOver(g, T \ {y}) \in Int
  BY <1>3, SumIsInt
<1>7. f[y] \in Int /\ g[y] \in Int /\ f[y] <= g[y]
  BY <1>3
<1> QED BY <1>1, <1>4, <1>5, <1>6, <1>7

LEMMA SumSame ==
  ASSUME NEW S, IsFiniteSet(S), NEW f, NEW g,
         \A x \in S : f[x] \in Int /\ g[x] = f[x]
  PROVE  SumOver(g, S) = SumOver(f, S)
<1>1. SumOver(f, S) <= SumOver(g, S) /\ SumOver(g, S) <= SumOver(f, S)
  BY SumGrows
<1>2. SumOver(f, S) \in Int /\ SumOver(g, S) \in Int
  BY SumIsInt
<1> QED BY <1>1, <1>2

LEMMA SumIsNat ==
  ASSUME NEW S, IsFiniteSet(S), NEW f, \A x \in S : f[x] \in Nat
  PROVE  SumOver(f, S) \in Nat
<1> DEFINE bad == {T \in SUBSET S : SumOver(f, T) \notin Nat}
<1>0. bad \subseteq SUBSET S
  OBVIOUS
<1> SUFFICES ASSUME bad # {} PROVE FALSE
  OBVIOUS
<1> HIDE DEF bad
<1>1. PICK T \in bad : \A U \in bad : U \subseteq T => U = T
  BY <1>0, SmallestExists
<1> USE DEF bad
<1>2. T # {}
  <2> SUFFICES ASSUME T = {} PROVE FALSE
    OBVIOUS
  <2>1. SumOver(f, T) = 0
    BY SumEmpty
  <2> QED BY <1>1, <2>1
<1> DEFINE y == Picked(T)
<1>3. y \in T /\ T \in SUBSET S /\ IsFiniteSet(T)
  BY <1>1, <1>2, PickedIsIn, FS_Subset
<1>4. SumOver(f, T) = f[y] + SumOver(f, T \ {y})
  BY <1>2, <1>3, SumUnfolds
<1>5. SumOver(f, T \ {y}) \in Nat /\ f[y] \in Nat
  BY <1>1, <1>3
<1> QED BY <1>1, <1>4, <1>5

LEMMA SumOfZeros ==
  ASSUME NEW S, IsFiniteSet(S), NEW f, \A x \in S : f[x] = 0
  PROVE  SumOver(f, S) = 0
<1> DEFINE bad == {T \in SUBSET S : SumOver(f, T) # 0}
<1>0. bad \subseteq SUBSET S
  OBVIOUS
<1> SUFFICES ASSUME bad # {} PROVE FALSE
  OBVIOUS
<1> HIDE DEF bad
<1>1. PICK T \in bad : \A U \in bad : U \subseteq T => U = T
  BY <1>0, SmallestExists
<1> USE DEF bad
<1>2. T # {}
  <2> SUFFICES ASSUME T = {} PROVE FALSE
    OBVIOUS
  <2>1. SumOver(f, T) = 0
    BY SumEmpty
  <2> QED BY <1>1, <2>1
<1> DEFINE y == Picked(T)
<1>3. y \in T /\ T \in SUBSET S /\ IsFiniteSet(T)
  BY <1>1, <1>2, PickedIsIn, FS_Subset
<1>4. SumOver(f, T) = f[y] + SumOver(f, T \ {y})
  BY <1>2, <1>3, SumUnfolds
<1>5. SumOver(f, T \ {y}) = 0 /\ f[y] = 0
  BY <1>1, <1>3
<1> QED BY <1>1, <1>4, <1>5

\* One summand is no more than the sum.
LEMMA SumHolds ==
  ASSUME NEW S, IsFiniteSet(S), NEW f, \A y \in S : f[y] \in Nat, NEW x \in S
  PROVE  f[x] <= SumOver(f, S)
<1>1. IsFiniteSet(S \ {x})
  BY FS_Subset
<1>2. SumOver(f, S) = f[x] + SumOver(f, S \ {x})
  BY SumRemoves
<1>3. SumOver(f, S \ {x}) \in Nat
  BY <1>1, SumIsNat
<1> QED BY <1>2, <1>3

\* A sum of fewer summands, none of them negative, is no greater.
LEMMA SumOfFewer ==
  ASSUME NEW S, IsFiniteSet(S), NEW f, \A y \in S : f[y] \in Nat, NEW P, P \subseteq S
  PROVE  SumOver(f, P) <= SumOver(f, S)
<1> DEFINE bad == {T \in SUBSET S : P \subseteq T /\ ~(SumOver(f, P) <= SumOver(f, T))}
<1>0. bad \subseteq SUBSET S
  OBVIOUS
<1> SUFFICES ASSUME bad # {} PROVE FALSE
  OBVIOUS
<1> HIDE DEF bad
<1>1. PICK T \in bad : \A U \in bad : U \subseteq T => U = T
  BY <1>0, SmallestExists
<1> USE DEF bad
<1>2. P \subseteq T /\ T \in SUBSET S /\ IsFiniteSet(T) /\ IsFiniteSet(P)
  BY <1>1, FS_Subset
<1>3. SumOver(f, P) \in Nat
  BY <1>2, SumIsNat
<1>4. PICK y \in T : y \notin P
  <2> SUFFICES ASSUME T = P PROVE FALSE
    BY <1>2
  <2> QED BY <1>1, <1>3
<1>5. SumOver(f, T) = f[y] + SumOver(f, T \ {y})
  BY <1>2, SumRemoves
<1>6. IsFiniteSet(T \ {y})
  BY <1>2, FS_Subset
<1>7. SumOver(f, T \ {y}) \in Nat /\ f[y] \in Nat
  BY <1>2, <1>6, SumIsNat
<1>8. SumOver(f, P) <= SumOver(f, T \ {y})
  BY <1>1, <1>2, <1>4
<1> QED BY <1>1, <1>3, <1>5, <1>7, <1>8

\* A sum in which one summand has changed.
LEMMA SumChanges ==
  ASSUME NEW S, IsFiniteSet(S), NEW x \in S, NEW f, NEW g,
         \A y \in S : f[y] \in Int /\ g[y] \in Int,
         \A y \in S : y # x => g[y] = f[y]
  PROVE  SumOver(g, S) = SumOver(f, S) - f[x] + g[x]
<1> DEFINE rest == S \ {x}
<1>1. IsFiniteSet(rest)
  BY FS_Subset
<1>2. SumOver(g, rest) = SumOver(f, rest)
  BY <1>1, SumSame
<1>3. SumOver(f, S) = f[x] + SumOver(f, rest) /\ SumOver(g, S) = g[x] + SumOver(g, rest)
  BY SumRemoves
<1>4. SumOver(f, rest) \in Int /\ f[x] \in Int /\ g[x] \in Int
  BY <1>1, SumIsInt
<1> HIDE DEF rest
<1> QED BY <1>2, <1>3, <1>4
===============================================================================
