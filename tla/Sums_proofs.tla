-------------------------------- MODULE Sums_proofs --------------------------------
(***************************************************************************)
(* What SumOver computes, for every finite set.  The fold it is defined by *)
(* is a function that is defined by recursion over the subsets of the set. *)
(* Induction over these subsets is the fact that a non-empty collection of *)
(* subsets of a finite set has a smallest one: to show that all subsets    *)
(* have a property, consider a smallest one that has not.                  *)
(***************************************************************************)
EXTENDS Sums, FiniteSetTheorems, TLAPS

(* The element the fold takes next, and the equation its function solves. *)
Pick(s) == CHOOSE x \in s : TRUE
IsSum(f, w, S) ==
    f = [s \in SUBSET S |-> IF s = {} THEN 0 ELSE w[Pick(s)] + f[s \ {Pick(s)}]]
SumsBelow(w, S) == CHOOSE f : IsSum(f, w, S)

LEMMA SumOverIsFunction ==
    ASSUME NEW w, NEW S
    PROVE  SumOver(w, S) = SumsBelow(w, S)[S]
  BY DEF SumOver, MapThenSumSet, MapThenFoldSet, SumsBelow, IsSum, Pick

(* The induction principle. *)
LEMMA SmallestSubset ==
    ASSUME NEW S, IsFiniteSet(S), NEW B, B \subseteq SUBSET S, B # {}
    PROVE  \E T \in B : \A U \in SUBSET T : U # T => U \notin B
<1>1. IsWellFoundedOn(StrictSubsetOrdering(S), SUBSET S)
  BY FS_StrictSubsetOrderingWellFounded, FS_FiniteSubsetsOfFinite
<1>2. PICK T \in B : \A U \in B : <<U, T>> \notin StrictSubsetOrdering(S)
  BY <1>1, WFMin
<1>3. \A U \in SUBSET T : U # T => U \notin B
  BY <1>2 DEF StrictSubsetOrdering
<1>4. QED
  BY <1>2, <1>3

LEMMA PickMember ==
    ASSUME NEW S, S # {}
    PROVE  Pick(S) \in S
  BY DEF Pick

------------------------------------------------------------------------------------
(* The equation has one solution... *)
LEMMA SumsAgree ==
    ASSUME NEW w, NEW U, NEW V \in SUBSET U, IsFiniteSet(V), NEW f, NEW g,
           IsSum(f, w, U), IsSum(g, w, V)
    PROVE  \A s \in SUBSET V : f[s] = g[s]
<1> DEFINE B == {s \in SUBSET V : f[s] # g[s]}
<1>1. SUFFICES ASSUME B # {} PROVE FALSE
  OBVIOUS
<1>b. B \subseteq SUBSET V
  OBVIOUS
<1>2. PICK T \in B : \A s \in SUBSET T : s # T => s \notin B
  <2> HIDE DEF B
  <2>1. QED
    BY <1>1, <1>b, SmallestSubset
<1>3. CASE T = {}
  BY <1>2, <1>3 DEF IsSum
<1>4. CASE T # {}
  <2> DEFINE R == T \ {Pick(T)}
  <2>1. R \in SUBSET T /\ R # T
    BY <1>4, PickMember
  <2>2. f[R] = g[R]
    BY <2>1, <1>2
  <2>3. f[T] = w[Pick(T)] + f[R] /\ g[T] = w[Pick(T)] + g[R]
    BY <1>4 DEF IsSum
  <2>4. QED
    BY <2>2, <2>3
<1>5. QED
  BY <1>3, <1>4

(* ... for every finite set: the solution for a set is put together from *)
(* those for its proper subsets, which agree.                            *)
LEMMA SumExists ==
    ASSUME NEW w, NEW S, IsFiniteSet(S)
    PROVE  IsSum(SumsBelow(w, S), w, S)
<1> DEFINE B == {T \in SUBSET S : ~\E f : IsSum(f, w, T)}
<1>1. SUFFICES ASSUME B # {} PROVE FALSE
  BY DEF SumsBelow
<1>b. B \subseteq SUBSET S
  OBVIOUS
<1>2. PICK T \in B : \A U \in SUBSET T : U # T => U \notin B
  <2> HIDE DEF B
  <2>1. QED
    BY <1>1, <1>b, SmallestSubset
<1>3. \A U \in SUBSET T : U # T => IsSum(SumsBelow(w, U), w, U) /\ IsFiniteSet(U)
  BY <1>2, FS_Subset DEF SumsBelow
<1> DEFINE less(s) == s \ {Pick(s)}
           h == [s \in SUBSET T |-> IF s = {} THEN 0
                                    ELSE w[Pick(s)] + SumsBelow(w, less(s))[less(s)]]
<1>4. ASSUME NEW s \in SUBSET T, s # {}
      PROVE  h[less(s)] = SumsBelow(w, less(s))[less(s)]
  <2> DEFINE u == less(s)
  <2>1. u \in SUBSET T /\ u # T
    BY <1>4, PickMember
  <2>2. IsSum(SumsBelow(w, u), w, u) /\ IsFiniteSet(u)
    BY <2>1, <1>3
  <2>3. CASE u = {}
    BY <2>1, <2>2, <2>3 DEF IsSum
  <2>4. CASE u # {}
    <3>1. less(u) \in SUBSET u /\ less(u) \in SUBSET T /\ less(u) # T
      BY <2>1
    <3>2. IsSum(SumsBelow(w, less(u)), w, less(u)) /\ IsFiniteSet(less(u))
      BY <3>1, <1>3
    <3>3. SumsBelow(w, u)[less(u)] = SumsBelow(w, less(u))[less(u)]
      <4> HIDE DEF u, less
      <4>1. \A t \in SUBSET less(u) :
                SumsBelow(w, u)[t] = SumsBelow(w, less(u))[t]
        BY <2>2, <3>1, <3>2, SumsAgree
      <4>2. QED
        BY <4>1
    <3>4. SumsBelow(w, u)[u] = w[Pick(u)] + SumsBelow(w, u)[less(u)]
      BY <2>2, <2>4 DEF IsSum
    <3>5. h[u] = w[Pick(u)] + SumsBelow(w, less(u))[less(u)]
      BY <2>1, <2>4
    <3>6. QED
      BY <3>3, <3>4, <3>5
  <2>5. QED
    BY <2>3, <2>4
<1>5. h = [s \in SUBSET T |-> IF s = {} THEN 0 ELSE w[Pick(s)] + h[s \ {Pick(s)}]]
  BY <1>4
<1>6. IsSum(h, w, T)
  BY <1>5 DEF IsSum
<1>7. QED
  BY <1>6, <1>2

(* The function for S computes the sum of every subset of S. *)
LEMMA SumOfPart ==
    ASSUME NEW w, NEW S, IsFiniteSet(S), NEW T \in SUBSET S
    PROVE  SumsBelow(w, S)[T] = SumOver(w, T)
<1>1. IsFiniteSet(T)
  BY FS_Subset
<1>2. IsSum(SumsBelow(w, S), w, S) /\ IsSum(SumsBelow(w, T), w, T)
  BY <1>1, SumExists
<1>3. SumsBelow(w, S)[T] = SumsBelow(w, T)[T]
  BY <1>1, <1>2, SumsAgree
<1>4. QED
  BY <1>3, SumOverIsFunction

------------------------------------------------------------------------------------
(* The facts about sums that the other proofs use. *)
LEMMA SumEmpty == \A w : SumOver(w, {}) = 0
<1> SUFFICES ASSUME NEW w PROVE SumOver(w, {}) = 0
  OBVIOUS
<1>1. IsSum(SumsBelow(w, {}), w, {})
  BY SumExists, FS_EmptySet
<1>2. QED
  BY <1>1, SumOverIsFunction DEF IsSum

LEMMA SumUnfold ==
    ASSUME NEW w, NEW S, IsFiniteSet(S), S # {}
    PROVE  SumOver(w, S) = w[Pick(S)] + SumOver(w, S \ {Pick(S)})
<1>1. IsSum(SumsBelow(w, S), w, S)
  BY SumExists
<1>2. SumsBelow(w, S)[S] = w[Pick(S)] + SumsBelow(w, S)[S \ {Pick(S)}]
  BY <1>1 DEF IsSum
<1>3. SumsBelow(w, S)[S \ {Pick(S)}] = SumOver(w, S \ {Pick(S)})
  BY SumOfPart
<1>4. QED
  BY <1>2, <1>3, SumOverIsFunction

(* A sum of naturals is a natural. *)
LEMMA SumNat ==
    ASSUME NEW w, NEW S, IsFiniteSet(S), \A x \in S : w[x] \in Nat
    PROVE  SumOver(w, S) \in Nat
<1> DEFINE B == {T \in SUBSET S : SumOver(w, T) \notin Nat}
<1>1. SUFFICES ASSUME B # {} PROVE FALSE
  OBVIOUS
<1>b. B \subseteq SUBSET S
  OBVIOUS
<1>2. PICK T \in B : \A U \in SUBSET T : U # T => U \notin B
  <2> HIDE DEF B
  <2>1. QED
    BY <1>1, <1>b, SmallestSubset
<1>n. SumOver(w, T) \notin Nat
  BY <1>2
<1>3. T # {}
  <2>1. SumOver(w, {}) = 0
    BY SumEmpty
  <2>2. QED
    BY <1>n, <2>1
<1>4. Pick(T) \in T /\ IsFiniteSet(T)
  BY <1>3, PickMember, FS_Subset
<1>5. SumOver(w, T) = w[Pick(T)] + SumOver(w, T \ {Pick(T)})
  BY <1>3, <1>4, SumUnfold
<1>6. SumOver(w, T \ {Pick(T)}) \in Nat
  BY <1>2, <1>4
<1>7. QED
  BY <1>2, <1>4, <1>5, <1>6

(* The order of summation does not matter: any element can be split off. *)
LEMMA SumRemove ==
    ASSUME NEW w, NEW S, IsFiniteSet(S), \A y \in S : w[y] \in Nat, NEW x \in S
    PROVE  SumOver(w, S) = w[x] + SumOver(w, S \ {x})
<1> DEFINE B == {T \in SUBSET S : \E y \in T : SumOver(w, T) # w[y] + SumOver(w, T \ {y})}
<1>1. SUFFICES ASSUME B # {} PROVE FALSE
  OBVIOUS
<1>b. B \subseteq SUBSET S
  OBVIOUS
<1>2. PICK T \in B : \A U \in SUBSET T : U # T => U \notin B
  <2> HIDE DEF B
  <2>1. QED
    BY <1>1, <1>b, SmallestSubset
<1>3. PICK y \in T : SumOver(w, T) # w[y] + SumOver(w, T \ {y})
  BY <1>2
<1> DEFINE z == Pick(T)
<1>4. z \in T /\ IsFiniteSet(T)
  BY <1>3, PickMember, FS_Subset
<1>5. SumOver(w, T) = w[z] + SumOver(w, T \ {z})
  BY <1>3, <1>4, SumUnfold
<1> HIDE DEF z
<1>6. z # y
  BY <1>3, <1>5
<1>7. SumOver(w, T \ {z}) = w[y] + SumOver(w, (T \ {z}) \ {y})
  BY <1>2, <1>3, <1>4, <1>6
<1>8. SumOver(w, T \ {y}) = w[z] + SumOver(w, (T \ {y}) \ {z})
  BY <1>2, <1>3, <1>4, <1>6
<1>9. (T \ {z}) \ {y} = (T \ {y}) \ {z}
  OBVIOUS
<1>10. SumOver(w, (T \ {y}) \ {z}) \in Nat
  <2>1. IsFiniteSet((T \ {y}) \ {z})
    BY <1>4, FS_Subset
  <2>2. QED
    BY <2>1, SumNat
<1>11. w[y] \in Nat /\ w[z] \in Nat
  BY <1>3, <1>4
<1>12. SumOver(w, T) = w[y] + SumOver(w, T \ {y})
  <2> HIDE DEF B
  <2>1. QED
    BY <1>5, <1>7, <1>8, <1>9, <1>10, <1>11
<1>13. QED
  BY <1>3, <1>12

(* A sum depends only on the amounts of the elements. *)
LEMMA SumSame ==
    ASSUME NEW w, NEW u, NEW S, IsFiniteSet(S), \A x \in S : w[x] = u[x]
    PROVE  SumOver(w, S) = SumOver(u, S)
<1> DEFINE B == {T \in SUBSET S : SumOver(w, T) # SumOver(u, T)}
<1>1. SUFFICES ASSUME B # {} PROVE FALSE
  OBVIOUS
<1>b. B \subseteq SUBSET S
  OBVIOUS
<1>2. PICK T \in B : \A U \in SUBSET T : U # T => U \notin B
  <2> HIDE DEF B
  <2>1. QED
    BY <1>1, <1>b, SmallestSubset
<1>3. T # {}
  BY <1>2, SumEmpty
<1>4. Pick(T) \in T /\ IsFiniteSet(T)
  BY <1>3, PickMember, FS_Subset
<1>5. /\ SumOver(w, T) = w[Pick(T)] + SumOver(w, T \ {Pick(T)})
      /\ SumOver(u, T) = u[Pick(T)] + SumOver(u, T \ {Pick(T)})
  BY <1>3, <1>4, SumUnfold
<1>6. SumOver(w, T \ {Pick(T)}) = SumOver(u, T \ {Pick(T)})
  BY <1>2, <1>4
<1>7. QED
  BY <1>2, <1>4, <1>5, <1>6
(* One more element. *)
LEMMA SumAdd ==
    ASSUME NEW w, NEW S, IsFiniteSet(S), \A y \in S : w[y] \in Nat, NEW x, x \notin S, w[x] \in Nat
    PROVE  SumOver(w, S \cup {x}) = SumOver(w, S) + w[x]
<1>1. IsFiniteSet(S \cup {x}) /\ x \in S \cup {x} /\ (S \cup {x}) \ {x} = S
  BY FS_AddElement
<1>2. \A y \in S \cup {x} : w[y] \in Nat
  OBVIOUS
<1>3. SumOver(w, S \cup {x}) = w[x] + SumOver(w, (S \cup {x}) \ {x})
  BY <1>1, <1>2, SumRemove
<1>4. SumOver(w, (S \cup {x}) \ {x}) = SumOver(w, S)
  BY <1>1, Zenon
<1>5. SumOver(w, S) \in Nat
  BY SumNat
<1>6. SumOver(w, S \cup {x}) = w[x] + SumOver(w, S)
  BY <1>3, <1>4, Zenon
<1>7. QED
  BY <1>5, <1>6

(* The amount of one element changes. *)
LEMMA SumChange ==
    ASSUME NEW w, NEW u, NEW S, IsFiniteSet(S), NEW x \in S,
           \A y \in S : w[y] \in Nat /\ u[y] \in Nat,
           \A y \in S \ {x} : u[y] = w[y]
    PROVE  SumOver(u, S) = SumOver(w, S) - w[x] + u[x]
<1>1. IsFiniteSet(S \ {x})
  BY FS_RemoveElement
<1>2. SumOver(u, S \ {x}) = SumOver(w, S \ {x})
  BY <1>1, SumSame
<1>3. SumOver(w, S \ {x}) \in Nat
  BY <1>1, SumNat
<1>4. SumOver(w, S) = w[x] + SumOver(w, S \ {x})
  BY SumRemove
<1>5. SumOver(u, S) = u[x] + SumOver(u, S \ {x})
  BY SumRemove
<1>6. QED
  BY <1>2, <1>3, <1>4, <1>5

(* More elements sum up to no less. *)
LEMMA SumGrows ==
    ASSUME NEW w, NEW T, IsFiniteSet(T), \A y \in T : w[y] \in Nat, NEW S \in SUBSET T
    PROVE  SumOver(w, S) <= SumOver(w, T)
<1> DEFINE B == {X \in SUBSET T : S \subseteq X /\ ~(SumOver(w, S) <= SumOver(w, X))}
<1>1. SUFFICES ASSUME B # {} PROVE FALSE
  OBVIOUS
<1>b. B \subseteq SUBSET T
  OBVIOUS
<1>2. PICK X \in B : \A U \in SUBSET X : U # X => U \notin B
  <2> HIDE DEF B
  <2>1. QED
    BY <1>1, <1>b, SmallestSubset
<1>3. IsFiniteSet(S) /\ SumOver(w, S) \in Nat
  BY FS_Subset, SumNat
<1>4. X # S
  BY <1>2, <1>3
<1>5. PICK x \in X : x \notin S
  BY <1>2, <1>4
<1>6. IsFiniteSet(X) /\ IsFiniteSet(X \ {x}) /\ x \in T
  BY <1>2, <1>5, FS_Subset
<1>7. SumOver(w, X) = w[x] + SumOver(w, X \ {x}) /\ SumOver(w, X \ {x}) \in Nat
  BY <1>2, <1>5, <1>6, SumRemove, SumNat
<1>8. SumOver(w, S) <= SumOver(w, X \ {x})
  BY <1>2, <1>5
<1>9. SumOver(w, S) <= SumOver(w, X)
  <2> HIDE DEF B
  <2>1. QED
    BY <1>3, <1>6, <1>7, <1>8
<1>10. QED
  BY <1>2, <1>9

(* A sum of zeros is zero. *)
------------------------------------------------------------------------------------
LEMMA SumOfNothing ==
    ASSUME NEW w, NEW S, IsFiniteSet(S), \A x \in S : w[x] = 0
    PROVE  SumOver(w, S) = 0
<1> DEFINE B == {T \in SUBSET S : SumOver(w, T) # 0}
<1>1. SUFFICES ASSUME B # {} PROVE FALSE
  OBVIOUS
<1>b. B \subseteq SUBSET S
  OBVIOUS
<1>2. PICK T \in B : \A U \in SUBSET T : U # T => U \notin B
  <2> HIDE DEF B
  <2>1. QED
    BY <1>1, <1>b, SmallestSubset
<1>n. SumOver(w, T) # 0
  BY <1>2
<1>3. T # {}
  BY <1>n, SumEmpty
<1>4. Pick(T) \in T /\ IsFiniteSet(T)
  BY <1>3, PickMember, FS_Subset
<1>5. SumOver(w, T) = w[Pick(T)] + SumOver(w, T \ {Pick(T)})
  BY <1>3, <1>4, SumUnfold
<1>6. SumOver(w, T \ {Pick(T)}) = 0
  BY <1>2, <1>4
<1>7. QED
  BY <1>2, <1>4, <1>5, <1>6
====================================================================================
