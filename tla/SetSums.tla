------------------------------- MODULE SetSums -------------------------------
(***************************************************************************)
(* Sums over finite sets, as MapThenSumSet computes them, for the theorems    *)
(* about modules that add up quantities and amounts.  The induction over the  *)
(* subsets of a finite set is taken from their well-founded ordering, so that *)
(* the lemmas need no operator as a parameter.                               *)
(***************************************************************************)
EXTENDS Integers, FiniteSetsExt, FiniteSetTheorems, TLAPS

SumOver(f, S) == MapThenSumSet(LAMBDA x : f[x], S)

Pick(s) == CHOOSE x \in s : TRUE

\* g is the function that the definition of MapThenFoldSet recurs with.
Sums(g, f, S) ==
    g = [s \in SUBSET S |-> IF s = {} THEN 0 ELSE f[Pick(s)] + g[s \ {Pick(s)}]]

-----------------------------------------------------------------------------
(* Induction over the subsets of a finite set *)

LEMMA PickIsIn ==
    ASSUME NEW s, s # {}
    PROVE  Pick(s) \in s
  BY DEF Pick

\* What every subset has if it has it whenever all its own proper subsets do.
LEMMA SubsetInduction ==
    ASSUME NEW S, IsFiniteSet(S), NEW Good,
           \A T \in SUBSET S : (\A U \in SUBSET T : U # T => U \in Good) => T \in Good
    PROVE  \A T \in SUBSET S : T \in Good
  <1> DEFINE Bad == {T \in SUBSET S : T \notin Good}
  <1>1. IsWellFoundedOn(StrictSubsetOrdering(S), SUBSET S)
    BY FS_StrictSubsetOrderingWellFounded, FS_FiniteSubsetsOfFinite
  <1>2. ASSUME Bad # {}
        PROVE  FALSE
    <2>1. PICK T \in Bad : \A U \in Bad : <<U, T>> \notin StrictSubsetOrdering(S)
      <3>1. Bad \subseteq SUBSET S
        OBVIOUS
      <3> HIDE DEF Bad
      <3> QED
        BY <1>1, <1>2, <3>1, WFMin
    <2>2. \A U \in SUBSET T : U # T => U \in Good
      <3> SUFFICES ASSUME NEW U \in SUBSET T, U # T, U \notin Good
                   PROVE  FALSE
        OBVIOUS
      <3>1. U \in Bad
        OBVIOUS
      <3>2. <<U, T>> \in StrictSubsetOrdering(S)
        BY DEF StrictSubsetOrdering
      <3> QED
        BY <2>1, <3>1, <3>2
    <2> QED
      BY <2>2
  <1> QED
    BY <1>2

-----------------------------------------------------------------------------
(* The function exists, and there is only one *)

LEMMA SumsAgree ==
    ASSUME NEW f, NEW S, NEW T, NEW g, NEW h, Sums(g, f, S), Sums(h, f, T),
           NEW U \in SUBSET (S \cap T), IsFiniteSet(U)
    PROVE  g[U] = h[U]
  <1> DEFINE Good == {V \in SUBSET U : g[V] = h[V]}
  <1>1. ASSUME NEW V \in SUBSET U, \A W \in SUBSET V : W # V => W \in Good
        PROVE  V \in Good
    <2>1. V \in SUBSET S /\ V \in SUBSET T
      OBVIOUS
    <2>2. g[V] = IF V = {} THEN 0 ELSE f[Pick(V)] + g[V \ {Pick(V)}]
      BY <2>1 DEF Sums
    <2>3. h[V] = IF V = {} THEN 0 ELSE f[Pick(V)] + h[V \ {Pick(V)}]
      BY <2>1 DEF Sums
    <2>4. CASE V = {}
      BY <2>2, <2>3, <2>4
    <2>5. CASE V # {}
      <3>1. Pick(V) \in V
        BY <2>5, PickIsIn
      <3>2. V \ {Pick(V)} \in SUBSET V /\ V \ {Pick(V)} # V
        BY <3>1
      <3>3. g[V \ {Pick(V)}] = h[V \ {Pick(V)}]
        BY <1>1, <3>2
      <3> QED
        BY <2>2, <2>3, <2>5, <3>3
    <2> QED
      BY <2>4, <2>5
  <1> HIDE DEF Good
  <1>2. U \in Good
    BY <1>1, SubsetInduction
  <1> QED
    BY <1>2 DEF Good

LEMMA SumsExist ==
    ASSUME NEW f, NEW S, IsFiniteSet(S)
    PROVE  \E g : Sums(g, f, S)
  <1> DEFINE Good == {T \in SUBSET S : \E g : Sums(g, f, T)}
             V(T) == CHOOSE g : Sums(g, f, T)
  <1>1. ASSUME NEW T \in SUBSET S, \A U \in SUBSET T : U # T => U \in Good
        PROVE  T \in Good
    <2> DEFINE G == [s \in SUBSET T |->
                       IF s = {} THEN 0
                       ELSE f[Pick(s)] + V(s \ {Pick(s)})[s \ {Pick(s)}]]
    <2>1. \A U \in SUBSET T : U # T => Sums(V(U), f, U)
      BY <1>1
    <2> HIDE DEF V
    <2>2. ASSUME NEW w \in SUBSET T, w # T
          PROVE  G[w] = V(w)[w]
      <3>1. Sums(V(w), f, w)
        BY <2>1, <2>2
      <3>2. V(w)[w] = IF w = {} THEN 0 ELSE f[Pick(w)] + V(w)[w \ {Pick(w)}]
        BY <3>1 DEF Sums
      <3>3. CASE w = {}
        BY <3>2, <3>3
      <3>4. CASE w # {}
        <4> DEFINE u == w \ {Pick(w)}
        <4>1. u \in SUBSET T /\ u # T /\ u \in SUBSET (w \cap u)
          BY <3>4, PickIsIn
        <4>2. IsFiniteSet(u)
          BY <4>1, FS_Subset
        <4>3. Sums(V(u), f, u)
          BY <2>1, <4>1
        <4> HIDE DEF u
        <4>4. V(w)[u] = V(u)[u]
          BY <3>1, <4>1, <4>2, <4>3, SumsAgree
        <4>5. G[w] = f[Pick(w)] + V(u)[u]
          BY <3>4 DEF u
        <4>6. V(w)[w] = f[Pick(w)] + V(w)[u]
          BY <3>2, <3>4 DEF u
        <4> QED
          BY <4>4, <4>5, <4>6
      <3> QED
        BY <3>3, <3>4
    <2>3. ASSUME NEW s \in SUBSET T
          PROVE  G[s] = IF s = {} THEN 0 ELSE f[Pick(s)] + G[s \ {Pick(s)}]
      <3>1. CASE s = {}
        BY <3>1
      <3>2. CASE s # {}
        <4> DEFINE u == s \ {Pick(s)}
        <4>1. u \in SUBSET T /\ u # T
          BY <3>2, PickIsIn
        <4> HIDE DEF u
        <4>2. G[u] = V(u)[u]
          BY <2>2, <4>1
        <4>3. G[s] = f[Pick(s)] + V(u)[u]
          BY <3>2 DEF u
        <4> QED
          BY <3>2, <4>2, <4>3 DEF u
      <3> QED
        BY <3>1, <3>2
    <2>4. G = [s \in SUBSET T |-> G[s]]
      OBVIOUS
    <2> HIDE DEF G
    <2>5. Sums(G, f, T)
      BY <2>3, <2>4 DEF Sums
    <2> QED
      BY <2>5
  <1> HIDE DEF Good
  <1>2. S \in Good
    BY <1>1, SubsetInduction
  <1> QED
    BY <1>2 DEF Good

LEMMA SumIsFunction ==
    ASSUME NEW f, NEW S, IsFiniteSet(S), NEW g, Sums(g, f, S)
    PROVE  SumOver(f, S) = g[S]
  <1> DEFINE c == CHOOSE x : Sums(x, f, S)
  <1>1. SumOver(f, S) = c[S]
    BY DEF SumOver, MapThenSumSet, MapThenFoldSet, Sums, Pick
  <1>2. Sums(c, f, S)
    OBVIOUS
  <1> HIDE DEF c
  <1>3. c[S] = g[S]
    BY <1>2, SumsAgree
  <1> QED
    BY <1>1, <1>3

-----------------------------------------------------------------------------
(* What a sum is *)

LEMMA SumEmpty ==
    ASSUME NEW f
    PROVE  SumOver(f, {}) = 0
  <1>1. PICK g : Sums(g, f, {})
    BY SumsExist, FS_EmptySet
  <1>2. g[{}] = 0
    BY <1>1 DEF Sums
  <1> QED
    BY <1>1, <1>2, SumIsFunction, FS_EmptySet

\* A sum over a subset is found in the function of the larger set.
LEMMA SumOfSubset ==
    ASSUME NEW f, NEW S, IsFiniteSet(S), NEW g, Sums(g, f, S), NEW T \in SUBSET S
    PROVE  SumOver(f, T) = g[T]
  <1>1. IsFiniteSet(T)
    BY FS_Subset
  <1>2. PICK h : Sums(h, f, T)
    BY <1>1, SumsExist
  <1>3. h[T] = g[T]
    BY <1>1, <1>2, SumsAgree
  <1> QED
    BY <1>1, <1>2, <1>3, SumIsFunction

LEMMA SumPicks ==
    ASSUME NEW f, NEW S, IsFiniteSet(S), S # {}
    PROVE  SumOver(f, S) = f[Pick(S)] + SumOver(f, S \ {Pick(S)})
  <1>1. PICK g : Sums(g, f, S)
    BY SumsExist
  <1>2. g[S] = f[Pick(S)] + g[S \ {Pick(S)}]
    BY <1>1 DEF Sums
  <1>3. SumOver(f, S) = g[S] /\ SumOver(f, S \ {Pick(S)}) = g[S \ {Pick(S)}]
    BY <1>1, SumOfSubset
  <1> QED
    BY <1>2, <1>3

LEMMA SumType ==
    ASSUME NEW S, IsFiniteSet(S), NEW f, \A x \in S : f[x] \in Nat
    PROVE  SumOver(f, S) \in Nat
  <1> DEFINE Good == {T \in SUBSET S : SumOver(f, T) \in Nat}
  <1>1. ASSUME NEW T \in SUBSET S, \A U \in SUBSET T : U # T => U \in Good
        PROVE  T \in Good
    <2>1. CASE T = {}
      BY <2>1, SumEmpty
    <2>2. CASE T # {}
      <3>1. Pick(T) \in T /\ IsFiniteSet(T)
        BY <2>2, PickIsIn, FS_Subset
      <3>2. SumOver(f, T) = f[Pick(T)] + SumOver(f, T \ {Pick(T)})
        BY <2>2, <3>1, SumPicks
      <3>3. T \ {Pick(T)} \in Good
        BY <1>1, <3>1
      <3> QED
        BY <3>1, <3>2, <3>3
    <2> QED
      BY <2>1, <2>2
  <1> HIDE DEF Good
  <1>2. S \in Good
    BY <1>1, SubsetInduction
  <1> QED
    BY <1>2 DEF Good

\* The order in which the elements are picked does not matter.
LEMMA SumRemove ==
    ASSUME NEW S, IsFiniteSet(S), NEW f, \A x \in S : f[x] \in Nat, NEW e \in S
    PROVE  SumOver(f, S) = f[e] + SumOver(f, S \ {e})
  <1> DEFINE Good == {T \in SUBSET S :
                        \A x \in T : SumOver(f, T) = f[x] + SumOver(f, T \ {x})}
  <1>1. ASSUME NEW T \in SUBSET S, \A U \in SUBSET T : U # T => U \in Good
        PROVE  T \in Good
    <2> SUFFICES ASSUME NEW x \in T
                 PROVE  SumOver(f, T) = f[x] + SumOver(f, T \ {x})
      OBVIOUS
    <2> DEFINE p == Pick(T)
    <2>1. p \in T /\ IsFiniteSet(T)
      BY PickIsIn, FS_Subset
    <2>2. SumOver(f, T) = f[p] + SumOver(f, T \ {p})
      BY <2>1, SumPicks
    <2> HIDE DEF p
    <2>3. CASE x = p
      BY <2>2, <2>3
    <2>4. CASE x # p
      <3>1. SumOver(f, T \ {p}) = f[x] + SumOver(f, (T \ {p}) \ {x})
        BY <1>1, <2>1, <2>4
      <3>2. SumOver(f, T \ {x}) = f[p] + SumOver(f, (T \ {x}) \ {p})
        BY <1>1, <2>1, <2>4
      <3>3. (T \ {p}) \ {x} = (T \ {x}) \ {p}
        OBVIOUS
      <3>4. IsFiniteSet((T \ {x}) \ {p})
        BY <2>1, FS_Subset
      <3>5. SumOver(f, (T \ {x}) \ {p}) \in Nat
        BY <3>4, SumType
      <3>6. f[x] \in Nat /\ f[p] \in Nat
        BY <2>1
      <3> QED
        BY <2>2, <3>1, <3>2, <3>3, <3>5, <3>6
    <2> QED
      BY <2>3, <2>4
  <1> HIDE DEF Good
  <1>2. S \in Good
    BY <1>1, SubsetInduction
  <1> QED
    BY <1>2 DEF Good

LEMMA SumSame ==
    ASSUME NEW S, IsFiniteSet(S), NEW f, NEW h, \A x \in S : f[x] = h[x]
    PROVE  SumOver(f, S) = SumOver(h, S)
  <1> DEFINE Good == {T \in SUBSET S : SumOver(f, T) = SumOver(h, T)}
  <1>1. ASSUME NEW T \in SUBSET S, \A U \in SUBSET T : U # T => U \in Good
        PROVE  T \in Good
    <2>1. CASE T = {}
      BY <2>1, SumEmpty
    <2>2. CASE T # {}
      <3>1. Pick(T) \in T /\ IsFiniteSet(T)
        BY <2>2, PickIsIn, FS_Subset
      <3>2. /\ SumOver(f, T) = f[Pick(T)] + SumOver(f, T \ {Pick(T)})
            /\ SumOver(h, T) = h[Pick(T)] + SumOver(h, T \ {Pick(T)})
        BY <2>2, <3>1, SumPicks
      <3>3. T \ {Pick(T)} \in Good
        BY <1>1, <3>1
      <3> QED
        BY <3>1, <3>2, <3>3
    <2> QED
      BY <2>1, <2>2
  <1> HIDE DEF Good
  <1>2. S \in Good
    BY <1>1, SubsetInduction
  <1> QED
    BY <1>2 DEF Good

\* A set grows by one element.
LEMMA SumAdd ==
    ASSUME NEW S, IsFiniteSet(S), NEW f, NEW e, e \notin S,
           \A x \in S \cup {e} : f[x] \in Nat
    PROVE  SumOver(f, S \cup {e}) = f[e] + SumOver(f, S)
  <1>1. IsFiniteSet(S \cup {e}) /\ (S \cup {e}) \ {e} = S
    BY FS_AddElement
  <1> QED
    BY <1>1, SumRemove

\* One summand changes.
LEMMA SumUpdate ==
    ASSUME NEW S, IsFiniteSet(S), NEW f, NEW h, NEW e \in S,
           \A x \in S : f[x] \in Nat /\ h[x] \in Nat,
           \A x \in S : x # e => f[x] = h[x]
    PROVE  SumOver(h, S) = SumOver(f, S) - f[e] + h[e]
  <1>1. IsFiniteSet(S \ {e})
    BY FS_Subset
  <1>2. SumOver(f, S) = f[e] + SumOver(f, S \ {e}) /\ SumOver(h, S) = h[e] + SumOver(h, S \ {e})
    BY SumRemove
  <1>3. SumOver(f, S \ {e}) = SumOver(h, S \ {e})
    BY <1>1, SumSame
  <1>4. SumOver(f, S \ {e}) \in Nat
    BY <1>1, SumType
  <1> QED
    BY <1>2, <1>3, <1>4

\* Elements that count for nothing may be left out.
LEMMA SumWhere ==
    ASSUME NEW S, IsFiniteSet(S), NEW f, NEW T \in SUBSET S,
           \A x \in S : f[x] \in Nat, \A x \in S \ T : f[x] = 0
    PROVE  SumOver(f, S) = SumOver(f, T)
  <1> DEFINE Rest == S \ T
             Good == {U \in SUBSET Rest : SumOver(f, T \cup U) = SumOver(f, T)}
  <1>1. IsFiniteSet(T) /\ IsFiniteSet(Rest)
    BY FS_Subset
  <1>2. ASSUME NEW U \in SUBSET Rest, \A V \in SUBSET U : V # U => V \in Good
        PROVE  U \in Good
    <2>1. CASE U = {}
      <3>1. T \cup U = T
        BY <2>1
      <3> QED
        BY <3>1
    <2>2. CASE U # {}
      <3> DEFINE e == Pick(U)
                 R == T \cup (U \ {e})
      <3>1. e \in U
        BY <2>2, PickIsIn
      <3> HIDE DEF e
      <3>2. U \ {e} \in Good
        BY <1>2, <3>1
      <3>3. /\ IsFiniteSet(R) /\ e \notin R /\ T \cup U = R \cup {e}
            /\ \A x \in R \cup {e} : f[x] \in Nat
        <4>1. R \subseteq S
          OBVIOUS
        <4> QED
          BY <3>1, <4>1, FS_Subset
      <3> HIDE DEF R
      <3>4. SumOver(f, T \cup U) = f[e] + SumOver(f, R)
        BY <3>3, SumAdd
      <3>5. f[e] = 0 /\ SumOver(f, R) \in Nat
        BY <3>1, <3>3, SumType
      <3>6. SumOver(f, R) = SumOver(f, T)
        BY <3>2 DEF R
      <3> QED
        BY <3>4, <3>5, <3>6
    <2> QED
      BY <2>1, <2>2
  <1>3. T \cup Rest = S
    OBVIOUS
  <1> HIDE DEF Good, Rest
  <1>4. Rest \in Good
    BY <1>1, <1>2, SubsetInduction
  <1> QED
    BY <1>3, <1>4 DEF Good

\* No element counts for more than the sum.
LEMMA SumBounds ==
    ASSUME NEW S, IsFiniteSet(S), NEW f, \A x \in S : f[x] \in Nat, NEW e \in S
    PROVE  /\ SumOver(f, S) \in Nat
           /\ f[e] <= SumOver(f, S)
  <1>1. IsFiniteSet(S \ {e})
    BY FS_Subset
  <1>2. SumOver(f, S) \in Nat /\ SumOver(f, S \ {e}) \in Nat
    BY <1>1, SumType
  <1>3. SumOver(f, S) = f[e] + SumOver(f, S \ {e})
    BY SumRemove
  <1> QED
    BY <1>2, <1>3
=============================================================================
