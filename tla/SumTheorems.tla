---------------------------- MODULE SumTheorems ----------------------------
(***************************************************************************)
(* Facts about SumFunctionOnSet of the module Functions, which adds up the *)
(* values of a function in the order in which CHOOSE picks them: what the  *)
(* sums of balances and shares in the models rest on.                      *)
(***************************************************************************)
EXTENDS Functions, FiniteSetTheorems, TLAPS

\* Induction over the subsets of a finite set, with a set of subsets for the
\* predicate.
LEMMA SetInduction ==
    ASSUME NEW S, IsFiniteSet(S), NEW G,
           \A T \in SUBSET S : (\A U \in SUBSET T : U # T => U \in G) => T \in G
    PROVE  S \in G
<1> DEFINE B == {T \in SUBSET S : T \notin G}
<1>1. SUFFICES ASSUME S \notin G PROVE FALSE
  OBVIOUS
<1>2. B # {} /\ B \subseteq FiniteSubsetsOf(S)
  BY <1>1, FS_FiniteSubsetsOfFinite
<1>3. IsWellFoundedOn(StrictSubsetOrdering(S), FiniteSubsetsOf(S))
  BY FS_StrictSubsetOrderingWellFounded
<1> HIDE DEF B
<1>4. PICK T \in B : \A U \in B : <<U, T>> \notin StrictSubsetOrdering(S)
  BY <1>2, <1>3, WFMin
<1>5. T \in SUBSET S /\ T \notin G
  BY DEF B
<1>6. ASSUME NEW U \in SUBSET T, U # T PROVE U \in G
  <2>1. <<U, T>> \in StrictSubsetOrdering(S)
    BY <1>5, <1>6 DEF StrictSubsetOrdering
  <2>2. U \notin B
    BY <1>4, <2>1
  <2>3. QED
    BY <1>5, <2>2 DEF B
<1>7. QED
  BY <1>5, <1>6

-----------------------------------------------------------------------------
(* The recursive definition defines a function.                            *)

Pick(T) == CHOOSE x \in T : TRUE

Sums(f, S, g) ==
    g = [T \in SUBSET S |-> IF T = {} THEN 0 ELSE f[Pick(T)] + g[T \ {Pick(T)}]]

\* The sum is the value of the function that the definition chooses.
LEMMA SumIsChosen ==
    ASSUME NEW f, NEW S
    PROVE  SumFunctionOnSet(f, S) = (CHOOSE g : Sums(f, S, g))[S]
BY DEF SumFunctionOnSet, FoldFunctionOnSet, MapThenFoldSet, Sums, Pick

LEMMA PickIn == ASSUME NEW T, T # {} PROVE Pick(T) \in T
BY DEF Pick

\* Two functions that add up the same agree on what both are defined for.
LEMMA SumsAgree ==
    ASSUME NEW f, NEW S, IsFiniteSet(S), NEW T, S \subseteq T,
           NEW g, Sums(f, S, g), NEW h, Sums(f, T, h)
    PROVE  g[S] = h[S]
<1> DEFINE G == {U \in SUBSET S : g[U] = h[U]}
<1>1. ASSUME NEW U \in SUBSET S, \A V \in SUBSET U : V # U => V \in G PROVE U \in G
  <2>1. CASE U = {}
    <3>1. g[U] = 0 /\ h[U] = 0
      BY <2>1 DEF Sums
    <3>2. QED
      BY <3>1
  <2>2. CASE U # {}
    <3> DEFINE x == Pick(U)
               V == U \ {x}
    <3>1. V \in SUBSET U /\ V # U
      BY <2>2, PickIn
    <3>2. g[V] = h[V]
      BY <1>1, <3>1
    <3>3. g[U] = f[x] + g[V]
      BY <2>2 DEF Sums
    <3>4. h[U] = f[x] + h[V]
      BY <2>2 DEF Sums
    <3>5. QED
      BY <3>2, <3>3, <3>4
  <2>3. QED
    BY <2>1, <2>2
<1> HIDE DEF G
<1>2. S \in G
  BY <1>1, SetInduction
<1>3. QED
  BY <1>2 DEF G

\* Such a function exists, so the chosen one is one.
LEMMA SumsExist ==
    ASSUME NEW f, NEW S, IsFiniteSet(S)
    PROVE  \E g : Sums(f, S, g)
<1> DEFINE G == {T \in SUBSET S : \E g : Sums(f, T, g)}
           val(T) == SumFunctionOnSet(f, T)
<1>1. ASSUME NEW T \in SUBSET S, \A U \in SUBSET T : U # T => U \in G PROVE T \in G
  <2> DEFINE x == Pick(T)
             rest == T \ {x}
             g == [U \in SUBSET T |-> IF U = T THEN IF T = {} THEN 0 ELSE f[x] + val(rest)
                                      ELSE val(U)]
  \* What is chosen for a proper subset adds up.
  <2>1. ASSUME NEW U \in SUBSET T, U # T
        PROVE  val(U) = IF U = {} THEN 0 ELSE f[Pick(U)] + val(U \ {Pick(U)})
    <3> DEFINE c == CHOOSE k : Sums(f, U, k)
               V == U \ {Pick(U)}
               d == CHOOSE k : Sums(f, V, k)
    <3>1. Sums(f, U, c)
      BY <1>1, <2>1
    <3>2. val(U) = c[U]
      BY SumIsChosen
    <3>3. CASE U = {}
      BY <3>1, <3>2, <3>3 DEF Sums
    <3>4. CASE U # {}
      <4>1. V \in SUBSET T /\ V # T /\ V \in SUBSET U /\ IsFiniteSet(V)
        BY <2>1, <3>4, PickIn, FS_Subset
      <4>2. Sums(f, V, d)
        BY <1>1, <4>1
      <4>3. val(V) = d[V]
        BY SumIsChosen
      <4> HIDE DEF c, d
      <4>4. d[V] = c[V]
        BY <3>1, <4>1, <4>2, SumsAgree
      <4>5. c[U] = f[Pick(U)] + c[V]
        BY <3>1, <3>4 DEF Sums
      <4>6. QED
        BY <3>2, <3>4, <4>3, <4>4, <4>5
    <3>5. QED
      BY <3>3, <3>4
  <2> HIDE DEF val
  <2>2. \A U \in SUBSET T : g[U] = IF U = {} THEN 0 ELSE f[Pick(U)] + g[U \ {Pick(U)}]
    <3> SUFFICES ASSUME NEW U \in SUBSET T
                 PROVE  g[U] = IF U = {} THEN 0 ELSE f[Pick(U)] + g[U \ {Pick(U)}]
      OBVIOUS
    <3>1. CASE U = {}
      <4>1. CASE U = T
        BY <3>1, <4>1
      <4>2. CASE U # T
        BY <2>1, <3>1, <4>2
      <4>3. QED
        BY <4>1, <4>2
    <3>2. CASE U # {}
      <4>1. U \ {Pick(U)} \in SUBSET T /\ U \ {Pick(U)} # T
        BY <3>2, PickIn
      <4>2. g[U \ {Pick(U)}] = val(U \ {Pick(U)})
        BY <4>1
      <4>3. g[U] = f[Pick(U)] + val(U \ {Pick(U)})
        <5>1. CASE U = T
          BY <3>2, <5>1
        <5>2. CASE U # T
          <6>1. g[U] = val(U)
            BY <5>2
          <6>2. QED
            BY <2>1, <3>2, <5>2, <6>1
        <5>3. QED
          BY <5>1, <5>2
      <4>4. QED
        BY <3>2, <4>2, <4>3
    <3>3. QED
      BY <3>1, <3>2
  <2>3. g = [U \in SUBSET T |-> g[U]]
    OBVIOUS
  <2> HIDE DEF g
  <2>4. Sums(f, T, g)
    BY <2>2, <2>3 DEF Sums
  <2>5. QED
    BY <2>4
<1> HIDE DEF G
<1>2. S \in G
  BY <1>1, SetInduction
<1>3. QED
  BY <1>2 DEF G

\* The recursion that the sum is computed by.
LEMMA SumStep ==
    ASSUME NEW f, NEW S, IsFiniteSet(S)
    PROVE  SumFunctionOnSet(f, S) =
             IF S = {} THEN 0 ELSE f[Pick(S)] + SumFunctionOnSet(f, S \ {Pick(S)})
<1> DEFINE T == S \ {Pick(S)}
           g == CHOOSE k : Sums(f, S, k)
           h == CHOOSE k : Sums(f, T, k)
<1>1. IsFiniteSet(T) /\ T \subseteq S
  BY FS_Subset
<1>2. Sums(f, S, g) /\ Sums(f, T, h)
  BY <1>1, SumsExist
<1>3. SumFunctionOnSet(f, S) = g[S] /\ SumFunctionOnSet(f, T) = h[T]
  BY SumIsChosen
<1> HIDE DEF g, h
<1>4. h[T] = g[T]
  BY <1>1, <1>2, SumsAgree
<1>5. g[S] = IF S = {} THEN 0 ELSE f[Pick(S)] + g[T]
  BY <1>2 DEF Sums
<1>6. QED
  BY <1>3, <1>4, <1>5
-----------------------------------------------------------------------------
(* What the sum does not depend on, and its bounds.                        *)

\* Nothing adds up to zero.
THEOREM SumEmpty == ASSUME NEW f PROVE SumFunctionOnSet(f, {}) = 0
BY SumStep, FS_EmptySet

\* Integers add up to an integer, natural numbers to a natural number.
THEOREM SumInt ==
    ASSUME NEW f, NEW S, IsFiniteSet(S), \A x \in S : f[x] \in Int
    PROVE  SumFunctionOnSet(f, S) \in Int
<1> DEFINE G == {T \in SUBSET S : SumFunctionOnSet(f, T) \in Int}
<1>1. ASSUME NEW T \in SUBSET S, \A U \in SUBSET T : U # T => U \in G PROVE T \in G
  <2>1. IsFiniteSet(T)
    BY FS_Subset
  <2>2. CASE T = {}
    BY <2>2, SumEmpty
  <2>3. CASE T # {}
    <3> DEFINE x == Pick(T)
    <3>1. x \in T /\ T \ {x} \in SUBSET T /\ T \ {x} # T
      BY <2>3, PickIn
    <3>2. SumFunctionOnSet(f, T \ {x}) \in Int
      BY <1>1, <3>1
    <3>3. f[x] \in Int
      BY <3>1
    <3>4. SumFunctionOnSet(f, T) = f[x] + SumFunctionOnSet(f, T \ {x})
      BY <2>1, <2>3, SumStep
    <3>5. QED
      BY <3>2, <3>3, <3>4
  <2>4. QED
    BY <2>2, <2>3
<1> HIDE DEF G
<1>2. S \in G
  BY <1>1, SetInduction
<1>3. QED
  BY <1>2 DEF G

\* Any element can be taken out of the sum, not just the one CHOOSE picks.
THEOREM SumRemove ==
    ASSUME NEW f, NEW S, IsFiniteSet(S), \A x \in S : f[x] \in Int, NEW y \in S
    PROVE  SumFunctionOnSet(f, S) = f[y] + SumFunctionOnSet(f, S \ {y})
<1> DEFINE val(T) == SumFunctionOnSet(f, T)
           G == {T \in SUBSET S : \A z \in T : val(T) = f[z] + val(T \ {z})}
<1>0. \A T \in SUBSET S : IsFiniteSet(T) /\ val(T) \in Int
  BY FS_Subset, SumInt
<1>1. ASSUME NEW T \in SUBSET S, \A U \in SUBSET T : U # T => U \in G PROVE T \in G
  <2> SUFFICES ASSUME NEW z \in T PROVE val(T) = f[z] + val(T \ {z})
    OBVIOUS
  <2> DEFINE x == Pick(T)
  <2>1. x \in T
    BY PickIn
  <2>2. val(T) = f[x] + val(T \ {x})
    BY <1>0, SumStep
  <2>3. CASE z = x
    BY <2>2, <2>3
  <2>4. CASE z # x
    <3> DEFINE V == (T \ {x}) \ {z}
    <3>1. T \ {x} \in G /\ T \ {z} \in G
      BY <1>1, <2>1
    <3>2. val(T \ {x}) = f[z] + val(V)
      BY <2>4, <3>1
    <3>3. V = (T \ {z}) \ {x} /\ x \in T \ {z}
      BY <2>1, <2>4
    <3>4. val(T \ {z}) = f[x] + val(V)
      BY <3>1, <3>3
    <3>5. f[x] \in Int /\ f[z] \in Int /\ val(V) \in Int
      BY <1>0, <2>1
    <3> HIDE DEF val, x, V
    <3>6. QED
      BY <2>2, <3>2, <3>4, <3>5
  <2>5. QED
    BY <2>3, <2>4
<1>2. S \in G
  <2> HIDE DEF G
  <2>1. QED
    BY <1>1, SetInduction
<1>3. QED
  BY <1>2

\* Two functions with the same values have the same sum, whatever they are
\* elsewhere.
THEOREM SumSame ==
    ASSUME NEW S, IsFiniteSet(S), NEW f, NEW g, \A x \in S : f[x] = g[x]
    PROVE  SumFunctionOnSet(f, S) = SumFunctionOnSet(g, S)
<1> DEFINE G == {T \in SUBSET S : SumFunctionOnSet(f, T) = SumFunctionOnSet(g, T)}
<1>1. ASSUME NEW T \in SUBSET S, \A U \in SUBSET T : U # T => U \in G PROVE T \in G
  <2>1. CASE T = {}
    BY <2>1, SumEmpty
  <2>2. CASE T # {}
    <3> DEFINE x == Pick(T)
    <3>1. x \in T /\ T \ {x} \in SUBSET T /\ T \ {x} # T /\ IsFiniteSet(T)
      BY <2>2, PickIn, FS_Subset
    <3>2. SumFunctionOnSet(f, T \ {x}) = SumFunctionOnSet(g, T \ {x})
      BY <1>1, <3>1
    <3>3. f[x] = g[x]
      BY <3>1
    <3>4. SumFunctionOnSet(f, T) = f[x] + SumFunctionOnSet(f, T \ {x})
      BY <2>2, <3>1, SumStep
    <3>5. SumFunctionOnSet(g, T) = g[x] + SumFunctionOnSet(g, T \ {x})
      BY <2>2, <3>1, SumStep
    <3>6. QED
      BY <3>2, <3>3, <3>4, <3>5
  <2>3. QED
    BY <2>1, <2>2
<1> HIDE DEF G
<1>2. S \in G
  BY <1>1, SetInduction
<1>3. QED
  BY <1>2 DEF G

\* A sum changes by what one of its values changes.
THEOREM SumChange ==
    ASSUME NEW S, IsFiniteSet(S), NEW f, NEW g, NEW y \in S,
           \A x \in S : f[x] \in Int /\ g[x] \in Int,
           \A x \in S \ {y} : f[x] = g[x]
    PROVE  SumFunctionOnSet(g, S) = SumFunctionOnSet(f, S) - f[y] + g[y]
<1> DEFINE F == SumFunctionOnSet(f, S)
           H == SumFunctionOnSet(g, S)
           R == SumFunctionOnSet(f, S \ {y})
           Q == SumFunctionOnSet(g, S \ {y})
<1>0. IsFiniteSet(S \ {y})
  BY FS_Subset
<1>1. F = f[y] + R
  BY SumRemove
<1>2. H = g[y] + Q
  BY SumRemove
<1>3. R = Q
  BY <1>0, SumSame
<1>4. R \in Int
  BY <1>0, SumInt
<1>5. f[y] \in Int /\ g[y] \in Int
  OBVIOUS
<1> HIDE DEF F, H, R, Q
<1>6. H = F - f[y] + g[y]
  BY <1>1, <1>2, <1>3, <1>4, <1>5
<1>7. QED
  BY <1>6 DEF F, H

\* Larger values have a larger sum.
THEOREM SumMonotonic ==
    ASSUME NEW S, IsFiniteSet(S), NEW f, NEW g,
           \A x \in S : f[x] \in Int /\ g[x] \in Int /\ f[x] <= g[x]
    PROVE  SumFunctionOnSet(f, S) <= SumFunctionOnSet(g, S)
<1> DEFINE G == {T \in SUBSET S : SumFunctionOnSet(f, T) <= SumFunctionOnSet(g, T)}
<1>1. ASSUME NEW T \in SUBSET S, \A U \in SUBSET T : U # T => U \in G PROVE T \in G
  <2>1. CASE T = {}
    BY <2>1, SumEmpty
  <2>2. CASE T # {}
    <3> DEFINE x == Pick(T)
               F == SumFunctionOnSet(f, T \ {x})
               H == SumFunctionOnSet(g, T \ {x})
    <3>1. x \in T /\ T \ {x} \in SUBSET T /\ T \ {x} # T /\ IsFiniteSet(T)
          /\ IsFiniteSet(T \ {x})
      BY <2>2, PickIn, FS_Subset
    <3>2. F <= H
      BY <1>1, <3>1
    <3>3. F \in Int
      <4>1. \A z \in T \ {x} : f[z] \in Int
        OBVIOUS
      <4>2. QED
        BY <3>1, <4>1, SumInt
    <3>4. H \in Int
      <4>1. \A z \in T \ {x} : g[z] \in Int
        OBVIOUS
      <4>2. QED
        BY <3>1, <4>1, SumInt
    <3>5. f[x] \in Int /\ g[x] \in Int /\ f[x] <= g[x]
      BY <3>1
    <3>6. SumFunctionOnSet(f, T) = f[x] + F
      BY <2>2, <3>1, SumStep
    <3>7. SumFunctionOnSet(g, T) = g[x] + H
      BY <2>2, <3>1, SumStep
    <3> HIDE DEF F, H, x
    <3>8. f[x] + F <= g[x] + H
      BY <3>2, <3>3, <3>4, <3>5
    <3>9. QED
      BY <3>6, <3>7, <3>8
  <2>3. QED
    BY <2>1, <2>2
<1> HIDE DEF G
<1>2. S \in G
  BY <1>1, SetInduction
<1>3. QED
  BY <1>2 DEF G

\* Zeros add up to zero.
THEOREM SumZero ==
    ASSUME NEW S, IsFiniteSet(S), NEW f, \A x \in S : f[x] = 0
    PROVE  SumFunctionOnSet(f, S) = 0
<1> DEFINE G == {T \in SUBSET S : SumFunctionOnSet(f, T) = 0}
<1>1. ASSUME NEW T \in SUBSET S, \A U \in SUBSET T : U # T => U \in G PROVE T \in G
  <2>1. CASE T = {}
    BY <2>1, SumEmpty
  <2>2. CASE T # {}
    <3>1. Pick(T) \in T /\ IsFiniteSet(T)
      BY <2>2, PickIn, FS_Subset
    <3>2. SumFunctionOnSet(f, T \ {Pick(T)}) = 0 /\ f[Pick(T)] = 0
      BY <1>1, <3>1
    <3>3. SumFunctionOnSet(f, T) = 0
      BY <2>2, <3>1, <3>2, SumStep
    <3>4. QED
      BY <3>3
  <2>3. QED
    BY <2>1, <2>2
<1> HIDE DEF G
<1>2. S \in G
  BY <1>1, SetInduction
<1>3. QED
  BY <1>2 DEF G

\* Natural numbers add up to one that is as large as each of them.
THEOREM SumNat ==
    ASSUME NEW S, IsFiniteSet(S), NEW f, \A x \in S : f[x] \in Nat
    PROVE  /\ SumFunctionOnSet(f, S) \in Nat
           /\ \A y \in S : f[y] <= SumFunctionOnSet(f, S)
<1> DEFINE zero == [x \in S |-> 0]
<1>1. ASSUME NEW T \in SUBSET S PROVE SumFunctionOnSet(f, T) \in Nat
  <2>1. IsFiniteSet(T) /\ \A x \in T : zero[x] = 0
    BY FS_Subset
  <2>2. SumFunctionOnSet(zero, T) = 0
    BY <2>1, SumZero
  <2>3. SumFunctionOnSet(f, T) \in Int
    BY <2>1, SumInt
  <2>4. \A x \in T : zero[x] \in Int /\ f[x] \in Int /\ zero[x] <= f[x]
    OBVIOUS
  <2> HIDE DEF zero
  <2>5. SumFunctionOnSet(zero, T) <= SumFunctionOnSet(f, T)
    BY <2>1, <2>4, SumMonotonic
  <2>6. QED
    BY <2>2, <2>3, <2>5
<1>2. ASSUME NEW y \in S PROVE f[y] <= SumFunctionOnSet(f, S)
  <2>1. SumFunctionOnSet(f, S) = f[y] + SumFunctionOnSet(f, S \ {y})
    BY SumRemove
  <2>2. SumFunctionOnSet(f, S \ {y}) \in Nat /\ f[y] \in Nat
    BY <1>1
  <2>3. QED
    BY <2>1, <2>2
<1>3. QED
  BY <1>1, <1>2

\* The sum of two functions.
THEOREM SumPlus ==
    ASSUME NEW S, IsFiniteSet(S), NEW f, NEW g, NEW h,
           \A x \in S : f[x] \in Int /\ g[x] \in Int /\ h[x] = f[x] + g[x]
    PROVE  SumFunctionOnSet(h, S) = SumFunctionOnSet(f, S) + SumFunctionOnSet(g, S)
<1> DEFINE G == {T \in SUBSET S : SumFunctionOnSet(h, T)
                                    = SumFunctionOnSet(f, T) + SumFunctionOnSet(g, T)}
<1>1. ASSUME NEW T \in SUBSET S, \A U \in SUBSET T : U # T => U \in G PROVE T \in G
  <2>1. CASE T = {}
    BY <2>1, SumEmpty
  <2>2. CASE T # {}
    <3> DEFINE x == Pick(T)
               V == T \ {x}
               F == SumFunctionOnSet(f, V)
               H == SumFunctionOnSet(g, V)
    <3>1. x \in T /\ V \in SUBSET T /\ V # T /\ IsFiniteSet(T) /\ IsFiniteSet(V)
      BY <2>2, PickIn, FS_Subset
    <3>2. SumFunctionOnSet(h, V) = F + H
      BY <1>1, <3>1
    <3>3. F \in Int /\ H \in Int
      <4>1. \A z \in V : f[z] \in Int /\ g[z] \in Int
        OBVIOUS
      <4>2. QED
        BY <3>1, <4>1, SumInt
    <3>4. f[x] \in Int /\ g[x] \in Int /\ h[x] = f[x] + g[x]
      BY <3>1
    <3>5. /\ SumFunctionOnSet(f, T) = f[x] + F /\ SumFunctionOnSet(g, T) = g[x] + H
          /\ SumFunctionOnSet(h, T) = h[x] + SumFunctionOnSet(h, V)
      BY <2>2, <3>1, SumStep
    <3> HIDE DEF F, H, x, V
    <3>6. SumFunctionOnSet(h, T) = SumFunctionOnSet(f, T) + SumFunctionOnSet(g, T)
      BY <3>2, <3>3, <3>4, <3>5
    <3>7. QED
      BY <3>6
  <2>3. QED
    BY <2>1, <2>2
<1> HIDE DEF G
<1>2. S \in G
  BY <1>1, SetInduction
<1>3. QED
  BY <1>2 DEF G

\* A factor that all values have in common.
THEOREM SumScale ==
    ASSUME NEW S, IsFiniteSet(S), NEW f, NEW h, NEW k \in Int,
           \A x \in S : f[x] \in Int /\ h[x] = k * f[x]
    PROVE  SumFunctionOnSet(h, S) = k * SumFunctionOnSet(f, S)
<1> DEFINE G == {T \in SUBSET S : SumFunctionOnSet(h, T) = k * SumFunctionOnSet(f, T)}
<1>1. ASSUME NEW T \in SUBSET S, \A U \in SUBSET T : U # T => U \in G PROVE T \in G
  <2>1. CASE T = {}
    BY <2>1, SumEmpty
  <2>2. CASE T # {}
    <3> DEFINE x == Pick(T)
               V == T \ {x}
               F == SumFunctionOnSet(f, V)
    <3>1. x \in T /\ V \in SUBSET T /\ V # T /\ IsFiniteSet(T) /\ IsFiniteSet(V)
      BY <2>2, PickIn, FS_Subset
    <3>2. SumFunctionOnSet(h, V) = k * F
      BY <1>1, <3>1
    <3>3. F \in Int
      <4>1. \A z \in V : f[z] \in Int
        OBVIOUS
      <4>2. QED
        BY <3>1, <4>1, SumInt
    <3>4. f[x] \in Int /\ h[x] = k * f[x]
      BY <3>1
    <3>5. /\ SumFunctionOnSet(f, T) = f[x] + F
          /\ SumFunctionOnSet(h, T) = h[x] + SumFunctionOnSet(h, V)
      BY <2>2, <3>1, SumStep
    <3> HIDE DEF F, x, V
    <3>6. k * (f[x] + F) = k * f[x] + k * F
      BY <3>3, <3>4
    <3>7. SumFunctionOnSet(h, T) = k * SumFunctionOnSet(f, T)
      BY <3>2, <3>4, <3>5, <3>6
    <3>8. QED
      BY <3>7
  <2>3. QED
    BY <2>1, <2>2
<1> HIDE DEF G
<1>2. S \in G
  BY <1>1, SetInduction
<1>3. QED
  BY <1>2 DEF G

\* As many times the same value as there are elements.
THEOREM SumConstant ==
    ASSUME NEW S, IsFiniteSet(S), NEW f, NEW k \in Int, \A x \in S : f[x] = k
    PROVE  SumFunctionOnSet(f, S) = k * Cardinality(S)
<1> DEFINE G == {T \in SUBSET S : SumFunctionOnSet(f, T) = k * Cardinality(T)}
<1>1. ASSUME NEW T \in SUBSET S, \A U \in SUBSET T : U # T => U \in G PROVE T \in G
  <2>1. CASE T = {}
    BY <2>1, SumEmpty, FS_EmptySet
  <2>2. CASE T # {}
    <3> DEFINE x == Pick(T)
               V == T \ {x}
               n == Cardinality(V)
    <3>1. x \in T /\ V \in SUBSET T /\ V # T /\ IsFiniteSet(T) /\ IsFiniteSet(V)
      BY <2>2, PickIn, FS_Subset
    <3>2. SumFunctionOnSet(f, V) = k * n
      BY <1>1, <3>1
    <3>3. Cardinality(T) \in Nat /\ n = Cardinality(T) - 1
      BY <3>1, FS_RemoveElement, FS_CardinalityType
    <3>4. SumFunctionOnSet(f, T) = f[x] + SumFunctionOnSet(f, V)
      BY <2>2, <3>1, SumStep
    <3>5. f[x] = k
      BY <3>1
    <3> HIDE DEF x, V, n
    <3>6. k * Cardinality(T) = k + k * n
      BY <3>3
    <3>7. QED
      BY <3>2, <3>4, <3>5, <3>6
  <2>3. QED
    BY <2>1, <2>2
<1> HIDE DEF G
<1>2. S \in G
  BY <1>1, SetInduction
<1>3. QED
  BY <1>2 DEF G

\* Zeros may be left out of the sum.
THEOREM SumWithoutZeros ==
    ASSUME NEW S, IsFiniteSet(S), NEW T \in SUBSET S, NEW f,
           \A x \in S : f[x] \in Int, \A x \in S \ T : f[x] = 0
    PROVE  SumFunctionOnSet(f, S) = SumFunctionOnSet(f, T)
<1> DEFINE G == {U \in SUBSET S : SumFunctionOnSet(f, U) = SumFunctionOnSet(f, U \cap T)}
<1>1. ASSUME NEW U \in SUBSET S, \A V \in SUBSET U : V # U => V \in G PROVE U \in G
  <2>1. CASE U = {}
    BY <2>1
  <2>2. CASE U # {}
    <3> DEFINE x == Pick(U)
               V == U \ {x}
               W == V \cap T
    <3>1. /\ x \in U /\ V \in SUBSET U /\ V # U
          /\ IsFiniteSet(U) /\ IsFiniteSet(U \cap T) /\ IsFiniteSet(W)
      BY <2>2, PickIn, FS_Subset
    <3>2. SumFunctionOnSet(f, V) = SumFunctionOnSet(f, W)
      BY <1>1, <3>1
    <3>3. SumFunctionOnSet(f, U) = f[x] + SumFunctionOnSet(f, V)
      BY <2>2, <3>1, SumStep
    <3>4. SumFunctionOnSet(f, W) \in Int
      <4>1. \A z \in W : f[z] \in Int
        OBVIOUS
      <4>2. QED
        BY <3>1, <4>1, SumInt
    <3>5. CASE x \in T
      <4>1. x \in U \cap T /\ (U \cap T) \ {x} = W
        BY <3>1, <3>5
      <4>2. \A z \in U \cap T : f[z] \in Int
        OBVIOUS
      <4> HIDE DEF x, W
      <4>3. SumFunctionOnSet(f, U \cap T) = f[x] + SumFunctionOnSet(f, W)
        BY <3>1, <4>1, <4>2, SumRemove
      <4>4. QED
        BY <3>2, <3>3, <4>3
    <3>6. CASE x \notin T
      <4>1. U \cap T = W /\ f[x] = 0
        BY <3>1, <3>6
      <4> HIDE DEF x, W, V
      <4>2. SumFunctionOnSet(f, U) = SumFunctionOnSet(f, W)
        BY <3>2, <3>3, <3>4, <4>1
      <4>3. QED
        BY <4>1, <4>2
    <3>7. QED
      BY <3>5, <3>6
  <2>3. QED
    BY <2>1, <2>2
<1> HIDE DEF G
<1>2. S \in G
  BY <1>1, SetInduction
<1>3. S \cap T = T
  OBVIOUS
<1>4. QED
  BY <1>2, <1>3 DEF G

\* A table adds up to the same by rows and by columns.
THEOREM SumSwap ==
    ASSUME NEW A, IsFiniteSet(A), NEW B, IsFiniteSet(B), NEW f,
           \A a \in A, b \in B : f[a][b] \in Int
    PROVE  SumFunctionOnSet([a \in A |-> SumFunctionOnSet(f[a], B)], A)
             = SumFunctionOnSet([b \in B |-> SumFunctionOnSet([a \in A |-> f[a][b]], A)], B)
<1> DEFINE row == [a \in A |-> SumFunctionOnSet(f[a], B)]
           col(b) == [a \in A |-> f[a][b]]
           cols(T) == [b \in B |-> SumFunctionOnSet(col(b), T)]
           G == {T \in SUBSET A : SumFunctionOnSet(row, T) = SumFunctionOnSet(cols(T), B)}
<1>1. ASSUME NEW T \in SUBSET A, \A U \in SUBSET T : U # T => U \in G PROVE T \in G
  <2>1. CASE T = {}
    <3>1. \A b \in B : cols({})[b] = 0
      BY SumEmpty
    <3>2. SumFunctionOnSet(cols({}), B) = 0
      BY <3>1, SumZero
    <3>3. QED
      BY <2>1, <3>2, SumEmpty
  <2>2. CASE T # {}
    <3> DEFINE x == Pick(T)
               V == T \ {x}
    <3>1. x \in T /\ V \in SUBSET T /\ V # T /\ IsFiniteSet(T) /\ IsFiniteSet(V)
      BY <2>2, PickIn, FS_Subset
    <3>2. SumFunctionOnSet(row, V) = SumFunctionOnSet(cols(V), B)
      BY <1>1, <3>1
    <3>3. SumFunctionOnSet(row, T) = row[x] + SumFunctionOnSet(row, V)
      BY <2>2, <3>1, SumStep
    <3>4. row[x] = SumFunctionOnSet(f[x], B)
      BY <3>1
    <3>5. ASSUME NEW b \in B
          PROVE  /\ f[x][b] \in Int /\ cols(V)[b] \in Int
                 /\ cols(T)[b] = f[x][b] + cols(V)[b]
      <4>1. \A a \in T : col(b)[a] \in Int
        OBVIOUS
      <4>2. col(b)[x] = f[x][b] /\ f[x][b] \in Int
        BY <3>1
      <4> HIDE DEF col, x
      <4>3. SumFunctionOnSet(col(b), T) = col(b)[x] + SumFunctionOnSet(col(b), V)
        BY <2>2, <3>1, SumStep DEF x
      <4>4. SumFunctionOnSet(col(b), V) \in Int
        BY <3>1, <4>1, SumInt
      <4>5. QED
        BY <4>2, <4>3, <4>4
    <3> HIDE DEF row, cols, x, V
    <3>6. SumFunctionOnSet(cols(T), B) = SumFunctionOnSet(f[x], B) + SumFunctionOnSet(cols(V), B)
      BY <3>5, SumPlus
    <3>7. QED
      BY <3>2, <3>3, <3>4, <3>6
  <2>3. QED
    BY <2>1, <2>2
<1> HIDE DEF G
<1>2. A \in G
  BY <1>1, SetInduction
<1>3. QED
  BY <1>2 DEF G

\* A sum in two parts.
THEOREM SumSplit ==
    ASSUME NEW S, IsFiniteSet(S), NEW T \in SUBSET S, NEW f, \A x \in S : f[x] \in Int
    PROVE  SumFunctionOnSet(f, S) = SumFunctionOnSet(f, S \ T) + SumFunctionOnSet(f, T)
<1> DEFINE inside  == [x \in S |-> IF x \in T THEN f[x] ELSE 0]
           outside == [x \in S |-> IF x \in T THEN 0 ELSE f[x]]
<1>1. /\ IsFiniteSet(T) /\ IsFiniteSet(S \ T)
      /\ \A x \in S : /\ outside[x] \in Int /\ inside[x] \in Int
                      /\ f[x] = outside[x] + inside[x]
      /\ \A x \in S \ T : inside[x] = 0 /\ outside[x] = f[x]
      /\ \A x \in S \ (S \ T) : outside[x] = 0
      /\ \A x \in T : inside[x] = f[x]
  BY FS_Subset
<1> HIDE DEF inside, outside
<1>2. SumFunctionOnSet(f, S) = SumFunctionOnSet(outside, S) + SumFunctionOnSet(inside, S)
  BY <1>1, SumPlus
<1>3. SumFunctionOnSet(inside, S) = SumFunctionOnSet(f, T)
  <2>1. SumFunctionOnSet(inside, S) = SumFunctionOnSet(inside, T)
    BY <1>1, SumWithoutZeros
  <2>2. SumFunctionOnSet(inside, T) = SumFunctionOnSet(f, T)
    BY <1>1, SumSame
  <2>3. QED
    BY <2>1, <2>2
<1>4. SumFunctionOnSet(outside, S) = SumFunctionOnSet(f, S \ T)
  <2>1. SumFunctionOnSet(outside, S) = SumFunctionOnSet(outside, S \ T)
    BY <1>1, SumWithoutZeros
  <2>2. SumFunctionOnSet(outside, S \ T) = SumFunctionOnSet(f, S \ T)
    BY <1>1, SumSame
  <2>3. QED
    BY <2>1, <2>2
<1>5. QED
  BY <1>2, <1>3, <1>4

\* The sum of a single value.
THEOREM SumSingle ==
    ASSUME NEW f, NEW x, f[x] \in Int
    PROVE  SumFunctionOnSet(f, {x}) = f[x]
<1>1. IsFiniteSet({x}) /\ {x} \ {x} = {} /\ \A z \in {x} : f[z] \in Int
  BY FS_Singleton
<1>2. SumFunctionOnSet(f, {x}) = f[x] + SumFunctionOnSet(f, {})
  BY <1>1, SumRemove
<1>3. QED
  BY <1>2, SumEmpty
=============================================================================
