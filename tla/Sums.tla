---------------------------------- MODULE Sums ----------------------------------
(***************************************************************************)
(* Facts about the sum of a function over a finite set, on which the       *)
(* proofs about balances rest.                                             *)
(***************************************************************************)
EXTENDS Integers, Functions, FiniteSetTheorems, TLAPS

\* Induction over the subsets of a finite set, with the good subsets as a set.
LEMMA SubsetInduction ==
    ASSUME NEW S, IsFiniteSet(S), NEW G, {} \in G,
           \A T \in SUBSET S : T # {} /\ (\A x \in T : T \ {x} \in G) => T \in G
    PROVE  S \in G
<1> DEFINE Bad == {T \in SUBSET S : T \notin G}
<1> SUFFICES ASSUME S \notin G PROVE FALSE
  OBVIOUS
<1>1. IsWellFoundedOn(StrictSubsetOrdering(S), SUBSET S)
  <2>1. IsWellFoundedOn(StrictSubsetOrdering(S), FiniteSubsetsOf(S))
    BY FS_StrictSubsetOrderingWellFounded
  <2>2. FiniteSubsetsOf(S) = SUBSET S
    BY FS_FiniteSubsetsOfFinite
  <2> QED
    BY <2>1, <2>2
<1>2. Bad \subseteq SUBSET S /\ Bad # {}
  OBVIOUS
<1>3. PICK T \in Bad : \A U \in Bad : <<U, T>> \notin StrictSubsetOrdering(S)
  <2> HIDE DEF Bad
  <2> QED
    BY <1>1, <1>2, WFMin
<1>4. PICK x \in T : T \ {x} \notin G
  BY <1>3
<1>5. T \ {x} \in Bad /\ T \ {x} \subseteq T /\ T \ {x} # T
  BY <1>3, <1>4
<1> QED
  BY <1>3, <1>5 DEF StrictSubsetOrdering

-------------------------------------------------------------------------------
\* The recursion behind SumFunctionOnSet, in first-order form.
Picked(s) == CHOOSE x \in s : TRUE
Adds(f, g, s) == IF s = {} THEN 0 ELSE f[Picked(s)] + g[s \ {Picked(s)}]
IsSum(f, S, g) == g = [s \in SUBSET S |-> Adds(f, g, s)]

LEMMA SumIsSum ==
    ASSUME NEW f, NEW S
    PROVE  SumFunctionOnSet(f, S) = (CHOOSE g : IsSum(f, S, g))[S]
BY DEF SumFunctionOnSet, FoldFunctionOnSet, MapThenFoldSet, IsSum, Adds, Picked

LEMMA PickedIsMember == \A s : s # {} => Picked(s) \in s
BY DEF Picked

\* A sum over a set holds the sums over its subsets.
LEMMA SumRestricts ==
    ASSUME NEW f, NEW S, NEW g, IsSum(f, S, g), NEW T, T \subseteq S
    PROVE  IsSum(f, T, [s \in SUBSET T |-> g[s]])
<1> DEFINE h == [s \in SUBSET T |-> g[s]]
<1>1. ASSUME NEW s \in SUBSET T PROVE h[s] = Adds(f, h, s)
  <2>1. s \ {Picked(s)} \in SUBSET T /\ s \in SUBSET S
    OBVIOUS
  <2>2. g[s] = Adds(f, g, s)
    BY <2>1 DEF IsSum
  <2> QED
    BY <2>1, <2>2 DEF Adds
<1> QED
  BY <1>1 DEF IsSum

\* There is one.
LEMMA SumUnique ==
    ASSUME NEW f, NEW S, IsFiniteSet(S), NEW g, NEW h, IsSum(f, S, g), IsSum(f, S, h)
    PROVE  g = h
<1> DEFINE G == {T \in SUBSET S : \A U \in SUBSET T : g[U] = h[U]}
<1>1. \A s \in SUBSET S : g[s] = Adds(f, g, s) /\ h[s] = Adds(f, h, s)
  BY DEF IsSum
<1>2. {} \in G
  <2>1. g[{}] = 0 /\ h[{}] = 0
    BY <1>1 DEF Adds
  <2> QED
    BY <2>1
<1>3. ASSUME NEW T \in SUBSET S, T # {}, \A x \in T : T \ {x} \in G PROVE T \in G
  <2> SUFFICES ASSUME NEW U \in SUBSET T PROVE g[U] = h[U]
    OBVIOUS
  <2>1. CASE U # T
    <3>1. PICK x \in T : x \notin U
      BY <2>1
    <3> QED
      BY <1>3, <3>1
  <2>2. CASE U = T
    <3>1. Picked(T) \in T
      BY <1>3, PickedIsMember
    <3>2. g[T \ {Picked(T)}] = h[T \ {Picked(T)}]
      BY <1>3, <3>1
    <3> QED
      BY <1>1, <1>3, <2>2, <3>2 DEF Adds
  <2> QED
    BY <2>1, <2>2
<1>4. S \in G
  <2> HIDE DEF G
  <2> QED
    BY <1>2, <1>3, SubsetInduction, Zenon
<1> QED
  BY <1>4 DEF IsSum

LEMMA SumExists ==
    ASSUME NEW f, NEW S, IsFiniteSet(S)
    PROVE  \E g : IsSum(f, S, g)
<1> DEFINE G == {T \in SUBSET S : \E g : IsSum(f, T, g)}
<1>1. {} \in G
  <2>1. IsSum(f, {}, [s \in SUBSET {} |-> 0])
    BY DEF IsSum, Adds
  <2> QED
    BY <2>1
<1>2. ASSUME NEW T \in SUBSET S, T # {}, \A x \in T : T \ {x} \in G PROVE T \in G
  <2> DEFINE sum(U) == CHOOSE g : IsSum(f, U, g)
             value(U) == IF U = T THEN f[Picked(T)] + sum(T \ {Picked(T)})[T \ {Picked(T)}]
                         ELSE sum(U)[U]
             g == [U \in SUBSET T |-> value(U)]
  <2> HIDE DEF sum
  <2>1. ASSUME NEW x \in T PROVE IsSum(f, T \ {x}, sum(T \ {x}))
    BY <1>2 DEF sum
  <2>2. ASSUME NEW x \in T, NEW U \in SUBSET (T \ {x})
        PROVE  IsSum(f, U, sum(U)) /\ sum(U) = [s \in SUBSET U |-> sum(T \ {x})[s]]
    <3>1. IsSum(f, U, [s \in SUBSET U |-> sum(T \ {x})[s]])
      BY <2>1, SumRestricts
    <3>2. IsSum(f, U, sum(U))
      BY <3>1 DEF sum
    <3>3. IsFiniteSet(U)
      BY FS_Subset
    <3> QED
      BY <3>1, <3>2, <3>3, SumUnique
  <2>3. ASSUME NEW U \in SUBSET T PROVE g[U] = Adds(f, g, U)
    <3>1. CASE U = T
      <4>1. Picked(T) \in T
        BY <1>2, PickedIsMember
      <4>2. T \ {Picked(T)} \in SUBSET T /\ T \ {Picked(T)} # T
        BY <4>1
      <4> QED
        BY <1>2, <3>1, <4>2 DEF Adds
    <3>2. CASE U # T
      <4>1. PICK x \in T : U \in SUBSET (T \ {x})
        BY <3>2
      <4>2. sum(U)[U] = Adds(f, sum(U), U)
        <5>1. IsSum(f, U, sum(U))
          BY <2>2, <4>1, Zenon
        <5>2. U \in SUBSET U
          OBVIOUS
        <5> QED
          BY <5>1, <5>2 DEF IsSum
      <4>3. CASE U = {}
        BY <3>2, <4>2, <4>3 DEF Adds
      <4>4. CASE U # {}
        <5> DEFINE V == U \ {Picked(U)}
        <5>1. V \in SUBSET U /\ V # T /\ V \in SUBSET (T \ {x})
          BY <3>2, <4>1
        <5>2. sum(U)[V] = sum(T \ {x})[V] /\ sum(V)[V] = sum(T \ {x})[V]
          <6> HIDE DEF V
          <6>1. sum(U) = [s \in SUBSET U |-> sum(T \ {x})[s]]
            BY <2>2, <4>1, Zenon
          <6>2. sum(V) = [s \in SUBSET V |-> sum(T \ {x})[s]]
            BY <2>2, <4>1, <5>1, Zenon
          <6> QED
            BY <5>1, <6>1, <6>2
        <5> QED
          BY <3>2, <4>2, <4>4, <5>1, <5>2 DEF Adds
      <4> QED
        BY <4>3, <4>4
    <3> QED
      BY <3>1, <3>2
  <2>4. IsSum(f, T, g)
    BY <2>3 DEF IsSum
  <2> QED
    BY <2>4
<1>3. S \in G
  <2> HIDE DEF G
  <2> QED
    BY <1>1, <1>2, SubsetInduction, Zenon
<1> QED
  BY <1>3

\* The sum over a set is one summand and the sum over the rest.
LEMMA SumAdds ==
    ASSUME NEW f, NEW S, IsFiniteSet(S), S # {}
    PROVE  SumFunctionOnSet(f, S) = f[Picked(S)] + SumFunctionOnSet(f, S \ {Picked(S)})
<1> DEFINE g == CHOOSE g : IsSum(f, S, g)
           R == S \ {Picked(S)}
           h == CHOOSE h : IsSum(f, R, h)
<1>1. IsSum(f, S, g)
  BY SumExists
<1>2. IsFiniteSet(R)
  BY FS_Subset
<1>3. IsSum(f, R, h)
  BY <1>2, SumExists
<1>4. IsSum(f, R, [s \in SUBSET R |-> g[s]])
  <2> HIDE DEF g
  <2> QED
    BY <1>1, SumRestricts
<1>5. h[R] = g[R]
  <2>1. h = [s \in SUBSET R |-> g[s]]
    <3> HIDE DEF g, h
    <3> QED
      BY <1>2, <1>3, <1>4, SumUnique
  <2> HIDE DEF g, h
  <2> QED
    BY <2>1
<1>6. SumFunctionOnSet(f, S) = g[S] /\ SumFunctionOnSet(f, R) = h[R]
  BY SumIsSum
<1>7. g[S] = f[Picked(S)] + g[R]
  <2> HIDE DEF g
  <2> QED
    BY <1>1 DEF IsSum, Adds
<1> QED
  BY <1>5, <1>6, <1>7

LEMMA SumEmpty == \A f : SumFunctionOnSet(f, {}) = 0
BY DEF SumFunctionOnSet, FoldFunctionOnSet, MapThenFoldSet

\* A sum of integers is an integer.
LEMMA SumType ==
    ASSUME NEW S, IsFiniteSet(S), NEW f, \A x \in S : f[x] \in Int
    PROVE  SumFunctionOnSet(f, S) \in Int
<1> DEFINE G == {T \in SUBSET S : SumFunctionOnSet(f, T) \in Int}
<1>1. {} \in G
  BY SumEmpty
<1>2. ASSUME NEW T \in SUBSET S, T # {}, \A x \in T : T \ {x} \in G PROVE T \in G
  <2>1. IsFiniteSet(T) /\ Picked(T) \in T
    BY <1>2, FS_Subset, PickedIsMember
  <2>2. SumFunctionOnSet(f, T) = f[Picked(T)] + SumFunctionOnSet(f, T \ {Picked(T)})
    BY <1>2, <2>1, SumAdds
  <2> QED
    BY <1>2, <2>1, <2>2
<1> HIDE DEF G
<1>3. S \in G
  BY <1>1, <1>2, SubsetInduction, Zenon
<1> QED
  BY <1>3 DEF G

\* The order of the summands does not matter: any of them can be taken out.
LEMMA SumRemove ==
    ASSUME NEW S, IsFiniteSet(S), NEW f, \A x \in S : f[x] \in Int, NEW e \in S
    PROVE  SumFunctionOnSet(f, S) = f[e] + SumFunctionOnSet(f, S \ {e})
<1> DEFINE sum(T) == SumFunctionOnSet(f, T)
           G == {T \in SUBSET S : \A x \in T : sum(T) = f[x] + sum(T \ {x})}
<1>1. {} \in G
  OBVIOUS
<1>2. ASSUME NEW T \in SUBSET S, T # {}, \A x \in T : T \ {x} \in G PROVE T \in G
  <2> SUFFICES ASSUME NEW x \in T PROVE sum(T) = f[x] + sum(T \ {x})
    OBVIOUS
  <2> DEFINE y == Picked(T)
  <2>1. y \in T /\ sum(T) = f[y] + sum(T \ {y})
    <3>1. IsFiniteSet(T)
      BY FS_Subset
    <3> QED
      BY <1>2, <3>1, SumAdds, PickedIsMember
  <2>2. CASE x = y
    BY <2>1, <2>2
  <2>3. CASE x # y
    <3> HIDE DEF y
    <3>1. sum(T \ {y}) = f[x] + sum((T \ {y}) \ {x})
      BY <1>2, <2>1, <2>3
    <3>2. sum(T \ {x}) = f[y] + sum((T \ {x}) \ {y})
      BY <1>2, <2>1, <2>3
    <3>3. (T \ {y}) \ {x} = (T \ {x}) \ {y}
      OBVIOUS
    <3>4. IsFiniteSet((T \ {x}) \ {y})
      BY FS_Subset
    <3>5. f[x] \in Int /\ f[y] \in Int /\ sum((T \ {x}) \ {y}) \in Int
      BY <2>1, <3>4, SumType
    <3> DEFINE rest == sum((T \ {x}) \ {y})
    <3>6. sum(T \ {y}) = f[x] + rest /\ sum(T \ {x}) = f[y] + rest
      BY <3>1, <3>2, <3>3
    <3> HIDE DEF rest, sum
    <3>7. rest \in Int
      BY <3>5 DEF rest
    <3> QED
      BY <2>1, <3>5, <3>6, <3>7
  <2> QED
    BY <2>2, <2>3
<1> HIDE DEF G
<1>3. S \in G
  BY <1>1, <1>2, SubsetInduction, Zenon
<1> QED
  BY <1>3 DEF G

\* Equal summands, equal sums.
LEMMA SumEqual ==
    ASSUME NEW S, IsFiniteSet(S), NEW f, NEW g, \A x \in S : f[x] = g[x]
    PROVE  SumFunctionOnSet(f, S) = SumFunctionOnSet(g, S)
<1> DEFINE G == {T \in SUBSET S : SumFunctionOnSet(f, T) = SumFunctionOnSet(g, T)}
<1>1. {} \in G
  BY SumEmpty
<1>2. ASSUME NEW T \in SUBSET S, T # {}, \A x \in T : T \ {x} \in G PROVE T \in G
  <2>1. IsFiniteSet(T) /\ Picked(T) \in T
    BY <1>2, FS_Subset, PickedIsMember
  <2>2. /\ SumFunctionOnSet(f, T) = f[Picked(T)] + SumFunctionOnSet(f, T \ {Picked(T)})
        /\ SumFunctionOnSet(g, T) = g[Picked(T)] + SumFunctionOnSet(g, T \ {Picked(T)})
    BY <1>2, <2>1, SumAdds
  <2> QED
    BY <1>2, <2>1, <2>2
<1> HIDE DEF G
<1>3. S \in G
  BY <1>1, <1>2, SubsetInduction, Zenon
<1> QED
  BY <1>3 DEF G

\* When one summand changes, the sum changes by as much.
LEMMA SumChange ==
    ASSUME NEW S, IsFiniteSet(S), NEW f, NEW g, NEW e \in S,
           \A x \in S : f[x] \in Int /\ g[x] \in Int,
           \A x \in S : x # e => f[x] = g[x]
    PROVE  SumFunctionOnSet(g, S) = SumFunctionOnSet(f, S) - f[e] + g[e]
<1>1. IsFiniteSet(S \ {e})
  BY FS_Subset
<1>2. SumFunctionOnSet(g, S \ {e}) = SumFunctionOnSet(f, S \ {e})
  BY <1>1, SumEqual
<1>3. SumFunctionOnSet(f, S \ {e}) \in Int /\ f[e] \in Int /\ g[e] \in Int
  BY <1>1, SumType
<1>4. /\ SumFunctionOnSet(f, S) = f[e] + SumFunctionOnSet(f, S \ {e})
      /\ SumFunctionOnSet(g, S) = g[e] + SumFunctionOnSet(g, S \ {e})
  BY SumRemove
<1> QED
  BY <1>2, <1>3, <1>4

\* The sum of sums.
LEMMA SumPlus ==
    ASSUME NEW S, IsFiniteSet(S), NEW f, NEW g, NEW h,
           \A x \in S : f[x] \in Int /\ g[x] \in Int /\ h[x] = f[x] + g[x]
    PROVE  SumFunctionOnSet(h, S) = SumFunctionOnSet(f, S) + SumFunctionOnSet(g, S)
<1> DEFINE sum(k, T) == SumFunctionOnSet(k, T)
           G == {T \in SUBSET S : sum(h, T) = sum(f, T) + sum(g, T)}
<1>1. {} \in G
  BY SumEmpty
<1>2. ASSUME NEW T \in SUBSET S, T # {}, \A x \in T : T \ {x} \in G PROVE T \in G
  <2> DEFINE y == Picked(T)
             R == T \ {y}
  <2>1. IsFiniteSet(T) /\ IsFiniteSet(R) /\ y \in T
    BY <1>2, FS_Subset, PickedIsMember
  <2>2. sum(f, R) \in Int /\ sum(g, R) \in Int
    BY <2>1, SumType
  <2>3. /\ sum(f, T) = f[y] + sum(f, R)
        /\ sum(g, T) = g[y] + sum(g, R)
        /\ sum(h, T) = h[y] + sum(h, R)
    BY <1>2, <2>1, SumAdds
  <2>4. sum(h, R) = sum(f, R) + sum(g, R)
    BY <1>2, <2>1
  <2>5. f[y] \in Int /\ g[y] \in Int /\ h[y] = f[y] + g[y]
    BY <2>1
  <2> HIDE DEF sum, y, R
  <2> QED
    BY <2>2, <2>3, <2>4, <2>5
<1> HIDE DEF G
<1>3. S \in G
  BY <1>1, <1>2, SubsetInduction, Zenon
<1> QED
  BY <1>3 DEF G

\* Summands that are zero do not count.
LEMMA SumSubset ==
    ASSUME NEW S, IsFiniteSet(S), NEW f, NEW T, T \subseteq S,
           \A x \in S : f[x] \in Int, \A x \in S \ T : f[x] = 0
    PROVE  SumFunctionOnSet(f, S) = SumFunctionOnSet(f, T)
<1> DEFINE sum(U) == SumFunctionOnSet(f, U)
           G == {U \in SUBSET S : sum(U) = sum(U \cap T)}
<1>1. {} \in G
  OBVIOUS
<1>2. ASSUME NEW U \in SUBSET S, U # {}, \A x \in U : U \ {x} \in G PROVE U \in G
  <2>1. PICK x \in U : TRUE
    BY <1>2
  <2>2. IsFiniteSet(U) /\ IsFiniteSet(U \cap T) /\ IsFiniteSet((U \ {x}) \cap T)
    BY FS_Subset
  <2>3. sum(U) = f[x] + sum(U \ {x}) /\ sum(U \ {x}) = sum((U \ {x}) \cap T)
    BY <1>2, <2>2, SumRemove
  <2>4. f[x] \in Int /\ sum((U \ {x}) \cap T) \in Int
    BY <2>2, SumType
  <2>5. CASE x \in T
    <3>1. (U \cap T) \ {x} = (U \ {x}) \cap T
      OBVIOUS
    <3>2. sum(U \cap T) = f[x] + sum((U \cap T) \ {x})
      BY <2>2, <2>5, SumRemove
    <3> QED
      BY <2>3, <3>1, <3>2
  <2>6. CASE x \notin T
    <3>1. U \cap T = (U \ {x}) \cap T
      BY <2>6
    <3>2. f[x] = 0
      BY <2>6
    <3> DEFINE rest == sum((U \ {x}) \cap T)
    <3>3. sum(U \cap T) = rest
      BY <3>1
    <3>4. sum(U) = f[x] + rest /\ rest \in Int
      BY <2>3, <2>4
    <3> HIDE DEF rest, sum
    <3>5. sum(U) = sum(U \cap T)
      BY <3>2, <3>3, <3>4
    <3> QED
      BY <3>5
  <2> QED
    BY <2>5, <2>6
<1> HIDE DEF G
<1>3. S \in G
  BY <1>1, <1>2, SubsetInduction, Zenon
<1>4. S \cap T = T
  OBVIOUS
<1> QED
  BY <1>3, <1>4 DEF G

\* A sum of what is not negative is not negative, and no summand exceeds it.
LEMMA SumNotNegative ==
    ASSUME NEW S, IsFiniteSet(S), NEW f, \A x \in S : f[x] \in Nat
    PROVE  SumFunctionOnSet(f, S) \in Nat /\ \A x \in S : f[x] <= SumFunctionOnSet(f, S)
<1> DEFINE sum(T) == SumFunctionOnSet(f, T)
           G == {T \in SUBSET S : sum(T) \in Nat}
<1>1. {} \in G
  BY SumEmpty
<1>2. ASSUME NEW T \in SUBSET S, T # {}, \A x \in T : T \ {x} \in G PROVE T \in G
  <2>1. IsFiniteSet(T) /\ Picked(T) \in T
    BY <1>2, FS_Subset, PickedIsMember
  <2>2. SumFunctionOnSet(f, T) = f[Picked(T)] + SumFunctionOnSet(f, T \ {Picked(T)})
    BY <1>2, <2>1, SumAdds
  <2> QED
    BY <1>2, <2>1, <2>2
<1>3. ASSUME NEW T \in SUBSET S PROVE sum(T) \in Nat
  <2> DEFINE H == G \cap SUBSET T
  <2>1. IsFiniteSet(T)
    BY FS_Subset
  <2>2. {} \in H
    BY <1>1
  <2>3. ASSUME NEW U \in SUBSET T, U # {}, \A x \in U : U \ {x} \in H PROVE U \in H
    BY <1>2, <2>3
  <2> HIDE DEF H
  <2>4. T \in H
    BY <2>1, <2>2, <2>3, SubsetInduction, Zenon
  <2> QED
    BY <2>4 DEF H
<1>4. ASSUME NEW x \in S PROVE f[x] <= sum(S)
  <2>1. sum(S) = f[x] + sum(S \ {x})
    BY SumRemove
  <2>2. sum(S \ {x}) \in Nat /\ f[x] \in Nat
    BY <1>3
  <2> HIDE DEF sum
  <2> QED
    BY <2>1, <2>2
<1> QED
  BY <1>3, <1>4

LEMMA SumZero ==
    ASSUME NEW S, IsFiniteSet(S), NEW f, \A x \in S : f[x] = 0
    PROVE  SumFunctionOnSet(f, S) = 0
<1>1. SumFunctionOnSet(f, S) = SumFunctionOnSet(f, {})
  BY SumSubset
<1> QED
  BY <1>1, SumEmpty

LEMMA SumNegative ==
    ASSUME NEW S, IsFiniteSet(S), NEW f, NEW g,
           \A x \in S : f[x] \in Int /\ g[x] = 0 - f[x]
    PROVE  SumFunctionOnSet(g, S) = 0 - SumFunctionOnSet(f, S)
<1> DEFINE h == [x \in S |-> 0]
<1>1. /\ \A x \in S : f[x] \in Int /\ g[x] \in Int /\ h[x] = f[x] + g[x]
      /\ \A x \in S : h[x] = 0
  OBVIOUS
<1> HIDE DEF h
<1>2. SumFunctionOnSet(h, S) = SumFunctionOnSet(f, S) + SumFunctionOnSet(g, S)
  BY <1>1, SumPlus
<1>3. SumFunctionOnSet(h, S) = 0
  BY <1>1, SumZero
<1>4. SumFunctionOnSet(f, S) \in Int /\ SumFunctionOnSet(g, S) \in Int
  BY <1>1, SumType
<1> QED
  BY <1>2, <1>3, <1>4

\* The sum over two sets that share nothing.
LEMMA SumUnion ==
    ASSUME NEW S, IsFiniteSet(S), NEW T, IsFiniteSet(T), S \cap T = {},
           NEW f, \A x \in S \cup T : f[x] \in Int
    PROVE  SumFunctionOnSet(f, S \cup T) = SumFunctionOnSet(f, S) + SumFunctionOnSet(f, T)
<1> DEFINE U == S \cup T
           g == [x \in U |-> IF x \in S THEN f[x] ELSE 0]
           h == [x \in U |-> IF x \in S THEN 0 ELSE f[x]]
<1>1. IsFiniteSet(U)
  BY FS_Union
<1>2. SumFunctionOnSet(f, U) = SumFunctionOnSet(g, U) + SumFunctionOnSet(h, U)
  <2>1. \A x \in U : g[x] \in Int /\ h[x] \in Int /\ f[x] = g[x] + h[x]
    OBVIOUS
  <2> HIDE DEF g, h, U
  <2> QED
    BY <1>1, <2>1, SumPlus
<1>3. SumFunctionOnSet(g, U) = SumFunctionOnSet(g, S)
  <2>1. S \subseteq U /\ (\A x \in U : g[x] \in Int) /\ (\A x \in U \ S : g[x] = 0)
    OBVIOUS
  <2> HIDE DEF g, U
  <2> QED
    BY <1>1, <2>1, SumSubset
<1>4. SumFunctionOnSet(h, U) = SumFunctionOnSet(h, T)
  <2>1. T \subseteq U /\ (\A x \in U : h[x] \in Int) /\ (\A x \in U \ T : h[x] = 0)
    OBVIOUS
  <2> HIDE DEF h, U
  <2> QED
    BY <1>1, <2>1, SumSubset
<1>5. SumFunctionOnSet(g, S) = SumFunctionOnSet(f, S)
  <2>1. \A x \in S : g[x] = f[x]
    OBVIOUS
  <2> HIDE DEF g
  <2> QED
    BY <2>1, SumEqual
<1>6. SumFunctionOnSet(h, T) = SumFunctionOnSet(f, T)
  <2>1. \A x \in T : h[x] = f[x]
    OBVIOUS
  <2> HIDE DEF h
  <2> QED
    BY <2>1, SumEqual
<1> QED
  BY <1>2, <1>3, <1>4, <1>5, <1>6

\* The sum over the members of S that are in T, as a sum over S.
LEMMA SumWhere ==
    ASSUME NEW S, IsFiniteSet(S), NEW T, T \subseteq S, NEW f, \A x \in T : f[x] \in Int
    PROVE  SumFunctionOnSet(f, T) = SumFunctionOnSet([x \in S |-> IF x \in T THEN f[x] ELSE 0], S)
<1> DEFINE g == [x \in S |-> IF x \in T THEN f[x] ELSE 0]
<1>1. /\ \A x \in S : g[x] \in Int
      /\ \A x \in S \ T : g[x] = 0
      /\ \A x \in T : g[x] = f[x]
  OBVIOUS
<1>2. IsFiniteSet(T)
  BY FS_Subset
<1> HIDE DEF g
<1>3. SumFunctionOnSet(g, S) = SumFunctionOnSet(g, T)
  BY <1>1, SumSubset
<1>4. SumFunctionOnSet(g, T) = SumFunctionOnSet(f, T)
  BY <1>1, <1>2, SumEqual
<1> QED
  BY <1>3, <1>4 DEF g

\* The sum over S is the sum, over the parts of S, of the sums over each part.
LEMMA SumParts ==
    ASSUME NEW S, IsFiniteSet(S), NEW E, IsFiniteSet(E), NEW r, \A x \in S : r[x] \in E,
           NEW f, \A x \in S : f[x] \in Int
    PROVE  SumFunctionOnSet(f, S)
             = SumFunctionOnSet([e \in E |-> SumFunctionOnSet(f, {x \in S : r[x] = e})], E)
<1> DEFINE part(T, e) == {x \in T : r[x] = e}
           parts(T) == [e \in E |-> SumFunctionOnSet(f, part(T, e))]
           G == {T \in SUBSET S : SumFunctionOnSet(f, T) = SumFunctionOnSet(parts(T), E)}
<1>1. {} \in G
  <2>1. \A e \in E : part({}, e) = {}
    OBVIOUS
  <2>2. \A e \in E : parts({})[e] = 0
    BY <2>1, SumEmpty
  <2> HIDE DEF parts
  <2>3. SumFunctionOnSet(parts({}), E) = 0
    BY <2>2, SumZero
  <2> QED
    BY <2>3, SumEmpty
<1>2. ASSUME NEW T \in SUBSET S, T # {}, \A x \in T : T \ {x} \in G PROVE T \in G
  <2>1. PICK y \in T : TRUE
    BY <1>2
  <2>2. PICK d \in E : d = r[y]
    OBVIOUS
  <2>3. PICK U : U = T \ {y} /\ U \in G
    BY <1>2
  <2>4. /\ IsFiniteSet(T) /\ IsFiniteSet(U)
        /\ \A e : IsFiniteSet(part(T, e)) /\ IsFiniteSet(part(U, e))
    <3>1. T \subseteq S /\ U \subseteq S
      BY <2>3
    <3>2. \A e : part(T, e) \subseteq S /\ part(U, e) \subseteq S
      BY <3>1
    <3> HIDE DEF part
    <3> QED
      BY <3>1, <3>2, FS_Subset
  <2>5. SumFunctionOnSet(f, T) = f[y] + SumFunctionOnSet(f, U)
    BY <2>1, <2>3, <2>4, SumRemove
  <2>6. /\ y \in part(T, d) /\ part(U, d) = part(T, d) \ {y}
        /\ \A e \in E : e # d => part(U, e) = part(T, e)
    BY <2>1, <2>2, <2>3
  <2>7. \A e \in E : \A x \in part(T, e) \cup part(U, e) : f[x] \in Int
    BY <2>3
  <2>8. PICK new, old : new = parts(T) /\ old = parts(U)
    OBVIOUS
  <2>9. \A e \in E : /\ new[e] = SumFunctionOnSet(f, part(T, e))
                     /\ old[e] = SumFunctionOnSet(f, part(U, e))
    BY <2>8
  <2>10. SumFunctionOnSet(f, U) = SumFunctionOnSet(old, E)
    BY <2>3, <2>8
  <2> HIDE DEF part, parts
  <2>11. \A e \in E : new[e] \in Int /\ old[e] \in Int
    BY <2>4, <2>7, <2>9, SumType
  <2>12. new[d] = f[y] + old[d]
    <3>1. PICK P : P = part(T, d)
      OBVIOUS
    <3>2. IsFiniteSet(P) /\ y \in P /\ \A x \in P : f[x] \in Int
      BY <2>4, <2>6, <2>7, <3>1
    <3>3. SumFunctionOnSet(f, P) = f[y] + SumFunctionOnSet(f, P \ {y})
      BY <3>2, SumRemove
    <3> QED
      BY <2>6, <2>9, <3>1, <3>3
  <2>13. \A e \in E : e # d => old[e] = new[e]
    BY <2>6, <2>9
  <2>14. SumFunctionOnSet(new, E) = SumFunctionOnSet(old, E) - old[d] + new[d]
    BY <2>11, <2>13, SumChange
  <2>15. SumFunctionOnSet(old, E) \in Int /\ f[y] \in Int
    BY <2>1, <2>11, SumType
  <2>16. SumFunctionOnSet(f, T) = SumFunctionOnSet(new, E)
    BY <2>5, <2>10, <2>11, <2>12, <2>14, <2>15
  <2> QED
    BY <2>8, <2>16
<1> HIDE DEF G
<1>3. S \in G
  BY <1>1, <1>2, SubsetInduction
<1> QED
  BY <1>3 DEF G

\* Summands of one set only.
LEMMA SumOfOne ==
    ASSUME NEW x, NEW f, f[x] \in Int
    PROVE  SumFunctionOnSet(f, {x}) = f[x]
<1>1. IsFiniteSet({x}) /\ {x} \ {x} = {}
  BY FS_Singleton
<1>2. SumFunctionOnSet(f, {x}) = f[x] + SumFunctionOnSet(f, {x} \ {x})
  BY <1>1, SumRemove
<1>3. SumFunctionOnSet(f, {x} \ {x}) = 0
  BY <1>1, SumEmpty
<1> QED
  BY <1>2, <1>3

LEMMA SumOfTwo ==
    ASSUME NEW x, NEW y, x # y, NEW f, f[x] \in Int, f[y] \in Int
    PROVE  SumFunctionOnSet(f, {x, y}) = f[x] + f[y]
<1>1. IsFiniteSet({x}) /\ IsFiniteSet({y}) /\ {x} \cap {y} = {} /\ {x, y} = {x} \cup {y}
  BY FS_Singleton
<1>2. \A z \in {x} \cup {y} : f[z] \in Int
  OBVIOUS
<1>3. SumFunctionOnSet(f, {x} \cup {y}) = SumFunctionOnSet(f, {x}) + SumFunctionOnSet(f, {y})
  BY <1>1, <1>2, SumUnion
<1>4. SumFunctionOnSet(f, {x}) = f[x] /\ SumFunctionOnSet(f, {y}) = f[y]
  BY SumOfOne
<1> QED
  BY <1>1, <1>3, <1>4

LEMMA PairIsFinite == \A x, y : IsFiniteSet({x, y})
<1> SUFFICES ASSUME NEW x, NEW y PROVE IsFiniteSet({x, y})
  OBVIOUS
<1>1. IsFiniteSet({x}) /\ IsFiniteSet({y}) /\ {x, y} = {x} \cup {y}
  BY FS_Singleton
<1>2. IsFiniteSet({x} \cup {y})
  BY <1>1, FS_Union
<1> QED
  BY <1>1, <1>2

\* A sum of sums, in either order.
LEMMA SumSwap ==
    ASSUME NEW S, IsFiniteSet(S), NEW T, IsFiniteSet(T), NEW F,
           \A x \in S, y \in T : F[x][y] \in Int
    PROVE  SumFunctionOnSet([x \in S |-> SumFunctionOnSet(F[x], T)], S)
             = SumFunctionOnSet([y \in T |-> SumFunctionOnSet([x \in S |-> F[x][y]], S)], T)
<1> DEFINE row == [x \in S |-> SumFunctionOnSet(F[x], T)]
           col(U) == [y \in T |-> SumFunctionOnSet([x \in S |-> F[x][y]], U)]
           G == {U \in SUBSET S : SumFunctionOnSet(row, U) = SumFunctionOnSet(col(U), T)}
<1>1. {} \in G
  <2>1. SumFunctionOnSet(row, {}) = 0
    BY SumEmpty
  <2>2. \A y \in T : col({})[y] = 0
    BY SumEmpty
  <2>3. SumFunctionOnSet(col({}), T) = SumFunctionOnSet(col({}), {})
    <3> HIDE DEF col
    <3> QED
      BY <2>2, SumSubset
  <2>4. SumFunctionOnSet(col({}), {}) = 0
    BY SumEmpty
  <2> QED
    BY <2>1, <2>3, <2>4
<1>2. ASSUME NEW U \in SUBSET S, U # {}, \A x \in U : U \ {x} \in G PROVE U \in G
  <2> DEFINE x == Picked(U)
             R == U \ {x}
             summand(y) == [z \in S |-> F[z][y]]
  <2>1. IsFiniteSet(U) /\ IsFiniteSet(R) /\ x \in U
    BY <1>2, FS_Subset, PickedIsMember
  <2>2. SumFunctionOnSet(row, U) = row[x] + SumFunctionOnSet(row, R)
    BY <1>2, <2>1, SumAdds
  <2>3. SumFunctionOnSet(row, R) = SumFunctionOnSet(col(R), T)
    BY <1>2, <2>1
  <2>4. ASSUME NEW y \in T
        PROVE  /\ col(R)[y] \in Int /\ F[x][y] \in Int
               /\ col(U)[y] = F[x][y] + col(R)[y]
    <3>1. \A z \in S : summand(y)[z] = F[z][y]
      OBVIOUS
    <3>2. col(U)[y] = SumFunctionOnSet(summand(y), U) /\ col(R)[y] = SumFunctionOnSet(summand(y), R)
      OBVIOUS
    <3>3. \A z \in U : summand(y)[z] \in Int
      BY <3>1
    <3> HIDE DEF summand, col
    <3>4. SumFunctionOnSet(summand(y), U) = summand(y)[x] + SumFunctionOnSet(summand(y), R)
      BY <1>2, <2>1, SumAdds
    <3>5. SumFunctionOnSet(summand(y), R) \in Int
      BY <2>1, <3>3, SumType
    <3> QED
      BY <2>1, <3>1, <3>2, <3>4, <3>5
  <2>5. SumFunctionOnSet(col(U), T) = SumFunctionOnSet(F[x], T) + SumFunctionOnSet(col(R), T)
    <3> HIDE DEF col, x, R
    <3> QED
      BY <2>4, SumPlus
  <2>6. row[x] = SumFunctionOnSet(F[x], T)
    BY <2>1
  <2> HIDE DEF col, row, x, R
  <2> QED
    BY <2>2, <2>3, <2>5, <2>6
<1>3. S \in G
  <2> HIDE DEF G
  <2> QED
    BY <1>1, <1>2, SubsetInduction, Zenon
<1> QED
  BY <1>3

\* One more term.
LEMMA SumAdd ==
    ASSUME NEW S, IsFiniteSet(S), NEW e, e \notin S, NEW f, f[e] \in Int,
           \A x \in S : f[x] \in Int
    PROVE  SumFunctionOnSet(f, S \cup {e}) = SumFunctionOnSet(f, S) + f[e]
<1>1. PICK T : T = S \cup {e}
  OBVIOUS
<1>2. IsFiniteSet(T) /\ e \in T /\ T \ {e} = S /\ \A x \in T : f[x] \in Int
  BY <1>1, FS_AddElement
<1>3. SumFunctionOnSet(f, T) = f[e] + SumFunctionOnSet(f, T \ {e})
  BY <1>2, SumRemove
<1>4. SumFunctionOnSet(f, S) \in Int
  BY SumType
<1>5. SumFunctionOnSet(f, T) = f[e] + SumFunctionOnSet(f, S)
  BY <1>2, <1>3
<1>6. \A a, b, c \in Int : c = a + b => c = b + a
  OBVIOUS
<1>7. SumFunctionOnSet(f, T) \in Int
  BY <1>2, SumType
<1>8. SumFunctionOnSet(f, T) = SumFunctionOnSet(f, S) + f[e]
  BY <1>4, <1>5, <1>6, <1>7
<1> QED
  BY <1>1, <1>8

\* The terms under other names.
LEMMA SumRenamed ==
    ASSUME NEW S, IsFiniteSet(S), NEW f, \A x \in S : f[x] \in Int,
           NEW h, \A x, y \in S : h[x] = h[y] => x = y, IsFiniteSet({h[x] : x \in S}),
           NEW g, \A x \in S : g[h[x]] = f[x]
    PROVE  SumFunctionOnSet(g, {h[x] : x \in S}) = SumFunctionOnSet(f, S)
<1> DEFINE image(U) == {h[x] : x \in U}
           G == {U \in SUBSET S : SumFunctionOnSet(g, image(U)) = SumFunctionOnSet(f, U)}
<1>1. {} \in G
  <2>1. image({}) = {}
    OBVIOUS
  <2>2. SumFunctionOnSet(g, {}) = 0 /\ SumFunctionOnSet(f, {}) = 0
    BY SumEmpty
  <2> QED
    BY <2>1, <2>2
<1>2. ASSUME NEW U \in SUBSET S, U # {}, \A x \in U : U \ {x} \in G
      PROVE  U \in G
  <2>1. PICK x \in U : TRUE
    BY <1>2
  <2>2. PICK R : R = U \ {x}
    OBVIOUS
  <2>3. SumFunctionOnSet(g, image(R)) = SumFunctionOnSet(f, R)
    BY <1>2, <2>1, <2>2
  <2>4. IsFiniteSet(U) /\ \A y \in U : f[y] \in Int
    BY FS_Subset
  <2>5. SumFunctionOnSet(f, U) = f[x] + SumFunctionOnSet(f, R)
    BY <2>1, <2>2, <2>4, SumRemove
  <2>6. PICK I : I = image(U)
    OBVIOUS
  <2>7. IsFiniteSet(I)
    <3>1. I \subseteq {h[y] : y \in S}
      BY <2>6
    <3> QED
      BY <3>1, FS_Subset
  <2>8. h[x] \in I /\ I \ {h[x]} = image(R)
    BY <2>1, <2>2, <2>6
  <2>9. \A z \in I : g[z] \in Int
    BY <2>6
  <2>10. SumFunctionOnSet(g, I) = g[h[x]] + SumFunctionOnSet(g, I \ {h[x]})
    BY <2>7, <2>8, <2>9, SumRemove
  <2>11. g[h[x]] = f[x]
    BY <2>1
  <2>12. SumFunctionOnSet(g, I) = SumFunctionOnSet(f, U)
    <3> HIDE DEF image
    <3> QED
      BY <2>3, <2>5, <2>8, <2>10, <2>11
  <2> QED
    BY <2>6, <2>12
<1>3. S \in G
  <2> HIDE DEF G
  <2> QED
    BY <1>1, <1>2, SubsetInduction
<1> QED
  BY <1>3

\* At most one summand is not zero.
LEMMA SumSingle ==
    ASSUME NEW S, IsFiniteSet(S), NEW f, NEW e \in S, f[e] \in Int,
           \A x \in S : x # e => f[x] = 0
    PROVE  SumFunctionOnSet(f, S) = f[e]
<1>1. \A x \in S : f[x] \in Int
  OBVIOUS
<1>2. SumFunctionOnSet(f, S) = SumFunctionOnSet(f, {e})
  BY <1>1, SumSubset
<1> QED
  BY <1>2, SumOfOne

\* The two sides of an entry add up to nothing.
LEMMA SidesCancel ==
    ASSUME NEW A, IsFiniteSet(A), NEW d \in A, NEW c \in A, NEW n \in Int
    PROVE  SumFunctionOnSet([a \in A |-> (IF d = a THEN n ELSE 0) - (IF c = a THEN n ELSE 0)], A) = 0
<1>1. PICK f, g, h : /\ f = [a \in A |-> IF d = a THEN n ELSE 0]
                     /\ g = [a \in A |-> IF c = a THEN 0 - n ELSE 0]
                     /\ h = [a \in A |-> (IF d = a THEN n ELSE 0) - (IF c = a THEN n ELSE 0)]
  OBVIOUS
<1>2. \A a \in A : f[a] \in Int /\ g[a] \in Int /\ h[a] = f[a] + g[a]
  BY <1>1
<1>3. /\ f[d] = n /\ \A a \in A : a # d => f[a] = 0
      /\ g[c] = 0 - n /\ \A a \in A : a # c => g[a] = 0
  BY <1>1
<1>4. SumFunctionOnSet(f, A) = n /\ SumFunctionOnSet(g, A) = 0 - n
  BY <1>2, <1>3, SumSingle
<1>5. SumFunctionOnSet(h, A) = SumFunctionOnSet(f, A) + SumFunctionOnSet(g, A)
  BY <1>2, SumPlus
<1> QED
  BY <1>1, <1>4, <1>5
=============================================================================
