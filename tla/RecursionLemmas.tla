-------------------------- MODULE RecursionLemmas --------------------------
(***************************************************************************)
(* Induction over the naturals and over finite sets, and what the          *)
(* functions that the models define by recursion compute: the iterates of  *)
(* a function (FetchRetry's powers) and the sums over a finite set         *)
(* (ErrorMetrics).  Both inductions are by a least counterexample.         *)
(***************************************************************************)
EXTENDS Integers, FiniteSets, Functions, FiniteSetTheorems, WellFoundedInduction, TLAPS

-----------------------------------------------------------------------------
(* Induction *)

\* A set of naturals has a least element.
LEMMA LeastNat ==
    ASSUME NEW T \in SUBSET Nat, T # {}
    PROVE  \E x \in T : \A y \in T : x <= y
<1>1. IsWellFoundedOn(OpToRel(<, Nat), Nat)
  BY NatLessThanWellFounded
<1>2. PICK x \in T : \A y \in T : ~(<<y, x>> \in OpToRel(<, Nat))
  BY <1>1, WFMin
<1>3. \A y \in T : ~(y < x)
  BY <1>2 DEF OpToRel
<1> QED
  BY <1>3

\* What holds of zero and of the successor of each number it holds of, holds of
\* every number.
LEMMA NatSetInduction ==
    ASSUME NEW T \in SUBSET Nat, 0 \in T, \A n \in T : n + 1 \in T
    PROVE  T = Nat
<1>1. SUFFICES ASSUME Nat \ T # {} PROVE FALSE
  OBVIOUS
<1>2. Nat \ T \in SUBSET Nat
  OBVIOUS
<1>3. PICK x \in Nat \ T : \A y \in Nat \ T : x <= y
  BY <1>1, <1>2, LeastNat
<1>4. x # 0 /\ x - 1 \in Nat /\ x - 1 + 1 = x
  BY <1>3
<1>5. x - 1 \in T
  BY <1>3, <1>4
<1> QED
  BY <1>3, <1>4, <1>5

\* Among subsets of a finite set there is one that no other lies in.
LEMMA LeastSubset ==
    ASSUME NEW S, IsFiniteSet(S), NEW C \in SUBSET (SUBSET S), C # {}
    PROVE  \E U \in C : \A V \in C : V \subseteq U => V = U
<1> DEFINE sizes == {Cardinality(U) : U \in C}
<1>1. \A U \in C : IsFiniteSet(U) /\ Cardinality(U) \in Nat
  BY FS_Subset, FS_CardinalityType
<1>2. sizes \in SUBSET Nat /\ sizes # {}
  BY <1>1
<1>3. PICK m \in sizes : \A l \in sizes : m <= l
  BY <1>2, LeastNat
<1>4. PICK U \in C : Cardinality(U) = m
  BY <1>3
<1>5. ASSUME NEW V \in C, V \subseteq U, V # U PROVE FALSE
  <2>1. Cardinality(V) < Cardinality(U)
    BY <1>1, <1>5, FS_Subset
  <2>2. m <= Cardinality(V)
    BY <1>3
  <2> QED
    BY <1>1, <1>4, <2>1, <2>2
<1> QED
  BY <1>5

\* What holds of the empty set, and with a set also of the set with one more
\* element of S, holds of the finite set S.
LEMMA FiniteSetInduction ==
    ASSUME NEW S, IsFiniteSet(S), NEW C, {} \in C,
           \A T \in SUBSET S : \A x \in S \ T : T \in C => T \cup {x} \in C
    PROVE  S \in C
<1> DEFINE D == (SUBSET S) \ C
<1>1. SUFFICES ASSUME D # {} PROVE FALSE
  OBVIOUS
<1>2. D \in SUBSET (SUBSET S)
  OBVIOUS
<1> HIDE DEF D
<1>3. PICK U \in D : \A V \in D : V \subseteq U => V = U
  BY <1>1, <1>2, LeastSubset
<1> USE DEF D
<1>4. PICK x : x \in U
  BY <1>3
<1>5. U \ {x} \in C
  BY <1>3, <1>4
<1>6. U \ {x} \in SUBSET S /\ x \in S \ (U \ {x}) /\ (U \ {x}) \cup {x} = U
  BY <1>3, <1>4
<1> QED
  BY <1>3, <1>5, <1>6

\* A finite set of naturals has a greatest element.
LEMMA GreatestNat ==
    ASSUME NEW T \in SUBSET Nat, IsFiniteSet(T), T # {}
    PROVE  \E x \in T : \A y \in T : y <= x
<1> DEFINE C == {U \in SUBSET T : U # {} => \E x \in U : \A y \in U : y <= x}
<1>1. {} \in C
  OBVIOUS
<1>2. ASSUME NEW U \in SUBSET T, NEW z \in T \ U, U \in C PROVE U \cup {z} \in C
  <2>1. CASE U = {}
    BY <2>1
  <2>2. CASE U # {}
    <3>1. PICK x \in U : \A y \in U : y <= x
      BY <1>2, <2>2
    <3>2. CASE z <= x
      BY <3>1, <3>2
    <3>3. CASE ~(z <= x)
      <4>1. \A y \in U \cup {z} : y <= z
        BY <3>1, <3>3
      <4> QED
        BY <4>1
    <3> QED
      BY <3>2, <3>3
  <2> QED
    BY <2>1, <2>2
<1> HIDE DEF C
<1>3. T \in C
  BY <1>1, <1>2, FiniteSetInduction
<1> QED
  BY <1>3 DEF C

-----------------------------------------------------------------------------
(* Iteration *)

\* The first m iterates of F.
Iterates(m, b, F, V) ==
    {g \in [0..m -> V] : g[0] = b /\ \A i \in 1..m : g[i] = F[g[i - 1]]}

\* A function on a set can be iterated from any of its values.
LEMMA Iteration ==
    ASSUME NEW V, NEW b \in V, NEW F \in [V -> V]
    PROVE  \E g \in [Nat -> V] : g[0] = b /\ \A n \in Nat : g[n + 1] = F[g[n]]
<1> DEFINE It(m) == Iterates(m, b, F, V)
<1>1. \A m \in Nat : It(m) # {}
  <2> DEFINE T == {m \in Nat : It(m) # {}}
  <2>1. 0 \in T
    <3>1. [i \in 0..0 |-> b] \in It(0)
      BY DEF Iterates
    <3> QED
      BY <3>1
  <2>2. ASSUME NEW m \in T PROVE m + 1 \in T
    <3>1. PICK g \in It(m) : TRUE
      BY <2>2
    <3> DEFINE h == [i \in 0..(m + 1) |-> IF i = m + 1 THEN F[g[m]] ELSE g[i]]
    <3>2. h \in It(m + 1)
      BY <3>1 DEF Iterates
    <3> QED
      BY <3>2
  <2>3. T \in SUBSET Nat
    OBVIOUS
  <2> HIDE DEF T
  <2>4. T = Nat
    BY <2>1, <2>2, <2>3, NatSetInduction
  <2> QED
    BY <2>4 DEF T
<1>2. ASSUME NEW m \in Nat, NEW n \in Nat, NEW g \in It(m), NEW h \in It(n)
      PROVE  \A i \in Nat : i <= m /\ i <= n => g[i] = h[i]
  <2> DEFINE T == {i \in Nat : i <= m /\ i <= n => g[i] = h[i]}
  <2>1. 0 \in T
    BY DEF Iterates
  <2>2. ASSUME NEW i \in T PROVE i + 1 \in T
    BY DEF Iterates
  <2>3. T \in SUBSET Nat
    OBVIOUS
  <2> HIDE DEF T
  <2>4. T = Nat
    BY <2>1, <2>2, <2>3, NatSetInduction
  <2> QED
    BY <2>4 DEF T
<1> DEFINE pick(m) == CHOOSE g \in It(m) : TRUE
           G == [n \in Nat |-> pick(n)[n]]
<1>3. \A m \in Nat : pick(m) \in It(m)
  BY <1>1
<1> HIDE DEF pick
<1>4. \A m \in Nat : pick(m) \in [0..m -> V] /\ pick(m)[0] = b
                     /\ \A i \in 1..m : pick(m)[i] = F[pick(m)[i - 1]]
  BY <1>3 DEF Iterates
<1>5. G \in [Nat -> V] /\ G[0] = b
  BY <1>4
<1>6. ASSUME NEW n \in Nat PROVE G[n + 1] = F[G[n]]
  <2>1. pick(n + 1)[n] = pick(n)[n]
    BY <1>2, <1>3
  <2>2. pick(n + 1)[n + 1] = F[pick(n + 1)[n]]
    <3>1. n + 1 \in 1..(n + 1) /\ n + 1 - 1 = n
      OBVIOUS
    <3> QED
      BY <1>4, <3>1
  <2> QED
    BY <2>1, <2>2
<1> QED
  BY <1>5, <1>6

-----------------------------------------------------------------------------
(* Sums: SumFunctionOnSet(f, S) adds up f[x] for the x in the finite set S *)

Pick(T) == CHOOSE x \in T : TRUE

\* What SumFunctionOnSet calls iter: g[T] adds up f over T, for the subsets T of S.
Adds(g, f, S) ==
    g = [T \in SUBSET S |-> IF T = {} THEN 0 ELSE f[Pick(T)] + g[T \ {Pick(T)}]]

LEMMA SumIsChosen ==
    ASSUME NEW f, NEW S
    PROVE  SumFunctionOnSet(f, S) = (CHOOSE g : Adds(g, f, S))[S]
BY DEF SumFunctionOnSet, FoldFunctionOnSet, MapThenFoldSet, Adds, Pick

\* Two such functions agree.
LEMMA AddsUnique ==
    ASSUME NEW S, IsFiniteSet(S), NEW f, NEW T \in SUBSET S, NEW U \in SUBSET S,
           NEW g, Adds(g, f, T), NEW h, Adds(h, f, U)
    PROVE  \A V \in (SUBSET T) \cap (SUBSET U) : g[V] = h[V]
<1> DEFINE C == {V \in (SUBSET T) \cap (SUBSET U) : g[V] # h[V]}
<1>1. SUFFICES ASSUME C # {} PROVE FALSE
  OBVIOUS
<1>2. C \in SUBSET (SUBSET S)
  OBVIOUS
<1> HIDE DEF C
<1>3. PICK V \in C : \A W \in C : W \subseteq V => W = V
  BY <1>1, <1>2, LeastSubset
<1>4. V \in SUBSET T /\ V \in SUBSET U /\ g[V] # h[V]
  BY <1>3 DEF C
<1>5. /\ g[V] = IF V = {} THEN 0 ELSE f[Pick(V)] + g[V \ {Pick(V)}]
      /\ h[V] = IF V = {} THEN 0 ELSE f[Pick(V)] + h[V \ {Pick(V)}]
  BY <1>4 DEF Adds
<1>6. V # {} /\ g[V \ {Pick(V)}] # h[V \ {Pick(V)}]
  BY <1>4, <1>5
<1>7. Pick(V) \in V
  BY <1>6 DEF Pick
<1>8. V \ {Pick(V)} \in C /\ V \ {Pick(V)} \subseteq V /\ V \ {Pick(V)} # V
  BY <1>4, <1>6, <1>7 DEF C
<1> QED
  BY <1>3, <1>8

\* There is one for every finite set.
LEMMA AddsExists ==
    ASSUME NEW S, IsFiniteSet(S), NEW f
    PROVE  \E g : Adds(g, f, S)
<1> DEFINE C == {T \in SUBSET S : ~ \E g : Adds(g, f, T)}
<1>1. SUFFICES ASSUME C # {} PROVE FALSE
  OBVIOUS
<1>2. C \in SUBSET (SUBSET S)
  OBVIOUS
<1> HIDE DEF C
<1>3. PICK T \in C : \A W \in C : W \subseteq T => W = T
  BY <1>1, <1>2, LeastSubset
<1>4. T \in SUBSET S /\ ~ \E g : Adds(g, f, T)
  BY <1>3 DEF C
<1>5. \A U \in SUBSET T : U # T => \E g : Adds(g, f, U)
  BY <1>3, <1>4 DEF C
<1> DEFINE part(U) == CHOOSE g : Adds(g, f, U)
           sum(U) == IF U = {} THEN 0
                     ELSE f[Pick(U)] + part(U \ {Pick(U)})[U \ {Pick(U)}]
           h == [U \in SUBSET T |-> sum(U)]
<1>6. \A U \in SUBSET T : U # T => Adds(part(U), f, U)
  BY <1>5
<1> HIDE DEF part
<1>7. ASSUME NEW U \in SUBSET T, U # {}, NEW V, V = U \ {Pick(U)} PROVE h[V] = part(V)[V]
  <2>1. Pick(U) \in U
    BY <1>7 DEF Pick
  <2>2. V \in SUBSET T /\ V # T
    BY <1>7, <2>1
  <2>3. Adds(part(V), f, V)
    BY <1>6, <2>2
  <2>4. part(V)[V] = IF V = {} THEN 0 ELSE f[Pick(V)] + part(V)[V \ {Pick(V)}]
    BY <2>3 DEF Adds
  <2>5. h[V] = IF V = {} THEN 0 ELSE f[Pick(V)] + part(V \ {Pick(V)})[V \ {Pick(V)}]
    BY <2>2
  <2>6. CASE V # {}
    <3> DEFINE W == V \ {Pick(V)}
    <3>1. Pick(V) \in V
      BY <2>6 DEF Pick
    <3>2. W \in SUBSET T /\ W # T /\ W \in SUBSET V
      BY <2>2, <3>1
    <3>3. Adds(part(W), f, W)
      BY <1>6, <3>2
    <3>4. part(W)[W] = part(V)[W]
      BY <1>4, <2>2, <2>3, <3>2, <3>3, AddsUnique
    <3> QED
      BY <2>4, <2>5, <2>6, <3>4
  <2> QED
    BY <2>4, <2>5, <2>6
<1>8. Adds(h, f, T)
  <2>1. \A U \in SUBSET T : U # {} => h[U \ {Pick(U)}] = part(U \ {Pick(U)})[U \ {Pick(U)}]
    BY <1>7
  <2> QED
    BY <2>1 DEF Adds
<1> QED
  BY <1>4, <1>8

\* The sum over the empty set is zero; that over another set is the value at one
\* of its elements and the sum over the rest.
LEMMA SumUnfolds ==
    ASSUME NEW S, IsFiniteSet(S), NEW f
    PROVE  SumFunctionOnSet(f, S)
             = IF S = {} THEN 0 ELSE f[Pick(S)] + SumFunctionOnSet(f, S \ {Pick(S)})
<1> DEFINE part(U) == CHOOSE g : Adds(g, f, U)
           R == S \ {Pick(S)}
<1>1. Adds(part(S), f, S)
  BY AddsExists
<1>2. SumFunctionOnSet(f, S) = part(S)[S]
  BY SumIsChosen
<1>3. SumFunctionOnSet(f, R) = part(R)[R]
  BY SumIsChosen
<1>4. IsFiniteSet(R) /\ R \in SUBSET S
  BY FS_Subset
<1>5. Adds(part(R), f, R)
  BY <1>4, AddsExists
<1> HIDE DEF part
<1>6. part(S)[S] = IF S = {} THEN 0 ELSE f[Pick(S)] + part(S)[R]
  BY <1>1 DEF Adds
<1>7. part(S)[R] = part(R)[R]
  BY <1>1, <1>4, <1>5, AddsUnique
<1> QED
  BY <1>2, <1>3, <1>6, <1>7

LEMMA SumOfNone == ASSUME NEW f PROVE SumFunctionOnSet(f, {}) = 0
BY SumUnfolds, FS_EmptySet

LEMMA SumIsInt ==
    ASSUME NEW S, IsFiniteSet(S), NEW f, \A x \in S : f[x] \in Int
    PROVE  SumFunctionOnSet(f, S) \in Int
<1> DEFINE C == {T \in SUBSET S : SumFunctionOnSet(f, T) \notin Int}
<1>1. SUFFICES ASSUME C # {} PROVE FALSE
  OBVIOUS
<1>2. C \in SUBSET (SUBSET S)
  OBVIOUS
<1> HIDE DEF C
<1>3. PICK T \in C : \A W \in C : W \subseteq T => W = T
  BY <1>1, <1>2, LeastSubset
<1>4. T \in SUBSET S /\ SumFunctionOnSet(f, T) \notin Int /\ IsFiniteSet(T)
  BY <1>3, FS_Subset DEF C
<1>5. T # {}
  BY <1>4, SumOfNone
<1>6. Pick(T) \in T
  BY <1>5 DEF Pick
<1>7. SumFunctionOnSet(f, T \ {Pick(T)}) \in Int
  BY <1>3, <1>4, <1>6 DEF C
<1>8. SumFunctionOnSet(f, T) = f[Pick(T)] + SumFunctionOnSet(f, T \ {Pick(T)})
  BY <1>4, <1>5, SumUnfolds
<1>9. f[Pick(T)] \in Int
  BY <1>4, <1>6
<1> QED
  BY <1>4, <1>7, <1>8, <1>9

\* Any element may be taken out of a sum, not only the chosen one.
LEMMA SumTakesOut ==
    ASSUME NEW S, IsFiniteSet(S), NEW f, \A x \in S : f[x] \in Int, NEW x \in S
    PROVE  SumFunctionOnSet(f, S) = f[x] + SumFunctionOnSet(f, S \ {x})
<1> DEFINE C == {T \in SUBSET S : \E y \in T :
                    SumFunctionOnSet(f, T) # f[y] + SumFunctionOnSet(f, T \ {y})}
<1>1. SUFFICES ASSUME C # {} PROVE FALSE
  <2>1. S \in C \/ SumFunctionOnSet(f, S) = f[x] + SumFunctionOnSet(f, S \ {x})
    OBVIOUS
  <2> QED
    BY <2>1
<1>2. C \in SUBSET (SUBSET S)
  OBVIOUS
<1> HIDE DEF C
<1>3. PICK T \in C : \A W \in C : W \subseteq T => W = T
  BY <1>1, <1>2, LeastSubset
<1>4. T \in SUBSET S
  BY <1>3 DEF C
<1>5. PICK y \in T : SumFunctionOnSet(f, T) # f[y] + SumFunctionOnSet(f, T \ {y})
  BY <1>3 DEF C
<1> DEFINE p == Pick(T)
<1>6. p \in T
  BY DEF Pick
<1>7. \A U \in SUBSET T : U # T =>
        \A z \in U : SumFunctionOnSet(f, U) = f[z] + SumFunctionOnSet(f, U \ {z})
  BY <1>3, <1>4 DEF C
<1>8. \A U \in SUBSET T : IsFiniteSet(U) /\ SumFunctionOnSet(f, U) \in Int
  <2> SUFFICES ASSUME NEW U \in SUBSET T
               PROVE  IsFiniteSet(U) /\ SumFunctionOnSet(f, U) \in Int
    OBVIOUS
  <2>1. U \in SUBSET S
    BY <1>4
  <2>2. IsFiniteSet(U) /\ \A z \in U : f[z] \in Int
    BY <2>1, FS_Subset
  <2> QED
    BY <2>2, SumIsInt
<1>9. SumFunctionOnSet(f, T) = f[p] + SumFunctionOnSet(f, T \ {p})
  <2>1. T # {} /\ IsFiniteSet(T)
    BY <1>5, <1>8
  <2> QED
    BY <2>1, SumUnfolds
<1> HIDE DEF p
<1>10. y # p
  BY <1>5, <1>9
<1>11. /\ T \ {p} \in SUBSET T /\ T \ {p} # T /\ y \in T \ {p}
       /\ T \ {y} \in SUBSET T /\ T \ {y} # T /\ p \in T \ {y}
       /\ (T \ {p}) \ {y} = T \ {p, y} /\ (T \ {y}) \ {p} = T \ {p, y}
       /\ T \ {p, y} \in SUBSET T
  BY <1>6, <1>10
<1>12. SumFunctionOnSet(f, T \ {p}) = f[y] + SumFunctionOnSet(f, T \ {p, y})
  BY <1>7, <1>11
<1>13. SumFunctionOnSet(f, T \ {y}) = f[p] + SumFunctionOnSet(f, T \ {p, y})
  BY <1>7, <1>11
<1>14. f[y] \in Int /\ f[p] \in Int /\ SumFunctionOnSet(f, T \ {p, y}) \in Int
  BY <1>4, <1>6, <1>8, <1>11
<1> QED
  BY <1>5, <1>9, <1>12, <1>13, <1>14

LEMMA SumAdds ==
    ASSUME NEW S, IsFiniteSet(S), NEW f, NEW x, x \notin S, \A y \in S \cup {x} : f[y] \in Int
    PROVE  SumFunctionOnSet(f, S \cup {x}) = f[x] + SumFunctionOnSet(f, S)
<1>1. IsFiniteSet(S \cup {x}) /\ x \in S \cup {x} /\ (S \cup {x}) \ {x} = S
  BY FS_AddElement
<1> QED
  BY <1>1, SumTakesOut

\* Larger summands, larger sum; f and g may have different domains.
LEMMA SumGrows ==
    ASSUME NEW S, IsFiniteSet(S), NEW f, NEW g,
           \A x \in S : f[x] \in Int /\ g[x] \in Int /\ f[x] <= g[x]
    PROVE  SumFunctionOnSet(f, S) <= SumFunctionOnSet(g, S)
<1> DEFINE C == {T \in SUBSET S : SumFunctionOnSet(f, T) <= SumFunctionOnSet(g, T)}
<1>1. {} \in C
  BY SumOfNone
<1>2. ASSUME NEW T \in SUBSET S, NEW x \in S \ T, T \in C PROVE T \cup {x} \in C
  <2>1. IsFiniteSet(T) /\ x \notin T
    BY FS_Subset
  <2>2. \A y \in T \cup {x} : f[y] \in Int /\ g[y] \in Int
    OBVIOUS
  <2>3. /\ SumFunctionOnSet(f, T \cup {x}) = f[x] + SumFunctionOnSet(f, T)
        /\ SumFunctionOnSet(g, T \cup {x}) = g[x] + SumFunctionOnSet(g, T)
        /\ SumFunctionOnSet(f, T) \in Int /\ SumFunctionOnSet(g, T) \in Int
    BY <2>1, <2>2, SumAdds, SumIsInt
  <2>4. f[x] \in Int /\ g[x] \in Int /\ f[x] <= g[x]
    OBVIOUS
  <2>5. SumFunctionOnSet(f, T) <= SumFunctionOnSet(g, T)
    BY <1>2
  <2>6. SumFunctionOnSet(f, T \cup {x}) <= SumFunctionOnSet(g, T \cup {x})
    BY <2>3, <2>4, <2>5
  <2> QED
    BY <2>6
<1> HIDE DEF C
<1>3. S \in C
  BY <1>1, <1>2, FiniteSetInduction
<1> QED
  BY <1>3 DEF C

\* A sum is no further below zero than the sum of what its summands are above.
LEMMA SumStaysAbove ==
    ASSUME NEW S, IsFiniteSet(S), NEW f, NEW g,
           \A x \in S : f[x] \in Int /\ g[x] \in Int /\ -f[x] <= g[x]
    PROVE  -SumFunctionOnSet(f, S) <= SumFunctionOnSet(g, S)
<1> DEFINE C == {T \in SUBSET S : -SumFunctionOnSet(f, T) <= SumFunctionOnSet(g, T)}
<1>1. {} \in C
  BY SumOfNone
<1>2. ASSUME NEW T \in SUBSET S, NEW x \in S \ T, T \in C PROVE T \cup {x} \in C
  <2>1. IsFiniteSet(T) /\ x \notin T
    BY FS_Subset
  <2>2. \A y \in T \cup {x} : f[y] \in Int /\ g[y] \in Int
    OBVIOUS
  <2>3. /\ SumFunctionOnSet(f, T \cup {x}) = f[x] + SumFunctionOnSet(f, T)
        /\ SumFunctionOnSet(g, T \cup {x}) = g[x] + SumFunctionOnSet(g, T)
        /\ SumFunctionOnSet(f, T) \in Int /\ SumFunctionOnSet(g, T) \in Int
    BY <2>1, <2>2, SumAdds, SumIsInt
  <2>4. f[x] \in Int /\ g[x] \in Int /\ -f[x] <= g[x]
    OBVIOUS
  <2>5. -SumFunctionOnSet(f, T) <= SumFunctionOnSet(g, T)
    BY <1>2
  <2>6. -SumFunctionOnSet(f, T \cup {x}) <= SumFunctionOnSet(g, T \cup {x})
    BY <2>3, <2>4, <2>5
  <2> QED
    BY <2>6
<1> HIDE DEF C
<1>3. S \in C
  BY <1>1, <1>2, FiniteSetInduction
<1> QED
  BY <1>3 DEF C

LEMMA SumIsNat ==
    ASSUME NEW S, IsFiniteSet(S), NEW f, \A x \in S : f[x] \in Nat
    PROVE  SumFunctionOnSet(f, S) \in Nat
<1> DEFINE C == {T \in SUBSET S : SumFunctionOnSet(f, T) \in Nat}
<1>1. {} \in C
  BY SumOfNone
<1>2. ASSUME NEW T \in SUBSET S, NEW x \in S \ T, T \in C PROVE T \cup {x} \in C
  <2>1. IsFiniteSet(T) /\ x \notin T /\ \A y \in T \cup {x} : f[y] \in Int
    BY FS_Subset
  <2>2. SumFunctionOnSet(f, T \cup {x}) = f[x] + SumFunctionOnSet(f, T)
    BY <2>1, SumAdds
  <2>3. f[x] \in Nat /\ SumFunctionOnSet(f, T) \in Nat
    BY <1>2
  <2>4. SumFunctionOnSet(f, T \cup {x}) \in Nat
    BY <2>2, <2>3
  <2> QED
    BY <2>4
<1> HIDE DEF C
<1>3. S \in C
  BY <1>1, <1>2, FiniteSetInduction
<1> QED
  BY <1>3 DEF C

\* The sum over two sets without common elements.
LEMMA SumOfUnion ==
    ASSUME NEW S, IsFiniteSet(S), NEW R, IsFiniteSet(R), R \cap S = {},
           NEW f, \A x \in R \cup S : f[x] \in Int
    PROVE  SumFunctionOnSet(f, R \cup S) = SumFunctionOnSet(f, R) + SumFunctionOnSet(f, S)
<1> DEFINE C == {T \in SUBSET S : SumFunctionOnSet(f, R \cup T)
                                    = SumFunctionOnSet(f, R) + SumFunctionOnSet(f, T)}
<1>1. {} \in C
  <2>1. R \cup {} = R /\ SumFunctionOnSet(f, R) \in Int
    BY SumIsInt
  <2>2. SumFunctionOnSet(f, R \cup {}) = SumFunctionOnSet(f, R) + SumFunctionOnSet(f, {})
    BY <2>1, SumOfNone
  <2> QED
    BY <2>2
<1>2. ASSUME NEW T \in SUBSET S, NEW x \in S \ T, T \in C PROVE T \cup {x} \in C
  <2>1. IsFiniteSet(T) /\ x \notin T /\ \A y \in T \cup {x} : f[y] \in Int
    BY FS_Subset
  <2>2. IsFiniteSet(R \cup T) /\ x \notin R \cup T /\ (R \cup T) \cup {x} = R \cup (T \cup {x})
        /\ \A y \in (R \cup T) \cup {x} : f[y] \in Int
    BY <2>1, FS_Union
  <2>3. SumFunctionOnSet(f, T \cup {x}) = f[x] + SumFunctionOnSet(f, T)
    BY <2>1, SumAdds
  <2>4. SumFunctionOnSet(f, R \cup (T \cup {x})) = f[x] + SumFunctionOnSet(f, R \cup T)
    BY <2>2, SumAdds
  <2>5. /\ f[x] \in Int /\ SumFunctionOnSet(f, T) \in Int /\ SumFunctionOnSet(f, R) \in Int
        /\ SumFunctionOnSet(f, R \cup T) = SumFunctionOnSet(f, R) + SumFunctionOnSet(f, T)
    BY <1>2, <2>1, SumIsInt
  <2>6. SumFunctionOnSet(f, R \cup (T \cup {x}))
           = SumFunctionOnSet(f, R) + SumFunctionOnSet(f, T \cup {x})
    BY <2>3, <2>4, <2>5
  <2> QED
    BY <2>6
<1> HIDE DEF C
<1>3. S \in C
  BY <1>1, <1>2, FiniteSetInduction
<1> QED
  BY <1>3 DEF C

\* A sum of naturals over fewer elements is no larger.
LEMMA SumOfPart ==
    ASSUME NEW S, IsFiniteSet(S), NEW R \in SUBSET S, NEW f, \A x \in S : f[x] \in Nat
    PROVE  SumFunctionOnSet(f, R) \in Nat /\ SumFunctionOnSet(f, S) \in Nat
           /\ SumFunctionOnSet(f, S) = SumFunctionOnSet(f, R) + SumFunctionOnSet(f, S \ R)
           /\ SumFunctionOnSet(f, R) <= SumFunctionOnSet(f, S)
<1>1. /\ IsFiniteSet(R) /\ IsFiniteSet(S \ R) /\ R \cup (S \ R) = S /\ R \cap (S \ R) = {}
  BY FS_Subset
<1>2. /\ SumFunctionOnSet(f, R) \in Nat /\ SumFunctionOnSet(f, S) \in Nat
      /\ SumFunctionOnSet(f, S \ R) \in Nat
  BY <1>1, SumIsNat
<1>3. SumFunctionOnSet(f, S) = SumFunctionOnSet(f, R) + SumFunctionOnSet(f, S \ R)
  <2>1. \A x \in R \cup (S \ R) : f[x] \in Int
    OBVIOUS
  <2>2. SumFunctionOnSet(f, R \cup (S \ R))
          = SumFunctionOnSet(f, R) + SumFunctionOnSet(f, S \ R)
    BY <1>1, <2>1, SumOfUnion
  <2> QED
    BY <1>1, <2>2
<1> QED
  BY <1>2, <1>3

\* The sum group by group, where each x lies in the group In[of[x]] alone.
LEMMA SumByGroups ==
    ASSUME NEW S, IsFiniteSet(S), NEW f, \A x \in S : f[x] \in Int,
           NEW H, IsFiniteSet(H), NEW of \in [S -> H],
           NEW In \in [H -> SUBSET S], \A h \in H : \A x \in S : x \in In[h] <=> of[x] = h,
           NEW g, \A h \in H : g[h] = SumFunctionOnSet(f, In[h])
    PROVE  SumFunctionOnSet(g, H) = SumFunctionOnSet(f, S)
<1> DEFINE Of(G) == {x \in S : of[x] \in G}
           C == {G \in SUBSET H : SumFunctionOnSet(g, G) = SumFunctionOnSet(f, Of(G))}
<1>1. {} \in C
  <2>1. Of({}) = {}
    OBVIOUS
  <2>2. SumFunctionOnSet(g, {}) = SumFunctionOnSet(f, Of({}))
    BY <2>1, SumOfNone
  <2> QED
    BY <2>2
<1>2. \A h \in H : IsFiniteSet(In[h]) /\ g[h] \in Int
  <2> SUFFICES ASSUME NEW h \in H PROVE IsFiniteSet(In[h]) /\ g[h] \in Int
    OBVIOUS
  <2>1. In[h] \in SUBSET S
    OBVIOUS
  <2>2. IsFiniteSet(In[h]) /\ \A x \in In[h] : f[x] \in Int
    BY <2>1, FS_Subset
  <2>3. SumFunctionOnSet(f, In[h]) \in Int
    BY <2>2, SumIsInt
  <2> QED
    BY <2>2, <2>3
<1>3. ASSUME NEW G \in SUBSET H, NEW h \in H \ G, G \in C PROVE G \cup {h} \in C
  <2>1. IsFiniteSet(G) /\ IsFiniteSet(Of(G))
    BY FS_Subset
  <2>2. IsFiniteSet(In[h]) /\ In[h] \in SUBSET S
    BY <1>2
  <2>3. Of(G) \cap In[h] = {}
    OBVIOUS
  <2>4. Of(G) \cup In[h] = Of(G \cup {h})
    OBVIOUS
  <2>5. SumFunctionOnSet(g, G \cup {h}) = g[h] + SumFunctionOnSet(g, G)
    <3>1. \A k \in G \cup {h} : g[k] \in Int
      BY <1>2
    <3> QED
      BY <2>1, <3>1, SumAdds
  <2>6. \A x \in Of(G) \cup In[h] : f[x] \in Int
    BY <2>2
  <2>7. g[h] = SumFunctionOnSet(f, In[h]) /\ SumFunctionOnSet(g, G) = SumFunctionOnSet(f, Of(G))
    BY <1>3
  <2> HIDE DEF Of
  <2>8. SumFunctionOnSet(f, Of(G) \cup In[h])
          = SumFunctionOnSet(f, Of(G)) + SumFunctionOnSet(f, In[h])
    BY <2>1, <2>2, <2>3, <2>6, SumOfUnion
  <2>9. SumFunctionOnSet(f, Of(G)) \in Int /\ SumFunctionOnSet(f, In[h]) \in Int
    BY <2>1, <2>2, <2>6, SumIsInt
  <2>10. SumFunctionOnSet(g, G \cup {h}) = SumFunctionOnSet(f, Of(G) \cup In[h])
    BY <2>5, <2>7, <2>8, <2>9
  <2>11. SumFunctionOnSet(g, G \cup {h}) = SumFunctionOnSet(f, Of(G \cup {h}))
    BY <2>4, <2>10
  <2> USE DEF Of
  <2> QED
    BY <2>11
<1>4. Of(H) = S
  OBVIOUS
<1> HIDE DEF C, Of
<1>5. H \in C
  BY <1>1, <1>3, FiniteSetInduction
<1> QED
  BY <1>4, <1>5 DEF C
=============================================================================
