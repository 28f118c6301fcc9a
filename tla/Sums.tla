--------------------------------- MODULE Sums ---------------------------------
(***************************************************************************)
(* What SumFunctionOnSet, the fold the models add units, amounts and rows  *)
(* up with, is for every finite set: it takes its elements in some order,  *)
(* and the sum does not depend on which.  The library's induction rules    *)
(* take an operator and are out of the provers' reach; its theorem that    *)
(* finite sets are well founded under inclusion is not, and induction is   *)
(* the argument that a smallest counterexample has a smaller one.          *)
(***************************************************************************)
EXTENDS Integers, FiniteSets, FiniteSetTheorems, TLAPS

-----------------------------------------------------------------------------
(* Induction *)

\* Of the subsets of a finite set, some of which are bad, one is bad and no part of it is.
LEMMA SmallestSubset ==
    ASSUME NEW S, IsFiniteSet(S), NEW bad \in SUBSET SUBSET S, bad # {}
    PROVE  \E s \in bad : \A t \in SUBSET s : t # s => t \notin bad
  <1>1. IsWellFoundedOn(StrictSubsetOrdering(S), FiniteSubsetsOf(S)) /\ FiniteSubsetsOf(S) = SUBSET S
    BY FS_StrictSubsetOrderingWellFounded, FS_FiniteSubsetsOfFinite
  <1>2. PICK s \in bad : \A t \in bad : <<t, s>> \notin StrictSubsetOrdering(S)
    BY <1>1, WFMin
  <1>3. ASSUME NEW t \in SUBSET s, t # s, t \in bad
        PROVE  FALSE
    <2>1. <<t, s>> \in StrictSubsetOrdering(S)
      BY <1>3 DEF StrictSubsetOrdering
    <2> QED BY <1>2, <1>3, <2>1
  <1> QED BY <1>3

\* A set of naturals that is not empty has a least element.
LEMMA Least ==
    ASSUME NEW S \in SUBSET Nat, S # {}
    PROVE  \E i \in S : \A j \in S : i <= j
  <1>1. PICK n \in S : TRUE
    OBVIOUS
  <1> DEFINE below == {0..i : i \in {j \in S : j <= n}}
  <1>2. below \in SUBSET SUBSET (0..n) /\ below # {} /\ IsFiniteSet(0..n)
    <2>1. n \in Nat /\ \A i \in Nat : i <= n => 0..i \subseteq 0..n
      OBVIOUS
    <2>2. below \in SUBSET SUBSET (0..n)
      BY <2>1
    <2>3. 0..n \in below
      BY <2>1
    <2> QED BY <2>1, <2>2, <2>3, FS_Interval
  <1>3. PICK s \in below : \A t \in SUBSET s : t # s => t \notin below
    <2> HIDE DEF below
    <2>1. PICK T : T = 0..n
      OBVIOUS
    <2>2. IsFiniteSet(T) /\ below \in SUBSET SUBSET T /\ below # {}
      BY <1>2, <2>1
    <2> QED BY ONLY <2>2, SmallestSubset
  <1>4. PICK i \in S : s = 0..i /\ i <= n
    OBVIOUS
  <1>5. ASSUME NEW j \in S, ~(i <= j)
        PROVE  FALSE
    <2>1. 0..j \in below /\ 0..j \subseteq 0..i /\ i \in 0..i /\ i \notin 0..j
      BY <1>1, <1>4, <1>5
    <2> QED BY <1>3, <1>4, <2>1
  <1> QED BY <1>5

\* A bounded one has a greatest.
LEMMA Greatest ==
    ASSUME NEW n \in Nat, NEW S \in SUBSET (0..n), S # {}
    PROVE  \E i \in S : \A j \in S : j <= i
  <1> DEFINE above == {k \in Nat : \A j \in S : j <= k}
  <1>1. above \in SUBSET Nat /\ n \in above
    OBVIOUS
  <1>2. PICK k \in above : \A m \in above : k <= m
    <2> HIDE DEF above
    <2> QED BY <1>1, Least
  <1>3. k \in S
    <2>1. SUFFICES ASSUME k \notin S PROVE FALSE
      OBVIOUS
    <2>2. \A j \in S : j \in Nat /\ j <= k /\ j # k
      BY <2>1
    <2>3. k \in Nat /\ k # 0
      <3>1. PICK j \in S : TRUE
        OBVIOUS
      <3> QED BY <2>2, <3>1
    <2>4. k - 1 \in Nat /\ \A j \in S : j <= k - 1
      BY <2>2, <2>3
    <2>5. k - 1 \in above
      BY <2>4
    <2> QED BY <2>3, <2>5, <1>2
  <1> QED BY <1>3

-----------------------------------------------------------------------------
(* The fold *)

\* One more element, and the fold of the others.
Folded(f, iter, s) ==
    IF s = {} THEN 0 ELSE LET x == CHOOSE x \in s : TRUE IN f[x] + iter[s \ {x}]

IsFold(f, S, iter) == iter = [s \in SUBSET S |-> Folded(f, iter, s)]

Fold(f, S) == CHOOSE iter : IsFold(f, S, iter)

\* The sum is the fold of the whole set.
LEMMA SumIsFold ==
    ASSUME NEW f, NEW S
    PROVE  SumFunctionOnSet(f, S) = Fold(f, S)[S]
  BY DEF SumFunctionOnSet, FoldFunctionOnSet, MapThenFoldSet, Fold, IsFold, Folded

\* Folds of two sets agree on their common parts.
LEMMA FoldsAgree ==
    ASSUME NEW f, NEW S, IsFiniteSet(S), NEW T \in SUBSET S, NEW g, NEW h,
           IsFold(f, S, g), IsFold(f, T, h)
    PROVE  \A s \in SUBSET T : g[s] = h[s]
  <1> DEFINE bad == {s \in SUBSET T : g[s] # h[s]}
  <1>1. \A s \in SUBSET T : g[s] = Folded(f, g, s) /\ h[s] = Folded(f, h, s)
    BY DEF IsFold
  <1>2. SUFFICES ASSUME bad # {} PROVE FALSE
    OBVIOUS
  <1>3. PICK s \in bad : \A t \in SUBSET s : t # s => t \notin bad
    <2>1. IsFiniteSet(T) /\ bad \in SUBSET SUBSET T
      BY FS_Subset
    <2> HIDE DEF bad
    <2> QED BY <1>2, <2>1, SmallestSubset
  <1>4. s \in SUBSET T /\ g[s] # h[s]
    OBVIOUS
  <1>5. s # {}
    BY <1>1, <1>4 DEF Folded
  <1> DEFINE x == CHOOSE x \in s : TRUE
  <1>6. x \in s
    BY <1>5
  <1>7. s \ {x} \in SUBSET s /\ s \ {x} # s /\ s \ {x} \in SUBSET T
    BY <1>4, <1>6
  <1>8. g[s \ {x}] = h[s \ {x}]
    BY <1>3, <1>7
  <1> QED BY <1>1, <1>4, <1>5, <1>8 DEF Folded

\* A finite set has a fold.
LEMMA FoldExists ==
    ASSUME NEW f, NEW S, IsFiniteSet(S)
    PROVE  \A T \in SUBSET S : IsFold(f, T, Fold(f, T))
  <1> DEFINE bad == {T \in SUBSET S : ~IsFold(f, T, Fold(f, T))}
  <1>1. SUFFICES ASSUME bad # {} PROVE FALSE
    OBVIOUS
  <1>2. PICK T \in bad : \A t \in SUBSET T : t # T => t \notin bad
    <2>1. bad \in SUBSET SUBSET S
      OBVIOUS
    <2> HIDE DEF bad
    <2> QED BY <1>1, <2>1, SmallestSubset
  <1>3. T \in SUBSET S /\ \A t \in SUBSET T : t # T => IsFold(f, t, Fold(f, t))
    BY <1>2
  <1> DEFINE part(s) == Fold(f, s)[s]
             whole == IF T = {} THEN 0 ELSE LET x == CHOOSE x \in T : TRUE IN f[x] + part(T \ {x})
             iter == [s \in SUBSET T |-> IF s = T THEN whole ELSE part(s)]
  <1>4. ASSUME NEW s \in SUBSET T
        PROVE  iter[s] = Folded(f, iter, s)
    <2>1. CASE s = {}
      <3>1. CASE T = {}
        BY <2>1, <3>1 DEF Folded
      <3>2. CASE T # {}
        <4>1. iter[s] = Fold(f, {})[{}] /\ IsFold(f, {}, Fold(f, {}))
          BY <1>3, <2>1, <3>2
        <4>2. Fold(f, {})[{}] = Folded(f, Fold(f, {}), {})
          BY <4>1 DEF IsFold
        <4> QED BY <2>1, <4>1, <4>2 DEF Folded
      <3> QED BY <3>1, <3>2
    <2>2. CASE s # {}
      <3> DEFINE x == CHOOSE x \in s : TRUE
      <3>1. x \in s /\ s \ {x} \in SUBSET s /\ s \ {x} # s /\ s \ {x} \in SUBSET T /\ s \ {x} # T
        BY <2>2
      <3>2. iter[s \ {x}] = part(s \ {x})
        BY <3>1
      <3>3. iter[s] = f[x] + part(s \ {x})
        <4>1. CASE s = T
          BY <2>2, <4>1
        <4>2. CASE s # T
          <5>1. IsFold(f, s, Fold(f, s)) /\ IsFold(f, s \ {x}, Fold(f, s \ {x})) /\ IsFiniteSet(s)
            BY <1>3, <3>1, <4>2, FS_Subset
          <5>2. Fold(f, s)[s \ {x}] = part(s \ {x})
            BY <3>1, <5>1, FoldsAgree
          <5>3. Fold(f, s)[s] = Folded(f, Fold(f, s), s)
            BY <5>1 DEF IsFold
          <5> QED BY <2>2, <4>2, <5>2, <5>3 DEF Folded
        <4> QED BY <4>1, <4>2
      <3> HIDE DEF iter, part, whole
      <3> QED BY <2>2, <3>2, <3>3 DEF Folded
    <2> QED BY <2>1, <2>2
  <1>5. IsFold(f, T, iter)
    <2>1. iter = [s \in SUBSET T |-> iter[s]]
      OBVIOUS
    <2> HIDE DEF iter
    <2> QED BY <1>4, <2>1 DEF IsFold
  <1>6. IsFold(f, T, Fold(f, T))
    <2> HIDE DEF iter
    <2> QED BY <1>5 DEF Fold
  <1> QED BY <1>2, <1>6

-----------------------------------------------------------------------------
(* Sums *)

\* Nothing sums to zero.
LEMMA SumEmpty == ASSUME NEW f PROVE SumFunctionOnSet(f, {}) = 0
  <1>1. IsFold(f, {}, Fold(f, {}))
    BY FoldExists, FS_EmptySet
  <1>2. Fold(f, {})[{}] = Folded(f, Fold(f, {}), {})
    BY <1>1 DEF IsFold
  <1> QED BY <1>2, SumIsFold DEF Folded

\* One element of a finite set is set apart, and the others are summed.
LEMMA SumChoose ==
    ASSUME NEW f, NEW S, IsFiniteSet(S), S # {}
    PROVE  \E x \in S : SumFunctionOnSet(f, S) = f[x] + SumFunctionOnSet(f, S \ {x})
  <1> DEFINE x == CHOOSE x \in S : TRUE
  <1>1. x \in S /\ S \ {x} \in SUBSET S
    OBVIOUS
  <1>2. IsFold(f, S, Fold(f, S)) /\ IsFold(f, S \ {x}, Fold(f, S \ {x}))
    BY <1>1, FoldExists
  <1>3. Fold(f, S)[S] = Folded(f, Fold(f, S), S)
    BY <1>2 DEF IsFold
  <1>4. Fold(f, S)[S \ {x}] = Fold(f, S \ {x})[S \ {x}]
    BY <1>1, <1>2, FoldsAgree
  <1>5. Fold(f, S)[S] = f[x] + Fold(f, S \ {x})[S \ {x}]
    BY <1>3, <1>4 DEF Folded
  <1>6. SumFunctionOnSet(f, S) = f[x] + SumFunctionOnSet(f, S \ {x})
    BY <1>5, SumIsFold
  <1> HIDE DEF x
  <1> QED BY <1>1, <1>6

\* Integers sum to an integer.
LEMMA SumInt ==
    ASSUME NEW S, IsFiniteSet(S), NEW f, \A x \in S : f[x] \in Int
    PROVE  SumFunctionOnSet(f, S) \in Int
  <1> DEFINE bad == {s \in SUBSET S : SumFunctionOnSet(f, s) \notin Int}
  <1>1. SUFFICES ASSUME bad # {} PROVE FALSE
    OBVIOUS
  <1>2. PICK s \in bad : \A t \in SUBSET s : t # s => t \notin bad
    <2>1. bad \in SUBSET SUBSET S
      OBVIOUS
    <2> HIDE DEF bad
    <2> QED BY <1>1, <2>1, SmallestSubset
  <1>3. s # {} /\ IsFiniteSet(s)
    <2>1. s \in SUBSET S /\ SumFunctionOnSet(f, s) \notin Int
      OBVIOUS
    <2>2. SumFunctionOnSet(f, {}) \in Int
      BY SumEmpty
    <2>3. s # {}
      BY <2>1, <2>2
    <2> QED BY <2>1, <2>3, FS_Subset
  <1>4. PICK x \in s : SumFunctionOnSet(f, s) = f[x] + SumFunctionOnSet(f, s \ {x})
    BY <1>3, SumChoose
  <1>5. SumFunctionOnSet(f, s \ {x}) \in Int
    BY <1>2, <1>4
  <1> QED BY <1>2, <1>4, <1>5

\* A sum is the same for values that are the same.
LEMMA SumSame ==
    ASSUME NEW S, IsFiniteSet(S), NEW f, NEW g, \A x \in S : f[x] = g[x]
    PROVE  SumFunctionOnSet(f, S) = SumFunctionOnSet(g, S)
  <1> DEFINE bad == {s \in SUBSET S : Fold(f, s) # Fold(g, s)}
  <1>1. ASSUME NEW s \in SUBSET S, NEW iter
        PROVE  IsFold(f, s, iter) <=> IsFold(g, s, iter)
    <2>1. \A t \in SUBSET s : Folded(f, iter, t) = Folded(g, iter, t)
      <3> SUFFICES ASSUME NEW t \in SUBSET s PROVE Folded(f, iter, t) = Folded(g, iter, t)
        OBVIOUS
      <3>1. t # {} => (CHOOSE x \in t : TRUE) \in S
        OBVIOUS
      <3> QED BY <3>1 DEF Folded
    <2>2. [t \in SUBSET s |-> Folded(f, iter, t)] = [t \in SUBSET s |-> Folded(g, iter, t)]
      BY <2>1
    <2> QED BY <2>2 DEF IsFold
  <1>2. Fold(f, S) = Fold(g, S)
    BY <1>1 DEF Fold
  <1> QED BY <1>2, SumIsFold

\* One more element adds its value, whatever the order of the fold.
LEMMA SumAdd ==
    ASSUME NEW S, IsFiniteSet(S), NEW f, NEW a, a \notin S, \A x \in S \cup {a} : f[x] \in Int
    PROVE  SumFunctionOnSet(f, S \cup {a}) = SumFunctionOnSet(f, S) + f[a]
  <1> DEFINE all == S \cup {a}
             Adds(s) == \A b \in all \ s : SumFunctionOnSet(f, s \cup {b}) = SumFunctionOnSet(f, s) + f[b]
             bad == {s \in SUBSET all : ~Adds(s)}
  <1>0. IsFiniteSet(all)
    BY FS_AddElement
  <1>1. SUFFICES ASSUME bad # {} PROVE FALSE
    OBVIOUS
  <1>2. PICK s \in bad : \A t \in SUBSET s : t # s => t \notin bad
    <2>1. bad \in SUBSET SUBSET all
      OBVIOUS
    <2> HIDE DEF bad, all
    <2> QED BY <1>0, <1>1, <2>1, SmallestSubset
  <1>3. PICK b \in all \ s : SumFunctionOnSet(f, s \cup {b}) # SumFunctionOnSet(f, s) + f[b]
    OBVIOUS
  <1>4. s \in SUBSET all /\ IsFiniteSet(s) /\ IsFiniteSet(s \cup {b})
    BY <1>0, FS_Subset, FS_AddElement
  <1>5. PICK c \in s \cup {b} :
           SumFunctionOnSet(f, s \cup {b}) = f[c] + SumFunctionOnSet(f, (s \cup {b}) \ {c})
    BY <1>4, SumChoose
  <1>6. f[b] \in Int /\ f[c] \in Int /\ SumFunctionOnSet(f, s) \in Int
    BY <1>3, <1>4, SumInt
  <1>7. c # b
    <2>1. SUFFICES ASSUME c = b PROVE FALSE
      OBVIOUS
    <2>2. (s \cup {b}) \ {c} = s
      BY <1>3, <2>1
    <2>3. SumFunctionOnSet(f, s \cup {b}) = f[b] + SumFunctionOnSet(f, s)
      BY <1>5, <2>1, <2>2
    <2> QED BY <1>3, <1>6, <2>3
  <1> DEFINE t == s \ {c}
  <1>8. t \in SUBSET s /\ t # s /\ t \cup {c} = s /\ (s \cup {b}) \ {c} = t \cup {b}
           /\ b \in all \ t /\ c \in all \ t /\ t \in SUBSET all /\ IsFiniteSet(t)
    BY <1>3, <1>4, <1>5, <1>7, FS_Subset
  <1>9. Adds(t)
    BY <1>2, <1>8
  <1>10. /\ SumFunctionOnSet(f, t \cup {b}) = SumFunctionOnSet(f, t) + f[b]
         /\ SumFunctionOnSet(f, s) = SumFunctionOnSet(f, t) + f[c]
    BY <1>8, <1>9
  <1>11. SumFunctionOnSet(f, t) \in Int
    BY <1>4, <1>8, SumInt
  <1>12. SumFunctionOnSet(f, s \cup {b}) = f[c] + SumFunctionOnSet(f, t \cup {b})
    BY <1>5, <1>8
  <1>13. SumFunctionOnSet(f, s \cup {b}) # SumFunctionOnSet(f, s) + f[b]
    BY <1>3
  <1> HIDE DEF t
  <1> QED BY <1>6, <1>10, <1>11, <1>12, <1>13

\* One element set apart.
LEMMA SumRemove ==
    ASSUME NEW S, IsFiniteSet(S), NEW f, \A x \in S : f[x] \in Int, NEW a \in S
    PROVE  SumFunctionOnSet(f, S) = SumFunctionOnSet(f, S \ {a}) + f[a]
  <1>1. (S \ {a}) \cup {a} = S /\ IsFiniteSet(S \ {a}) /\ a \notin S \ {a}
    BY FS_RemoveElement
  <1>2. SumFunctionOnSet(f, (S \ {a}) \cup {a}) = SumFunctionOnSet(f, S \ {a}) + f[a]
    BY <1>1, SumAdd
  <1> QED BY <1>1, <1>2

\* The sum of one element is its value.
LEMMA SumOne ==
    ASSUME NEW f, NEW a, f[a] \in Int
    PROVE  SumFunctionOnSet(f, {a}) = f[a]
  <1>1. SumFunctionOnSet(f, {} \cup {a}) = SumFunctionOnSet(f, {}) + f[a]
    <2>1. IsFiniteSet({}) /\ a \notin {} /\ \A x \in {} \cup {a} : f[x] \in Int
      BY FS_EmptySet
    <2> QED BY <2>1, SumAdd
  <1>2. {} \cup {a} = {a}
    OBVIOUS
  <1> QED BY <1>1, <1>2, SumEmpty

\* A value that changes changes the sum by as much.
LEMMA SumChange ==
    ASSUME NEW S, IsFiniteSet(S), NEW f, NEW g, NEW a \in S,
           \A x \in S : f[x] \in Int /\ g[x] \in Int, \A x \in S \ {a} : f[x] = g[x]
    PROVE  SumFunctionOnSet(g, S) = SumFunctionOnSet(f, S) + (g[a] - f[a])
  <1>1. IsFiniteSet(S \ {a})
    BY FS_RemoveElement
  <1>2. SumFunctionOnSet(f, S \ {a}) = SumFunctionOnSet(g, S \ {a})
    BY <1>1, SumSame
  <1>3. SumFunctionOnSet(f, S \ {a}) \in Int
    BY <1>1, SumInt
  <1>4. /\ SumFunctionOnSet(f, S) = SumFunctionOnSet(f, S \ {a}) + f[a]
        /\ SumFunctionOnSet(g, S) = SumFunctionOnSet(g, S \ {a}) + g[a]
    BY SumRemove
  <1>5. f[a] \in Int /\ g[a] \in Int
    OBVIOUS
  <1> QED BY <1>2, <1>3, <1>4, <1>5

\* Values that are all zero sum to zero.
LEMMA SumZero ==
    ASSUME NEW S, IsFiniteSet(S), NEW f, \A x \in S : f[x] = 0
    PROVE  SumFunctionOnSet(f, S) = 0
  <1> DEFINE bad == {s \in SUBSET S : SumFunctionOnSet(f, s) # 0}
  <1>1. SUFFICES ASSUME bad # {} PROVE FALSE
    OBVIOUS
  <1>2. PICK s \in bad : \A t \in SUBSET s : t # s => t \notin bad
    <2>1. bad \in SUBSET SUBSET S
      OBVIOUS
    <2> HIDE DEF bad
    <2> QED BY <1>1, <2>1, SmallestSubset
  <1>3. s \in SUBSET S /\ SumFunctionOnSet(f, s) # 0
    OBVIOUS
  <1>4. s # {} /\ IsFiniteSet(s)
    BY <1>3, SumEmpty, FS_Subset
  <1>5. PICK x \in s : SumFunctionOnSet(f, s) = f[x] + SumFunctionOnSet(f, s \ {x})
    BY <1>4, SumChoose
  <1>6. SumFunctionOnSet(f, s \ {x}) = 0 /\ f[x] = 0
    BY <1>2, <1>3, <1>5
  <1> QED BY <1>3, <1>5, <1>6

-----------------------------------------------------------------------------
(* Sums of sums *)

\* What holds of no elements, and of some with one more when it holds of those, holds
\* of all of a finite set: bad are the subsets of which it does not.
LEMMA NoneBad ==
    ASSUME NEW S, IsFiniteSet(S), NEW bad \in SUBSET SUBSET S, {} \notin bad,
           \A s \in SUBSET S : \A x \in S \ s : s \notin bad => s \cup {x} \notin bad
    PROVE  S \notin bad
  <1>1. SUFFICES ASSUME bad # {} PROVE FALSE
    OBVIOUS
  <1>2. PICK s \in bad : \A t \in SUBSET s : t # s => t \notin bad
    BY <1>1, SmallestSubset
  <1>3. PICK x \in s : TRUE
    BY <1>2
  <1>4. s \ {x} \in SUBSET S /\ x \in S \ (s \ {x}) /\ (s \ {x}) \cup {x} = s
    BY <1>2, <1>3
  <1>5. s \ {x} \notin bad
    BY <1>2, <1>3
  <1>6. (s \ {x}) \cup {x} \notin bad
    BY <1>4, <1>5
  <1> QED BY <1>2, <1>4, <1>6

\* A sum of sums is the sum of the sums, whatever each value counts for.
LEMMA SumLinear ==
    ASSUME NEW S, IsFiniteSet(S), NEW f, NEW g, NEW h, NEW k \in Int,
           \A x \in S : f[x] \in Int /\ g[x] \in Int /\ h[x] = f[x] + k * g[x]
    PROVE  SumFunctionOnSet(h, S) = SumFunctionOnSet(f, S) + k * SumFunctionOnSet(g, S)
  <1> DEFINE F(s) == SumFunctionOnSet(f, s)
             G(s) == SumFunctionOnSet(g, s)
             H(s) == SumFunctionOnSet(h, s)
             bad == {s \in SUBSET S : H(s) # F(s) + k * G(s)}
  <1>1. {} \notin bad
    <2>1. H({}) = 0 /\ F({}) = 0 /\ G({}) = 0
      BY SumEmpty
    <2> HIDE DEF F, G, H
    <2> QED BY <2>1
  <1>2. ASSUME NEW s \in SUBSET S, NEW x \in S \ s, s \notin bad
        PROVE  s \cup {x} \notin bad
    <2>1. /\ IsFiniteSet(s) /\ x \notin s
          /\ \A y \in s \cup {x} : f[y] \in Int
          /\ \A y \in s \cup {x} : g[y] \in Int
          /\ \A y \in s \cup {x} : h[y] \in Int
      <3>1. \A y \in S : f[y] + k * g[y] \in Int
        OBVIOUS
      <3> QED BY <3>1, FS_Subset
    <2>2. F(s \cup {x}) = F(s) + f[x] /\ G(s \cup {x}) = G(s) + g[x] /\ H(s \cup {x}) = H(s) + h[x]
      <3>1. F(s \cup {x}) = F(s) + f[x]
        BY ONLY <2>1, SumAdd DEF F, G, H
      <3>2. G(s \cup {x}) = G(s) + g[x]
        BY ONLY <2>1, SumAdd DEF F, G, H
      <3>3. H(s \cup {x}) = H(s) + h[x]
        BY ONLY <2>1, SumAdd DEF F, G, H
      <3> QED BY <3>1, <3>2, <3>3
    <2>3. F(s) \in Int /\ G(s) \in Int
      BY <2>1, SumInt
    <2>4. f[x] \in Int /\ g[x] \in Int /\ h[x] = f[x] + k * g[x] /\ H(s) = F(s) + k * G(s)
      BY <1>2
    <2> HIDE DEF F, G, H
    <2>5. k * (G(s) + g[x]) = k * G(s) + k * g[x] /\ k * G(s) \in Int /\ k * g[x] \in Int
      BY <2>3, <2>4
    <2>6. H(s \cup {x}) = F(s \cup {x}) + k * G(s \cup {x})
      BY <2>2, <2>3, <2>4, <2>5
    <2> QED BY <2>6
  <1>3. S \notin bad
    <2>1. bad \in SUBSET SUBSET S
      OBVIOUS
    <2> HIDE DEF bad
    <2> QED BY <1>1, <1>2, <2>1, NoneBad
  <1> QED BY <1>3

\* The sum of what two parts have between them.
LEMMA SumUnion ==
    ASSUME NEW S, NEW T, IsFiniteSet(S), IsFiniteSet(T), S \cap T = {}, NEW f,
           \A x \in S \cup T : f[x] \in Int
    PROVE  SumFunctionOnSet(f, S \cup T) = SumFunctionOnSet(f, S) + SumFunctionOnSet(f, T)
  <1> DEFINE F(s) == SumFunctionOnSet(f, s)
             bad == {t \in SUBSET T : F(S \cup t) # F(S) + F(t)}
  <1>1. {} \notin bad
    <2>1. F({}) = 0 /\ F(S) \in Int /\ S \cup {} = S
      BY SumEmpty, SumInt
    <2> HIDE DEF F
    <2> QED BY <2>1
  <1>2. ASSUME NEW t \in SUBSET T, NEW x \in T \ t, t \notin bad
        PROVE  t \cup {x} \notin bad
    <2>1. /\ IsFiniteSet(t) /\ IsFiniteSet(S \cup t) /\ x \notin S \cup t /\ f[x] \in Int
          /\ \A y \in t \cup {x} : f[y] \in Int
          /\ \A y \in (S \cup t) \cup {x} : f[y] \in Int
      BY FS_Subset, FS_Union
    <2>2. F((S \cup t) \cup {x}) = F(S \cup t) + f[x] /\ F(t \cup {x}) = F(t) + f[x]
      BY <2>1, SumAdd
    <2>3. F(S) \in Int /\ F(t) \in Int /\ F(S \cup t) = F(S) + F(t)
      BY <1>2, <2>1, SumInt
    <2>4. (S \cup t) \cup {x} = S \cup (t \cup {x})
      OBVIOUS
    <2> HIDE DEF F
    <2>5. F(S \cup (t \cup {x})) = F(S \cup t) + f[x]
      BY <2>2, <2>4
    <2>6. f[x] \in Int
      BY <2>1
    <2>7. F(S \cup (t \cup {x})) = F(S) + F(t \cup {x})
      BY <2>2, <2>3, <2>5, <2>6
    <2> QED BY <2>7
  <1>3. T \notin bad
    <2>1. bad \in SUBSET SUBSET T
      OBVIOUS
    <2> HIDE DEF bad
    <2> QED BY <1>1, <1>2, <2>1, NoneBad
  <1> QED BY <1>3

\* Elements that add nothing may be left out.
LEMMA SumSupport ==
    ASSUME NEW T, IsFiniteSet(T), NEW S \in SUBSET T, NEW f,
           \A x \in S : f[x] \in Int, \A x \in T \ S : f[x] = 0
    PROVE  SumFunctionOnSet(f, T) = SumFunctionOnSet(f, S)
  <1>1. IsFiniteSet(S) /\ IsFiniteSet(T \ S) /\ S \cap (T \ S) = {} /\ S \cup (T \ S) = T
    BY FS_Subset
  <1>2. \A x \in S \cup (T \ S) : f[x] \in Int
    OBVIOUS
  <1>3. SumFunctionOnSet(f, T \ S) = 0 /\ SumFunctionOnSet(f, S) \in Int
    BY <1>1, SumZero, SumInt
  <1>4. SumFunctionOnSet(f, S \cup (T \ S)) = SumFunctionOnSet(f, S) + SumFunctionOnSet(f, T \ S)
    BY <1>1, <1>2, SumUnion
  <1> DEFINE F(t) == SumFunctionOnSet(f, t)
  <1>5. F(T) = F(S) + F(T \ S) /\ F(T \ S) = 0 /\ F(S) \in Int
    BY <1>1, <1>3, <1>4
  <1> HIDE DEF F
  <1>6. F(T) = F(S)
    BY <1>5
  <1> QED BY <1>6 DEF F

\* A function takes finitely many values on a finite set.
LEMMA FiniteImage ==
    ASSUME NEW S, IsFiniteSet(S), NEW f
    PROVE  IsFiniteSet({f[x] : x \in S})
  <1> DEFINE T == {f[x] : x \in S}
             g == [x \in S |-> f[x]]
  <1>1. g \in Surjection(S, T)
    BY DEF Surjection
  <1> QED BY <1>1, FS_Surjection DEF ExistsSurjection

\* A sum by key: what the elements of each key add up to, added up.
LEMMA SumByKey ==
    ASSUME NEW S, IsFiniteSet(S), NEW K, IsFiniteSet(K), NEW key, NEW group, NEW f, NEW total,
           \A x \in S : key[x] \in K /\ f[x] \in Int,
           \A k \in K : \A x : x \in group[k] <=> x \in S /\ key[x] = k,
           \A k \in K : total[k] = SumFunctionOnSet(f, group[k])
    PROVE  SumFunctionOnSet(total, K) = SumFunctionOnSet(f, S)
  <1> DEFINE Part(s, k) == {x \in s : key[x] = k}
             by(s) == [k \in K |-> SumFunctionOnSet(f, Part(s, k))]
             bad == {s \in SUBSET S : SumFunctionOnSet(by(s), K) # SumFunctionOnSet(f, s)}
  <1>1. {} \notin bad
    <2>1. \A k \in K : by({})[k] = 0
      <3>1. \A k \in K : Part({}, k) = {}
        OBVIOUS
      <3> QED BY <3>1, SumEmpty
    <2>2. SumFunctionOnSet(by({}), K) = 0
      <3> HIDE DEF by
      <3> QED BY <2>1, SumZero
    <2> QED BY <2>2, SumEmpty
  <1>2. ASSUME NEW s \in SUBSET S, NEW a \in S \ s, s \notin bad
        PROVE  s \cup {a} \notin bad
    <2>1. key[a] \in K /\ f[a] \in Int /\ IsFiniteSet(s) /\ \A x \in s \cup {a} : f[x] \in Int
      BY FS_Subset
    <2>2. \A k \in K : by(s)[k] \in Int /\ by(s \cup {a})[k] \in Int
      <3>1. \A t \in SUBSET S : \A k \in K :
               IsFiniteSet(Part(t, k)) /\ \A x \in Part(t, k) : f[x] \in Int
        BY FS_Subset
      <3>2. \A t \in SUBSET S : \A k \in K : SumFunctionOnSet(f, Part(t, k)) \in Int
        <4> SUFFICES ASSUME NEW t \in SUBSET S, NEW k \in K
                     PROVE  SumFunctionOnSet(f, Part(t, k)) \in Int
          OBVIOUS
        <4>1. PICK part : part = Part(t, k)
          OBVIOUS
        <4>2. IsFiniteSet(part) /\ \A x \in part : f[x] \in Int
          BY <3>1, <4>1
        <4>3. SumFunctionOnSet(f, part) \in Int
          BY ONLY <4>2, SumInt
        <4> QED BY <4>1, <4>3
      <3>3. s \in SUBSET S /\ s \cup {a} \in SUBSET S
        OBVIOUS
      <3>4. \A k \in K : /\ SumFunctionOnSet(f, Part(s, k)) \in Int
                        /\ SumFunctionOnSet(f, Part(s \cup {a}, k)) \in Int
        <4> HIDE DEF Part
        <4> QED BY <3>2, <3>3
      <3> HIDE DEF Part
      <3> QED BY <3>4
    <2>3. \A k \in K \ {key[a]} : by(s)[k] = by(s \cup {a})[k]
      <3>1. \A k \in K \ {key[a]} : Part(s, k) = Part(s \cup {a}, k)
        OBVIOUS
      <3> QED BY <3>1
    <2>4. by(s \cup {a})[key[a]] = by(s)[key[a]] + f[a]
      <3>1. Part(s \cup {a}, key[a]) = Part(s, key[a]) \cup {a} /\ a \notin Part(s, key[a])
        OBVIOUS
      <3>2. IsFiniteSet(Part(s, key[a])) /\ \A x \in Part(s, key[a]) \cup {a} : f[x] \in Int
        BY <2>1, FS_Subset
      <3>3. SumFunctionOnSet(f, Part(s, key[a]) \cup {a})
               = SumFunctionOnSet(f, Part(s, key[a])) + f[a]
        <4>1. PICK part : part = Part(s, key[a])
          OBVIOUS
        <4>2. IsFiniteSet(part) /\ a \notin part /\ \A x \in part \cup {a} : f[x] \in Int
          BY <3>1, <3>2, <4>1
        <4>3. SumFunctionOnSet(f, part \cup {a}) = SumFunctionOnSet(f, part) + f[a]
          BY ONLY <4>2, SumAdd
        <4> QED BY <4>1, <4>3
      <3> QED BY <2>1, <3>1, <3>3
    <2>5. SumFunctionOnSet(by(s \cup {a}), K)
             = SumFunctionOnSet(by(s), K) + (by(s \cup {a})[key[a]] - by(s)[key[a]])
      <3>1. PICK old : old = by(s)
        OBVIOUS
      <3>2. PICK new : new = by(s \cup {a})
        OBVIOUS
      <3>3. PICK here : here = key[a] /\ here \in K
        BY <2>1
      <3> HIDE DEF by
      <3>4. /\ \A k \in K : old[k] \in Int /\ new[k] \in Int
            /\ \A k \in K \ {here} : old[k] = new[k]
        BY <2>2, <2>3, <3>1, <3>2, <3>3
      <3>5. SumFunctionOnSet(new, K) = SumFunctionOnSet(old, K) + (new[here] - old[here])
        BY ONLY IsFiniteSet(K), <3>3, <3>4, SumChange
      <3> QED BY <3>1, <3>2, <3>3, <3>5
    <2>6. SumFunctionOnSet(by(s), K) = SumFunctionOnSet(f, s) /\ SumFunctionOnSet(f, s) \in Int
      BY <1>2, <2>1, SumInt
    <2>7. SumFunctionOnSet(f, s \cup {a}) = SumFunctionOnSet(f, s) + f[a]
      BY <2>1, SumAdd
    <2>8. by(s)[key[a]] \in Int
      BY <2>1, <2>2
    <2>9. SumFunctionOnSet(by(s \cup {a}), K) = SumFunctionOnSet(f, s \cup {a})
      <3> HIDE DEF by
      <3> QED BY <2>1, <2>4, <2>5, <2>6, <2>7, <2>8
    <2> QED BY <2>9
  <1>3. S \notin bad
    <2>1. bad \in SUBSET SUBSET S
      OBVIOUS
    <2> HIDE DEF bad
    <2> QED BY <1>1, <1>2, <2>1, NoneBad
  <1>4. \A k \in K : total[k] = by(S)[k]
    <2>1. \A k \in K : group[k] = Part(S, k)
      OBVIOUS
    <2> QED BY <2>1
  <1>5. SumFunctionOnSet(total, K) = SumFunctionOnSet(by(S), K)
    <2> HIDE DEF by
    <2> QED BY <1>4, SumSame
  <1> QED BY <1>3, <1>5

\* The rows of a table add up to across, its columns to down.
IsTable(S, T, row, col, across, down) ==
    /\ \A x \in S, y \in T : row[x][y] \in Int /\ col[y][x] = row[x][y]
    /\ \A x \in S : across[x] = SumFunctionOnSet(row[x], T)
    /\ \A y \in T : down[y] = SumFunctionOnSet(col[y], S)

\* A table adds up by rows to what it adds up to by columns.
LEMMA SumSwap ==
    ASSUME NEW S, IsFiniteSet(S), NEW T, IsFiniteSet(T), NEW row, NEW col, NEW across, NEW down,
           IsTable(S, T, row, col, across, down)
    PROVE  SumFunctionOnSet(across, S) = SumFunctionOnSet(down, T)
  <1>0. /\ \A x \in S, y \in T : row[x][y] \in Int /\ col[y][x] = row[x][y]
        /\ \A x \in S : across[x] = SumFunctionOnSet(row[x], T)
        /\ \A y \in T : down[y] = SumFunctionOnSet(col[y], S)
    BY DEF IsTable
  <1> DEFINE upto(s) == [y \in T |-> SumFunctionOnSet(col[y], s)]
             bad == {s \in SUBSET S : SumFunctionOnSet(across, s) # SumFunctionOnSet(upto(s), T)}
  <1>1. {} \notin bad
    <2>1. \A y \in T : upto({})[y] = 0
      BY SumEmpty
    <2>2. SumFunctionOnSet(upto({}), T) = 0
      <3> HIDE DEF upto
      <3> QED BY <2>1, SumZero
    <2> QED BY <2>2, SumEmpty
  <1>2. ASSUME NEW s \in SUBSET S, NEW a \in S \ s, s \notin bad
        PROVE  s \cup {a} \notin bad
    <2>1. IsFiniteSet(s) /\ \A x \in s \cup {a} : x \in S
      BY FS_Subset
    <2>2. \A x \in S : across[x] \in Int
      <3> SUFFICES ASSUME NEW x \in S
                   PROVE  across[x] \in Int
        OBVIOUS
      <3>1. PICK r : r = row[x]
        OBVIOUS
      <3>2. \A y \in T : r[y] \in Int
        BY <1>0, <3>1
      <3>3. SumFunctionOnSet(r, T) \in Int
        BY <3>2, SumInt
      <3> QED BY <1>0, <3>1, <3>3
    <2>3. \A y \in T : upto(s \cup {a})[y] = upto(s)[y] + 1 * row[a][y] /\ upto(s)[y] \in Int
      <3>1. ASSUME NEW y \in T
            PROVE  /\ SumFunctionOnSet(col[y], s \cup {a}) = SumFunctionOnSet(col[y], s) + 1 * row[a][y]
                   /\ SumFunctionOnSet(col[y], s) \in Int
        <4>1. \A x \in s \cup {a} : col[y][x] \in Int
          BY <1>0
        <4>2. PICK c : c = col[y]
          OBVIOUS
        <4>3. IsFiniteSet(s) /\ a \notin s /\ \A x \in s \cup {a} : c[x] \in Int
          BY <2>1, <4>1, <4>2
        <4>4. SumFunctionOnSet(c, s \cup {a}) = SumFunctionOnSet(c, s) + c[a]
          BY ONLY <4>3, SumAdd
        <4>5. SumFunctionOnSet(c, s) \in Int
          BY <4>3, SumInt
        <4>6. c[a] = row[a][y] /\ row[a][y] \in Int
          BY <1>0, <4>2
        <4> QED BY <4>2, <4>4, <4>5, <4>6
      <3> QED BY <3>1
    <2>4. SumFunctionOnSet(upto(s \cup {a}), T)
             = SumFunctionOnSet(upto(s), T) + 1 * SumFunctionOnSet(row[a], T)
      <3>1. PICK old : old = upto(s)
        OBVIOUS
      <3>2. PICK new : new = upto(s \cup {a})
        OBVIOUS
      <3>3. PICK r : r = row[a]
        OBVIOUS
      <3>4. \A y \in T : old[y] \in Int /\ r[y] \in Int /\ new[y] = old[y] + 1 * r[y]
        <4> HIDE DEF upto
        <4> QED BY <1>0, <2>3, <3>1, <3>2, <3>3
      <3>5. SumFunctionOnSet(new, T) = SumFunctionOnSet(old, T) + 1 * SumFunctionOnSet(r, T)
        BY ONLY IsFiniteSet(T), 1 \in Int, <3>4, SumLinear
      <3> QED BY <3>1, <3>2, <3>3, <3>5
    <2>5. SumFunctionOnSet(across, s \cup {a}) = SumFunctionOnSet(across, s) + across[a]
      <3>1. IsFiniteSet(s) /\ a \notin s /\ \A x \in s \cup {a} : across[x] \in Int
        BY <2>1, <2>2
      <3> QED BY ONLY <3>1, SumAdd
    <2>6. SumFunctionOnSet(across, s) \in Int
      BY <2>1, <2>2, SumInt
    <2>7. SumFunctionOnSet(across, s) = SumFunctionOnSet(upto(s), T)
      BY <1>2
    <2>8. across[a] = SumFunctionOnSet(row[a], T) /\ across[a] \in Int
      BY <1>0, <2>2
    <2>9. SumFunctionOnSet(across, s \cup {a}) = SumFunctionOnSet(upto(s \cup {a}), T)
      <3> HIDE DEF upto
      <3> QED BY <2>4, <2>5, <2>6, <2>7, <2>8
    <2> QED BY <2>9
  <1>3. S \notin bad
    <2>1. bad \in SUBSET SUBSET S
      OBVIOUS
    <2> HIDE DEF bad
    <2> QED BY <1>1, <1>2, <2>1, NoneBad
  <1>4. \A y \in T : down[y] = upto(S)[y]
    BY <1>0
  <1>5. SumFunctionOnSet(down, T) = SumFunctionOnSet(upto(S), T)
    <2> HIDE DEF upto
    <2> QED BY <1>4, SumSame
  <1> QED BY <1>3, <1>5

\* Renamed one by one, the elements add up to the same.
LEMMA SumRenamed ==
    ASSUME NEW S, IsFiniteSet(S), NEW name, NEW f, NEW g,
           \A x, y \in S : name[x] = name[y] => x = y,
           \A x \in S : f[x] \in Int /\ g[name[x]] = f[x]
    PROVE  SumFunctionOnSet(g, {name[x] : x \in S}) = SumFunctionOnSet(f, S)
  <1> DEFINE Named(s) == {name[x] : x \in s}
             bad == {s \in SUBSET S : SumFunctionOnSet(g, Named(s)) # SumFunctionOnSet(f, s)}
  <1>1. {} \notin bad
    <2>1. Named({}) = {}
      OBVIOUS
    <2> QED BY <2>1, SumEmpty
  <1>2. ASSUME NEW s \in SUBSET S, NEW a \in S \ s, s \notin bad
        PROVE  s \cup {a} \notin bad
    <2>1. IsFiniteSet(s) /\ f[a] \in Int /\ \A x \in s \cup {a} : f[x] \in Int
      BY FS_Subset
    <2>2. /\ Named(s \cup {a}) = Named(s) \cup {name[a]} /\ name[a] \notin Named(s)
          /\ \A z \in Named(s) \cup {name[a]} : g[z] \in Int
      OBVIOUS
    <2>3. IsFiniteSet(Named(s))
      BY <2>1, FiniteImage
    <2>4. SumFunctionOnSet(g, Named(s) \cup {name[a]}) = SumFunctionOnSet(g, Named(s)) + g[name[a]]
      <3>1. PICK n : n = Named(s)
        OBVIOUS
      <3>2. PICK b : b = name[a]
        OBVIOUS
      <3>3. IsFiniteSet(n) /\ b \notin n /\ \A z \in n \cup {b} : g[z] \in Int
        <4> HIDE DEF Named
        <4> QED BY <2>2, <2>3, <3>1, <3>2
      <3>4. SumFunctionOnSet(g, n \cup {b}) = SumFunctionOnSet(g, n) + g[b]
        BY ONLY <3>3, SumAdd
      <3> QED BY <3>1, <3>2, <3>4
    <2>5. SumFunctionOnSet(f, s \cup {a}) = SumFunctionOnSet(f, s) + f[a]
      BY <2>1, SumAdd
    <2>6. SumFunctionOnSet(g, Named(s)) = SumFunctionOnSet(f, s) /\ g[name[a]] = f[a]
      BY <1>2
    <2>7. SumFunctionOnSet(g, Named(s \cup {a})) = SumFunctionOnSet(f, s \cup {a})
      <3> HIDE DEF Named
      <3> QED BY <2>2, <2>4, <2>5, <2>6
    <2> QED BY <2>7
  <1>3. S \notin bad
    <2>1. bad \in SUBSET SUBSET S
      OBVIOUS
    <2> HIDE DEF bad
    <2> QED BY <1>1, <1>2, <2>1, NoneBad
  <1> QED BY <1>3

\* Ones add up to how many there are.
LEMMA SumOnes ==
    ASSUME NEW S, IsFiniteSet(S), NEW f, \A x \in S : f[x] = 1
    PROVE  SumFunctionOnSet(f, S) = Cardinality(S)
  <1> DEFINE bad == {s \in SUBSET S : SumFunctionOnSet(f, s) # Cardinality(s)}
  <1>1. {} \notin bad
    BY SumEmpty, FS_EmptySet
  <1>2. ASSUME NEW s \in SUBSET S, NEW a \in S \ s, s \notin bad
        PROVE  s \cup {a} \notin bad
    <2>1. IsFiniteSet(s) /\ f[a] = 1 /\ \A x \in s \cup {a} : f[x] \in Int
      BY FS_Subset
    <2>2. Cardinality(s \cup {a}) = Cardinality(s) + 1
      BY <2>1, FS_AddElement
    <2>3. SumFunctionOnSet(f, s \cup {a}) = SumFunctionOnSet(f, s) + f[a]
      BY <2>1, SumAdd
    <2> QED BY <1>2, <2>1, <2>2, <2>3
  <1>3. S \notin bad
    <2>1. bad \in SUBSET SUBSET S
      OBVIOUS
    <2> HIDE DEF bad
    <2> QED BY <1>1, <1>2, <2>1, NoneBad
  <1> QED BY <1>3

\* Values that are not negative sum to zero only if all of them are.
LEMMA SumPositive ==
    ASSUME NEW S, IsFiniteSet(S), NEW f, \A x \in S : f[x] \in Nat
    PROVE  /\ SumFunctionOnSet(f, S) \in Nat
           /\ \A x \in S : f[x] <= SumFunctionOnSet(f, S)
  <1>1. \A s \in SUBSET S : SumFunctionOnSet(f, s) \in Nat
    <2> SUFFICES ASSUME NEW s \in SUBSET S
                 PROVE  SumFunctionOnSet(f, s) \in Nat
      OBVIOUS
    <2> DEFINE bad == {t \in SUBSET s : SumFunctionOnSet(f, t) \notin Nat}
    <2>1. {} \notin bad
      BY SumEmpty
    <2>2. ASSUME NEW t \in SUBSET s, NEW a \in s \ t, t \notin bad
          PROVE  t \cup {a} \notin bad
      <3>1. IsFiniteSet(t) /\ \A x \in t \cup {a} : f[x] \in Int
        BY FS_Subset
      <3>2. SumFunctionOnSet(f, t \cup {a}) = SumFunctionOnSet(f, t) + f[a]
        BY <3>1, SumAdd
      <3> QED BY <2>2, <3>2
    <2>3. s \notin bad
      <3>1. bad \in SUBSET SUBSET s /\ IsFiniteSet(s)
        BY FS_Subset
      <3> HIDE DEF bad
      <3> QED BY <2>1, <2>2, <3>1, NoneBad
    <2> QED BY <2>3
  <1>2. ASSUME NEW x \in S
        PROVE  f[x] <= SumFunctionOnSet(f, S)
    <2>1. SumFunctionOnSet(f, S) = SumFunctionOnSet(f, S \ {x}) + f[x]
      BY SumRemove
    <2>2. SumFunctionOnSet(f, S \ {x}) \in Nat /\ f[x] \in Nat
      BY <1>1
    <2> QED BY <2>1, <2>2
  <1> QED BY <1>1, <1>2
\* Values that fit sum to what fits, and exactly when all are equal do the sums.
LEMMA SumFits ==
    ASSUME NEW S, IsFiniteSet(S), NEW f, NEW g, \A x \in S : f[x] \in Nat /\ g[x] \in Nat /\ f[x] <= g[x]
    PROVE  /\ SumFunctionOnSet(f, S) \in Nat /\ SumFunctionOnSet(g, S) \in Nat
           /\ SumFunctionOnSet(f, S) <= SumFunctionOnSet(g, S)
           /\ SumFunctionOnSet(f, S) = SumFunctionOnSet(g, S) <=> \A x \in S : f[x] = g[x]
  <1> DEFINE short == [x \in S |-> g[x] - f[x]]
  <1>1. /\ \A x \in S : f[x] \in Int /\ short[x] \in Int /\ g[x] = f[x] + 1 * short[x]
        /\ \A x \in S : f[x] \in Nat /\ g[x] \in Nat /\ short[x] \in Nat /\ short[x] = g[x] - f[x]
    OBVIOUS
  <1> HIDE DEF short
  <1>2. SumFunctionOnSet(g, S) = SumFunctionOnSet(f, S) + 1 * SumFunctionOnSet(short, S)
    <2>1. 1 \in Int
      OBVIOUS
    <2> QED BY ONLY <1>1, <2>1, SumLinear, IsFiniteSet(S)
  <1>3. /\ SumFunctionOnSet(f, S) \in Nat /\ SumFunctionOnSet(g, S) \in Nat
        /\ SumFunctionOnSet(short, S) \in Nat
        /\ \A x \in S : short[x] <= SumFunctionOnSet(short, S)
    BY <1>1, SumPositive
  <1>4. ASSUME SumFunctionOnSet(f, S) = SumFunctionOnSet(g, S), NEW x \in S
        PROVE  f[x] = g[x]
    <2>1. SumFunctionOnSet(short, S) = 0
      BY <1>2, <1>3, <1>4
    <2>2. short[x] <= 0 /\ f[x] \in Nat /\ g[x] \in Nat /\ short[x] \in Nat /\ short[x] = g[x] - f[x]
      BY <1>1, <1>3, <2>1
    <2> QED BY <2>2
  <1>5. (\A x \in S : f[x] = g[x]) => SumFunctionOnSet(f, S) = SumFunctionOnSet(g, S)
    BY SumSame
  <1> QED BY <1>2, <1>3, <1>4, <1>5
===============================================================================
