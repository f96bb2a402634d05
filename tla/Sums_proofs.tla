----------------------------- MODULE Sums_proofs ----------------------------
(***************************************************************************)
(* Facts about finite sums, the arithmetic that double entry rests on.      *)
(* MapThenSumSet of the community modules is a recursive function on        *)
(* subsets; that it exists and what it computes is shown by considering a   *)
(* smallest subset for which it would fail.                                 *)
(***************************************************************************)
EXTENDS Sums, FiniteSetTheorems, TLAPS

\* The element that the recursion takes out of s first.
FirstOf(s) == CHOOSE x \in s : TRUE

\* The recursion that defines the sum of v over every subset of S.
Adds(g, v, S) ==
  g = [s \in SUBSET S |-> IF s = {} THEN 0 ELSE v[FirstOf(s)] + g[s \ {FirstOf(s)}]]

\* A nonempty set of subsets of a finite set has a smallest element.
LEMMA SmallestSubset ==
  ASSUME NEW S, IsFiniteSet(S), NEW T \in SUBSET (SUBSET S), T # {}
  PROVE  \E s \in T : \A u \in T : u \subseteq s => u = s
<1>1. IsWellFoundedOn(StrictSubsetOrdering(S), FiniteSubsetsOf(S))
  BY FS_StrictSubsetOrderingWellFounded
<1>2. T \subseteq FiniteSubsetsOf(S)
  BY FS_Subset DEF FiniteSubsetsOf
<1>3. PICK s \in T : \A u \in T : ~ (<<u, s>> \in StrictSubsetOrdering(S))
  BY <1>1, <1>2, WFMin
<1> QED
  BY <1>3 DEF StrictSubsetOrdering

\* FirstOf takes an element.
LEMMA FirstIn ==
  ASSUME NEW s, s # {}
  PROVE  FirstOf(s) \in s /\ s \ {FirstOf(s)} \subseteq s /\ s \ {FirstOf(s)} # s
BY DEF FirstOf

\* Two solutions of the recursion agree wherever both are defined.
LEMMA AddsUnique ==
  ASSUME NEW v, NEW S, NEW R, IsFiniteSet(S), NEW g, NEW h, Adds(g, v, S), Adds(h, v, R)
  PROVE  \A s \in SUBSET (S \cap R) : g[s] = h[s]
<1> DEFINE T == {s \in SUBSET (S \cap R) : g[s] # h[s]}
<1> SUFFICES ASSUME T # {} PROVE FALSE
  OBVIOUS
<1>1. PICK s \in T : \A u \in T : u \subseteq s => u = s
  <2>1. T \in SUBSET (SUBSET S)
    OBVIOUS
  <2> HIDE DEF T
  <2> QED BY <2>1, SmallestSubset
<1>2. s \in SUBSET S /\ s \in SUBSET R /\ g[s] # h[s]
  BY <1>1
<1>3. s # {}
  BY <1>2 DEF Adds
<1>4. g[s \ {FirstOf(s)}] = h[s \ {FirstOf(s)}]
  BY <1>1, <1>2, <1>3, FirstIn
<1>5. g[s] = v[FirstOf(s)] + g[s \ {FirstOf(s)}] /\ h[s] = v[FirstOf(s)] + h[s \ {FirstOf(s)}]
  BY <1>2, <1>3 DEF Adds
<1> QED BY <1>2, <1>4, <1>5

\* The recursion has a solution.
LEMMA AddsExists ==
  ASSUME NEW v, NEW S, IsFiniteSet(S)
  PROVE  \E g : Adds(g, v, S)
<1> DEFINE T == {s \in SUBSET S : ~ \E g : Adds(g, v, s)}
           G(s) == CHOOSE g : Adds(g, v, s)
<1> SUFFICES ASSUME T # {} PROVE FALSE
  OBVIOUS
<1>1. PICK m \in T : \A u \in T : u \subseteq m => u = m
  <2>1. T \in SUBSET (SUBSET S)
    OBVIOUS
  <2> HIDE DEF T
  <2> QED BY <2>1, SmallestSubset
<1>2. m \in SUBSET S /\ ~ \E g : Adds(g, v, m)
  BY <1>1
<1>3. ASSUME NEW s \in SUBSET m, s # m PROVE Adds(G(s), v, s) /\ IsFiniteSet(s)
  <2>1. s \in SUBSET S /\ s \notin T
    BY <1>1, <1>2, <1>3
  <2>2. \E g : Adds(g, v, s)
    BY <2>1
  <2> QED BY <2>1, <2>2, FS_Subset
<1> DEFINE h == [s \in SUBSET m |->
                   IF s = {} THEN 0 ELSE v[FirstOf(s)] + G(s \ {FirstOf(s)})[s \ {FirstOf(s)}]]
<1>4. ASSUME NEW s \in SUBSET m, s # m PROVE h[s] = G(s)[s]
  <2>1. Adds(G(s), v, s)
    BY <1>3, <1>4
  <2>2. CASE s = {}
    BY <2>1, <2>2 DEF Adds
  <2>3. CASE s # {}
    <3> DEFINE w == s \ {FirstOf(s)}
    <3>1. w \in SUBSET m /\ w # m /\ w \in SUBSET s
      BY <2>3, <1>4, FirstIn
    <3>2. Adds(G(w), v, w) /\ IsFiniteSet(w)
      BY <1>3, <3>1
    <3> HIDE DEF G
    <3>3. G(w)[w] = G(s)[w]
      BY <2>1, <3>1, <3>2, AddsUnique
    <3>4. G(s)[s] = v[FirstOf(s)] + G(s)[w]
      BY <2>1, <2>3 DEF Adds
    <3> QED BY <2>3, <3>3, <3>4
  <2> QED BY <2>2, <2>3
<1>5. ASSUME NEW s \in SUBSET m, s # {} PROVE h[s] = v[FirstOf(s)] + h[s \ {FirstOf(s)}]
  <2>1. s \ {FirstOf(s)} \in SUBSET m /\ s \ {FirstOf(s)} # m
    BY <1>5, FirstIn
  <2>2. h[s \ {FirstOf(s)}] = G(s \ {FirstOf(s)})[s \ {FirstOf(s)}]
    BY <1>4, <2>1
  <2> HIDE DEF G
  <2> QED BY <1>5, <2>2
<1>6. Adds(h, v, m)
  <2>1. h[{}] = 0
    OBVIOUS
  <2>2. h = [s \in SUBSET m |-> h[s]]
    OBVIOUS
  <2> HIDE DEF h
  <2>3. \A s \in SUBSET m : h[s] = IF s = {} THEN 0 ELSE v[FirstOf(s)] + h[s \ {FirstOf(s)}]
    BY <1>5, <2>1
  <2> QED BY <2>2, <2>3 DEF Adds
<1> QED BY <1>2, <1>6

\* What the sum is: the value of the recursion at S.
LEMMA SumAdds ==
  ASSUME NEW v, NEW S, IsFiniteSet(S)
  PROVE  \E g : Adds(g, v, S) /\ \A s \in SUBSET S : SumOver(v, s) = g[s]
<1>1. ASSUME NEW s PROVE SumOver(v, s) = (CHOOSE g : Adds(g, v, s))[s]
  BY DEF SumOver, MapThenSumSet, MapThenFoldSet, Adds, FirstOf
<1>2. PICK g : Adds(g, v, S)
  BY AddsExists
<1>3. ASSUME NEW s \in SUBSET S PROVE SumOver(v, s) = g[s]
  <2>1. IsFiniteSet(s)
    BY FS_Subset
  <2>2. PICK h : Adds(h, v, s) /\ SumOver(v, s) = h[s]
    BY <1>1, <2>1, AddsExists
  <2> QED BY <1>2, <2>1, <2>2, AddsUnique
<1> QED BY <1>2, <1>3

\* The empty sum, and the sum from its first element on.
LEMMA SumEmpty ==
  ASSUME NEW v
  PROVE  SumOver(v, {}) = 0
<1>1. PICK g : Adds(g, v, {}) /\ \A s \in SUBSET {} : SumOver(v, s) = g[s]
  BY SumAdds, FS_EmptySet
<1> QED BY <1>1 DEF Adds

LEMMA SumFirst ==
  ASSUME NEW v, NEW S, IsFiniteSet(S), S # {}
  PROVE  SumOver(v, S) = v[FirstOf(S)] + SumOver(v, S \ {FirstOf(S)})
<1>1. PICK g : Adds(g, v, S) /\ \A s \in SUBSET S : SumOver(v, s) = g[s]
  BY SumAdds
<1> QED BY <1>1 DEF Adds

\* A sum depends only on the values it adds.
LEMMA SumSame ==
  ASSUME NEW v, NEW w, NEW S, IsFiniteSet(S), \A x \in S : v[x] = w[x]
  PROVE  SumOver(v, S) = SumOver(w, S)
<1> DEFINE T == {s \in SUBSET S : SumOver(v, s) # SumOver(w, s)}
<1> SUFFICES ASSUME T # {} PROVE FALSE
  OBVIOUS
<1>1. PICK m \in T : \A u \in T : u \subseteq m => u = m
  <2>1. T \in SUBSET (SUBSET S)
    OBVIOUS
  <2> HIDE DEF T
  <2> QED BY <2>1, SmallestSubset
<1>2. m \in SUBSET S /\ SumOver(v, m) # SumOver(w, m) /\ IsFiniteSet(m)
  BY <1>1, FS_Subset
<1>3. m # {}
  BY <1>2, SumEmpty
<1>4. FirstOf(m) \in S /\ SumOver(v, m \ {FirstOf(m)}) = SumOver(w, m \ {FirstOf(m)})
  BY <1>1, <1>2, <1>3, FirstIn
<1> QED BY <1>2, <1>3, <1>4, SumFirst

\* A sum of integers is an integer.
LEMMA SumType ==
  ASSUME NEW v, NEW S, IsFiniteSet(S), \A x \in S : v[x] \in Int
  PROVE  SumOver(v, S) \in Int
<1> DEFINE T == {s \in SUBSET S : SumOver(v, s) \notin Int}
<1> SUFFICES ASSUME T # {} PROVE FALSE
  OBVIOUS
<1>1. PICK m \in T : \A u \in T : u \subseteq m => u = m
  <2>1. T \in SUBSET (SUBSET S)
    OBVIOUS
  <2> HIDE DEF T
  <2> QED BY <2>1, SmallestSubset
<1>2. m \in SUBSET S /\ SumOver(v, m) \notin Int /\ IsFiniteSet(m)
  BY <1>1, FS_Subset
<1>3. m # {}
  BY <1>2, SumEmpty
<1>4. FirstOf(m) \in S /\ SumOver(v, m \ {FirstOf(m)}) \in Int
  BY <1>1, <1>2, <1>3, FirstIn
<1> QED BY <1>2, <1>3, <1>4, SumFirst

\* Any element may be taken out of a sum, not only the first.
LEMMA SumTake ==
  ASSUME NEW v, NEW S, IsFiniteSet(S), \A x \in S : v[x] \in Int, NEW x \in S
  PROVE  SumOver(v, S) = v[x] + SumOver(v, S \ {x})
<1> DEFINE Fails(s) == \E y \in s : SumOver(v, s) # v[y] + SumOver(v, s \ {y})
           T == {s \in SUBSET S : Fails(s)}
<1> SUFFICES ASSUME T # {} PROVE FALSE
  OBVIOUS
<1>1. PICK m \in T : \A u \in T : u \subseteq m => u = m
  <2>1. T \in SUBSET (SUBSET S)
    OBVIOUS
  <2> HIDE DEF T
  <2> QED BY <2>1, SmallestSubset
<1>2. m \in SUBSET S /\ IsFiniteSet(m)
  BY <1>1, FS_Subset
<1>3. PICK y \in m : SumOver(v, m) # v[y] + SumOver(v, m \ {y})
  BY <1>1
<1> DEFINE f == FirstOf(m)
<1>4. f \in m /\ SumOver(v, m) = v[f] + SumOver(v, m \ {f})
  BY <1>2, <1>3, FirstIn, SumFirst
<1>5. y # f
  BY <1>3, <1>4
<1> HIDE DEF f
<1>6. SumOver(v, m \ {f}) = v[y] + SumOver(v, (m \ {f}) \ {y})
  <2>1. m \ {f} \in SUBSET S /\ m \ {f} \notin T /\ y \in m \ {f}
    BY <1>1, <1>2, <1>4, <1>5
  <2> QED BY <2>1
<1>7. SumOver(v, m \ {y}) = v[f] + SumOver(v, (m \ {y}) \ {f})
  <2>1. m \ {y} \in SUBSET S /\ m \ {y} \notin T /\ f \in m \ {y}
    BY <1>1, <1>2, <1>3, <1>4, <1>5
  <2> QED BY <2>1
<1>8. (m \ {f}) \ {y} = (m \ {y}) \ {f}
  OBVIOUS
<1>9. SumOver(v, (m \ {y}) \ {f}) \in Int /\ v[f] \in Int /\ v[y] \in Int
  <2>1. (m \ {y}) \ {f} \in SUBSET S /\ IsFiniteSet((m \ {y}) \ {f})
    BY <1>2, FS_Subset
  <2> QED BY <1>2, <1>3, <1>4, <2>1, SumType
<1>10. PICK r \in Int : r = SumOver(v, (m \ {y}) \ {f})
  BY <1>9
<1>11. SumOver(v, m) = v[f] + (v[y] + r)
  BY <1>4, <1>6, <1>8, <1>10
<1>12. v[y] + SumOver(v, m \ {y}) = v[y] + (v[f] + r)
  BY <1>7, <1>10
<1> HIDE DEF T
<1>13. v[f] + (v[y] + r) = v[y] + (v[f] + r)
  BY <1>9
<1> QED BY <1>3, <1>11, <1>12, <1>13

\* What is summed over a set is summed over its two parts.
LEMMA SumSplit ==
  ASSUME NEW v, NEW S, IsFiniteSet(S), \A x \in S : v[x] \in Int, NEW R \in SUBSET S
  PROVE  SumOver(v, S) = SumOver(v, R) + SumOver(v, S \ R)
<1> DEFINE T == {s \in SUBSET S : SumOver(v, s) # SumOver(v, s \cap R) + SumOver(v, s \ R)}
<1>0. SUFFICES T = {}
  BY S \cap R = R
<1> SUFFICES ASSUME T # {} PROVE FALSE
  OBVIOUS
<1>1. PICK m \in T : \A u \in T : u \subseteq m => u = m
  <2>1. T \in SUBSET (SUBSET S)
    OBVIOUS
  <2> HIDE DEF T
  <2> QED BY <2>1, SmallestSubset
<1>2. m \in SUBSET S /\ SumOver(v, m) # SumOver(v, m \cap R) + SumOver(v, m \ R)
  BY <1>1
<1>f. IsFiniteSet(m) /\ IsFiniteSet(m \cap R) /\ IsFiniteSet(m \ R)
  BY <1>2, FS_Subset
<1>3. m # {}
  <2>1. SUFFICES ASSUME m = {} PROVE FALSE
    OBVIOUS
  <2>2. m \cap R = {} /\ m \ R = {}
    BY <2>1
  <2> QED BY <1>2, <2>1, <2>2, SumEmpty
<1>4. PICK y : y \in m
  BY <1>3
<1> DEFINE n == m \ {y}
<1>5. SumOver(v, n) = SumOver(v, n \cap R) + SumOver(v, n \ R)
  BY <1>1, <1>2, <1>4
<1>6. SumOver(v, m) = v[y] + SumOver(v, n)
  BY <1>2, <1>f, <1>4, SumTake
<1>7. v[y] \in Int /\ SumOver(v, n \cap R) \in Int /\ SumOver(v, n \ R) \in Int
  <2>1. /\ n \cap R \in SUBSET S /\ IsFiniteSet(n \cap R)
        /\ n \ R \in SUBSET S /\ IsFiniteSet(n \ R)
    BY <1>2, FS_Subset
  <2> QED BY <1>2, <1>4, <2>1, SumType
<1>8. CASE y \in R
  <2>1. n \cap R = (m \cap R) \ {y} /\ n \ R = m \ R /\ y \in m \cap R
    BY <1>4, <1>8
  <2>2. SumOver(v, m \cap R) = v[y] + SumOver(v, n \cap R)
    BY <1>2, <1>f, <2>1, SumTake
  <2>3. v[y] + (SumOver(v, n \cap R) + SumOver(v, n \ R)) = (v[y] + SumOver(v, n \cap R)) + SumOver(v, n \ R)
    BY <1>7
  <2> QED BY <1>2, <1>5, <1>6, <2>1, <2>2, <2>3
<1>9. CASE y \notin R
  <2>1. n \ R = (m \ R) \ {y} /\ n \cap R = m \cap R /\ y \in m \ R
    BY <1>4, <1>9
  <2>2. SumOver(v, m \ R) = v[y] + SumOver(v, n \ R)
    BY <1>2, <1>f, <2>1, SumTake
  <2>3. v[y] + (SumOver(v, n \cap R) + SumOver(v, n \ R)) = SumOver(v, n \cap R) + (v[y] + SumOver(v, n \ R))
    BY <1>7
  <2> QED BY <1>2, <1>5, <1>6, <2>1, <2>2, <2>3
<1> QED BY <1>8, <1>9

\* A sum of zeros.
LEMMA SumZero ==
  ASSUME NEW v, NEW S, IsFiniteSet(S), \A x \in S : v[x] = 0
  PROVE  SumOver(v, S) = 0
<1> DEFINE T == {s \in SUBSET S : SumOver(v, s) # 0}
<1> SUFFICES ASSUME T # {} PROVE FALSE
  OBVIOUS
<1>1. PICK m \in T : \A u \in T : u \subseteq m => u = m
  <2>1. T \in SUBSET (SUBSET S)
    OBVIOUS
  <2> HIDE DEF T
  <2> QED BY <2>1, SmallestSubset
<1>2. m \in SUBSET S /\ SumOver(v, m) # 0 /\ IsFiniteSet(m)
  BY <1>1, FS_Subset
<1>3. m # {}
  BY <1>2, SumEmpty
<1>4. FirstOf(m) \in S /\ SumOver(v, m \ {FirstOf(m)}) = 0
  BY <1>1, <1>2, <1>3, FirstIn
<1> QED BY <1>2, <1>3, <1>4, SumFirst

\* Mirrored values have the mirrored sum.
LEMMA SumNegated ==
  ASSUME NEW v, NEW w, NEW S, IsFiniteSet(S), \A x \in S : v[x] \in Int /\ w[x] = -v[x]
  PROVE  SumOver(w, S) = -SumOver(v, S)
<1> DEFINE T == {s \in SUBSET S : SumOver(w, s) # -SumOver(v, s)}
<1> SUFFICES ASSUME T # {} PROVE FALSE
  OBVIOUS
<1>1. PICK m \in T : \A u \in T : u \subseteq m => u = m
  <2>1. T \in SUBSET (SUBSET S)
    OBVIOUS
  <2> HIDE DEF T
  <2> QED BY <2>1, SmallestSubset
<1>2. m \in SUBSET S /\ SumOver(w, m) # -SumOver(v, m) /\ IsFiniteSet(m)
  BY <1>1, FS_Subset
<1>3. m # {}
  BY <1>2, SumEmpty
<1>4. FirstOf(m) \in S /\ SumOver(w, m \ {FirstOf(m)}) = -SumOver(v, m \ {FirstOf(m)})
  BY <1>1, <1>2, <1>3, FirstIn
<1>5. SumOver(v, m \ {FirstOf(m)}) \in Int /\ v[FirstOf(m)] \in Int
  <2>1. m \ {FirstOf(m)} \in SUBSET S /\ IsFiniteSet(m \ {FirstOf(m)})
    BY <1>2, FS_Subset
  <2> QED BY <1>4, <2>1, SumType
<1>6. SumOver(v, m) = v[FirstOf(m)] + SumOver(v, m \ {FirstOf(m)})
  BY <1>2, <1>3, SumFirst
<1>7. SumOver(w, m) = (-v[FirstOf(m)]) + (-SumOver(v, m \ {FirstOf(m)}))
  BY <1>2, <1>3, <1>4, SumFirst
<1> HIDE DEF T
<1> QED BY <1>2, <1>5, <1>6, <1>7

\* A sum of natural numbers is one.
LEMMA SumNat ==
  ASSUME NEW v, NEW S, IsFiniteSet(S), \A x \in S : v[x] \in Nat
  PROVE  SumOver(v, S) \in Nat
<1> DEFINE T == {s \in SUBSET S : SumOver(v, s) \notin Nat}
<1> SUFFICES ASSUME T # {} PROVE FALSE
  OBVIOUS
<1>1. PICK m \in T : \A u \in T : u \subseteq m => u = m
  <2>1. T \in SUBSET (SUBSET S)
    OBVIOUS
  <2> HIDE DEF T
  <2> QED BY <2>1, SmallestSubset
<1>2. m \in SUBSET S /\ SumOver(v, m) \notin Nat /\ IsFiniteSet(m)
  BY <1>1, FS_Subset
<1>3. m # {}
  BY <1>2, SumEmpty
<1>4. FirstOf(m) \in S /\ SumOver(v, m \ {FirstOf(m)}) \in Nat
  BY <1>1, <1>2, <1>3, FirstIn
<1>5. SumOver(v, m) = v[FirstOf(m)] + SumOver(v, m \ {FirstOf(m)})
  BY <1>2, <1>3, SumFirst
<1> HIDE DEF T
<1> QED BY <1>2, <1>4, <1>5

\* It is no less than each of them.
LEMMA SumAtLeast ==
  ASSUME NEW v, NEW S, IsFiniteSet(S), \A x \in S : v[x] \in Nat, NEW x \in S
  PROVE  v[x] <= SumOver(v, S)
<1>1. IsFiniteSet(S \ {x}) /\ \A y \in S : v[y] \in Int
  BY FS_Subset
<1>2. SumOver(v, S \ {x}) \in Nat
  BY <1>1, SumNat
<1>3. SumOver(v, S) = v[x] + SumOver(v, S \ {x})
  BY <1>1, SumTake
<1> QED BY <1>2, <1>3

\* One more element.
LEMMA SumOneMore ==
  ASSUME NEW v, NEW S, IsFiniteSet(S), NEW x, x \notin S, \A y \in S \cup {x} : v[y] \in Int
  PROVE  SumOver(v, S \cup {x}) = v[x] + SumOver(v, S)
<1>1. IsFiniteSet(S \cup {x})
  BY FS_AddElement
<1>2. (S \cup {x}) \ {x} = S
  OBVIOUS
<1>3. x \in S \cup {x}
  OBVIOUS
<1>4. SumOver(v, S \cup {x}) = v[x] + SumOver(v, (S \cup {x}) \ {x})
  BY <1>1, <1>3, SumTake
<1> QED BY <1>2, <1>4

\* A sum over its elements other than zero.
LEMMA SumSupport ==
  ASSUME NEW v, NEW S, IsFiniteSet(S), \A x \in S : v[x] \in Int,
         NEW R \in SUBSET S, \A x \in S \ R : v[x] = 0
  PROVE  SumOver(v, S) = SumOver(v, R)
<1>1. SumOver(v, S) = SumOver(v, R) + SumOver(v, S \ R)
  BY SumSplit
<1>2. IsFiniteSet(S \ R) /\ IsFiniteSet(R)
  BY FS_Subset
<1>3. SumOver(v, S \ R) = 0
  BY <1>2, SumZero
<1>4. SumOver(v, R) \in Int
  BY <1>2, SumType
<1> QED BY <1>1, <1>3, <1>4

\* Sums are added value by value.
LEMMA SumPlus ==
  ASSUME NEW u, NEW v, NEW w, NEW S, IsFiniteSet(S),
         \A x \in S : u[x] \in Int /\ v[x] \in Int /\ w[x] = u[x] + v[x]
  PROVE  SumOver(w, S) = SumOver(u, S) + SumOver(v, S)
<1> DEFINE T == {s \in SUBSET S : SumOver(w, s) # SumOver(u, s) + SumOver(v, s)}
<1> SUFFICES ASSUME T # {} PROVE FALSE
  OBVIOUS
<1>1. PICK m \in T : \A l \in T : l \subseteq m => l = m
  <2>1. T \in SUBSET (SUBSET S)
    OBVIOUS
  <2> HIDE DEF T
  <2> QED BY <2>1, SmallestSubset
<1>2. m \in SUBSET S /\ SumOver(w, m) # SumOver(u, m) + SumOver(v, m) /\ IsFiniteSet(m)
  BY <1>1, FS_Subset
<1>3. m # {}
  <2> SUFFICES ASSUME m = {} PROVE FALSE
    OBVIOUS
  <2>1. SumOver(u, m) = 0 /\ SumOver(v, m) = 0 /\ SumOver(w, m) = 0
    BY SumEmpty
  <2> HIDE DEF T
  <2> QED BY <1>2, <2>1
<1> DEFINE f == FirstOf(m)
           n == m \ {f}
<1>4. f \in S /\ n \in SUBSET S /\ IsFiniteSet(n) /\ SumOver(w, n) = SumOver(u, n) + SumOver(v, n)
  BY <1>1, <1>2, <1>3, FirstIn, FS_Subset
<1>5. SumOver(u, n) \in Int /\ SumOver(v, n) \in Int
  BY <1>4, SumType
<1>6. /\ SumOver(u, m) = u[f] + SumOver(u, n)
      /\ SumOver(v, m) = v[f] + SumOver(v, n)
      /\ SumOver(w, m) = w[f] + SumOver(w, n)
  BY <1>2, <1>3, SumFirst
<1>7. u[f] \in Int /\ v[f] \in Int /\ w[f] = u[f] + v[f]
  BY <1>4
<1> HIDE DEF T, f, n
<1> QED BY <1>2, <1>4, <1>5, <1>6, <1>7

\* A sum is the sum of those of its groups.
LEMMA SumGrouped ==
  ASSUME NEW v, NEW S, IsFiniteSet(S), \A x \in S : v[x] \in Int,
         NEW K, IsFiniteSet(K), NEW g, \A x \in S : g[x] \in K
  PROVE  SumOver(v, S) = SumOver([k \in K |-> SumOver(v, {x \in S : g[x] = k})], K)
<1> DEFINE group(s) == [k \in K |-> SumOver(v, {x \in s : g[x] = k})]
           T == {s \in SUBSET S : SumOver(v, s) # SumOver(group(s), K)}
<1>t. ASSUME NEW s \in SUBSET S
      PROVE  /\ \A k \in K : group(s)[k] \in Int
             /\ SumOver(v, s) \in Int
  <2>1. IsFiniteSet(s)
    BY FS_Subset
  <2>2. ASSUME NEW k \in K PROVE SumOver(v, {x \in s : g[x] = k}) \in Int
    <3>1. IsFiniteSet({x \in s : g[x] = k})
      BY <2>1, FS_Subset
    <3> QED BY <3>1, SumType
  <2> QED BY <2>1, <2>2, SumType
<1>0. SUFFICES T = {}
  OBVIOUS
<1> SUFFICES ASSUME T # {} PROVE FALSE
  OBVIOUS
<1>1. PICK m \in T : \A u \in T : u \subseteq m => u = m
  <2>1. T \in SUBSET (SUBSET S)
    OBVIOUS
  <2> HIDE DEF T
  <2> QED BY <2>1, SmallestSubset
<1>2. m \in SUBSET S /\ SumOver(v, m) # SumOver(group(m), K) /\ IsFiniteSet(m)
  BY <1>1, FS_Subset
<1>3. m # {}
  <2>1. SUFFICES ASSUME m = {} PROVE FALSE
    OBVIOUS
  <2>2. \A k \in K : {x \in m : g[x] = k} = {}
    BY <2>1
  <2>3. \A k \in K : group(m)[k] = 0
    BY <2>2, SumEmpty
  <2> HIDE DEF group
  <2> QED BY <1>2, <2>1, <2>3, SumEmpty, SumZero
<1>4. PICK y : y \in m
  BY <1>3
<1> DEFINE n == m \ {y}
           h == g[y]
<1>5. n \in SUBSET S /\ h \in K /\ y \in S
  BY <1>2, <1>4
<1>6. SumOver(v, n) = SumOver(group(n), K)
  BY <1>1, <1>4, <1>5
<1>7. SumOver(v, m) = v[y] + SumOver(v, n)
  BY <1>2, <1>4, SumTake
<1>8. group(m)[h] = v[y] + group(n)[h]
  <2>1. {x \in n : g[x] = h} = {x \in m : g[x] = h} \ {y} /\ y \in {x \in m : g[x] = h}
    BY <1>4
  <2>2. IsFiniteSet({x \in m : g[x] = h})
    BY <1>2, FS_Subset
  <2>3. SumOver(v, {x \in m : g[x] = h}) = v[y] + SumOver(v, {x \in m : g[x] = h} \ {y})
    BY <1>2, <2>1, <2>2, SumTake
  <2> QED BY <1>5, <2>1, <2>3
<1>9. \A k \in K \ {h} : group(m)[k] = group(n)[k]
  <2>1. \A k \in K \ {h} : {x \in n : g[x] = k} = {x \in m : g[x] = k}
    BY <1>4
  <2> QED BY <2>1
<1>10. /\ \A k \in K : group(m)[k] \in Int /\ group(n)[k] \in Int
       /\ v[y] \in Int /\ SumOver(v, n) \in Int
  BY <1>2, <1>4, <1>5, <1>t
<1>11. IsFiniteSet(K \ {h})
  BY FS_Subset
<1> HIDE DEF T, group, n, h
<1>12. SumOver(group(m), K) = group(m)[h] + SumOver(group(m), K \ {h})
  BY <1>5, <1>10, SumTake
<1>13. SumOver(group(n), K) = group(n)[h] + SumOver(group(n), K \ {h})
  BY <1>5, <1>10, SumTake
<1>14. SumOver(group(m), K \ {h}) = SumOver(group(n), K \ {h})
  BY <1>9, <1>11, SumSame
<1>15. SumOver(group(n), K \ {h}) \in Int /\ group(n)[h] \in Int
  BY <1>5, <1>10, <1>11, SumType
<1> QED BY <1>2, <1>6, <1>7, <1>8, <1>10, <1>12, <1>13, <1>14, <1>15
=============================================================================
