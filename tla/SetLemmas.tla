------------------------------- MODULE SetLemmas -------------------------------
(***************************************************************************)
(* Facts about natural numbers, sums over finite sets and counters, for the *)
(* proofs of the other modules.  MapThenSumSet of the community modules is a      *)
(* recursive function on the subsets of its set: what it computes is shown *)
(* here by way of the least counterexample, as no prover does induction.   *)
(***************************************************************************)
EXTENDS Integers, FiniteSets, FiniteSetsExt, FiniteSetTheorems, WellFoundedInduction, TLAPS

(* The order of the naturals as a relation.                                *)
Less == {ss \in Nat \X Nat : ss[1] < ss[2]}

LEMMA LeastNatural ==
  ASSUME NEW S, S # {}, S \subseteq Nat
  PROVE  \E d \in S : \A e \in S : d <= e
<1>1. IsWellFoundedOn(Less, Nat)
  <2>1. OpToRel(<, Nat) = Less
    BY DEF OpToRel, Less
  <2> QED BY <2>1, NatLessThanWellFounded
<1>2. PICK d \in S : \A e \in S : ~(<<e, d>> \in Less)
  BY <1>1, WFMin
<1>3. \A e \in S : ~(e < d)
  BY <1>2 DEF Less
<1> QED BY <1>2, <1>3

(* Among finite sets, one with the fewest elements.                        *)
LEMMA SmallestSet ==
  ASSUME NEW C, C # {}, \A s \in C : IsFiniteSet(s)
  PROVE  \E s \in C : \A t \in C : Cardinality(s) <= Cardinality(t)
<1> DEFINE N == {Cardinality(s) : s \in C}
<1>1. N # {} /\ N \subseteq Nat
  BY FS_CardinalityType
<1>2. PICK d \in N : \A e \in N : d <= e
  <2> HIDE DEF N
  <2> QED BY <1>1, LeastNatural
<1> QED BY <1>2

-----------------------------------------------------------------------------
(* The sum of a function over a set.                                       *)

Total(h, S) == MapThenSumSet(LAMBDA n : h[n], S)

(* One element of a set, the same one each time.                           *)
Some(s) == CHOOSE x \in s : TRUE

(* What MapThenSumSet computes for a set, given what it does for smaller    *)
(* ones.                                                                    *)
OneTerm(f, h, S) == [s \in SUBSET S |-> IF s = {} THEN 0 ELSE h[Some(s)] + f[s \ {Some(s)}]]

LEMMA TotalIsFixpoint ==
  ASSUME NEW h, NEW S
  PROVE  Total(h, S) = (CHOOSE f : f = OneTerm(f, h, S))[S]
BY Zenon DEF Total, MapThenSumSet, MapThenFoldSet, OneTerm, Some

(* The fixpoints for two sets agree on the sets that both know.             *)
LEMMA FixpointsAgree ==
  ASSUME NEW h, NEW S, NEW T, NEW f, f = OneTerm(f, h, S), NEW g, g = OneTerm(g, h, T),
         NEW s, IsFiniteSet(s), s \subseteq S, s \subseteq T
  PROVE  f[s] = g[s]
<1> DEFINE C == {t \in SUBSET s : f[t] # g[t]}
<1> SUFFICES ASSUME C # {} PROVE FALSE
  OBVIOUS
<1>1. \A t \in C : IsFiniteSet(t)
  BY FS_Subset
<1>2. PICK t \in C : \A u \in C : Cardinality(t) <= Cardinality(u)
  <2> HIDE DEF C
  <2> QED BY <1>1, SmallestSet
<1>3. t \in SUBSET s /\ f[t] # g[t] /\ IsFiniteSet(t) /\ t \in SUBSET S /\ t \in SUBSET T
  BY <1>1, <1>2
<1>4. /\ f[t] = IF t = {} THEN 0 ELSE h[Some(t)] + f[t \ {Some(t)}]
      /\ g[t] = IF t = {} THEN 0 ELSE h[Some(t)] + g[t \ {Some(t)}]
  BY <1>3 DEF OneTerm
<1>5. CASE t = {}
  BY <1>3, <1>4, <1>5
<1>6. CASE t # {}
  <2> DEFINE u == t \ {Some(t)}
  <2>1. Some(t) \in t
    BY <1>6 DEF Some
  <2>2. Cardinality(u) = Cardinality(t) - 1 /\ Cardinality(t) \in Nat
    BY <1>3, <2>1, FS_RemoveElement, FS_CardinalityType
  <2>3. u \notin C
    <3> HIDE DEF C, u
    <3> QED BY <1>2, <2>2
  <2>4. f[u] = g[u]
    BY <1>3, <2>3
  <2> QED BY <1>3, <1>4, <1>6, <2>4
<1> QED BY <1>5, <1>6

(* There is a fixpoint for every finite set: the totals themselves.         *)
LEMMA TotalExists ==
  ASSUME NEW h, NEW S, IsFiniteSet(S)
  PROVE  \E f : f = OneTerm(f, h, S)
<1> DEFINE C == {T \in SUBSET S : ~\E f : f = OneTerm(f, h, T)}
<1> SUFFICES ASSUME C # {} PROVE FALSE
  OBVIOUS
<1>1. \A T \in C : IsFiniteSet(T)
  BY FS_Subset
<1>2. PICK T \in C : \A U \in C : Cardinality(T) <= Cardinality(U)
  <2> HIDE DEF C
  <2> QED BY <1>1, SmallestSet
<1>3. T \in SUBSET S /\ IsFiniteSet(T) /\ ~\E f : f = OneTerm(f, h, T)
  BY <1>1, <1>2
<1>4. ASSUME NEW U \in SUBSET T, U # T PROVE \E f : f = OneTerm(f, h, U)
  <2>1. Cardinality(U) < Cardinality(T)
    <3>1. Cardinality(U) \in Nat /\ Cardinality(T) \in Nat /\ Cardinality(U) <= Cardinality(T)
          /\ Cardinality(U) # Cardinality(T)
      BY <1>3, <1>4, FS_Subset, FS_CardinalityType
    <3> QED BY <3>1
  <2>2. U \notin C
    <3>1. Cardinality(U) \in Nat /\ Cardinality(T) \in Nat
      BY <1>3, FS_Subset, FS_CardinalityType
    <3> HIDE DEF C
    <3> QED BY <1>2, <2>1, <3>1
  <2> QED BY <1>3, <2>2
<1> DEFINE fix(U) == CHOOSE f : f = OneTerm(f, h, U)
           part == [U \in SUBSET T |-> IF U = T THEN 0 ELSE fix(U)[U]]
           whole == OneTerm(part, h, T)
<1>5. ASSUME NEW U \in SUBSET T, U # T PROVE fix(U) = OneTerm(fix(U), h, U)
  BY <1>4, <1>5
<1> HIDE DEF fix
<1>6. ASSUME NEW U \in SUBSET T, U # T, U # {}
      PROVE  part[U] = h[Some(U)] + part[U \ {Some(U)}]
  <2> DEFINE V == U \ {Some(U)}
  <2>1. V \in SUBSET U /\ V \in SUBSET T /\ V # T /\ IsFiniteSet(V)
    <3>1. Some(U) \in U
      BY <1>6 DEF Some
    <3>2. V \in SUBSET T /\ V # T /\ V \in SUBSET U
      BY <3>1
    <3> QED BY <1>3, <3>2, FS_Subset
  <2>2. part[U] = fix(U)[U] /\ part[V] = fix(V)[V]
    BY <1>6, <2>1
  <2>3. fix(U)[U] = h[Some(U)] + fix(U)[V]
    <3>1. fix(U)[U] = OneTerm(fix(U), h, U)[U]
      BY <1>5, <1>6
    <3> QED BY <1>6, <3>1 DEF OneTerm
  <2>4. fix(U)[V] = fix(V)[V]
    BY <1>5, <1>6, <2>1, FixpointsAgree
  <2> QED BY <2>2, <2>3, <2>4
<1>7. {} # T => part[{}] = 0
  <2> SUFFICES ASSUME {} # T PROVE part[{}] = 0
    OBVIOUS
  <2>1. part[{}] = fix({})[{}]
    OBVIOUS
  <2>2. fix({})[{}] = OneTerm(fix({}), h, {})[{}]
    BY <1>5
  <2> QED BY <2>1, <2>2 DEF OneTerm
<1>8. \A U \in SUBSET T : U # T => whole[U] = part[U]
  <2> SUFFICES ASSUME NEW U \in SUBSET T, U # T PROVE whole[U] = part[U]
    OBVIOUS
  <2> HIDE DEF part
  <2>1. whole[U] = IF U = {} THEN 0 ELSE h[Some(U)] + part[U \ {Some(U)}]
    BY DEF OneTerm
  <2> QED BY <1>6, <1>7, <2>1
<1>9. whole = OneTerm(whole, h, T)
  <2> HIDE DEF part
  <2>1. ASSUME NEW U \in SUBSET T, U # {} PROVE part[U \ {Some(U)}] = whole[U \ {Some(U)}]
    <3>1. Some(U) \in U
      BY <2>1 DEF Some
    <3>2. U \ {Some(U)} \in SUBSET T /\ U \ {Some(U)} # T
      BY <3>1
    <3> HIDE DEF whole
    <3> QED BY <1>8, <3>2
  <2>2. \A U \in SUBSET T : whole[U] = OneTerm(whole, h, T)[U]
    <3> TAKE U \in SUBSET T
    <3>1. whole[U] = IF U = {} THEN 0 ELSE h[Some(U)] + part[U \ {Some(U)}]
      BY DEF OneTerm
    <3>2. OneTerm(whole, h, T)[U] = IF U = {} THEN 0 ELSE h[Some(U)] + whole[U \ {Some(U)}]
      <4> HIDE DEF whole
      <4> QED BY DEF OneTerm
    <3> HIDE DEF whole
    <3> QED BY <2>1, <3>1, <3>2
  <2>3. whole = [U \in SUBSET T |-> whole[U]]
    BY DEF OneTerm
  <2>4. OneTerm(whole, h, T) = [U \in SUBSET T |-> OneTerm(whole, h, T)[U]]
    <3> HIDE DEF whole
    <3> QED BY DEF OneTerm
  <2> HIDE DEF whole
  <2> QED BY <2>2, <2>3, <2>4
<1> QED BY <1>3, <1>9

LEMMA TotalEmpty == ASSUME NEW h PROVE Total(h, {}) = 0
<1> DEFINE f == CHOOSE g : g = OneTerm(g, h, {})
<1>1. f = OneTerm(f, h, {})
  BY TotalExists, FS_EmptySet
<1>2. Total(h, {}) = f[{}]
  BY TotalIsFixpoint
<1> HIDE DEF f
<1>3. f[{}] = OneTerm(f, h, {})[{}]
  BY <1>1
<1> QED BY <1>2, <1>3 DEF OneTerm

LEMMA TotalTerm ==
  ASSUME NEW h, NEW S, IsFiniteSet(S), S # {}
  PROVE  Some(S) \in S /\ Total(h, S) = h[Some(S)] + Total(h, S \ {Some(S)})
<1> DEFINE R == S \ {Some(S)}
           f == CHOOSE e : e = OneTerm(e, h, S)
           g == CHOOSE e : e = OneTerm(e, h, R)
<1>1. IsFiniteSet(R) /\ R \subseteq S /\ Some(S) \in S
  BY FS_Subset DEF Some
<1>2. f = OneTerm(f, h, S)
  BY TotalExists
<1>3. g = OneTerm(g, h, R)
  <2> HIDE DEF R
  <2> QED BY <1>1, TotalExists
<1>4. Total(h, S) = f[S] /\ Total(h, R) = g[R]
  BY TotalIsFixpoint
<1> HIDE DEF f, g
<1>5. f[S] = h[Some(S)] + f[R]
  <2>1. f[S] = OneTerm(f, h, S)[S]
    BY <1>2
  <2> QED BY <2>1 DEF OneTerm
<1>6. f[R] = g[R]
  <2> HIDE DEF R
  <2> QED BY <1>1, <1>2, <1>3, FixpointsAgree
<1> QED BY <1>1, <1>4, <1>5, <1>6

LEMMA TotalInteger ==
  ASSUME NEW h, NEW S, IsFiniteSet(S), \A x \in S : h[x] \in Int
  PROVE  Total(h, S) \in Int
<1> DEFINE C == {T \in SUBSET S : Total(h, T) \notin Int}
<1> SUFFICES ASSUME C # {} PROVE FALSE
  OBVIOUS
<1>1. \A T \in C : IsFiniteSet(T)
  BY FS_Subset
<1>2. PICK T \in C : \A U \in C : Cardinality(T) <= Cardinality(U)
  <2> HIDE DEF C
  <2> QED BY <1>1, SmallestSet
<1>3. T # {} /\ IsFiniteSet(T) /\ T \in SUBSET S /\ Total(h, T) \notin Int
  BY <1>1, <1>2, TotalEmpty
<1> DEFINE U == T \ {Some(T)}
<1>4. Some(T) \in T /\ Total(h, T) = h[Some(T)] + Total(h, U)
  BY <1>3, TotalTerm
<1>5. Cardinality(U) = Cardinality(T) - 1 /\ Cardinality(T) \in Nat
  BY <1>3, <1>4, FS_RemoveElement, FS_CardinalityType
<1>6. U \notin C
  <2> HIDE DEF C, U
  <2> QED BY <1>2, <1>5
<1>7. Total(h, U) \in Int
  BY <1>3, <1>6
<1> HIDE DEF U
<1> QED BY <1>3, <1>4, <1>7

(* Whatever the order in which it is summed up, a total is that of a part   *)
(* and the element left out.                                                *)
LEMMA TotalRemove ==
  ASSUME NEW h, NEW S, IsFiniteSet(S), \A x \in S : h[x] \in Int, NEW x \in S
  PROVE  Total(h, S) = h[x] + Total(h, S \ {x})
<1> DEFINE Splits(T) == \A y \in T : Total(h, T) = h[y] + Total(h, T \ {y})
           C == {T \in SUBSET S : ~Splits(T)}
<1>1. \A T \in SUBSET S : IsFiniteSet(T) /\ Total(h, T) \in Int /\ \A y \in T : h[y] \in Int
  <2> TAKE T \in SUBSET S
  <2>1. IsFiniteSet(T) /\ \A y \in T : h[y] \in Int
    BY FS_Subset
  <2> QED BY <2>1, TotalInteger
<1>2. C = {}
  <2> SUFFICES ASSUME C # {} PROVE FALSE
    OBVIOUS
  <2>1. \A T \in C : IsFiniteSet(T)
    BY <1>1
  <2>2. PICK T \in C : \A U \in C : Cardinality(T) <= Cardinality(U)
    <3> HIDE DEF C
    <3> QED BY <2>1, SmallestSet
  <2>3. T \in SUBSET S /\ IsFiniteSet(T)
    BY <2>1, <2>2
  <2>4. PICK y \in T : Total(h, T) # h[y] + Total(h, T \ {y})
    BY <2>2
  <2> DEFINE z == Some(T)
  <2>5. z \in T /\ Total(h, T) = h[z] + Total(h, T \ {z})
    BY <2>3, <2>4, TotalTerm
  <2>6. y # z
    BY <2>4, <2>5
  <2> HIDE DEF z
  <2>7. ASSUME NEW w \in T PROVE Splits(T \ {w})
    <3> DEFINE U == T \ {w}
    <3>1. Cardinality(U) = Cardinality(T) - 1 /\ Cardinality(T) \in Nat
      BY <2>3, FS_RemoveElement, FS_CardinalityType
    <3>2. U \notin C
      <4> HIDE DEF C, U
      <4> QED BY <2>2, <3>1
    <3>3. U \in SUBSET S
      BY <2>3
    <3> HIDE DEF Splits, U
    <3>4. Splits(U)
      BY <3>2, <3>3
    <3> QED BY <3>4 DEF U
  <2>8. Total(h, T \ {z}) = h[y] + Total(h, (T \ {z}) \ {y})
    BY <2>5, <2>6, <2>7
  <2>9. Total(h, T \ {y}) = h[z] + Total(h, (T \ {y}) \ {z})
    BY <2>5, <2>6, <2>7
  <2>10. (T \ {z}) \ {y} = (T \ {y}) \ {z}
    OBVIOUS
  <2> DEFINE r == Total(h, (T \ {y}) \ {z})
  <2>11. r \in Int /\ h[y] \in Int /\ h[z] \in Int
    BY <1>1, <2>3, <2>5
  <2> HIDE DEF r
  <2>12. Total(h, T \ {z}) = h[y] + r /\ Total(h, T \ {y}) = h[z] + r
    BY <2>8, <2>9, <2>10 DEF r
  <2> QED BY <2>4, <2>5, <2>11, <2>12
<1>3. Splits(S)
  <2> HIDE DEF Splits
  <2> QED BY <1>2
<1> QED BY <1>3

LEMMA TotalAdd ==
  ASSUME NEW h, NEW S, IsFiniteSet(S), \A y \in S : h[y] \in Int, NEW x, x \notin S, h[x] \in Int
  PROVE  Total(h, S \cup {x}) = Total(h, S) + h[x]
<1> DEFINE T == S \cup {x}
<1>1. IsFiniteSet(T) /\ x \in T /\ T \ {x} = S /\ \A y \in T : h[y] \in Int
  BY FS_AddElement
<1> HIDE DEF T
<1>2. Total(h, T) = h[x] + Total(h, T \ {x})
  BY <1>1, TotalRemove
<1>3. Total(h, S) \in Int
  BY TotalInteger
<1>4. h[x] + Total(h, S) = Total(h, S) + h[x]
  BY <1>3
<1>5. Total(h, T) = Total(h, S) + h[x]
  BY <1>1, <1>2, <1>4
<1> QED BY <1>5 DEF T

(* A function with the same terms has the same total.                       *)
LEMMA TotalSame ==
  ASSUME NEW h, NEW g, NEW S, IsFiniteSet(S), \A x \in S : h[x] = g[x]
  PROVE  Total(h, S) = Total(g, S)
<1> DEFINE C == {T \in SUBSET S : Total(h, T) # Total(g, T)}
<1> SUFFICES ASSUME C # {} PROVE FALSE
  OBVIOUS
<1>1. \A T \in C : IsFiniteSet(T)
  BY FS_Subset
<1>2. PICK T \in C : \A U \in C : Cardinality(T) <= Cardinality(U)
  <2> HIDE DEF C
  <2> QED BY <1>1, SmallestSet
<1>3. T # {} /\ IsFiniteSet(T) /\ T \in SUBSET S /\ Total(h, T) # Total(g, T)
  BY <1>1, <1>2, TotalEmpty
<1> DEFINE U == T \ {Some(T)}
<1>4. /\ Some(T) \in T /\ Total(h, T) = h[Some(T)] + Total(h, U)
      /\ Total(g, T) = g[Some(T)] + Total(g, U)
  BY <1>3, TotalTerm
<1>5. Cardinality(U) = Cardinality(T) - 1 /\ Cardinality(T) \in Nat
  BY <1>3, <1>4, FS_RemoveElement, FS_CardinalityType
<1>6. U \notin C
  <2> HIDE DEF C, U
  <2> QED BY <1>2, <1>5
<1>7. Total(h, U) = Total(g, U) /\ h[Some(T)] = g[Some(T)]
  BY <1>3, <1>4, <1>6
<1> QED BY <1>3, <1>4, <1>7

(* Totals are ordered as their terms are.                                   *)
LEMMA TotalOrdered ==
  ASSUME NEW h, NEW g, NEW S, IsFiniteSet(S), \A x \in S : h[x] \in Int /\ g[x] \in Int /\ h[x] <= g[x]
  PROVE  Total(h, S) <= Total(g, S)
<1> DEFINE C == {T \in SUBSET S : ~(Total(h, T) <= Total(g, T))}
<1> SUFFICES ASSUME C # {} PROVE FALSE
  OBVIOUS
<1>1. \A T \in C : IsFiniteSet(T)
  BY FS_Subset
<1>2. PICK T \in C : \A U \in C : Cardinality(T) <= Cardinality(U)
  <2> HIDE DEF C
  <2> QED BY <1>1, SmallestSet
<1>3. T # {} /\ IsFiniteSet(T) /\ T \in SUBSET S /\ ~(Total(h, T) <= Total(g, T))
  BY <1>1, <1>2, TotalEmpty
<1> DEFINE U == T \ {Some(T)}
<1>4. /\ Some(T) \in T /\ Total(h, T) = h[Some(T)] + Total(h, U)
      /\ Total(g, T) = g[Some(T)] + Total(g, U)
  BY <1>3, TotalTerm
<1>5. Cardinality(U) = Cardinality(T) - 1 /\ Cardinality(T) \in Nat
  BY <1>3, <1>4, FS_RemoveElement, FS_CardinalityType
<1>6. U \notin C
  <2> HIDE DEF C, U
  <2> QED BY <1>2, <1>5
<1>7. IsFiniteSet(U) /\ U \in SUBSET S
  BY <1>3, FS_RemoveElement
<1>8. Total(h, U) <= Total(g, U)
  BY <1>6, <1>7
<1>9. Total(h, U) \in Int /\ Total(g, U) \in Int
  <2> HIDE DEF U
  <2> QED BY <1>7, TotalInteger
<1> HIDE DEF U
<1> QED BY <1>3, <1>4, <1>8, <1>9

(* The parts of a set add up to the set.                                    *)
LEMMA TotalOfParts ==
  ASSUME NEW A, IsFiniteSet(A), NEW S, IsFiniteSet(S), NEW m, NEW h,
         \A k \in S : h[k] = Cardinality({a \in A : m[a] = k})
  PROVE  Total(h, S) = Cardinality({a \in A : m[a] \in S})
<1> DEFINE In(T) == {a \in A : m[a] \in T}
           C == {T \in SUBSET S : Total(h, T) # Cardinality(In(T))}
<1> SUFFICES ASSUME C # {} PROVE FALSE
  OBVIOUS
<1>1. \A T \in C : IsFiniteSet(T)
  BY FS_Subset
<1>2. PICK T \in C : \A U \in C : Cardinality(T) <= Cardinality(U)
  <2> HIDE DEF C
  <2> QED BY <1>1, SmallestSet
<1>3. T \in SUBSET S /\ IsFiniteSet(T) /\ Total(h, T) # Cardinality(In(T))
  BY <1>1, <1>2
<1>4. T # {}
  <2>1. In({}) = {}
    OBVIOUS
  <2> HIDE DEF In
  <2> QED BY <1>3, <2>1, TotalEmpty, FS_EmptySet
<1> DEFINE k == Some(T)
           U == T \ {k}
           E == {a \in A : m[a] = k}
<1>5. k \in T /\ Total(h, T) = h[k] + Total(h, U)
  BY <1>3, <1>4, TotalTerm
<1>6. Cardinality(U) = Cardinality(T) - 1 /\ Cardinality(T) \in Nat
  BY <1>3, <1>5, FS_RemoveElement, FS_CardinalityType
<1>7. U \notin C
  <2> HIDE DEF C, U
  <2> QED BY <1>2, <1>6
<1>8. Total(h, U) = Cardinality(In(U))
  BY <1>3, <1>7
<1>9. h[k] = Cardinality(E)
  BY <1>3, <1>5
<1>10. In(T) = E \cup In(U) /\ E \cap In(U) = {} /\ E \subseteq A /\ In(U) \subseteq A
  BY <1>5
<1> HIDE DEF E, U, In, k
<1>11. Cardinality(E \cup In(U)) = Cardinality(E) + Cardinality(In(U))
  <2>1. IsFiniteSet(E) /\ IsFiniteSet(In(U))
    BY <1>10, FS_Subset
  <2>2. /\ Cardinality(E \cup In(U)) = Cardinality(E) + Cardinality(In(U)) - Cardinality(E \cap In(U))
        /\ Cardinality(E) \in Nat /\ Cardinality(In(U)) \in Nat
    BY <2>1, FS_Union, FS_CardinalityType
  <2> QED BY <1>10, <2>2, FS_EmptySet
<1> QED BY <1>3, <1>5, <1>8, <1>9, <1>10, <1>11

(* The same with names for the parts.                                       *)
Part(A, m, k) == {a \in A : m[a] = k}
Parts(A, m, S) == {a \in A : m[a] \in S}

LEMMA TotalOfNamedParts ==
  ASSUME NEW A, IsFiniteSet(A), NEW S, IsFiniteSet(S), NEW m, NEW h,
         \A k \in S : h[k] = Cardinality(Part(A, m, k))
  PROVE  Total(h, S) = Cardinality(Parts(A, m, S))
<1>1. \A k \in S : h[k] = Cardinality({a \in A : m[a] = k})
  BY DEF Part
<1>2. Total(h, S) = Cardinality({a \in A : m[a] \in S})
  BY <1>1, TotalOfParts
<1> QED BY <1>2 DEF Parts

(* The total of sums is the sum of the totals.                              *)
LEMMA TotalSum ==
  ASSUME NEW h, NEW f, NEW g, NEW S, IsFiniteSet(S),
         \A x \in S : f[x] \in Int /\ g[x] \in Int /\ h[x] = f[x] + g[x]
  PROVE  Total(h, S) = Total(f, S) + Total(g, S)
<1> DEFINE C == {T \in SUBSET S : Total(h, T) # Total(f, T) + Total(g, T)}
<1> SUFFICES ASSUME C # {} PROVE FALSE
  OBVIOUS
<1>1. \A T \in C : IsFiniteSet(T)
  BY FS_Subset
<1>2. PICK T \in C : \A U \in C : Cardinality(T) <= Cardinality(U)
  <2> HIDE DEF C
  <2> QED BY <1>1, SmallestSet
<1>3. T # {} /\ IsFiniteSet(T) /\ T \in SUBSET S /\ Total(h, T) # Total(f, T) + Total(g, T)
  <2>1. T \in SUBSET S /\ IsFiniteSet(T) /\ Total(h, T) # Total(f, T) + Total(g, T)
    BY <1>1, <1>2
  <2>2. Total(h, {}) = 0 /\ Total(f, {}) = 0 /\ Total(g, {}) = 0
    BY TotalEmpty
  <2>3. ASSUME T = {} PROVE Total(h, T) = 0 /\ Total(f, T) = 0 /\ Total(g, T) = 0
    BY <2>2, <2>3, Zenon
  <2> QED BY <2>1, <2>3
<1> DEFINE x == Some(T)
           U == T \ {x}
<1>4. /\ x \in T /\ Total(h, T) = h[x] + Total(h, U)
      /\ Total(f, T) = f[x] + Total(f, U) /\ Total(g, T) = g[x] + Total(g, U)
  BY <1>3, TotalTerm
<1>5. Cardinality(U) = Cardinality(T) - 1 /\ Cardinality(T) \in Nat
  BY <1>3, <1>4, FS_RemoveElement, FS_CardinalityType
<1>6. U \notin C
  <2> HIDE DEF C, U
  <2> QED BY <1>2, <1>5
<1>7. IsFiniteSet(U) /\ U \in SUBSET S
  BY <1>3, FS_RemoveElement
<1>8. Total(h, U) = Total(f, U) + Total(g, U)
  BY <1>6, <1>7
<1>9. Total(f, U) \in Int /\ Total(g, U) \in Int
  <2> HIDE DEF U
  <2> QED BY <1>7, TotalInteger
<1>10. f[x] \in Int /\ g[x] \in Int /\ h[x] = f[x] + g[x]
  BY <1>3, <1>4
<1> HIDE DEF U, x
<1> QED BY <1>3, <1>4, <1>8, <1>9, <1>10

(* The total does not depend on what the terms are called.                  *)
LEMMA TotalRenamed ==
  ASSUME NEW h, NEW g, NEW m, NEW S, IsFiniteSet(S), \A x \in S : g[m[x]] = h[x] /\ h[x] \in Int,
         \A x, y \in S : m[x] = m[y] => x = y
  PROVE  Total(g, {m[x] : x \in S}) = Total(h, S)
<1> DEFINE Image(T) == {m[x] : x \in T}
           C == {T \in SUBSET S : Total(g, Image(T)) # Total(h, T)}
<1> SUFFICES ASSUME C # {} PROVE FALSE
  OBVIOUS
<1>1. \A T \in C : IsFiniteSet(T)
  BY FS_Subset
<1>2. PICK T \in C : \A U \in C : Cardinality(T) <= Cardinality(U)
  <2> HIDE DEF C
  <2> QED BY <1>1, SmallestSet
<1>3. T \in SUBSET S /\ IsFiniteSet(T) /\ Total(g, Image(T)) # Total(h, T)
  BY <1>1, <1>2
<1>4. T # {}
  <2>1. Image({}) = {}
    OBVIOUS
  <2> HIDE DEF Image
  <2> QED BY <1>3, <2>1, TotalEmpty
<1> DEFINE x == Some(T)
           U == T \ {x}
<1>5. x \in T /\ Total(h, T) = h[x] + Total(h, U)
  BY <1>3, <1>4, TotalTerm
<1>6. Cardinality(U) = Cardinality(T) - 1 /\ Cardinality(T) \in Nat
  BY <1>3, <1>5, FS_RemoveElement, FS_CardinalityType
<1>7. U \notin C
  <2> HIDE DEF C, U
  <2> QED BY <1>2, <1>6
<1>8. Total(g, Image(U)) = Total(h, U)
  BY <1>3, <1>7
<1>9. Image(T) \ {m[x]} = Image(U) /\ m[x] \in Image(T) /\ g[m[x]] = h[x]
  BY <1>3, <1>5
<1>10. IsFiniteSet(Image(T)) /\ \A y \in Image(T) : g[y] \in Int
  <2>1. [y \in T |-> m[y]] \in Surjection(T, Image(T))
    BY DEF Surjection
  <2>2. IsFiniteSet(Image(T))
    BY <1>3, <2>1, FS_Surjection
  <2> QED BY <1>3, <2>2
<1> HIDE DEF U, x, Image
<1>11. Total(g, Image(T)) = g[m[x]] + Total(g, Image(T) \ {m[x]})
  BY <1>9, <1>10, TotalRemove
<1> QED BY <1>3, <1>5, <1>8, <1>9, <1>11
-----------------------------------------------------------------------------
(* Counters: functions to naturals.  What is not in the domain counts zero. *)
IsCounter(b) == \A x \in DOMAIN b : b[x] \in Nat
IsTally(b) == IsCounter(b) /\ IsFiniteSet(DOMAIN b)

Copies0(b, x) == IF x \in DOMAIN b THEN b[x] ELSE 0

(* One more of x.                                                           *)
Plus(b, x) == [y \in DOMAIN b \cup {x} |-> Copies0(b, y) + (IF y = x THEN 1 ELSE 0)]
OneMoreOf(b, c, x) == \A y : Copies0(c, y) = Copies0(b, y) + (IF y = x THEN 1 ELSE 0)

LEMMA Copies0InNat == ASSUME NEW b, IsCounter(b), NEW x PROVE Copies0(b, x) \in Nat
BY DEF IsCounter, Copies0

(* It is a function, and mentions only what it has.                          *)
IsMap(b) == b = [x \in DOMAIN b |-> b[x]]
Positive(b) == \A x \in DOMAIN b : b[x] # 0

LEMMA PlusCopies ==
  ASSUME NEW b, IsCounter(b), NEW x, NEW c, c = Plus(b, x)
  PROVE  /\ IsCounter(c) /\ DOMAIN c = DOMAIN b \cup {x} /\ IsMap(c)
         /\ OneMoreOf(b, c, x)
         /\ Positive(b) => Positive(c)
<1>1. DOMAIN c = DOMAIN b \cup {x} /\ IsMap(c)
  BY DEF Plus, IsMap
<1>2. \A y \in DOMAIN c : c[y] = Copies0(b, y) + (IF y = x THEN 1 ELSE 0)
  BY DEF Plus
<1>3. \A y : Copies0(b, y) \in Nat
  BY Copies0InNat
<1>4. IsCounter(c)
  BY <1>2, <1>3 DEF IsCounter
<1>5. ASSUME NEW y PROVE Copies0(c, y) = Copies0(b, y) + (IF y = x THEN 1 ELSE 0)
  BY <1>1, <1>2 DEF Copies0
<1>6. ASSUME Positive(b), NEW y \in DOMAIN c PROVE c[y] # 0
  <2>1. c[y] = Copies0(b, y) + (IF y = x THEN 1 ELSE 0) /\ Copies0(b, y) \in Nat
    BY <1>2, <1>3
  <2>2. CASE y = x
    BY <2>1, <2>2
  <2>3. CASE y # x
    <3>1. y \in DOMAIN b
      BY <1>1, <2>3
    <3>2. Copies0(b, y) # 0
      BY <1>6, <3>1 DEF Copies0, Positive
    <3> QED BY <2>1, <2>3, <3>2
  <2> QED BY <2>2, <2>3
<1> QED BY <1>1, <1>4, <1>5, <1>6 DEF OneMoreOf, Positive

LEMMA PlusTotal ==
  ASSUME NEW b, IsTally(b), NEW x, NEW c, c = Plus(b, x)
  PROVE  IsTally(c) /\ Total(c, DOMAIN c) = Total(b, DOMAIN b) + 1
<1> DEFINE D == DOMAIN b
<1>1. IsCounter(b) /\ IsCounter(c) /\ DOMAIN c = D \cup {x} /\ OneMoreOf(b, c, x)
  BY PlusCopies DEF IsTally
<1>2. IsFiniteSet(D) /\ IsFiniteSet(D \cup {x}) /\ IsFiniteSet(D \ {x})
  <2>1. IsFiniteSet(D)
    BY DEF IsTally
  <2> QED BY <2>1, FS_AddElement, FS_RemoveElement
<1>3. /\ \A y \in D : b[y] \in Int
      /\ \A y \in D \cup {x} : c[y] \in Int
      /\ \A y \in D : c[y] = b[y] + (IF y = x THEN 1 ELSE 0)
      /\ x \notin D => c[x] = 1
  BY <1>1 DEF OneMoreOf, Copies0, IsCounter
<1> HIDE DEF D
<1>4. CASE x \in D
  <2>1. D \cup {x} = D
    BY <1>4
  <2>2. Total(c, D) = c[x] + Total(c, D \ {x})
    BY <1>2, <1>3, <1>4, TotalRemove
  <2>3. Total(b, D) = b[x] + Total(b, D \ {x})
    BY <1>2, <1>3, <1>4, TotalRemove
  <2>4. Total(c, D \ {x}) = Total(b, D \ {x})
    BY <1>2, <1>3, TotalSame
  <2>5. Total(b, D \ {x}) \in Int
    BY <1>2, <1>3, TotalInteger
  <2>6. Total(c, D) = Total(b, D) + 1
    BY <1>3, <1>4, <2>2, <2>3, <2>4, <2>5
  <2> QED BY <1>1, <1>2, <2>1, <2>6 DEF D, IsTally
<1>5. CASE x \notin D
  <2>1. Total(c, D \cup {x}) = Total(c, D) + c[x]
    BY <1>2, <1>3, <1>5, TotalAdd
  <2>2. Total(c, D) = Total(b, D)
    BY <1>2, <1>3, <1>5, TotalSame
  <2>3. Total(c, D \cup {x}) = Total(b, D) + 1
    BY <1>3, <1>5, <2>1, <2>2
  <2> QED BY <1>1, <1>2, <2>3 DEF D, IsTally
<1> QED BY <1>4, <1>5

(* A sum of zeros.                                                          *)
LEMMA TotalZero ==
  ASSUME NEW h, NEW S, IsFiniteSet(S), \A x \in S : h[x] = 0
  PROVE  Total(h, S) = 0
<1> DEFINE t == Total(h, S)
<1>1. \A x \in S : h[x] \in Int /\ h[x] = h[x] + h[x]
  OBVIOUS
<1>2. t = t + t
  BY <1>1, TotalSum
<1>3. t \in Int
  BY <1>1, TotalInteger
<1> HIDE DEF t
<1>4. t = 0
  BY <1>2, <1>3
<1> QED BY <1>4 DEF t

(* One term grows by one.                                                   *)
LEMMA TotalGrows ==
  ASSUME NEW h, NEW g, NEW S, IsFiniteSet(S), NEW x \in S,
         \A y \in S : h[y] \in Int /\ g[y] = h[y] + (IF y = x THEN 1 ELSE 0)
  PROVE  Total(g, S) = Total(h, S) + 1
<1>1. \A y \in S : h[y] \in Int /\ g[y] \in Int
  OBVIOUS
<1>2. IsFiniteSet(S \ {x})
  BY FS_RemoveElement
<1>3. Total(h, S) = h[x] + Total(h, S \ {x}) /\ Total(g, S) = g[x] + Total(g, S \ {x})
  BY <1>1, TotalRemove
<1>4. Total(g, S \ {x}) = Total(h, S \ {x})
  <2>1. \A y \in S \ {x} : g[y] = h[y]
    OBVIOUS
  <2> QED BY <1>2, <2>1, TotalSame
<1>5. Total(h, S \ {x}) \in Int
  <2>1. \A y \in S \ {x} : h[y] \in Int
    OBVIOUS
  <2> QED BY <1>2, <2>1, TotalInteger
<1>6. g[x] = h[x] + 1 /\ h[x] \in Int
  OBVIOUS
<1> QED BY <1>3, <1>4, <1>5, <1>6
=============================================================================
