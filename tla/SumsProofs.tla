----------------------------- MODULE SumsProofs -----------------------------
(***************************************************************************)
(* What a sum over a finite set does: its type, taking an element out,     *)
(* adding up disjoint sets or classes, linearity. A total is unfolded      *)
(* along the recursive function behind it (MapThenFoldSet), and what holds *)
(* of every finite set is shown on a smallest counterexample.              *)
(***************************************************************************)
EXTENDS Sums, FiniteSetTheorems, WellFoundedInduction, TLAPS

\* g sums f over every subset of S.
Pick(s) == CHOOSE x \in s : TRUE
Sums(f, S, g) ==
  g = [s \in SUBSET S |-> IF s = {} THEN 0 ELSE f[Pick(s)] + g[s \ {Pick(s)}]]

LEMMA TotalDef ==
  ASSUME NEW f, NEW S
  PROVE  Total(f, S) = (CHOOSE g : Sums(f, S, g))[S]
BY DEF Total, MapThenSumSet, MapThenFoldSet, Sums, Pick

LEMMA PickIn == ASSUME NEW s, s # {} PROVE Pick(s) \in s
BY DEF Pick

LEMMA SumsAt ==
  ASSUME NEW f, NEW S, NEW g, Sums(f, S, g), NEW s \in SUBSET S
  PROVE  /\ s = {} => g[s] = 0
         /\ s # {} => g[s] = f[Pick(s)] + g[s \ {Pick(s)}]
<1> DEFINE G(t) == IF t = {} THEN 0 ELSE f[Pick(t)] + g[t \ {Pick(t)}]
<1>1. g = [t \in SUBSET S |-> G(t)]
  BY DEF Sums
<1> HIDE DEF G
<1>2. g[s] = G(s)
  BY <1>1
<1> QED BY <1>2 DEF G

LEMMA Smallest ==
  ASSUME NEW S, IsFiniteSet(S), NEW C \in SUBSET SUBSET S, C # {}
  PROVE  \E s \in C : \A t \in SUBSET s : t # s => t \notin C
<1>1. SUBSET S = FiniteSubsetsOf(S)
  BY FS_FiniteSubsetsOfFinite
<1>2. IsWellFoundedOn(StrictSubsetOrdering(S), SUBSET S)
  BY <1>1, FS_StrictSubsetOrderingWellFounded
<1>3. PICK s \in C : \A t \in C : <<t, s>> \notin StrictSubsetOrdering(S)
  BY <1>2, WFMin
<1>4. ASSUME NEW t \in SUBSET s, t # s PROVE t \notin C
  BY <1>3, <1>4 DEF StrictSubsetOrdering
<1> QED BY <1>4

\* Of any numbers one is least.
LEMMA LeastOf ==
  ASSUME NEW T, T \subseteq Nat, T # {}
  PROVE  \E m \in T : \A k \in T : m <= k
<1>1. PICK m \in T : \A k \in T : <<k, m>> \notin OpToRel(<, Nat)
  BY NatLessThanWellFounded, WFMin
<1>2. \A k \in T : k \in Nat /\ m \in Nat /\ ~(k < m)
  BY <1>1 DEF OpToRel
<1> QED BY <1>2

LEMMA SumsAgree ==
  ASSUME NEW f, NEW S, IsFiniteSet(S), NEW T, NEW g, Sums(f, S, g), NEW h, Sums(f, T, h),
         NEW U, U \subseteq S, U \subseteq T
  PROVE  g[U] = h[U]
<1> DEFINE C == {s \in SUBSET U : g[s] # h[s]}
<1>1. SUFFICES ASSUME C # {} PROVE FALSE
  OBVIOUS
<1>2. IsFiniteSet(U)
  BY FS_Subset
<1>3. PICK s \in C : \A t \in SUBSET s : t # s => t \notin C
  <2>1. C \in SUBSET SUBSET U
    OBVIOUS
  <2> HIDE DEF C
  <2> QED BY <1>1, <1>2, <2>1, Smallest
<1>4. s \in SUBSET S /\ s \in SUBSET T
  OBVIOUS
<1>5. s # {}
  BY <1>4, SumsAt
<1>6. Pick(s) \in s
  BY <1>5, PickIn
<1>7. g[s \ {Pick(s)}] = h[s \ {Pick(s)}]
  BY <1>3, <1>6
<1>8. g[s] = f[Pick(s)] + g[s \ {Pick(s)}] /\ h[s] = f[Pick(s)] + h[s \ {Pick(s)}]
  BY <1>4, <1>5, SumsAt
<1> QED BY <1>7, <1>8

LEMMA SumsExist ==
  ASSUME NEW f, NEW S, IsFiniteSet(S)
  PROVE  \E g : Sums(f, S, g)
<1> DEFINE C == {s \in SUBSET S : ~\E g : Sums(f, s, g)}
<1>1. SUFFICES ASSUME C # {} PROVE FALSE
  OBVIOUS
<1>2. PICK s \in C : \A t \in SUBSET s : t # s => t \notin C
  <2>1. C \in SUBSET SUBSET S
    OBVIOUS
  <2> HIDE DEF C
  <2> QED BY <1>1, <2>1, Smallest
<1>3. \A t \in SUBSET s : t # s => \E g : Sums(f, t, g)
  BY <1>2
<1>fin. \A t \in SUBSET S : IsFiniteSet(t)
  BY FS_Subset
<1> DEFINE part(t) == CHOOSE g : Sums(f, t, g)
           down(t) == IF t = s THEN IF s = {} THEN 0 ELSE f[Pick(s)] + part(s \ {Pick(s)})[s \ {Pick(s)}]
                      ELSE part(t)[t]
           g == [t \in SUBSET s |-> down(t)]
<1>4. \A t \in SUBSET s : t # s => Sums(f, t, part(t))
  BY <1>3
<1> HIDE DEF part
<1>5. ASSUME NEW t \in SUBSET s
      PROVE  g[t] = IF t = {} THEN 0 ELSE f[Pick(t)] + g[t \ {Pick(t)}]
  <2>1. CASE t = {}
    <3>1. CASE t = s
      BY <2>1, <3>1
    <3>2. CASE t # s
      BY <2>1, <3>2, <1>4, SumsAt
    <3> QED BY <3>1, <3>2
  <2>2. CASE t # {}
    <3> DEFINE u == t \ {Pick(t)}
    <3>1. Pick(t) \in t
      BY <2>2, PickIn
    <3>2. u \in SUBSET s /\ u # s /\ u \subseteq t
      BY <3>1
    <3>3. g[u] = part(u)[u]
      BY <3>2
    <3>4. CASE t = s
      BY <2>2, <3>3, <3>4
    <3>5. CASE t # s
      <4>1. g[t] = part(t)[t]
        BY <3>5
      <4>2. Sums(f, t, part(t)) /\ Sums(f, u, part(u))
        BY <1>4, <3>2, <3>5
      <4>3. part(t)[t] = f[Pick(t)] + part(t)[u]
        BY <2>2, <4>2, SumsAt
      <4>4. IsFiniteSet(t)
        BY <1>fin
      <4>5. part(t)[u] = part(u)[u]
        <5> HIDE DEF u
        <5> QED BY <4>2, <4>4, <3>2, SumsAgree
      <4> QED BY <2>2, <4>1, <4>3, <4>5, <3>3
    <3> QED BY <3>4, <3>5
  <2> QED BY <2>1, <2>2
<1>6. Sums(f, s, g)
  <2> DEFINE G(t) == IF t = {} THEN 0 ELSE f[Pick(t)] + g[t \ {Pick(t)}]
  <2>1. \A t \in SUBSET s : g[t] = G(t)
    BY <1>5
  <2>2. g = [t \in SUBSET s |-> g[t]]
    OBVIOUS
  <2> HIDE DEF g, G
  <2>3. g = [t \in SUBSET s |-> G(t)]
    BY <2>1, <2>2
  <2> QED BY <2>3 DEF Sums, G
<1> QED BY <1>2, <1>6

LEMMA TotalSums ==
  ASSUME NEW f, NEW S, IsFiniteSet(S)
  PROVE  \E g : Sums(f, S, g) /\ Total(f, S) = g[S]
<1> DEFINE g == CHOOSE h : Sums(f, S, h)
<1>1. Sums(f, S, g)
  BY SumsExist
<1>2. Total(f, S) = g[S]
  BY TotalDef
<1> QED BY <1>1, <1>2

LEMMA TotalAt ==
  ASSUME NEW f, NEW S, IsFiniteSet(S)
  PROVE  /\ S = {} => Total(f, S) = 0
         /\ S # {} => Pick(S) \in S /\ Total(f, S) = f[Pick(S)] + Total(f, S \ {Pick(S)})
<1>1. PICK g : Sums(f, S, g) /\ Total(f, S) = g[S]
  BY TotalSums
<1>2. S \in SUBSET S
  OBVIOUS
<1>3. CASE S = {}
  BY <1>1, <1>2, <1>3, SumsAt
<1>4. CASE S # {}
  <2> DEFINE U == S \ {Pick(S)}
  <2>1. Pick(S) \in S /\ IsFiniteSet(U)
    BY <1>4, PickIn, FS_Subset
  <2>2. g[S] = f[Pick(S)] + g[U]
    BY <1>1, <1>2, <1>4, SumsAt
  <2>3. PICK h : Sums(f, U, h) /\ Total(f, U) = h[U]
    BY <2>1, TotalSums
  <2>4. g[U] = h[U]
    <3>1. U \subseteq S /\ U \subseteq U
      OBVIOUS
    <3> HIDE DEF U
    <3> QED BY <1>1, <2>3, <3>1, SumsAgree
  <2> QED BY <1>1, <1>4, <2>1, <2>2, <2>3, <2>4
<1> QED BY <1>3, <1>4

LEMMA Inductively ==
  ASSUME NEW S, IsFiniteSet(S), NEW G, {} \in G,
         \A s \in SUBSET S : \A x \in s : s \ {x} \in G => s \in G
  PROVE  S \in G
<1> DEFINE C == {s \in SUBSET S : s \notin G}
<1>1. SUFFICES ASSUME C # {} PROVE FALSE
  OBVIOUS
<1>2. PICK s \in C : \A t \in SUBSET s : t # s => t \notin C
  <2>1. C \in SUBSET SUBSET S
    OBVIOUS
  <2> HIDE DEF C
  <2> QED BY <1>1, <2>1, Smallest
<1>3. PICK x : x \in s
  OBVIOUS
<1>4. s \ {x} \in G
  BY <1>2, <1>3
<1> QED BY <1>3, <1>4

\* Of finitely many values one is greatest.
LEMMA Greatest ==
  ASSUME NEW S, IsFiniteSet(S), S # {}, NEW f, \A a \in S : f[a] \in Int
  PROVE  \E a \in S : \A b \in S : f[a] >= f[b]
<1> DEFINE G == {s \in SUBSET S : s = {} \/ \E a \in s : \A b \in s : f[a] >= f[b]}
<1>1. {} \in G
  OBVIOUS
<1>2. ASSUME NEW s \in SUBSET S, NEW x \in s, s \ {x} \in G PROVE s \in G
  <2>1. CASE s \ {x} = {}
    <3>1. \A b \in s : b = x
      BY <2>1
    <3>2. f[x] \in Int
      OBVIOUS
    <3> QED BY <3>1, <3>2
  <2>2. CASE \E a \in s \ {x} : \A b \in s \ {x} : f[a] >= f[b]
    <3>1. PICK a \in s \ {x} : \A b \in s \ {x} : f[a] >= f[b]
      BY <2>2
    <3>2. f[a] \in Int /\ f[x] \in Int /\ \A b \in s : f[b] \in Int
      OBVIOUS
    <3>3. CASE f[x] >= f[a]
      <4>1. \A b \in s : f[x] >= f[b]
        BY <3>1, <3>2, <3>3
      <4> QED BY <4>1
    <3>4. CASE f[x] < f[a]
      <4>1. \A b \in s : f[a] >= f[b]
        BY <3>1, <3>2, <3>4
      <4> QED BY <4>1
    <3> QED BY <3>2, <3>3, <3>4
  <2> QED BY <1>2, <2>1, <2>2
<1> HIDE DEF G
<1>3. S \in G
  BY <1>1, <1>2, Inductively
<1> QED BY <1>3 DEF G

LEMMA TotalEmpty == ASSUME NEW f PROVE Total(f, {}) = 0
BY TotalAt, FS_EmptySet

LEMMA TotalType ==
  ASSUME NEW S, IsFiniteSet(S), NEW f, \A x \in S : f[x] \in Int
  PROVE  Total(f, S) \in Int
<1> DEFINE C == {s \in SUBSET S : Total(f, s) \notin Int}
<1>1. SUFFICES ASSUME C # {} PROVE FALSE
  OBVIOUS
<1>2. PICK s \in C : \A t \in SUBSET s : t # s => t \notin C
  <2>1. C \in SUBSET SUBSET S
    OBVIOUS
  <2> HIDE DEF C
  <2> QED BY <1>1, <2>1, Smallest
<1>3. IsFiniteSet(s)
  BY FS_Subset
<1>4. s # {}
  BY <1>2, <1>3, TotalAt
<1>5. Pick(s) \in s /\ Total(f, s) = f[Pick(s)] + Total(f, s \ {Pick(s)})
  BY <1>3, <1>4, TotalAt
<1>6. Total(f, s \ {Pick(s)}) \in Int
  BY <1>2, <1>5
<1> QED BY <1>2, <1>5, <1>6

\* Take any element out.
LEMMA TotalRemove ==
  ASSUME NEW S, IsFiniteSet(S), NEW f, \A x \in S : f[x] \in Int, NEW y \in S
  PROVE  Total(f, S) = f[y] + Total(f, S \ {y})
<1> DEFINE C == {s \in SUBSET S : \E x \in s : Total(f, s) # f[x] + Total(f, s \ {x})}
<1>1. SUFFICES ASSUME C # {} PROVE FALSE
  <2>1. S \in SUBSET S
    OBVIOUS
  <2> QED BY <2>1
<1>2. PICK s \in C : \A t \in SUBSET s : t # s => t \notin C
  <2>1. C \in SUBSET SUBSET S
    OBVIOUS
  <2> HIDE DEF C
  <2> QED BY <1>1, <2>1, Smallest
<1>3. PICK x \in s : Total(f, s) # f[x] + Total(f, s \ {x})
  OBVIOUS
<1>4. \A t \in SUBSET S : IsFiniteSet(t) /\ Total(f, t) \in Int
  BY FS_Subset, TotalType
<1>5. Pick(s) \in s /\ Total(f, s) = f[Pick(s)] + Total(f, s \ {Pick(s)})
  BY <1>4, <1>3, TotalAt
<1> DEFINE p == Pick(s)
<1>6. p # x
  BY <1>3, <1>5
<1>7. s \ {p} \notin C /\ s \ {x} \notin C
  BY <1>2, <1>3, <1>5
<1>8. Total(f, s \ {p}) = f[x] + Total(f, (s \ {p}) \ {x})
  BY <1>6, <1>7, <1>3
<1>9. (s \ {x}) \ {p} = (s \ {p}) \ {x}
  OBVIOUS
<1>10. Total(f, s \ {x}) = f[p] + Total(f, (s \ {p}) \ {x})
  BY <1>6, <1>7, <1>5, <1>9
<1>11. f[x] \in Int /\ f[p] \in Int /\ Total(f, (s \ {p}) \ {x}) \in Int
  BY <1>4, <1>5
<1>12. f[p] + (f[x] + Total(f, (s \ {p}) \ {x})) = f[x] + (f[p] + Total(f, (s \ {p}) \ {x}))
  BY <1>11
<1>13. Total(f, s) = f[p] + (f[x] + Total(f, (s \ {p}) \ {x}))
  BY <1>5, <1>8
<1> QED BY <1>3, <1>10, <1>12, <1>13

LEMMA TotalEqual ==
  ASSUME NEW S, IsFiniteSet(S), NEW f, NEW g, \A x \in S : f[x] = g[x] /\ f[x] \in Int
  PROVE  Total(f, S) = Total(g, S)
<1> DEFINE G == {s \in SUBSET S : Total(f, s) = Total(g, s)}
<1>1. {} \in G
  BY TotalEmpty
<1>2. ASSUME NEW s \in SUBSET S, NEW x \in s, s \ {x} \in G PROVE s \in G
  <2>1. IsFiniteSet(s)
    BY FS_Subset
  <2>2. Total(f, s) = f[x] + Total(f, s \ {x}) /\ Total(g, s) = g[x] + Total(g, s \ {x})
    BY <2>1, TotalRemove
  <2> QED BY <1>2, <2>2
<1> HIDE DEF G
<1>3. S \in G
  BY <1>1, <1>2, Inductively
<1> QED BY <1>3 DEF G

LEMMA TotalNat ==
  ASSUME NEW S, IsFiniteSet(S), NEW f, \A x \in S : f[x] \in Nat
  PROVE  Total(f, S) \in Nat
<1> DEFINE G == {s \in SUBSET S : Total(f, s) \in Nat}
<1>1. {} \in G
  BY TotalEmpty
<1>2. ASSUME NEW s \in SUBSET S, NEW x \in s, s \ {x} \in G PROVE s \in G
  <2>1. IsFiniteSet(s)
    BY FS_Subset
  <2>2. Total(f, s) = f[x] + Total(f, s \ {x})
    BY <2>1, TotalRemove
  <2> QED BY <1>2, <2>2
<1> HIDE DEF G
<1>3. S \in G
  BY <1>1, <1>2, Inductively
<1> QED BY <1>3 DEF G

\* Disjoint sets add up.
LEMMA TotalUnion ==
  ASSUME NEW S, IsFiniteSet(S), NEW T, IsFiniteSet(T), S \cap T = {},
         NEW f, \A x \in S \cup T : f[x] \in Int
  PROVE  Total(f, S \cup T) = Total(f, S) + Total(f, T)
<1> DEFINE G == {s \in SUBSET S : Total(f, s \cup T) = Total(f, s) + Total(f, T)}
<1>1. {} \in G
  <2>1. Total(f, T) \in Int /\ {} \cup T = T
    BY TotalType
  <2> QED BY <2>1, TotalEmpty
<1>2. ASSUME NEW s \in SUBSET S, NEW x \in s, s \ {x} \in G PROVE s \in G
  <2>1. IsFiniteSet(s) /\ IsFiniteSet(s \cup T)
    BY FS_Subset, FS_Union
  <2>2. x \in s \cup T /\ (s \cup T) \ {x} = (s \ {x}) \cup T
    OBVIOUS
  <2>3. Total(f, s) = f[x] + Total(f, s \ {x}) /\ IsFiniteSet(s \ {x})
    BY <2>1, TotalRemove, FS_Subset
  <2>4. Total(f, s \cup T) = f[x] + Total(f, (s \ {x}) \cup T)
    BY <2>1, <2>2, TotalRemove
  <2>5. f[x] \in Int /\ Total(f, s \ {x}) \in Int /\ Total(f, T) \in Int
    BY <2>3, TotalType
  <2> QED BY <1>2, <2>3, <2>4, <2>5
<1> HIDE DEF G
<1>3. S \in G
  BY <1>1, <1>2, Inductively
<1> QED BY <1>3 DEF G

\* Part of what is not negative sums to less.
LEMMA TotalSubset ==
  ASSUME NEW S, IsFiniteSet(S), NEW T \in SUBSET S, NEW f, \A x \in S : f[x] \in Nat
  PROVE  Total(f, T) \in Nat /\ Total(f, S) \in Nat /\ Total(f, T) <= Total(f, S)
<1>1. IsFiniteSet(T) /\ IsFiniteSet(S \ T) /\ T \cup (S \ T) = S /\ T \cap (S \ T) = {}
  BY FS_Subset
<1>2. Total(f, S) = Total(f, T) + Total(f, S \ T)
  BY <1>1, TotalUnion
<1>3. Total(f, T) \in Nat /\ Total(f, S \ T) \in Nat /\ Total(f, S) \in Nat
  BY <1>1, TotalNat
<1> QED BY <1>2, <1>3

LEMMA TotalZero ==
  ASSUME NEW S, IsFiniteSet(S), NEW f, \A x \in S : f[x] \in Nat, Total(f, S) = 0, NEW y \in S
  PROVE  f[y] = 0
<1>1. Total(f, S) = f[y] + Total(f, S \ {y})
  BY TotalRemove
<1>2. Total(f, S \ {y}) \in Nat
  BY TotalSubset
<1> QED BY <1>1, <1>2

\* What is zero outside T sums to what it does on T.
LEMMA TotalSupport ==
  ASSUME NEW S, IsFiniteSet(S), NEW T \in SUBSET S, NEW f, \A x \in S : f[x] \in Int,
         \A x \in S \ T : f[x] = 0
  PROVE  Total(f, S) = Total(f, T)
<1> DEFINE G == {s \in SUBSET (S \ T) : Total(f, s) = 0}
<1>1. {} \in G
  BY TotalEmpty
<1>2. ASSUME NEW s \in SUBSET (S \ T), NEW x \in s, s \ {x} \in G PROVE s \in G
  <2>1. IsFiniteSet(s)
    BY FS_Subset
  <2>2. Total(f, s) = f[x] + Total(f, s \ {x})
    BY <2>1, TotalRemove
  <2> QED BY <1>2, <2>2
<1>3. IsFiniteSet(T) /\ IsFiniteSet(S \ T) /\ T \cup (S \ T) = S /\ T \cap (S \ T) = {}
  BY FS_Subset
<1> HIDE DEF G
<1>4. S \ T \in G
  BY <1>1, <1>2, <1>3, Inductively
<1>5. Total(f, S) = Total(f, T) + Total(f, S \ T)
  BY <1>3, TotalUnion
<1>6. Total(f, T) \in Int
  BY <1>3, TotalType
<1> QED BY <1>4, <1>5, <1>6 DEF G

LEMMA TotalScale ==
  ASSUME NEW S, IsFiniteSet(S), NEW f, NEW g, NEW k \in Int,
         \A x \in S : f[x] \in Int /\ g[x] = f[x] * k
  PROVE  Total(g, S) = Total(f, S) * k
<1> DEFINE G == {s \in SUBSET S : Total(g, s) = Total(f, s) * k}
<1>1. {} \in G
  <2>1. 0 * k = 0
    OBVIOUS
  <2> QED BY <2>1, TotalEmpty
<1>2. ASSUME NEW s \in SUBSET S, NEW x \in s, s \ {x} \in G PROVE s \in G
  <2>1. IsFiniteSet(s) /\ IsFiniteSet(s \ {x})
    BY FS_Subset
  <2>2. \A y \in s : g[y] \in Int /\ f[y] \in Int
    OBVIOUS
  <2>3. Total(f, s) = f[x] + Total(f, s \ {x}) /\ Total(g, s) = g[x] + Total(g, s \ {x})
    BY <2>1, <2>2, TotalRemove
  <2>4. f[x] \in Int /\ Total(f, s \ {x}) \in Int
    BY <2>1, <2>2, TotalType
  <2>5. \A a, b \in Int : a * k + b * k = (a + b) * k
    OBVIOUS
  <2> QED BY <1>2, <2>3, <2>4, <2>5
<1> HIDE DEF G
<1>3. S \in G
  BY <1>1, <1>2, Inductively
<1> QED BY <1>3 DEF G

LEMMA TotalMinus ==
  ASSUME NEW S, IsFiniteSet(S), NEW f, NEW g, NEW h,
         \A x \in S : f[x] \in Int /\ g[x] \in Int /\ h[x] = f[x] - g[x]
  PROVE  Total(h, S) = Total(f, S) - Total(g, S)
<1> DEFINE G == {s \in SUBSET S : Total(h, s) = Total(f, s) - Total(g, s)}
<1>1. {} \in G
  BY TotalEmpty
<1>2. ASSUME NEW s \in SUBSET S, NEW x \in s, s \ {x} \in G PROVE s \in G
  <2>1. IsFiniteSet(s) /\ IsFiniteSet(s \ {x})
    BY FS_Subset
  <2>2. \A y \in s : g[y] \in Int /\ f[y] \in Int /\ h[y] \in Int
    OBVIOUS
  <2>3. /\ Total(f, s) = f[x] + Total(f, s \ {x}) /\ Total(g, s) = g[x] + Total(g, s \ {x})
        /\ Total(h, s) = h[x] + Total(h, s \ {x})
    BY <2>1, <2>2, TotalRemove
  <2>4. Total(g, s \ {x}) \in Int /\ Total(f, s \ {x}) \in Int
    BY <2>1, <2>2, TotalType
  <2> QED BY <1>2, <2>2, <2>3, <2>4
<1> HIDE DEF G
<1>3. S \in G
  BY <1>1, <1>2, Inductively
<1> QED BY <1>3 DEF G

\* Sums of f and g are the sum of what they add up to.
LEMMA TotalPlus ==
  ASSUME NEW S, IsFiniteSet(S), NEW f, NEW g, NEW h,
         \A x \in S : f[x] \in Int /\ g[x] \in Int /\ h[x] = f[x] + g[x]
  PROVE  Total(h, S) = Total(f, S) + Total(g, S)
<1>1. \A x \in S : h[x] \in Int /\ g[x] \in Int /\ f[x] = h[x] - g[x]
  OBVIOUS
<1>2. Total(f, S) = Total(h, S) - Total(g, S)
  BY <1>1, TotalMinus
<1>3. Total(h, S) \in Int /\ Total(g, S) \in Int
  BY <1>1, TotalType
<1> QED BY <1>2, <1>3

LEMMA TotalNone ==
  ASSUME NEW S, IsFiniteSet(S), NEW f, \A x \in S : f[x] = 0
  PROVE  Total(f, S) = 0
<1>1. {} \in SUBSET S /\ \A x \in S : f[x] \in Int
  OBVIOUS
<1>2. Total(f, S) = Total(f, {})
  BY <1>1, TotalSupport
<1> QED BY <1>2, TotalEmpty

\* What a function makes of finitely many is finite.
LEMMA ImageFinite ==
  ASSUME NEW S, IsFiniteSet(S), NEW row
  PROVE  IsFiniteSet({row[x] : x \in S})
<1> DEFINE rows(s) == {row[x] : x \in s}
           G == {s \in SUBSET S : IsFiniteSet(rows(s))}
<1>1. {} \in G
  <2>1. rows({}) = {}
    OBVIOUS
  <2> QED BY <2>1, FS_EmptySet
<1>2. ASSUME NEW s \in SUBSET S, NEW x \in s, s \ {x} \in G PROVE s \in G
  <2>1. rows(s) = rows(s \ {x}) \cup {row[x]}
    OBVIOUS
  <2>2. IsFiniteSet(rows(s \ {x}))
    BY <1>2
  <2> HIDE DEF rows
  <2>3. IsFiniteSet({row[x]})
    BY FS_Singleton
  <2>4. IsFiniteSet(rows(s \ {x}) \cup {row[x]})
    BY <2>2, <2>3, FS_Union
  <2> QED BY <2>1, <2>4
<1> HIDE DEF G
<1>3. S \in G
  BY <1>1, <1>2, Inductively
<1> QED BY <1>3 DEF G

\* A sum over a set of rows, one for each element.
LEMMA TotalImage ==
  ASSUME NEW S, IsFiniteSet(S), NEW row, \A x, y \in S : row[x] = row[y] => x = y,
         NEW f, \A x \in S : f[x] \in Int, NEW g, \A x \in S : g[row[x]] = f[x]
  PROVE  Total(g, {row[x] : x \in S}) = Total(f, S)
<1> DEFINE rows(s) == {row[x] : x \in s}
           G == {s \in SUBSET S : IsFiniteSet(rows(s)) /\ Total(g, rows(s)) = Total(f, s)}
<1>1. {} \in G
  <2>1. rows({}) = {}
    OBVIOUS
  <2> QED BY <2>1, TotalEmpty, FS_EmptySet
<1>2. ASSUME NEW s \in SUBSET S, NEW x \in s, s \ {x} \in G PROVE s \in G
  <2>1. rows(s) = rows(s \ {x}) \cup {row[x]} /\ row[x] \in rows(s)
    OBVIOUS
  <2>2. rows(s) \ {row[x]} = rows(s \ {x})
    OBVIOUS
  <2>3. IsFiniteSet(rows(s)) /\ IsFiniteSet(s)
    BY <1>2, <2>1, FS_AddElement, FS_Subset
  <2>4. \A r \in rows(s) : g[r] \in Int
    OBVIOUS
  <2>5. \A z \in s : f[z] \in Int
    OBVIOUS
  <2>6. Total(f, s) = f[x] + Total(f, s \ {x})
    BY <2>3, <2>5, TotalRemove
  <2>7. Total(g, rows(s)) = g[row[x]] + Total(g, rows(s) \ {row[x]})
    <3> HIDE DEF rows
    <3> QED BY <2>1, <2>3, <2>4, TotalRemove
  <2> QED BY <1>2, <2>2, <2>3, <2>6, <2>7
<1> HIDE DEF G
<1>3. S \in G
  BY <1>1, <1>2, Inductively
<1> QED BY <1>3 DEF G

\* The elements of one class, and of a set of classes.
OfClass(S, k, l) == {x \in S : k[x] = l}
OfClasses(S, k, L) == {x \in S : k[x] \in L}

\* A sum by classes: the elements of each class first.
LEMMA TotalByClass ==
  ASSUME NEW S, IsFiniteSet(S), NEW L, IsFiniteSet(L), NEW f, \A x \in S : f[x] \in Int,
         NEW k, NEW h, \A l \in L : h[l] = Total(f, OfClass(S, k, l))
  PROVE  Total(h, L) = Total(f, OfClasses(S, k, L))
<1> USE DEF OfClass, OfClasses
<1> DEFINE in(m) == {x \in S : k[x] \in m}
           G == {m \in SUBSET L : Total(h, m) = Total(f, in(m))}
<1>1. {} \in G
  <2>1. in({}) = {}
    OBVIOUS
  <2> QED BY <2>1, TotalEmpty
<1>2. ASSUME NEW m \in SUBSET L, NEW l \in m, m \ {l} \in G PROVE m \in G
  <2> DEFINE one == {x \in S : k[x] = l}
  <2>1. /\ IsFiniteSet(m) /\ IsFiniteSet(one) /\ IsFiniteSet(in(m \ {l}))
        /\ one \cap in(m \ {l}) = {} /\ in(m) = one \cup in(m \ {l})
    BY FS_Subset
  <2>2. \A j \in L : h[j] \in Int
    <3> TAKE j \in L
    <3>1. IsFiniteSet({x \in S : k[x] = j})
      BY FS_Subset
    <3> QED BY <3>1, TotalType
  <2>3. Total(h, m) = h[l] + Total(h, m \ {l})
    BY <2>1, <2>2, TotalRemove
  <2>4. Total(f, one \cup in(m \ {l})) = Total(f, one) + Total(f, in(m \ {l}))
    <3>1. \A x \in one \cup in(m \ {l}) : f[x] \in Int
      OBVIOUS
    <3> DEFINE rest == in(m \ {l})
    <3> HIDE DEF one, rest
    <3> QED BY <2>1, <3>1, TotalUnion DEF rest
  <2> QED BY <1>2, <2>1, <2>3, <2>4
<1> HIDE DEF G
<1>3. L \in G
  BY <1>1, <1>2, Inductively
<1> QED BY <1>3 DEF G
=============================================================================
