--------------------------- MODULE CounterProofs ---------------------------
(***************************************************************************)
(* What holds at the counter for any sales, register, files and requests:  *)
(* what a sale or a loan brought forward owes, where its stock is, that a  *)
(* loan stands once and that no document loses its customer (CashBook);    *)
(* and, for any documents, formats, counters and clerks, that the numbers  *)
(* documents carry are unique and not issued again (Numbers).              *)
(***************************************************************************)
EXTENDS CashBook, Numbers, SumsProofs

-----------------------------------------------------------------------------
(* Totals spread over lines.                                               *)

LEMMA TupleIs ==
  ASSUME NEW n \in Nat, NEW S, NEW f \in [1..n -> S]
  PROVE  Tuple(f) = f /\ f \in Seq(S) /\ Len(f) = n /\ DOMAIN f = 1..n
<1>1. f \in Seq(S) /\ Len(f) = n
  OBVIOUS
<1>2. f \o <<>> = f
  BY <1>1
<1> QED BY <1>1, <1>2 DEF Tuple

LEMMA UpTo ==
  ASSUME NEW N \in Nat, NEW G, 0 \in G, \A n \in 1..N : n - 1 \in G => n \in G
  PROVE  \A n \in 0..N : n \in G
<1> DEFINE T == {n \in 0..N : n \notin G}
<1>1. SUFFICES ASSUME T # {} PROVE FALSE
  OBVIOUS
<1>2. PICK m \in T : \A k \in T : m <= k
  <2>1. T \subseteq Nat
    OBVIOUS
  <2> HIDE DEF T
  <2> QED BY <1>1, <2>1, LeastOf
<1>3. m \in 1..N /\ m - 1 \in 0..N /\ ~(m <= m - 1)
  OBVIOUS
<1>4. m - 1 \in G
  BY <1>2, <1>3
<1> QED BY <1>3, <1>4

\* g is what step makes of init, round after round.
Iterates(g, N, init, step) == g = [n \in 0..N |-> IF n = 0 THEN init ELSE step[g[n - 1]]]

LEMMA IteratesAt ==
  ASSUME NEW N \in Nat, NEW init, NEW step, NEW g, Iterates(g, N, init, step), NEW n \in 0..N
  PROVE  /\ n = 0 => g[n] = init
         /\ n # 0 => g[n] = step[g[n - 1]]
<1> DEFINE G(j) == IF j = 0 THEN init ELSE step[g[j - 1]]
<1>1. g = [j \in 0..N |-> G(j)]
  BY DEF Iterates
<1> HIDE DEF G
<1>2. g[n] = G(n)
  BY <1>1
<1> QED BY <1>2 DEF G

LEMMA IteratesExist ==
  ASSUME NEW N \in Nat, NEW init, NEW step
  PROVE  \E g : Iterates(g, N, init, step)
<1> DEFINE G == {n \in Nat : \E g : Iterates(g, n, init, step)}
<1>1. 0 \in G
  <2> DEFINE g == [n \in 0..0 |-> init]
  <2>1. \A n \in 0..0 : n = 0
    OBVIOUS
  <2>2. g = [n \in 0..0 |-> IF n = 0 THEN init ELSE step[g[n - 1]]]
    BY <2>1
  <2> HIDE DEF g
  <2>3. Iterates(g, 0, init, step)
    BY <2>2 DEF Iterates
  <2> QED BY <2>3
<1>2. ASSUME NEW m \in 1..N, m - 1 \in G PROVE m \in G
  <2>1. PICK g : Iterates(g, m - 1, init, step)
    BY <1>2
  <2>2. m - 1 \in Nat /\ m \in Nat /\ m # 0 /\ m # m - 1
    OBVIOUS
  <2> DEFINE h == [n \in 0..m |-> IF n = m THEN step[g[m - 1]] ELSE g[n]]
             H(n) == IF n = 0 THEN init ELSE step[h[n - 1]]
  <2>3. ASSUME NEW n \in 0..m PROVE h[n] = H(n)
    <3>1. CASE n = m
      <4>1. m - 1 \in 0..m
        BY <2>2
      <4>2. h[n] = step[g[m - 1]] /\ h[m - 1] = g[m - 1]
        BY <2>2, <3>1, <4>1
      <4> QED BY <2>2, <3>1, <4>2
    <3>2. CASE n # m
      <4>1. n \in 0..(m - 1) /\ h[n] = g[n]
        BY <3>2
      <4>2. n # 0 => n - 1 \in 0..m /\ n - 1 # m /\ h[n - 1] = g[n - 1]
        BY <4>1
      <4>3. /\ n = 0 => g[n] = init
            /\ n # 0 => g[n] = step[g[n - 1]]
        BY ONLY <2>1, <2>2, <4>1, IteratesAt
      <4> QED BY <4>1, <4>2, <4>3
    <3> QED BY <3>1, <3>2
  <2>4. h = [n \in 0..m |-> h[n]]
    OBVIOUS
  <2> HIDE DEF h, H
  <2>5. h = [n \in 0..m |-> H(n)]
    BY <2>3, <2>4
  <2>6. Iterates(h, m, init, step)
    BY <2>5 DEF H, Iterates
  <2> QED BY <2>2, <2>6
<1> HIDE DEF G
<1>3. N \in G
  <2>1. \A n \in 1..N : n - 1 \in G => n \in G
    BY <1>2
  <2>2. N \in 0..N
    OBVIOUS
  <2> QED BY ONLY <1>1, <2>1, <2>2, UpTo, N \in Nat
<1> QED BY <1>3 DEF G

-----------------------------------------------------------------------------
(* Sums of parts.                                                          *)

LEMMA TotalAtMost ==
  ASSUME NEW S, IsFiniteSet(S), NEW f, NEW g,
         \A x \in S : f[x] \in Int /\ g[x] \in Int /\ f[x] <= g[x]
  PROVE  /\ Total(f, S) \in Int /\ Total(g, S) \in Int /\ Total(f, S) <= Total(g, S)
         /\ Total(f, S) = Total(g, S) => \A x \in S : f[x] = g[x]
<1> DEFINE more == [x \in S |-> g[x] - f[x]]
<1>1. \A x \in S : more[x] \in Nat /\ more[x] = g[x] - f[x]
  OBVIOUS
<1> HIDE DEF more
<1>2. Total(more, S) \in Nat
  BY <1>1, TotalNat
<1>3. Total(more, S) = Total(g, S) - Total(f, S)
  BY <1>1, TotalMinus
<1>4. Total(g, S) \in Int /\ Total(f, S) \in Int
  BY TotalType
<1>5. ASSUME Total(f, S) = Total(g, S), NEW x \in S PROVE f[x] = g[x]
  <2>1. Total(more, S) = 0
    BY <1>3, <1>4, <1>5
  <2>2. more[x] = 0
    BY <1>1, <2>1, TotalZero
  <2> QED BY <1>1, <2>2
<1> QED BY <1>2, <1>3, <1>4, <1>5

\* Shares rounded down are no more than what is shared.
LEMMA SharesFit ==
  ASSUME NEW S, IsFiniteSet(S), NEW weight, \A x \in S : weight[x] \in Nat,
         NEW a \in Nat, Total(weight, S) # 0,
         NEW share, \A x \in S : share[x] = (a * weight[x]) \div Total(weight, S)
  PROVE  (\A x \in S : share[x] \in Nat) /\ Total(share, S) \in Nat /\ Total(share, S) <= a
<1> DEFINE w == Total(weight, S)
<1>1. w \in Nat \ {0}
  BY TotalNat
<1>2. \A x \in S : a * weight[x] \in Nat
  OBVIOUS
<1> HIDE DEF w
<1>3. \A x \in S : share[x] \in Nat /\ share[x] * w <= a * weight[x]
  <2> SUFFICES ASSUME NEW x \in S PROVE share[x] \in Nat /\ share[x] * w <= a * weight[x]
    OBVIOUS
  <2> DEFINE p == a * weight[x]
  <2>1. p \in Nat /\ share[x] = p \div w
    BY <1>2 DEF w
  <2> HIDE DEF p
  <2>2. share[x] \in Nat /\ share[x] * w <= p
    BY <1>1, <2>1
  <2> QED BY <2>2 DEF p
<1> DEFINE scaled == [x \in S |-> share[x] * w]
           whole == [x \in S |-> weight[x] * a]
<1>4. \A x \in S : /\ share[x] \in Int /\ scaled[x] = share[x] * w
                   /\ weight[x] \in Int /\ whole[x] = weight[x] * a
                   /\ scaled[x] \in Int /\ whole[x] \in Int /\ scaled[x] <= whole[x]
  BY <1>1, <1>3
<1> HIDE DEF scaled, whole
<1>5. Total(scaled, S) = Total(share, S) * w
  <2>1. w \in Int
    BY <1>1
  <2> QED BY <1>4, <2>1, TotalScale
<1>6. Total(whole, S) = w * a
  <2>1. a \in Int
    OBVIOUS
  <2> QED BY <1>4, <2>1, TotalScale DEF w
<1>7. Total(scaled, S) <= Total(whole, S)
  BY <1>4, TotalAtMost
<1>8. Total(share, S) \in Nat
  BY <1>3, TotalNat
<1>9. Total(share, S) <= a
  <2> DEFINE s == Total(share, S)
  <2>1. s \in Nat /\ s * w <= w * a
    BY <1>5, <1>6, <1>7, <1>8
  <2> HIDE DEF s
  <2>2. SUFFICES ASSUME s >= a + 1 PROVE FALSE
    BY <2>1 DEF s
  <2>3. (s - a - 1) * w \in Nat
    <3>1. s - a - 1 \in Nat
      BY <2>1, <2>2
    <3> QED BY <1>1, <3>1
  <2>4. (s - a - 1) * w = s * w - w * a - w /\ s * w \in Int /\ w * a \in Int
    BY <1>1, <2>1
  <2> QED BY <1>1, <2>1, <2>3, <2>4
<1> QED BY <1>3, <1>8, <1>9

-----------------------------------------------------------------------------
(* A spread under way.                                                     *)

\* Nothing is lost, and no slot has more than it holds.
Spreads(caps, total) ==
  {st \in Spread : /\ DOMAIN st.shares = DOMAIN caps /\ st.active \subseteq DOMAIN caps
                   /\ \A k \in DOMAIN caps : st.shares[k] <= caps[k]
                   /\ Total(st.shares, DOMAIN caps) + st.left = total}

LEMMA SlotsFinite ==
  ASSUME NEW S, NEW caps \in Seq(S)
  PROVE  /\ DOMAIN caps = 1..Len(caps) /\ Len(caps) \in Nat /\ IsFiniteSet(DOMAIN caps)
         /\ caps \in [1..Len(caps) -> S]
         /\ \A A \in SUBSET DOMAIN caps : IsFiniteSet(A)
BY FS_Interval, FS_Subset

\* Only the active slots take more.
LEMMA Poured ==
  ASSUME NEW S, IsFiniteSet(S), NEW A \in SUBSET S, NEW f, NEW g,
         \A x \in S : f[x] \in Int /\ g[x] \in Int, \A x \in S \ A : g[x] = f[x]
  PROVE  Total(g, S) - Total(f, S) = Total(g, A) - Total(f, A)
<1>1. IsFiniteSet(A) /\ IsFiniteSet(S \ A) /\ A \cup (S \ A) = S /\ A \cap (S \ A) = {}
  BY FS_Subset
<1>2. Total(g, S) = Total(g, A) + Total(g, S \ A) /\ Total(f, S) = Total(f, A) + Total(f, S \ A)
  BY <1>1, TotalUnion
<1>3. Total(g, S \ A) = Total(f, S \ A)
  BY <1>1, TotalEqual
<1>4. Total(g, A) \in Int /\ Total(f, A) \in Int /\ Total(f, S \ A) \in Int
  BY <1>1, TotalType
<1> QED BY <1>2, <1>3, <1>4

LEMMA RoundKeeps ==
  ASSUME NEW caps \in Seq(Nat), NEW weights \in Seq(Nat), DOMAIN weights = DOMAIN caps,
         NEW total \in Nat, NEW st \in Spreads(caps, total)
  PROVE  PourRound(weights, caps)[st] \in Spreads(caps, total)
<1> DEFINE slots == DOMAIN caps
           active == st.active
           weight == [k \in slots |-> Larger(weights[k], 1)]
           portion == [k \in slots |-> MulDiv(st.left, weight[k], Total(weight, active))]
           full == {k \in active : portion[k] >= caps[k] - st.shares[k]}
           raw == [k \in slots |-> IF k \in active
                     THEN st.shares[k] + Smaller(portion[k], caps[k] - st.shares[k])
                     ELSE st.shares[k]]
           next == Tuple(raw)
           left == st.left - (Total(next, active) - Total(st.shares, active))
           after == [shares |-> next, left |-> left,
                     active |-> IF full = {} THEN {} ELSE active \ full]
<1>1. /\ slots = 1..Len(caps) /\ Len(caps) \in Nat /\ IsFiniteSet(slots)
      /\ \A k \in slots : caps[k] \in Nat /\ weights[k] \in Nat
      /\ \A A \in SUBSET slots : IsFiniteSet(A)
  BY SlotsFinite
<1>2. /\ st \in Spread /\ DOMAIN st.shares = slots /\ active \subseteq slots
      /\ \A k \in slots : st.shares[k] <= caps[k]
      /\ Total(st.shares, slots) + st.left = total
      /\ st.left \in Nat /\ st.shares \in Seq(Nat)
  BY DEF Spreads, Spread
<1>3. \A k \in slots : st.shares[k] \in Nat
  BY <1>2
<1>4. PourRound(weights, caps)[st] = IF st.left = 0 THEN st ELSE after
  BY <1>2 DEF PourRound
<1>5. st.left = 0 => PourRound(weights, caps)[st] \in Spreads(caps, total)
  BY <1>4
<1>6. SUFFICES ASSUME st.left # 0 PROVE after \in Spreads(caps, total)
  BY <1>4, <1>5
<1>7. IsFiniteSet(active)
  BY <1>1, <1>2
<1>8. /\ \A k \in active : portion[k] \in Nat
      /\ Total(portion, active) \in Nat /\ Total(portion, active) <= st.left
  <2>1. CASE active = {}
    BY <1>2, <2>1, TotalEmpty
  <2>2. CASE active # {}
    <3>1. \A k \in active : weight[k] \in Nat /\ weight[k] >= 1
      BY <1>1, <1>2 DEF Larger
    <3> HIDE DEF weight
    <3>2. Total(weight, active) \in Nat /\ Total(weight, active) # 0
      <4>1. PICK k : k \in active
        BY <2>2
      <4> HIDE DEF active
      <4>2. Total(weight, active) \in Nat
        BY <1>7, <3>1, TotalNat
      <4>3. Total(weight, active) # 0
        BY <1>7, <3>1, <4>1, TotalZero
      <4> QED BY <4>2, <4>3
    <3>3. \A k \in active : portion[k] = (st.left * weight[k]) \div Total(weight, active)
      BY <1>2, <3>2 DEF MulDiv
    <3> HIDE DEF portion, active
    <3> QED BY <1>2, <1>7, <3>1, <3>2, <3>3, SharesFit
  <2> QED BY <2>1, <2>2
<1> HIDE DEF portion, weight
<1>9. \A k \in active : /\ raw[k] \in Nat /\ raw[k] <= caps[k]
                        /\ raw[k] - st.shares[k] <= portion[k]
                        /\ raw[k] - st.shares[k] >= 0
  <2> SUFFICES ASSUME NEW k \in active
               PROVE  /\ raw[k] \in Nat /\ raw[k] <= caps[k]
                      /\ raw[k] - st.shares[k] <= portion[k] /\ raw[k] - st.shares[k] >= 0
    OBVIOUS
  <2>1. k \in slots
    BY <1>2
  <2>2. raw[k] = st.shares[k] + Smaller(portion[k], caps[k] - st.shares[k])
    BY <2>1
  <2>3. st.shares[k] \in Nat /\ caps[k] \in Nat /\ st.shares[k] <= caps[k] /\ portion[k] \in Nat
    BY <1>1, <1>2, <1>3, <1>8, <2>1
  <2> DEFINE p == portion[k]
             c == caps[k]
             r == raw[k]
             o == st.shares[k]
  <2>4. r = o + Smaller(p, c - o) /\ o \in Nat /\ c \in Nat /\ o <= c /\ p \in Nat
    BY <2>2, <2>3
  <2>5. SUFFICES r \in Nat /\ r <= c /\ r - o <= p /\ r - o >= 0
    OBVIOUS
  <2> HIDE DEF p, c, r, o
  <2> QED BY ONLY <2>4 DEF Smaller
<1>10. \A k \in slots \ active : raw[k] = st.shares[k]
  OBVIOUS
<1>11. raw \in [1..Len(caps) -> Nat]
  BY <1>1, <1>3, <1>9, <1>10
<1>12. next = raw /\ next \in Seq(Nat) /\ DOMAIN next = slots
  <2> HIDE DEF raw
  <2> QED BY <1>1, <1>11, TupleIs
<1> HIDE DEF raw, next, full
<1>13. \A k \in slots : next[k] \in Nat /\ st.shares[k] \in Nat /\ next[k] <= caps[k]
  BY <1>2, <1>3, <1>9, <1>10, <1>12
<1>14. Total(next, slots) - Total(st.shares, slots) = Total(next, active) - Total(st.shares, active)
  <2>1. active \in SUBSET slots /\ IsFiniteSet(slots)
    BY <1>1, <1>2
  <2>2. \A k \in slots : st.shares[k] \in Int /\ next[k] \in Int
    BY <1>13
  <2>3. \A k \in slots \ active : next[k] = st.shares[k]
    BY <1>10, <1>12
  <2> HIDE DEF slots, active
  <2> QED BY ONLY <2>1, <2>2, <2>3, Poured
<1>15. Total(next, active) - Total(st.shares, active) <= Total(portion, active)
  <2> DEFINE gain == [k \in active |-> next[k] - st.shares[k]]
  <2>1. \A k \in active : /\ gain[k] \in Int /\ gain[k] = next[k] - st.shares[k]
                          /\ next[k] \in Int /\ st.shares[k] \in Int
                          /\ portion[k] \in Int /\ gain[k] <= portion[k]
    <3> SUFFICES ASSUME NEW k \in active
                 PROVE  /\ gain[k] \in Int /\ gain[k] = next[k] - st.shares[k]
                        /\ next[k] \in Int /\ st.shares[k] \in Int
                        /\ portion[k] \in Int /\ gain[k] <= portion[k]
      OBVIOUS
    <3>1. k \in slots /\ gain[k] = next[k] - st.shares[k]
      BY <1>2
    <3>2. next[k] \in Nat /\ st.shares[k] \in Nat /\ portion[k] \in Nat
      BY <1>8, <1>13, <3>1
    <3>3. next[k] - st.shares[k] <= portion[k]
      BY <1>9, <1>12
    <3> HIDE DEF gain
    <3> QED BY <3>1, <3>2, <3>3
  <2> HIDE DEF gain, active
  <2>2. Total(gain, active) = Total(next, active) - Total(st.shares, active)
    BY <1>7, <2>1, TotalMinus
  <2> QED BY <1>7, <2>1, <2>2, TotalAtMost
<1>16. /\ Total(next, slots) \in Int /\ Total(st.shares, slots) \in Int
       /\ Total(next, active) \in Int /\ Total(st.shares, active) \in Int
  <2>1. \A k \in active : next[k] \in Int /\ st.shares[k] \in Int
    BY <1>2, <1>13
  <2>2. \A k \in slots : next[k] \in Int /\ st.shares[k] \in Int
    BY <1>13
  <2> HIDE DEF slots, active
  <2>3. IsFiniteSet(slots) /\ IsFiniteSet(active)
    BY <1>1, <1>7
  <2> QED BY ONLY <2>1, <2>2, <2>3, TotalType
<1>17. left \in Nat /\ Total(next, slots) + left = total
  <2> HIDE DEF slots, active
  <2> QED BY <1>2, <1>8, <1>14, <1>15, <1>16
<1>18. after.active \subseteq active /\ after.active \in SUBSET Nat
  BY <1>1, <1>2
<1> HIDE DEF left
<1>19. after \in Spread
  BY <1>12, <1>17, <1>18 DEF Spread
<1> QED BY <1>2, <1>12, <1>13, <1>17, <1>18, <1>19 DEF Spreads

-----------------------------------------------------------------------------
(* Rounds and passes.                                                      *)

LEMMA RepeatedIs ==
  ASSUME NEW step, NEW n \in Nat, NEW st
  PROVE  \E g : Iterates(g, n, st, step) /\ Repeated(step, n, st) = g[n]
<1>1. Repeated(step, n, st) = (CHOOSE g : Iterates(g, n, st, step))[n]
  BY DEF Repeated, Iterates
<1>2. \E g : Iterates(g, n, st, step)
  BY IteratesExist
<1> QED BY <1>1, <1>2

\* What a step keeps, steps keep.
LEMMA RepeatedKeeps ==
  ASSUME NEW S, NEW step, \A x \in S : step[x] \in S, NEW n \in Nat, NEW st \in S
  PROVE  Repeated(step, n, st) \in S
<1>1. PICK g : Iterates(g, n, st, step) /\ Repeated(step, n, st) = g[n]
  BY RepeatedIs
<1> DEFINE G == {k \in 0..n : g[k] \in S}
<1>2. 0 \in G
  BY <1>1, IteratesAt
<1>3. ASSUME NEW k \in 1..n, k - 1 \in G PROVE k \in G
  <2>1. k \in 0..n /\ k # 0
    OBVIOUS
  <2>2. g[k] = step[g[k - 1]]
    BY <1>1, <2>1, IteratesAt
  <2> QED BY <1>3, <2>1, <2>2
<1> HIDE DEF G
<1>4. \A k \in 0..n : k \in G
  BY <1>2, <1>3, UpTo
<1>5. n \in G
  BY <1>4
<1> QED BY <1>1, <1>5 DEF G

\* Steps that each place what is left, or some of it, place it all.
LEMMA RepeatedEnds ==
  ASSUME NEW S, NEW step,
         \A x \in S : /\ x.left \in Nat /\ step[x] \in S
                      /\ step[x].left \in Nat
                      /\ step[x].left = 0 \/ step[x].left < x.left,
         NEW st \in S
  PROVE  Repeated(step, st.left, st) \in S /\ Repeated(step, st.left, st).left = 0
<1> DEFINE n == st.left
<1>1. n \in Nat
  OBVIOUS
<1> HIDE DEF n
<1>2. PICK g : Iterates(g, n, st, step) /\ Repeated(step, n, st) = g[n]
  BY <1>1, RepeatedIs
<1> DEFINE G == {k \in 0..n : g[k] \in S /\ (g[k].left = 0 \/ g[k].left + k <= n)}
<1>3. 0 \in G
  <2>1. 0 \in 0..n
    BY <1>1
  <2>2. g[0] = st
    BY <1>1, <1>2, <2>1, IteratesAt
  <2> QED BY <1>1, <2>1, <2>2 DEF n
<1>4. ASSUME NEW k \in 1..n, k - 1 \in G PROVE k \in G
  <2>1. k \in 0..n /\ k # 0 /\ k \in Int
    BY <1>1
  <2>2. g[k] = step[g[k - 1]]
    BY <1>1, <1>2, <2>1, IteratesAt
  <2> DEFINE a == g[k - 1].left
             b == g[k].left
  <2>4. g[k] \in S /\ a \in Nat /\ b \in Nat /\ (b = 0 \/ b < a) /\ (a = 0 \/ a + (k - 1) <= n)
    BY <1>4, <2>2
  <2>5. b = 0 \/ b + k <= n
    <3> HIDE DEF a, b
    <3> QED BY <1>1, <2>1, <2>4
  <2> QED BY <2>1, <2>4, <2>5
<1> HIDE DEF G
<1>5. \A k \in 0..n : k \in G
  BY <1>1, <1>3, <1>4, UpTo
<1>6. n \in G
  BY <1>1, <1>5
<1>7. g[n] \in S /\ g[n].left = 0
  <2>1. g[n] \in S /\ (g[n].left = 0 \/ g[n].left + n <= n)
    BY <1>6 DEF G
  <2>2. g[n].left \in Nat
    BY <2>1
  <2> DEFINE a == g[n].left
  <2>3. a \in Nat /\ (a = 0 \/ a + n <= n)
    BY <2>1, <2>2
  <2>4. a = 0
    <3> HIDE DEF a
    <3> QED BY <1>1, <2>3
  <2> QED BY <2>1, <2>4
<1> QED BY <1>2, <1>7 DEF n

\* The first few of the open slots.
LEMMA LuckySlots ==
  ASSUME NEW open \in SUBSET Nat, IsFiniteSet(open), open # {}, NEW left \in Nat \ {0},
         NEW lucky, lucky = {k \in open : Cardinality({j \in open : j < k}) < left}
  PROVE  /\ lucky \subseteq open /\ IsFiniteSet(lucky)
         /\ Cardinality(lucky) \in 1..left
<1> DEFINE before(k) == {j \in open : j < k}
<1>1. IsFiniteSet(lucky) /\ Cardinality(lucky) \in Nat
  BY FS_Subset, FS_CardinalityType
<1>2. \A k \in open : IsFiniteSet(before(k)) /\ Cardinality(before(k)) \in Nat
  BY FS_Subset, FS_CardinalityType
<1>3. lucky # {}
  <2>1. PICK m \in open : \A k \in open : m <= k
    BY LeastOf
  <2>2. before(m) = {}
    <3> SUFFICES ASSUME NEW j \in open, j < m PROVE FALSE
      OBVIOUS
    <3>1. m <= j /\ j \in Nat /\ m \in Nat
      BY <2>1
    <3> QED BY <3>1
  <2>3. Cardinality(before(m)) = 0
    BY <2>2, FS_EmptySet
  <2> HIDE DEF before
  <2>4. m \in {k \in open : Cardinality(before(k)) < left}
    BY <2>3
  <2> QED BY <2>4 DEF before
<1>4. Cardinality(lucky) # 0
  BY <1>1, <1>3, FS_EmptySet
<1>5. Cardinality(lucky) <= left
  <2>1. PICK m \in lucky : \A k \in lucky : m >= k
    <3> DEFINE f == [k \in lucky |-> k]
    <3>0. \A k \in lucky : k \in Nat
      OBVIOUS
    <3>1. \A k \in lucky : f[k] = k /\ f[k] \in Int
      BY ONLY <3>0
    <3> HIDE DEF f
    <3>2. PICK m \in lucky : \A k \in lucky : f[m] >= f[k]
      BY <1>1, <1>3, <3>1, Greatest
    <3>3. \A k \in lucky : m >= k
      BY <3>1, <3>2
    <3> QED BY <3>3
  <2>2. lucky \subseteq before(m) \cup {m}
    <3> SUFFICES ASSUME NEW k \in lucky, k # m PROVE k \in before(m)
      OBVIOUS
    <3>1. k \in open /\ k \in Nat /\ m \in Nat /\ m >= k
      BY <2>1
    <3> QED BY <3>1
  <2>3. IsFiniteSet(before(m)) /\ m \notin before(m) /\ Cardinality(before(m)) < left
    BY <1>2, <2>1
  <2> HIDE DEF before
  <2>4. IsFiniteSet(before(m) \cup {m}) /\ Cardinality(before(m) \cup {m}) = Cardinality(before(m)) + 1
    BY <2>3, FS_AddElement
  <2>5. Cardinality(lucky) <= Cardinality(before(m) \cup {m})
    BY <2>2, <2>4, FS_Subset
  <2>6. Cardinality(before(m)) \in Nat
    BY <1>2, <2>1
  <2> QED BY <1>1, <2>3, <2>4, <2>5, <2>6
<1> QED BY <1>1, <1>4, <1>5

\* What does not fit is none, so every pass finds room.
LEMMA PassKeeps ==
  ASSUME NEW caps \in Seq(Nat), NEW total \in Nat, total <= Total(caps, DOMAIN caps),
         NEW st \in Spreads(caps, total)
  PROVE  /\ TopUpPass(caps)[st] \in Spreads(caps, total)
         /\ st.left \in Nat /\ TopUpPass(caps)[st].left \in Nat
         /\ TopUpPass(caps)[st].left = 0 \/ TopUpPass(caps)[st].left < st.left
<1> DEFINE slots == DOMAIN caps
           open == {k \in slots : st.shares[k] < caps[k]}
           lucky == {k \in open : Cardinality({j \in open : j < k}) < st.left}
           raw == [k \in slots |-> IF k \in lucky THEN st.shares[k] + 1 ELSE st.shares[k]]
           next == Tuple(raw)
           left == st.left - Cardinality(lucky)
           after == [shares |-> next, left |-> left, active |-> st.active]
           dumped == [st EXCEPT !.shares[Len(caps)] = @ + st.left, !.left = 0]
<1>1. /\ slots = 1..Len(caps) /\ Len(caps) \in Nat /\ IsFiniteSet(slots)
      /\ \A k \in slots : caps[k] \in Nat
      /\ \A A \in SUBSET slots : IsFiniteSet(A)
  BY SlotsFinite
<1>2. /\ st \in Spread /\ DOMAIN st.shares = slots /\ st.active \subseteq slots
      /\ \A k \in slots : st.shares[k] <= caps[k]
      /\ Total(st.shares, slots) + st.left = total
      /\ st.left \in Nat /\ st.shares \in Seq(Nat) /\ st.active \in SUBSET Nat
  BY DEF Spreads, Spread
<1>3. \A k \in slots : st.shares[k] \in Nat
  BY <1>2
<1>4. TopUpPass(caps)[st] = IF st.left = 0 THEN st ELSE IF open = {} THEN dumped ELSE after
  BY <1>2 DEF TopUpPass
<1>5. CASE st.left = 0
  BY <1>2, <1>4, <1>5
<1>6. CASE st.left # 0
  <2>1. Total(st.shares, slots) \in Int /\ Total(caps, slots) \in Int
    <3>1. /\ IsFiniteSet(slots)
          /\ \A k \in slots : st.shares[k] \in Int /\ caps[k] \in Int
      BY <1>1, <1>3
    <3> HIDE DEF slots
    <3> QED BY ONLY <3>1, TotalType
  <2>2. open # {}
    <3>1. SUFFICES ASSUME open = {} PROVE FALSE
      OBVIOUS
    <3>2. \A k \in slots : st.shares[k] = caps[k] /\ st.shares[k] \in Int
      BY <1>1, <1>2, <1>3, <3>1
    <3>3. Total(st.shares, slots) = Total(caps, slots)
      <4> HIDE DEF slots
      <4> QED BY <1>1, <3>2, TotalEqual
    <3> QED BY <1>2, <1>6, <2>1, <3>3
  <2>3. lucky \subseteq open /\ IsFiniteSet(lucky) /\ Cardinality(lucky) \in 1..st.left
    <3>1. open \in SUBSET Nat /\ IsFiniteSet(open) /\ st.left \in Nat \ {0}
      BY <1>1, <1>2, <1>6
    <3> HIDE DEF open
    <3> QED BY <2>2, <3>1, LuckySlots
  <2> HIDE DEF lucky
  <2>4. \A k \in slots : /\ raw[k] = st.shares[k] + (IF k \in lucky THEN 1 ELSE 0)
                         /\ raw[k] \in Nat /\ raw[k] <= caps[k]
    <3> SUFFICES ASSUME NEW k \in slots
                 PROVE  /\ raw[k] = st.shares[k] + (IF k \in lucky THEN 1 ELSE 0)
                        /\ raw[k] \in Nat /\ raw[k] <= caps[k]
      OBVIOUS
    <3>1. raw[k] = IF k \in lucky THEN st.shares[k] + 1 ELSE st.shares[k]
      OBVIOUS
    <3>2. st.shares[k] \in Nat /\ caps[k] \in Nat /\ st.shares[k] <= caps[k]
          /\ (k \in lucky => st.shares[k] < caps[k])
      BY <1>1, <1>2, <1>3, <2>3
    <3> HIDE DEF raw
    <3> QED BY <3>1, <3>2
  <2>5. next = raw /\ next \in Seq(Nat) /\ DOMAIN next = slots
    <3>1. raw \in [1..Len(caps) -> Nat]
      BY <1>1, <2>4
    <3> HIDE DEF raw
    <3> QED BY <1>1, <3>1, TupleIs
  <2> DEFINE one == [k \in slots |-> IF k \in lucky THEN 1 ELSE 0]
  <2>6. \A k \in slots : /\ st.shares[k] \in Int /\ one[k] \in Int /\ next[k] = st.shares[k] + one[k]
    BY <1>3, <2>4, <2>5
  <2>7. Total(one, slots) = Cardinality(lucky)
    <3> DEFINE G == {s \in SUBSET lucky : Total(one, s) = Cardinality(s)}
    <3>1. {} \in G
      BY TotalEmpty, FS_EmptySet
    <3>2. ASSUME NEW s \in SUBSET lucky, NEW x \in s, s \ {x} \in G PROVE s \in G
      <4>1. IsFiniteSet(s) /\ \A k \in s : one[k] = 1 /\ one[k] \in Int
        BY <2>3, FS_Subset
      <4>2. Total(one, s) = one[x] + Total(one, s \ {x})
        <5> HIDE DEF one
        <5> QED BY <4>1, TotalRemove
      <4>3. Cardinality(s \ {x}) = Cardinality(s) - 1 /\ Cardinality(s) \in Nat
        BY <4>1, FS_RemoveElement, FS_CardinalityType
      <4>4. one[x] = 1 /\ Total(one, s \ {x}) = Cardinality(s \ {x})
        BY <3>2, <4>1
      <4> HIDE DEF one
      <4>5. Total(one, s) = Cardinality(s)
        BY <4>2, <4>3, <4>4
      <4> QED BY <4>5
    <3> HIDE DEF G
    <3>3. lucky \in G
      BY <2>3, <3>1, <3>2, Inductively
    <3>4. lucky \in SUBSET slots /\ \A k \in slots \ lucky : one[k] = 0
      BY <2>3
    <3>5. \A k \in slots : one[k] \in Int
      OBVIOUS
    <3> HIDE DEF one, slots
    <3>6. Total(one, slots) = Total(one, lucky)
      BY ONLY <1>1, <3>4, <3>5, TotalSupport
    <3> QED BY <3>3, <3>6 DEF G
  <2>8. Total(next, slots) = Total(st.shares, slots) + Total(one, slots)
    <3> HIDE DEF one, slots, next
    <3> QED BY ONLY <1>1, <2>6, TotalPlus
  <2> HIDE DEF raw, next, one, open
  <2>9. Cardinality(lucky) \in Nat /\ Cardinality(lucky) >= 1 /\ Cardinality(lucky) <= st.left
    BY <1>2, <2>3
  <2>10. left \in Nat /\ left < st.left /\ Total(next, slots) + left = total
    BY <1>2, <2>1, <2>7, <2>8, <2>9
  <2>11. TopUpPass(caps)[st] = after
    BY <1>4, <1>6, <2>2
  <2> HIDE DEF left
  <2>12. after \in Spread /\ after.left = left /\ after.shares = next /\ after.active = st.active
    BY <1>2, <2>5, <2>10 DEF Spread
  <2>13. \A k \in slots : next[k] <= caps[k]
    BY <2>4, <2>5
  <2> HIDE DEF after
  <2>14. after \in Spreads(caps, total)
    BY <1>2, <2>5, <2>10, <2>12, <2>13 DEF Spreads
  <2> QED BY <1>2, <2>10, <2>11, <2>12, <2>14
<1> QED BY <1>5, <1>6

\* What is spread over slots with room for it is spread entirely, and no slot
\* takes more than it holds.
SpreadJob(caps, weights, total) ==
  /\ caps \in Seq(Nat) /\ weights \in Seq(Nat) /\ DOMAIN weights = DOMAIN caps
  /\ total \in Nat /\ total <= Total(caps, DOMAIN caps)

Fits(shares, caps, total) ==
  /\ shares \in Seq(Nat) /\ DOMAIN shares = DOMAIN caps
  /\ \A k \in DOMAIN caps : shares[k] \in Nat /\ shares[k] <= caps[k]
  /\ Total(shares, DOMAIN caps) = total

LEMMA SpreadFits ==
  ASSUME NEW caps, NEW weights, NEW total, SpreadJob(caps, weights, total),
         NEW shares, shares = AllocateCapped[[total |-> total, weights |-> weights, caps |-> caps]]
  PROVE  Fits(shares, caps, total)
<1> USE DEF SpreadJob
<1> DEFINE job == [total |-> total, weights |-> weights, caps |-> caps]
           none == [k \in DOMAIN caps |-> 0]
           start == [shares |-> Tuple(none), left |-> total,
                     active |-> {k \in DOMAIN caps : caps[k] > 0}]
           poured == Repeated(PourRound(weights, caps), Len(caps), start)
           placed == Repeated(TopUpPass(caps), poured.left, poured)
           S == Spreads(caps, total)
<1>1. job \in [total : Nat, weights : Seq(Nat), caps : Seq(Nat)]
  OBVIOUS
<1>2. AllocateCapped[job] = placed.shares
  BY <1>1 DEF AllocateCapped
<1>3. DOMAIN caps = 1..Len(caps) /\ Len(caps) \in Nat /\ IsFiniteSet(DOMAIN caps)
  BY SlotsFinite
<1>4. start \in S
  <2>1. none \in [1..Len(caps) -> Nat]
    BY <1>3
  <2>2. Tuple(none) = none /\ Tuple(none) \in Seq(Nat) /\ DOMAIN Tuple(none) = DOMAIN caps
    <3> HIDE DEF none
    <3> QED BY <1>3, <2>1, TupleIs
  <2>3. \A k \in DOMAIN caps : Tuple(none)[k] = 0 /\ caps[k] \in Nat
    BY <2>2
  <2>4. Total(Tuple(none), DOMAIN caps) = 0
    BY <1>3, <2>3, TotalNone
  <2>5. start.active \subseteq DOMAIN caps /\ start.active \in SUBSET Nat
    BY <1>3
  <2>6. start \in Spread
    BY <2>2, <2>5 DEF Spread
  <2>7. start.shares = Tuple(none) /\ start.left = total
    OBVIOUS
  <2>8. \A k \in DOMAIN caps : start.shares[k] <= caps[k]
    <3> HIDE DEF start
    <3>1. \A k \in DOMAIN caps : start.shares[k] = 0 /\ caps[k] \in Nat
      BY <2>3, <2>7
    <3> QED BY ONLY <3>1
  <2>9. Total(start.shares, DOMAIN caps) + start.left = total
    <3>1. 0 + total = total
      OBVIOUS
    <3> HIDE DEF start
    <3> QED BY <2>4, <2>7, <3>1
  <2> HIDE DEF start
  <2> QED BY <2>2, <2>5, <2>6, <2>7, <2>8, <2>9 DEF Spreads, S
<1> HIDE DEF start, S
<1>5. poured \in S
  <2> DEFINE step == PourRound(weights, caps)
  <2>1. \A x \in S : step[x] \in S
    BY RoundKeeps DEF S
  <2> HIDE DEF step
  <2>2. Repeated(step, Len(caps), start) \in S
    BY <1>3, <1>4, <2>1, RepeatedKeeps
  <2> QED BY <2>2 DEF step
<1> HIDE DEF poured
<1>6. placed \in S /\ placed.left = 0
  <2> DEFINE step == TopUpPass(caps)
  <2>1. \A x \in S : /\ x.left \in Nat /\ step[x] \in S
                     /\ step[x].left \in Nat
                     /\ step[x].left = 0 \/ step[x].left < x.left
    BY PassKeeps DEF S
  <2> HIDE DEF step
  <2>2. Repeated(step, poured.left, poured) \in S /\ Repeated(step, poured.left, poured).left = 0
    BY <1>5, <2>1, RepeatedEnds
  <2> QED BY <2>2 DEF step
<1> HIDE DEF placed
<1>7. /\ shares = placed.shares /\ shares \in Seq(Nat) /\ DOMAIN shares = DOMAIN caps
      /\ \A k \in DOMAIN caps : shares[k] <= caps[k]
      /\ Total(shares, DOMAIN caps) + 0 = total
  BY <1>2, <1>6 DEF S, Spreads, Spread
<1>8. Total(shares, DOMAIN caps) \in Int
  BY <1>3, <1>7, TotalType
<1> QED BY <1>7, <1>8 DEF Fits

-----------------------------------------------------------------------------
(* The lines of an invoice.                                                *)

LEMMA LastOf ==
  ASSUME NEW S \in SUBSET Nat, IsFiniteSet(S), S # {}
  PROVE  Max(S) \in S
<1> DEFINE f == [k \in S |-> k]
<1>1. \A k \in S : k \in Nat
  OBVIOUS
<1>2. \A k \in S : f[k] = k /\ f[k] \in Int
  BY ONLY <1>1
<1> HIDE DEF f
<1>3. PICK m \in S : \A k \in S : f[m] >= f[k]
  BY <1>2, Greatest
<1>4. m \in S /\ \A k \in S : m >= k
  BY <1>2, <1>3
<1> QED BY <1>4 DEF Max

\* Every line's share of a total is a number of cents, and they add up to it.
LEMMA LineAmountsFit ==
  ASSUME NEW net \in Seq(Int), NEW total \in Nat
  PROVE  /\ LineAmounts(net, total) \in Seq(Nat) /\ DOMAIN LineAmounts(net, total) = DOMAIN net
         /\ net # <<>> => Total(LineAmounts(net, total), DOMAIN net) = total
<1> DEFINE lines == DOMAIN net
           value == [k \in lines |-> Larger(net[k], 0)]
           weight == IF Total(value, lines) = 0 THEN [k \in lines |-> 1] ELSE value
           raw == [k \in lines |-> MulDiv(total, weight[k], Total(weight, lines))]
           share == Tuple(raw)
           heavy == {k \in lines : weight[k] > 0}
           last == Max(heavy)
           rest == total - Total(share, lines \ {last})
           split == [share EXCEPT ![last] = rest]
<1>1. lines = 1..Len(net) /\ Len(net) \in Nat /\ IsFiniteSet(lines)
  BY FS_Interval
<1>2. LineAmounts(net, total) = split
  BY DEF LineAmounts
<1>3. \A k \in lines : value[k] \in Nat
  BY <1>1 DEF Larger
<1>4. \A k \in lines : weight[k] \in Nat
  BY <1>3
<1>5. lines # {} => Total(weight, lines) # 0
  <2>1. CASE Total(value, lines) = 0
    <3>1. \A k \in lines : weight[k] = 1 /\ weight[k] \in Nat
      BY <2>1
    <3> HIDE DEF weight, lines
    <3>2. ASSUME NEW k \in lines PROVE Total(weight, lines) # 0
      BY <1>1, <3>1, TotalZero
    <3> QED BY <3>2
  <2>2. CASE Total(value, lines) # 0
    BY <2>2
  <2> QED BY <2>1, <2>2
<1> HIDE DEF weight, value
<1>6. (\A k \in lines : raw[k] \in Nat) /\ Total(raw, lines) \in Nat /\ Total(raw, lines) <= total
  <2>1. CASE lines = {}
    BY <2>1, TotalEmpty
  <2>2. CASE lines # {}
    <3>1. \A k \in lines : raw[k] = (total * weight[k]) \div Total(weight, lines)
      BY <1>5, <2>2 DEF MulDiv
    <3> HIDE DEF raw, lines
    <3> QED BY <1>1, <1>4, <1>5, <2>2, <3>1, SharesFit
  <2> QED BY <2>1, <2>2
<1>7. share = raw /\ share \in [1..Len(net) -> Nat]
  <2>1. raw \in [1..Len(net) -> Nat]
    BY <1>1, <1>6
  <2> HIDE DEF raw
  <2> QED BY <1>1, <2>1, TupleIs
<1> HIDE DEF raw, share
<1>8. CASE lines = {}
  <2>1. Len(net) = 0
    BY <1>1, <1>8
  <2>2. net = <<>>
    BY <2>1
  <2>3. DOMAIN share = {}
    BY <1>7, <2>1
  <2>4. split = share /\ split \in [1..Len(net) -> Nat]
    BY <1>7, <2>3
  <2> HIDE DEF split
  <2>5. split \in Seq(Nat) /\ DOMAIN split = lines
    BY <1>1, <2>4
  <2> QED BY <1>2, <2>2, <2>5
<1>9. CASE lines # {}
  <2>1. last \in lines
    <3>1. heavy # {}
      <4>1. SUFFICES ASSUME heavy = {} PROVE FALSE
        OBVIOUS
      <4>2. \A k \in lines : weight[k] = 0
        BY <1>4, <4>1
      <4>3. Total(weight, lines) = 0
        <5> HIDE DEF lines
        <5> QED BY <1>1, <4>2, TotalNone
      <4> QED BY <1>5, <1>9, <4>3
    <3>2. heavy \in SUBSET lines /\ heavy \in SUBSET Nat /\ IsFiniteSet(heavy)
      BY <1>1, FS_Subset
    <3> HIDE DEF heavy
    <3> QED BY <3>1, <3>2, LastOf
  <2> HIDE DEF last
  <2>2. /\ Total(share, lines \ {last}) \in Nat /\ Total(share, lines \ {last}) <= Total(share, lines)
    <3>1. \A k \in lines : share[k] \in Nat
      BY <1>1, <1>7
    <3>2. lines \ {last} \in SUBSET lines
      OBVIOUS
    <3> HIDE DEF lines
    <3> QED BY <1>1, <3>1, <3>2, TotalSubset
  <2>3. rest \in Nat /\ rest + Total(share, lines \ {last}) = total
    <3> HIDE DEF lines
    <3> QED BY <1>6, <1>7, <2>2
  <2> HIDE DEF rest
  <2>4. /\ split \in [1..Len(net) -> Nat] /\ split[last] = rest
        /\ \A k \in lines \ {last} : split[k] = share[k] /\ split[k] \in Int
    BY <1>1, <1>7, <2>1, <2>3
  <2> HIDE DEF split
  <2>5. split \in Seq(Nat) /\ DOMAIN split = lines
    BY <1>1, <2>4
  <2>6. \A k \in lines : split[k] \in Int
    BY <1>1, <2>4
  <2>7. Total(split, lines) = total
    <3>1. IsFiniteSet(lines \ {last})
      BY <1>1, FS_Subset
    <3> HIDE DEF lines
    <3>2. Total(split, lines) = split[last] + Total(split, lines \ {last})
      BY <1>1, <2>1, <2>6, TotalRemove
    <3>3. Total(split, lines \ {last}) = Total(share, lines \ {last})
      BY <2>4, <3>1, TotalEqual
    <3> QED BY <2>2, <2>3, <2>4, <3>2, <3>3
  <2> QED BY <1>2, <2>5, <2>7
<1> QED BY <1>8, <1>9

\* No line is paid beyond its amount, none less than what named it, and every
\* cent paid is some line's.
LEMMA LinePaidFits ==
  ASSUME NEW amounts \in Seq(Nat), NEW direct,
         \A k \in DOMAIN amounts : direct[k] \in Nat /\ direct[k] <= amounts[k],
         NEW whole \in Nat, Total(direct, DOMAIN amounts) + whole <= Total(amounts, DOMAIN amounts),
         NEW paid, paid = LinePaid(amounts, direct, whole)
  PROVE  /\ \A k \in DOMAIN amounts : paid[k] \in direct[k]..amounts[k]
         /\ Total(paid, DOMAIN amounts) = Total(direct, DOMAIN amounts) + whole
<1> DEFINE lines == DOMAIN amounts
           spread == AllocateCapped[[total |-> whole, weights |-> amounts, caps |-> amounts]]
           rawTaken == [k \in lines |-> Smaller(spread[k], Larger(amounts[k] - direct[k], 0))]
           taken == Tuple(rawTaken)
           rawRooms == [k \in lines |-> Larger(amounts[k] - direct[k] - taken[k], 0)]
           rooms == Tuple(rawRooms)
           over == Total(spread, lines) - Total(taken, lines)
           passed == AllocateCapped[[total |-> over, weights |-> amounts, caps |-> rooms]]
           rawPaid == [k \in lines |-> direct[k] + taken[k] + passed[k]]
<1>1. paid = Tuple(rawPaid)
  BY DEF LinePaid
<1>2. /\ lines = 1..Len(amounts) /\ Len(amounts) \in Nat /\ IsFiniteSet(lines)
      /\ \A k \in lines : amounts[k] \in Nat
  BY SlotsFinite
<1>3. Total(amounts, lines) \in Nat /\ Total(direct, lines) \in Nat
  <2> HIDE DEF lines
  <2> QED BY <1>2, TotalNat DEF lines
<1>4. /\ DOMAIN spread = lines /\ \A k \in lines : spread[k] \in Nat /\ spread[k] <= amounts[k]
      /\ Total(spread, lines) = whole
  <2>1. whole <= Total(amounts, DOMAIN amounts)
    BY <1>3
  <2> HIDE DEF spread
  <2>2. spread = AllocateCapped[[total |-> whole, weights |-> amounts, caps |-> amounts]]
    BY DEF spread
  <2>3. SpreadJob(amounts, amounts, whole)
    BY <2>1 DEF SpreadJob
  <2>4. Fits(spread, amounts, whole)
    BY ONLY <2>2, <2>3, SpreadFits
  <2> QED BY <2>4 DEF Fits
<1> HIDE DEF spread
<1>5. \A k \in lines : /\ rawTaken[k] \in Nat /\ rawTaken[k] <= spread[k]
                       /\ rawTaken[k] <= amounts[k] - direct[k]
  <2> SUFFICES ASSUME NEW k \in lines
               PROVE  /\ rawTaken[k] \in Nat /\ rawTaken[k] <= spread[k]
                      /\ rawTaken[k] <= amounts[k] - direct[k]
    OBVIOUS
  <2> DEFINE a == amounts[k]
             d == direct[k]
             s == spread[k]
             t == rawTaken[k]
  <2>1. a \in Nat /\ d \in Nat /\ d <= a /\ s \in Nat
    BY <1>2, <1>4
  <2>2. t = Smaller(s, Larger(a - d, 0))
    OBVIOUS
  <2>3. SUFFICES t \in Nat /\ t <= s /\ t <= a - d
    OBVIOUS
  <2> HIDE DEF a, d, s, t
  <2> QED BY ONLY <2>1, <2>2 DEF Smaller, Larger
<1>6. taken = rawTaken /\ DOMAIN taken = lines
  <2>1. rawTaken \in [1..Len(amounts) -> Nat]
    BY <1>2, <1>5
  <2> HIDE DEF rawTaken
  <2> QED BY <1>2, <2>1, TupleIs
<1> HIDE DEF rawTaken, taken
<1>7. \A k \in lines : /\ rawRooms[k] = amounts[k] - direct[k] - taken[k] /\ rawRooms[k] \in Nat
  <2> SUFFICES ASSUME NEW k \in lines
               PROVE  rawRooms[k] = amounts[k] - direct[k] - taken[k] /\ rawRooms[k] \in Nat
    OBVIOUS
  <2> DEFINE a == amounts[k]
             d == direct[k]
             t == taken[k]
             r == rawRooms[k]
  <2>1. a \in Nat /\ d \in Nat /\ d <= a /\ t \in Nat /\ t <= a - d
    BY <1>2, <1>5, <1>6
  <2>2. r = Larger(a - d - t, 0)
    OBVIOUS
  <2>3. SUFFICES r = a - d - t /\ r \in Nat
    OBVIOUS
  <2> HIDE DEF a, d, t, r
  <2> QED BY ONLY <2>1, <2>2 DEF Larger
<1>8. rooms = rawRooms /\ rooms \in Seq(Nat) /\ DOMAIN rooms = lines
  <2>1. rawRooms \in [1..Len(amounts) -> Nat]
    BY <1>2, <1>7
  <2> HIDE DEF rawRooms
  <2> QED BY <1>2, <2>1, TupleIs
<1> HIDE DEF rawRooms, rooms
<1>9. Total(taken, lines) \in Nat /\ over \in Nat
  <2>1. \A k \in lines : taken[k] \in Nat /\ taken[k] \in Int /\ spread[k] \in Int /\ taken[k] <= spread[k]
    BY <1>4, <1>5, <1>6
  <2> HIDE DEF lines
  <2>2. Total(taken, lines) \in Nat /\ Total(taken, lines) <= Total(spread, lines)
    BY <1>2, <2>1, TotalNat, TotalAtMost
  <2> QED BY <1>4, <2>2
<1> HIDE DEF over
<1>10. Total(rooms, lines) = Total(amounts, lines) - Total(direct, lines) - Total(taken, lines)
  <2> DEFINE open == [k \in lines |-> amounts[k] - direct[k]]
  <2>1. \A k \in lines : /\ open[k] = amounts[k] - direct[k] /\ open[k] \in Int
                         /\ amounts[k] \in Int /\ direct[k] \in Int /\ taken[k] \in Int
                         /\ rooms[k] = open[k] - taken[k]
    BY <1>2, <1>5, <1>6, <1>7, <1>8
  <2> HIDE DEF open, lines
  <2>2. Total(open, lines) = Total(amounts, lines) - Total(direct, lines)
    BY <1>2, <2>1, TotalMinus
  <2>3. Total(rooms, lines) = Total(open, lines) - Total(taken, lines)
    BY <1>2, <2>1, TotalMinus
  <2> QED BY <2>2, <2>3
<1>11. over = whole - Total(taken, lines) /\ over <= Total(rooms, lines)
  <2>1. over = whole - Total(taken, lines)
    BY <1>4 DEF over
  <2> HIDE DEF lines
  <2> QED BY <1>3, <1>9, <1>10, <2>1 DEF lines
<1>12. /\ DOMAIN passed = lines /\ \A k \in lines : passed[k] \in Nat /\ passed[k] <= rooms[k]
       /\ Total(passed, lines) = over
  <2> HIDE DEF passed
  <2>1. passed = AllocateCapped[[total |-> over, weights |-> amounts, caps |-> rooms]]
    BY DEF passed
  <2>2. DOMAIN amounts = DOMAIN rooms /\ over <= Total(rooms, DOMAIN rooms)
    BY <1>8, <1>11
  <2>3. SpreadJob(rooms, amounts, over)
    BY <1>8, <1>9, <2>2 DEF SpreadJob
  <2>4. Fits(passed, rooms, over)
    BY ONLY <2>1, <2>3, SpreadFits
  <2> QED BY <1>8, <2>4 DEF Fits
<1> HIDE DEF passed
<1>13. \A k \in lines : /\ rawPaid[k] = direct[k] + taken[k] + passed[k]
                        /\ rawPaid[k] \in direct[k]..amounts[k]
                        /\ rawPaid[k] \in Nat
  <2> SUFFICES ASSUME NEW k \in lines
               PROVE  /\ rawPaid[k] = direct[k] + taken[k] + passed[k]
                      /\ rawPaid[k] \in direct[k]..amounts[k]
                      /\ rawPaid[k] \in Nat
    OBVIOUS
  <2> DEFINE a == amounts[k]
             d == direct[k]
             t == taken[k]
             m == passed[k]
             p == rawPaid[k]
  <2>1. a \in Nat /\ d \in Nat /\ t \in Nat /\ m \in Nat /\ m <= a - d - t
    BY <1>2, <1>5, <1>6, <1>7, <1>8, <1>12
  <2>2. p = d + t + m
    OBVIOUS
  <2>3. SUFFICES p = d + t + m /\ p \in d..a /\ p \in Nat
    OBVIOUS
  <2> HIDE DEF a, d, t, m, p
  <2> QED BY ONLY <2>1, <2>2
<1>14. paid = rawPaid
  <2>1. rawPaid \in [1..Len(amounts) -> Nat]
    BY <1>2, <1>13
  <2> HIDE DEF rawPaid
  <2> QED BY <1>1, <1>2, <2>1, TupleIs
<1> HIDE DEF rawPaid
<1>15. Total(paid, lines) = Total(direct, lines) + whole
  <2> DEFINE both == [k \in lines |-> direct[k] + taken[k]]
  <2>1. \A k \in lines : /\ both[k] = direct[k] + taken[k] /\ both[k] \in Int
                         /\ direct[k] \in Int /\ taken[k] \in Int /\ passed[k] \in Int
                         /\ paid[k] = both[k] + passed[k]
    <3> SUFFICES ASSUME NEW k \in lines
                 PROVE  /\ both[k] = direct[k] + taken[k] /\ both[k] \in Int
                        /\ direct[k] \in Int /\ taken[k] \in Int /\ passed[k] \in Int
                        /\ paid[k] = both[k] + passed[k]
      OBVIOUS
    <3>1. both[k] = direct[k] + taken[k]
      OBVIOUS
    <3>2. direct[k] \in Nat /\ taken[k] \in Nat /\ passed[k] \in Nat
      BY <1>5, <1>6, <1>12
    <3>3. paid[k] = direct[k] + taken[k] + passed[k]
      BY <1>13, <1>14
    <3> HIDE DEF both, lines
    <3> QED BY ONLY <3>1, <3>2, <3>3
  <2> HIDE DEF both, lines
  <2>2. Total(both, lines) = Total(direct, lines) + Total(taken, lines)
    BY <1>2, <2>1, TotalPlus
  <2>3. Total(paid, lines) = Total(both, lines) + Total(passed, lines)
    BY <1>2, <2>1, TotalPlus
  <2> QED BY <1>3, <1>9, <1>11, <1>12, <2>2, <2>3
<1> QED BY <1>13, <1>14, <1>15

-----------------------------------------------------------------------------
(* Types.                                                                  *)

Names == {who.name : who \in Walkins} \cup {Register[r].who.name : r \in Refs}
Cins == {Register[r].who.cin : r \in Refs} \cup {Unknown}
Phones == {who.phone : who \in Walkins} \cup {Register[r].who.phone : r \in Refs}

\* A client typed in at a sale has the sale's id here, one that an import
\* creates the loan's.
ClientRow == [id : Invoices, name : Names, cin : Cins, phones : SUBSET Phones,
              batch : Batches \cup {0}]
InvoiceRow == [state : {"none", "gone", "draft", "sent", "paid", "cancelled"},
               client : Invoices \cup {Unknown}, lines : Seq(Nat), total : Nat, units : Nat]
PaymentRow == [doc : Invoices, line : Nat, amount : Nat, status : {"posted", "voided"}]

Import == {r \in [op : {"import"}, batch : Batches, refs : Seq(Refs),
                  new : SUBSET ClientRow, of : Seq(Invoices)] : Len(r.of) = Len(r.refs)}
Request == {Free}
      \cup [op : {"state"}, doc : Sales, to : {"draft", "sent", "paid", "cancelled"}, plan : BOOLEAN]
      \cup [op : {"loan"}, doc : Loans, to : {"sent", "paid"}, from : {"sent", "paid"}]
      \cup Import
      \cup [op : {"undo"}, batch : Batches]

RowsTyped ==
  /\ inv \in [Invoices -> InvoiceRow]
  /\ pays \in Seq(PaymentRow)
  /\ ar \in [Invoices -> Nat]
  /\ moved \in [Sales -> Int]
  /\ cogs \subseteq Sales
  /\ clients \subseteq ClientRow
  /\ booked \subseteq Invoices \cup {Unknown}
  /\ undone \subseteq Batches
  /\ stale \subseteq Sales

CashTypeOK == RowsTyped /\ held \in [Cashiers -> Request]

-----------------------------------------------------------------------------
(* The plan of an import, a loan at a time.                                *)

Plans == {p \in [ok : BOOLEAN, refs : Seq(Refs), new : SUBSET ClientRow, of : Seq(Invoices)] :
            Len(p.of) = Len(p.refs)}

EmptyPlan(file) == [ok |-> CinsAgree(file), refs |-> <<>>, new |-> {}, of |-> <<>>]

\* g is the plan after each loan of the file.
Planned(g, file, b, n) ==
  g = [k \in 0..n |-> IF k = 0 THEN EmptyPlan(file) ELSE PlanLoan(g[k - 1], file[k], b)]

LEMMA PlanDef ==
  ASSUME NEW file, NEW b
  PROVE  PlanImport(file, b) = (CHOOSE g : Planned(g, file, b, Len(file)))[Len(file)]
BY DEF PlanImport, Planned, EmptyPlan

LEMMA PlannedAt ==
  ASSUME NEW file, NEW b, NEW n \in Nat, NEW g, Planned(g, file, b, n), NEW k \in 0..n
  PROVE  /\ k = 0 => g[k] = EmptyPlan(file)
         /\ k # 0 => g[k] = PlanLoan(g[k - 1], file[k], b)
<1> DEFINE G(j) == IF j = 0 THEN EmptyPlan(file) ELSE PlanLoan(g[j - 1], file[j], b)
<1>1. g = [j \in 0..n |-> G(j)]
  BY DEF Planned
<1> HIDE DEF G
<1>2. g[k] = G(k)
  BY <1>1
<1> QED BY <1>2 DEF G

LEMMA PlanExists ==
  ASSUME NEW file, NEW b, NEW n \in Nat
  PROVE  \E g : Planned(g, file, b, n)
<1> DEFINE T == {m \in Nat : ~\E g : Planned(g, file, b, m)}
<1>1. SUFFICES ASSUME T # {} PROVE FALSE
  OBVIOUS
<1>2. PICK m \in T : \A k \in T : m <= k
  <2>1. T \subseteq Nat
    OBVIOUS
  <2> HIDE DEF T
  <2> QED BY <1>1, <2>1, LeastOf
<1>3. m \in Nat
  OBVIOUS
<1>4. m # 0
  <2> SUFFICES ASSUME m = 0 PROVE FALSE
    OBVIOUS
  <2> DEFINE g == [k \in 0..0 |-> EmptyPlan(file)]
  <2>1. \A k \in 0..0 : k = 0
    OBVIOUS
  <2>2. g = [k \in 0..0 |-> IF k = 0 THEN EmptyPlan(file) ELSE PlanLoan(g[k - 1], file[k], b)]
    BY <2>1
  <2> HIDE DEF g
  <2>3. Planned(g, file, b, 0)
    BY <2>2 DEF Planned
  <2> QED BY <2>3
<1>5. m - 1 \in Nat /\ ~(m <= m - 1)
  BY <1>3, <1>4
<1>6. PICK g : Planned(g, file, b, m - 1)
  BY <1>2, <1>5
<1> DEFINE h == [k \in 0..m |-> IF k = m THEN PlanLoan(g[m - 1], file[m], b) ELSE g[k]]
<1>7. ASSUME NEW k \in 0..m
      PROVE  h[k] = IF k = 0 THEN EmptyPlan(file) ELSE PlanLoan(h[k - 1], file[k], b)
  <2>1. CASE k = m
    <3>1. m - 1 \in 0..m /\ m - 1 # m
      BY <1>5
    <3>2. h[k] = PlanLoan(g[m - 1], file[m], b) /\ h[m - 1] = g[m - 1]
      BY <2>1, <3>1
    <3> QED BY <1>4, <2>1, <3>2
  <2>2. CASE k # m
    <3>1. k \in 0..(m - 1) /\ h[k] = g[k]
      BY <2>2
    <3>2. k # 0 => /\ k - 1 \in 0..m /\ k - 1 # m
                  /\ h[k - 1] = g[k - 1]
      BY <3>1
    <3>3. /\ k = 0 => g[k] = EmptyPlan(file)
          /\ k # 0 => g[k] = PlanLoan(g[k - 1], file[k], b)
      <4>1. m - 1 \in Nat /\ Planned(g, file, b, m - 1) /\ k \in 0..(m - 1)
        BY <1>5, <1>6, <3>1
      <4> QED BY ONLY <4>1, PlannedAt
    <3> QED BY <3>1, <3>2, <3>3
  <2> QED BY <2>1, <2>2
<1>8. Planned(h, file, b, m)
  <2> DEFINE H(k) == IF k = 0 THEN EmptyPlan(file) ELSE PlanLoan(h[k - 1], file[k], b)
  <2>1. \A k \in 0..m : h[k] = H(k)
    BY <1>7
  <2>2. h = [k \in 0..m |-> h[k]]
    OBVIOUS
  <2> HIDE DEF h, H
  <2>3. h = [k \in 0..m |-> H(k)]
    BY <2>1, <2>2
  <2> QED BY <2>3 DEF H, Planned
<1> HIDE DEF h
<1> QED BY <1>2, <1>8

\* A match is one of the clients looked at.
LEMMA MatchHits ==
  ASSUME NEW rows, NEW who
  PROVE  Match(rows, who).hit \subseteq rows
<1> DEFINE byCin == {c \in rows : who.cin # Unknown /\ c.cin = who.cin}
           named == {c \in rows : c.name = who.name}
           both == {c \in named : who.phone \in c.phones}
           one == {[ok |-> Cardinality(byCin) = 1, hit |-> byCin],
                   [ok |-> Cardinality(both) = 1, hit |-> both],
                   [ok |-> Cardinality({}) = 1, hit |-> {}],
                   [ok |-> TRUE, hit |-> {}],
                   [ok |-> Cardinality(named) = 1, hit |-> named]}
<1>1. Match(rows, who) \in one
  BY DEF Match
<1>2. \A m \in one : m.hit \subseteq rows
  OBVIOUS
<1> HIDE DEF one
<1> QED BY <1>1, <1>2

LEMMA PlanLoanType ==
  ASSUME RowsTyped, NEW plan \in Plans, NEW r \in Refs, NEW b \in Batches
  PROVE  PlanLoan(plan, r, b) \in Plans
<1> DEFINE who == Register[r].who
           m == Match(clients \cup plan.new, who)
           hit == CHOOSE c \in m.hit : TRUE
           new == IF m.hit = {} THEN plan.new \cup {NewClient(r, b, who)}
                  ELSE IF hit \in plan.new THEN (plan.new \ {hit}) \cup {Enriched(hit, who)}
                  ELSE plan.new
           id == IF m.hit = {} THEN <<r, b>> ELSE hit.id
           next == [ok |-> plan.ok, refs |-> Append(plan.refs, r), new |-> new,
                    of |-> Append(plan.of, id)]
<1>1. plan \in [ok : BOOLEAN, refs : Seq(Refs), new : SUBSET ClientRow, of : Seq(Invoices)]
      /\ Len(plan.of) = Len(plan.refs)
  BY DEF Plans
<1>2. <<r, b>> \in Invoices
  BY DEF Invoices, Loans
<1>3. who.name \in Names /\ who.cin \in Cins /\ {who.phone} \ {Unknown} \in SUBSET Phones
  BY DEF Names, Cins, Phones
<1>4. m.hit # {} => hit \in ClientRow
  <2>1. m.hit \subseteq ClientRow
    BY <1>1, MatchHits DEF RowsTyped
  <2> HIDE DEF m
  <2> QED BY <2>1
<1> HIDE DEF who, m, hit
<1>5. NewClient(r, b, who) \in ClientRow
  BY <1>2, <1>3 DEF NewClient, ClientRow
<1>6. ASSUME NEW row \in ClientRow PROVE Enriched(row, who) \in ClientRow
  <2> DEFINE cin == IF row.cin = Unknown THEN who.cin ELSE row.cin
             phones == IF Cardinality(row.phones) < 2 THEN row.phones \cup ({who.phone} \ {Unknown})
                       ELSE row.phones
  <2>1. Enriched(row, who) = [row EXCEPT !.cin = cin, !.phones = phones]
    BY DEF Enriched
  <2>2. cin \in Cins
    BY <1>3 DEF ClientRow
  <2>3. phones \in SUBSET Phones
    BY <1>3 DEF ClientRow
  <2> HIDE DEF cin, phones
  <2> QED BY <2>1, <2>2, <2>3 DEF ClientRow
<1>7. new \in SUBSET ClientRow
  BY <1>1, <1>4, <1>5, <1>6
<1>8. id \in Invoices
  BY <1>2, <1>4 DEF ClientRow
<1>9. PlanLoan(plan, r, b) = IF Imported(r) THEN plan
                             ELSE IF ~m.ok THEN [plan EXCEPT !.ok = FALSE] ELSE next
  BY DEF PlanLoan, who, m, hit
<1> HIDE DEF new, id
<1>10. next \in Plans
  <2>1. /\ Append(plan.refs, r) \in Seq(Refs) /\ Append(plan.of, id) \in Seq(Invoices)
        /\ Len(Append(plan.refs, r)) = Len(plan.refs) + 1
        /\ Len(Append(plan.of, id)) = Len(plan.of) + 1
    BY <1>1, <1>8
  <2> QED BY <1>1, <1>7, <2>1 DEF Plans
<1>11. [plan EXCEPT !.ok = FALSE] \in Plans
  BY <1>1 DEF Plans
<1> QED BY <1>9, <1>10, <1>11

LEMMA PlanTyped ==
  ASSUME RowsTyped, NEW file \in Files, NEW b \in Batches
  PROVE  PlanImport(file, b) \in Plans
<1> DEFINE n == Len(file)
           g == CHOOSE f : Planned(f, file, b, n)
           T == {k \in 0..n : g[k] \notin Plans}
<1>1. n \in Nat /\ file \in Seq(Refs)
  BY CashAssumption
<1>2. Planned(g, file, b, n)
  BY <1>1, PlanExists
<1>3. PlanImport(file, b) = g[n]
  BY PlanDef
<1> HIDE DEF g, n
<1>4. SUFFICES ASSUME T # {} PROVE FALSE
  <2>1. n \in 0..n
    BY <1>1
  <2> QED BY <1>3, <2>1
<1>5. PICK m \in T : \A k \in T : m <= k
  <2>1. T \subseteq Nat
    BY <1>1
  <2> HIDE DEF T
  <2> QED BY <1>4, <2>1, LeastOf
<1>6. m \in 0..n /\ g[m] \notin Plans
  OBVIOUS
<1>7. CASE m = 0
  <2>1. g[m] = EmptyPlan(file)
    <3>1. n \in Nat /\ Planned(g, file, b, n) /\ m \in 0..n
      BY <1>1, <1>2, <1>6
    <3>2. /\ m = 0 => g[m] = EmptyPlan(file)
          /\ m # 0 => g[m] = PlanLoan(g[m - 1], file[m], b)
      BY ONLY <3>1, PlannedAt
    <3> QED BY <1>7, <3>2
  <2>2. EmptyPlan(file) \in Plans
    BY DEF EmptyPlan, Plans, CinsAgree
  <2> QED BY <1>6, <2>1, <2>2
<1>8. CASE m # 0
  <2>1. m - 1 \in 0..n /\ ~(m <= m - 1)
    BY <1>1, <1>6, <1>8
  <2>2. g[m - 1] \in Plans
    BY <1>5, <2>1
  <2>3. g[m] = PlanLoan(g[m - 1], file[m], b)
    BY <1>1, <1>2, <1>6, <1>8, PlannedAt
  <2>4. file[m] \in Refs
    BY <1>1, <1>6, <1>8 DEF n
  <2> QED BY <1>6, <2>2, <2>3, <2>4, PlanLoanType
<1> QED BY <1>7, <1>8

-----------------------------------------------------------------------------
(* The ways a step may change the rows: requests only read and write.      *)

Rows == <<inv, pays, ar, moved, cogs, clients, booked, undone, stale>>

Sold(s, basket) ==
  \E received \in Nat : SaleToClient(s, basket, received) \/ SaleToWalkin(s, basket, received)

\* A collection is no more than the line it names, or else the invoice, owes.
Covered(d, k, a) ==
  \/ k \in DOMAIN inv[d].lines /\ a <= Outstanding(d, k)
  \/ k = 0 /\ a <= inv[d].total - Paid(d)

Made(d) == inv[d].state # "none"

RowStep ==
  \/ \E s \in Sales, basket \in Baskets : Sold(s, basket)
  \/ \E s \in Sales, basket \in Baskets, row \in clients : CreateInvoice(s, basket, row.id)
  \/ \E d \in Invoices, k \in Nat, a \in Nat \ {0} : Collect(d, k, a) /\ Covered(d, k, a)
  \/ \E p \in DOMAIN pays : VoidPayment(p)
  \/ \E s \in Sales : DeleteInvoice(s)
  \/ \E row \in clients : DeleteClient(row)
  \/ \E c \in Cashiers, s \in Sales, to \in {"draft", "sent", "paid", "cancelled"}, plan \in BOOLEAN :
       Made(s) /\ UpdateStateWrite(c, s, to, plan)
  \/ \E c \in Cashiers, d \in Loans, to, from \in {"sent", "paid"} : UpdateLoanStateWrite(c, d, to, from)
  \/ \E c \in Cashiers, r \in Import : ImportWrite(c, r.batch, r.refs, r.new, r.of)
  \/ \E c \in Cashiers, b \in Batches : UndoWrite(c, b)
  \/ UNCHANGED Rows

\* A state change is parked only for a sale that has been made.
MadeFirst == \A c \in Cashiers : held[c].op = "state" => Made(held[c].doc)

LEMMA FinishIs ==
  ASSUME CashTypeOK, MadeFirst, NEW c \in Cashiers, Finish(c)
  PROVE  RowStep
<1> DEFINE r == held[c]
<1>1. r \in Request
  BY DEF CashTypeOK
<1>2. CASE r.op = "state" /\ UpdateStateWrite(c, r.doc, r.to, r.plan)
  <2>1. r \in [op : {"state"}, doc : Sales, to : {"draft", "sent", "paid", "cancelled"}, plan : BOOLEAN]
    BY <1>1, <1>2 DEF Request, Free, Import
  <2>3. Made(r.doc)
    BY <1>2 DEF MadeFirst
  <2> HIDE DEF r
  <2>2. r.doc \in Sales /\ r.to \in {"draft", "sent", "paid", "cancelled"} /\ r.plan \in BOOLEAN
    BY <2>1
  <2> QED BY <1>2, <2>2, <2>3 DEF RowStep
<1>3. CASE r.op = "loan" /\ UpdateLoanStateWrite(c, r.doc, r.to, r.from)
  <2>1. r \in [op : {"loan"}, doc : Loans, to : {"sent", "paid"}, from : {"sent", "paid"}]
    BY <1>1, <1>3 DEF Request, Free, Import
  <2> HIDE DEF r
  <2>2. r.doc \in Loans /\ r.to \in {"sent", "paid"} /\ r.from \in {"sent", "paid"}
    BY <2>1
  <2> QED BY <1>3, <2>2 DEF RowStep
<1>4. CASE r.op = "import" /\ ImportWrite(c, r.batch, r.refs, r.new, r.of)
  <2>1. r \in Import
    BY <1>1, <1>4 DEF Request, Free
  <2> HIDE DEF r
  <2> QED BY <1>4, <2>1 DEF RowStep
<1>5. CASE r.op = "undo" /\ UndoWrite(c, r.batch)
  <2>1. r \in [op : {"undo"}, batch : Batches]
    BY <1>1, <1>5 DEF Request, Free, Import
  <2> HIDE DEF r
  <2>2. r.batch \in Batches
    BY <2>1
  <2> QED BY <1>5, <2>2 DEF RowStep
<1>6. CASE Fail(c)
  BY <1>6 DEF Fail, RowStep, Rows
<1> QED BY <1>2, <1>3, <1>4, <1>5, <1>6 DEF Finish

LEMMA AmountsAreCents == Amounts \subseteq Nat \ {0}
BY CashAssumption, Zenon

LEMMA StepIs == CashTypeOK /\ MadeFirst /\ [CashNext]_cashVars => RowStep
<1> SUFFICES ASSUME CashTypeOK, MadeFirst, [CashNext]_cashVars PROVE RowStep
  OBVIOUS
<1>1. CASE Invoice
  BY <1>1 DEF Invoice, RowStep
<1>2. CASE Sell
  <2>1. PICK s \in Sales, basket \in Baskets, received \in Amounts \cup {0} :
          SaleToClient(s, basket, received) \/ SaleToWalkin(s, basket, received)
    BY <1>2 DEF Sell
  <2>2. received \in Nat
    BY AmountsAreCents
  <2>3. Sold(s, basket)
    BY <2>1, <2>2 DEF Sold
  <2> QED BY <2>3 DEF RowStep
<1>3. CASE Pay
  <2>1. PICK d \in Invoices, a \in Amounts :
          (\E k \in DOMAIN inv[d].lines : CreateCashSalePayment(d, k, a)) \/ CreatePayment(d, a)
    BY <1>3 DEF Pay
  <2>2. a \in Nat \ {0}
    BY CashAssumption
  <2>3. DOMAIN inv[d].lines \subseteq Nat
    <3>1. inv[d].lines \in Seq(Nat)
      BY DEF CashTypeOK, RowsTyped, InvoiceRow
    <3> QED BY <3>1
  <2>4. \E k \in Nat : Collect(d, k, a) /\ Covered(d, k, a)
    <3>1. 0 \in Nat
      OBVIOUS
    <3> QED BY <2>1, <2>3, <3>1 DEF CreateCashSalePayment, CreatePayment, Covered
  <2> QED BY <2>2, <2>4 DEF RowStep
<1>4. CASE Void
  BY <1>4 DEF Void, RowStep
<1>5. CASE Drop
  BY <1>5 DEF Drop, RowStep
<1>6. ASSUME NEW c \in Cashiers, StartState(c) \/ StartLoanState(c) \/ StartImport(c) \/ StartUndo(c)
      PROVE  RowStep
  <2>1. UNCHANGED Rows
    BY <1>6 DEF StartState, StartLoanState, StartImport, StartUndo, UpdateStateRead,
                UpdateLoanStateRead, ImportRead, UndoRead, Rows
  <2> QED BY <2>1 DEF RowStep
<1>7. ASSUME NEW c \in Cashiers, Finish(c) PROVE RowStep
  BY <1>7, FinishIs
<1>8. CASE UNCHANGED cashVars
  BY <1>8 DEF cashVars, RowStep, Rows
<1> QED BY <1>1, <1>2, <1>3, <1>4, <1>5, <1>6, <1>7, <1>8 DEF CashNext

-----------------------------------------------------------------------------
(* Rows keep their types.                                                  *)

States == {"none", "gone", "draft", "sent", "paid", "cancelled"}

\* rows is inv with d in another state.
Restates(rows, d, state) ==
  /\ rows \in [Invoices -> InvoiceRow]
  /\ \A e \in Invoices : e # d => rows[e] = inv[e]
  /\ rows[d].state = state /\ rows[d].client = inv[d].client /\ rows[d].lines = inv[d].lines
  /\ rows[d].total = inv[d].total /\ rows[d].units = inv[d].units

LEMMA Restated ==
  ASSUME RowsTyped, NEW d \in Invoices, NEW state \in States
  PROVE  Restates([inv EXCEPT ![d].state = state], d, state)
<1> DEFINE row == [inv[d] EXCEPT !.state = state]
           rows == [inv EXCEPT ![d] = row]
<1>1. [inv EXCEPT ![d].state = state] = rows
  OBVIOUS
<1>2. inv \in [Invoices -> InvoiceRow] /\ inv[d] \in InvoiceRow
  BY DEF RowsTyped
<1>3. /\ row \in InvoiceRow /\ row.state = state /\ row.client = inv[d].client
      /\ row.lines = inv[d].lines /\ row.total = inv[d].total /\ row.units = inv[d].units
  BY <1>2 DEF InvoiceRow, States
<1> HIDE DEF row
<1>4. rows \in [Invoices -> InvoiceRow] /\ rows[d] = row /\ \A e \in Invoices : e # d => rows[e] = inv[e]
  BY <1>2, <1>3
<1> HIDE DEF rows
<1>5. Restates(rows, d, state)
  BY <1>3, <1>4 DEF Restates
<1> QED BY <1>1, <1>5

LEMMA BlankRow == NoRow \in InvoiceRow
<1>1. <<0>> \in Seq(Nat)
  OBVIOUS
<1> QED BY <1>1 DEF NoRow, InvoiceRow

\* A deleted row, as a request that read it carries it on.
LEMMA GoneIs ==
  ASSUME RowsTyped, NEW d \in Invoices
  PROVE  /\ Gone(d) \in InvoiceRow /\ Gone(d).state = "gone" /\ Gone(d).client = inv[d].client
         /\ Gone(d).lines = inv[d].lines /\ Gone(d).total = inv[d].total
         /\ Gone(d).units = inv[d].units
<1>1. inv[d] \in InvoiceRow
  BY DEF RowsTyped
<1> QED BY <1>1 DEF Gone, InvoiceRow

\* The row of a sale or of a draft, whose client is on file.
LEMMA SaleRow ==
  ASSUME NEW basket \in Baskets, NEW client \in Invoices, NEW state \in States, NEW units \in Nat
  PROVE  [state |-> state, client |-> client, lines |-> LineAmounts(basket.net, basket.total),
          total |-> basket.total, units |-> units] \in InvoiceRow
<1>1. basket.net \in Seq(Int) /\ basket.total \in Nat /\ basket.total \in Int
  BY CashAssumption
<1>2. LineAmounts(basket.net, basket.total) \in Seq(Nat)
  BY <1>1, LineAmountsFit
<1> QED BY <1>1, <1>2 DEF InvoiceRow, States

LEMMA LineSumType ==
  ASSUME NEW r \in Refs
  PROVE  LineSum(r) \in Nat /\ Owed(r) \in Nat /\ Register[r].paid \in Nat
         /\ LineSum(r) = Owed(r) + Register[r].paid
<1>1. Register[r].net \in Seq(Int) /\ Register[r].paid \in Nat /\ Owed(r) \in Nat
  BY CashAssumption
<1>2. IsFiniteSet(DOMAIN Register[r].net)
  <2>1. DOMAIN Register[r].net = 1..Len(Register[r].net) /\ Len(Register[r].net) \in Nat
    BY <1>1
  <2> QED BY <2>1, FS_Interval
<1>3. \A k \in DOMAIN Register[r].net : Register[r].net[k] \in Int
  BY <1>1
<1>4. LineSum(r) \in Int
  BY <1>2, <1>3, TotalType DEF LineSum
<1> QED BY <1>1, <1>4 DEF Owed

LEMMA LoanRowIs ==
  ASSUME NEW r \in Refs, NEW client \in Invoices
  PROVE  /\ LoanRow(r, client) \in InvoiceRow
         /\ LoanRow(r, client).state \in {"sent", "paid"} /\ LoanRow(r, client).client = client
         /\ LoanRow(r, client).total = LineSum(r) /\ LoanRow(r, client).units = 0
<1>1. Register[r].net \in Seq(Int) /\ LineSum(r) \in Nat /\ LineSum(r) \in Int
  BY LineSumType, CashAssumption
<1>2. LineAmounts(Register[r].net, LineSum(r)) \in Seq(Nat)
  BY <1>1, LineAmountsFit
<1> QED BY <1>1, <1>2 DEF LoanRow, InvoiceRow

LEMMA CreateTypes ==
  ASSUME RowsTyped, NEW s \in Sales, NEW basket \in Baskets, NEW client \in Invoices,
         NEW received \in Nat, CreateCashSale(s, basket, client, received)
  PROVE  /\ inv' \in [Invoices -> InvoiceRow] /\ pays' \in Seq(PaymentRow) /\ ar' \in [Invoices -> Nat]
         /\ moved' \in [Sales -> Int] /\ cogs' \subseteq Sales
         /\ booked' \subseteq Invoices \cup {Unknown} /\ undone' \subseteq Batches /\ stale' \subseteq Sales
<1>1. s \in Invoices /\ basket.total \in Nat /\ basket.units \in Nat /\ basket.units \in Int
  BY CashAssumption DEF Invoices
<1> DEFINE state == IF received = basket.total THEN "paid" ELSE "sent"
           row == [state |-> state, client |-> client,
                   lines |-> LineAmounts(basket.net, basket.total), total |-> basket.total,
                   units |-> basket.units]
<1>2. state \in States
  BY DEF States
<1> HIDE DEF state
<1>3. row \in InvoiceRow
  BY <1>1, <1>2, SaleRow
<1>4. inv' = [inv EXCEPT ![s] = row]
  BY DEF CreateCashSale, state
<1> HIDE DEF row
<1>5. inv' \in [Invoices -> InvoiceRow]
  BY <1>3, <1>4 DEF RowsTyped
<1>6. pays' \in Seq(PaymentRow)
  <2>1. Payment(s, 0, received) \in PaymentRow
    BY <1>1 DEF Payment, PaymentRow
  <2>2. pays' = pays \/ pays' = Append(pays, Payment(s, 0, received))
    BY DEF CreateCashSale
  <2>3. pays \in Seq(PaymentRow)
    BY DEF RowsTyped
  <2>4. Append(pays, Payment(s, 0, received)) \in Seq(PaymentRow)
    BY <2>1, <2>3
  <2> QED BY <2>2, <2>3, <2>4
<1>7. ar' \in [Invoices -> Nat] /\ moved' \in [Sales -> Int]
  BY <1>1 DEF CreateCashSale, RowsTyped
<1> QED BY <1>5, <1>6, <1>7 DEF CreateCashSale, RowsTyped

LEMMA SoldTypes ==
  ASSUME RowsTyped, NEW s \in Sales, NEW basket \in Baskets, Sold(s, basket)
  PROVE  RowsTyped'
<1>1. PICK received \in Nat : SaleToClient(s, basket, received) \/ SaleToWalkin(s, basket, received)
  BY DEF Sold
<1>2. CASE SaleToClient(s, basket, received)
  <2>1. PICK row \in clients : CreateCashSale(s, basket, row.id, received) /\ UNCHANGED clients
    BY <1>2 DEF SaleToClient
  <2>2. row.id \in Invoices
    BY DEF RowsTyped, ClientRow
  <2> QED BY <2>1, <2>2, CreateTypes DEF RowsTyped
<1>3. CASE SaleToWalkin(s, basket, received)
  <2> DEFINE row(who) == [id |-> s, name |-> who.name, cin |-> Unknown,
                          phones |-> {who.phone} \ {Unknown}, batch |-> 0]
  <2>1. PICK who \in Walkins : /\ CreateCashSale(s, basket, s, received)
                               /\ clients' = clients \cup {row(who)}
    BY <1>3 DEF SaleToWalkin
  <2>2. s \in Invoices
    BY DEF Invoices
  <2>3. row(who) \in ClientRow
    BY <2>2 DEF ClientRow, Names, Cins, Phones
  <2> HIDE DEF row
  <2>4. clients' \subseteq ClientRow
    BY <2>1, <2>3 DEF RowsTyped
  <2> QED BY <2>1, <2>2, <2>4, CreateTypes DEF RowsTyped
<1> QED BY <1>1, <1>2, <1>3

LEMMA CollectTypes ==
  ASSUME RowsTyped, NEW d \in Invoices, NEW k \in Nat, NEW a \in Nat, Collect(d, k, a)
  PROVE  RowsTyped' /\ \E state \in States : /\ Restates(inv', d, state)
                                            /\ Issued(d) /\ state \in {"sent", "paid"}
<1>1. Payment(d, k, a) \in PaymentRow
  BY DEF Payment, PaymentRow
<1>2. SettledBy(d, a) \in {"sent", "paid"} /\ SettledBy(d, a) \in States
  BY DEF SettledBy, Collect, Issued, States
<1>3. Restates(inv', d, SettledBy(d, a))
  BY <1>2, Restated DEF Collect
<1>4. inv[d].client \in Invoices \cup {Unknown}
  BY DEF RowsTyped, InvoiceRow
<1>5. RowsTyped'
  BY <1>1, <1>3, <1>4 DEF Collect, RowsTyped, Restates
<1> QED BY <1>2, <1>3, <1>5 DEF Collect

LEMMA VoidTypes ==
  ASSUME RowsTyped, NEW p \in DOMAIN pays, VoidPayment(p)
  PROVE  /\ RowsTyped'
         /\ pays[p].doc \in Invoices
         /\ inv' = inv \/ (Restates(inv', pays[p].doc, "sent") /\ inv[pays[p].doc].state = "paid")
<1> DEFINE d == pays[p].doc
<1>1. pays[p] \in PaymentRow
  BY DEF RowsTyped
<1>2. d \in Invoices
  BY <1>1 DEF PaymentRow
<1>3. "sent" \in States
  BY DEF States
<1> HIDE DEF d
<1>4. \/ inv' = inv
      \/ inv' = [inv EXCEPT ![d].state = "sent"] /\ inv[d].state = "paid"
  BY DEF VoidPayment, d
<1>5. inv' = inv \/ (Restates(inv', d, "sent") /\ inv[d].state = "paid")
  BY <1>2, <1>3, <1>4, Restated
<1>6. pays' \in Seq(PaymentRow)
  <2> DEFINE row == [pays[p] EXCEPT !.status = "voided"]
  <2>1. row \in PaymentRow
    BY <1>1 DEF PaymentRow
  <2>2. pays' = [pays EXCEPT ![p] = row]
    BY DEF VoidPayment
  <2>3. pays \in [1..Len(pays) -> PaymentRow] /\ Len(pays) \in Nat
    BY DEF RowsTyped
  <2> HIDE DEF row
  <2>4. pays' \in [1..Len(pays) -> PaymentRow]
    BY <2>1, <2>2, <2>3
  <2> QED BY <2>3, <2>4
<1>7. RowsTyped'
  BY <1>5, <1>6 DEF VoidPayment, RowsTyped, Restates
<1> QED BY <1>2, <1>5, <1>7 DEF d

LEMMA DraftTypes ==
  ASSUME RowsTyped, NEW s \in Sales, NEW basket \in Baskets, NEW client \in Invoices,
         CreateInvoice(s, basket, client)
  PROVE  RowsTyped'
<1> DEFINE row == [state |-> "draft", client |-> client,
                   lines |-> LineAmounts(basket.net, basket.total), total |-> basket.total,
                   units |-> 0]
<1>1. row \in InvoiceRow
  <2>1. "draft" \in States /\ 0 \in Nat
    BY DEF States
  <2> QED BY <2>1, SaleRow
<1>2. inv' = [inv EXCEPT ![s] = row]
  BY DEF CreateInvoice
<1> HIDE DEF row
<1>3. inv' \in [Invoices -> InvoiceRow]
  BY <1>1, <1>2 DEF RowsTyped
<1> QED BY <1>3 DEF CreateInvoice, RowsTyped

LEMMA DropTypes ==
  ASSUME RowsTyped,
         (\E s \in Sales : DeleteInvoice(s)) \/ (\E row \in clients : DeleteClient(row))
  PROVE  RowsTyped'
<1>1. ASSUME NEW s \in Sales, DeleteInvoice(s) PROVE RowsTyped'
  <2>1. inv' \in [Invoices -> InvoiceRow]
    BY <1>1, GoneIs DEF DeleteInvoice, RowsTyped, Invoices
  <2> QED BY <1>1, <2>1 DEF DeleteInvoice, RowsTyped
<1>2. ASSUME NEW row \in clients, DeleteClient(row) PROVE RowsTyped'
  <2>1. inv' \in [Invoices -> InvoiceRow]
    BY <1>2, GoneIs DEF DeleteClient, RowsTyped
  <2> QED BY <1>2, <2>1 DEF DeleteClient, RowsTyped
<1> QED BY <1>1, <1>2

LEMMA StateWriteTypes ==
  ASSUME RowsTyped, NEW c, NEW s \in Sales,
         NEW to \in {"draft", "sent", "paid", "cancelled"}, NEW plan \in BOOLEAN,
         UpdateStateWrite(c, s, to, plan)
  PROVE  /\ RowsTyped'
         /\ \/ Stands(s) /\ Restates(inv', s, to) /\ stale' = stale
            \/ ~Stands(s) /\ inv' = inv /\ stale' = stale \cup {s}
<1>1. s \in Invoices /\ to \in States
  BY DEF Invoices, States
<1>2. \/ Stands(s) /\ Restates(inv', s, to) /\ stale' = stale
      \/ ~Stands(s) /\ inv' = inv /\ stale' = stale \cup {s}
  BY <1>1, Restated DEF UpdateStateWrite, RestateSale
<1>3. inv[s].total \in Nat /\ inv[s].units \in Nat /\ inv[s].client \in Invoices \cup {Unknown}
  BY <1>1 DEF RowsTyped, InvoiceRow
<1>4. ar' \in [Invoices -> Nat] /\ booked' \subseteq Invoices \cup {Unknown}
  BY <1>3 DEF UpdateStateWrite, EntryFollows, RowsTyped
<1>5. moved' \in [Sales -> Int] /\ cogs' \subseteq Sales
  <2>1. StockFollows(s, to \in {"sent", "paid"}, plan)
    BY DEF UpdateStateWrite
  <2> QED BY <1>3, <2>1 DEF StockFollows, RowsTyped
<1>6. inv' \in [Invoices -> InvoiceRow] /\ stale' \subseteq Sales
  BY <1>2 DEF RowsTyped, Restates
<1> QED BY <1>2, <1>4, <1>5, <1>6 DEF UpdateStateWrite, RowsTyped

LEMMA LoanWriteTypes ==
  ASSUME RowsTyped, NEW c, NEW d \in Loans, NEW to \in {"sent", "paid"},
         NEW from \in {"sent", "paid"}, UpdateLoanStateWrite(c, d, to, from)
  PROVE  RowsTyped' /\ Restates(inv', d, to)
<1>1. d \in Invoices /\ to \in States
  BY DEF Invoices, States
<1>2. Restates(inv', d, to)
  BY <1>1, Restated DEF UpdateLoanStateWrite
<1> QED BY <1>2 DEF UpdateLoanStateWrite, RowsTyped, Restates

\* What an import writes for each of its loans, and for which client.
Brought(r) == {<<r.refs[i], r.batch>> : i \in DOMAIN r.refs}
LoanAt(r, d) == CHOOSE i \in DOMAIN r.refs : r.refs[i] = d[1]

LEMMA BroughtIs ==
  ASSUME NEW r \in Import, NEW d \in Brought(r)
  PROVE  /\ d \in Loans /\ d \in Invoices /\ d[1] \in Refs /\ d[2] = r.batch
         /\ LoanAt(r, d) \in DOMAIN r.refs /\ r.refs[LoanAt(r, d)] = d[1]
         /\ LoanAt(r, d) \in DOMAIN r.of /\ r.of[LoanAt(r, d)] \in Invoices
         /\ d = <<r.refs[LoanAt(r, d)], r.batch>>
<1>1. r.refs \in Seq(Refs) /\ r.of \in Seq(Invoices) /\ Len(r.of) = Len(r.refs) /\ r.batch \in Batches
  BY DEF Import
<1>2. PICK i \in DOMAIN r.refs : d = <<r.refs[i], r.batch>>
  BY DEF Brought
<1>3. r.refs[i] \in Refs
  BY <1>1
<1>4. d \in Loans /\ d[1] = r.refs[i] /\ d[2] = r.batch
  BY <1>1, <1>2, <1>3 DEF Loans
<1>5. LoanAt(r, d) \in DOMAIN r.refs /\ r.refs[LoanAt(r, d)] = d[1]
  BY <1>4 DEF LoanAt
<1> HIDE DEF LoanAt
<1>6. LoanAt(r, d) \in DOMAIN r.of /\ r.of[LoanAt(r, d)] \in Invoices
  BY <1>1, <1>5
<1> QED BY <1>2, <1>3, <1>4, <1>5, <1>6 DEF Invoices

LEMMA ImportRows ==
  ASSUME RowsTyped, NEW c, NEW r \in Import, ImportWrite(c, r.batch, r.refs, r.new, r.of)
  PROVE  /\ RowsTyped'
         /\ \A d \in Invoices :
              IF d \in Brought(r)
                THEN /\ inv'[d] = LoanRow(d[1], r.of[LoanAt(r, d)])
                     /\ ar'[d] = Owed(d[1])
                ELSE inv'[d] = inv[d] /\ ar'[d] = ar[d]
<1>1. /\ inv' = [d \in Invoices |-> IF d \in Brought(r) THEN LoanRow(d[1], r.of[LoanAt(r, d)])
                                   ELSE inv[d]]
      /\ ar' = [d \in Invoices |-> IF d \in Brought(r) THEN Owed(d[1]) ELSE ar[d]]
  BY DEF ImportWrite, Brought, LoanAt
<1>2. ASSUME NEW d \in Brought(r)
      PROVE  LoanRow(d[1], r.of[LoanAt(r, d)]) \in InvoiceRow /\ Owed(d[1]) \in Nat
  <2>1. d[1] \in Refs /\ r.of[LoanAt(r, d)] \in Invoices
    BY <1>2, BroughtIs
  <2> QED BY <2>1, LoanRowIs, LineSumType
<1> HIDE DEF Brought, LoanAt
<1>3. inv' \in [Invoices -> InvoiceRow] /\ ar' \in [Invoices -> Nat]
  BY <1>1, <1>2 DEF RowsTyped
<1>4. clients' \subseteq ClientRow
  BY DEF ImportWrite, Import, RowsTyped
<1>5. booked' \subseteq Invoices \cup {Unknown}
  <2>1. r.of \in Seq(Invoices) /\ Len(r.of) = Len(r.refs) /\ r.refs \in Seq(Refs)
    BY DEF Import
  <2>2. \A i \in DOMAIN r.refs : r.of[i] \in Invoices
    BY <2>1
  <2> QED BY <2>2 DEF ImportWrite, RowsTyped
<1> QED BY <1>1, <1>3, <1>4, <1>5 DEF ImportWrite, RowsTyped

LEMMA UndoTypes ==
  ASSUME RowsTyped, NEW c, NEW b \in Batches, UndoWrite(c, b)
  PROVE  RowsTyped'
<1>1. inv' \in [Invoices -> InvoiceRow] /\ ar' \in [Invoices -> Nat]
  BY GoneIs DEF UndoWrite, RowsTyped
<1> QED BY <1>1 DEF UndoWrite, RowsTyped

LEMMA RowsStayTyped == RowsTyped /\ RowStep => RowsTyped'
<1> SUFFICES ASSUME RowsTyped, RowStep PROVE RowsTyped'
  OBVIOUS
<1>1. ASSUME NEW row \in clients PROVE row.id \in Invoices
  BY DEF RowsTyped, ClientRow
<1>2. CASE UNCHANGED Rows
  BY <1>2 DEF Rows, RowsTyped
<1> QED BY <1>1, <1>2, SoldTypes, DraftTypes, CollectTypes, VoidTypes, DropTypes, StateWriteTypes,
           LoanWriteTypes, ImportRows, UndoTypes DEF RowStep

\* What has been made may be deleted but is never made again.
LEMMA StaysMade ==
  ASSUME RowsTyped, RowStep, NEW d \in Invoices, Made(d)
  PROVE  Made(d)'
<1>1. SUFFICES inv'[d] = inv[d] \/ inv'[d].state # "none"
  BY DEF Made
<1>2. ASSUME NEW s \in Sales, NEW basket \in Baskets, Sold(s, basket) PROVE inv'[d] = inv[d]
  BY <1>2 DEF Sold, SaleToClient, SaleToWalkin, CreateCashSale, RowsTyped, Made
<1>3. ASSUME NEW s \in Sales, NEW basket \in Baskets, NEW client, CreateInvoice(s, basket, client)
      PROVE  inv'[d] = inv[d]
  BY <1>3 DEF CreateInvoice, RowsTyped, Made
<1>4. ASSUME NEW e \in Invoices, NEW state, Restates(inv', e, state), state # "none"
      PROVE  inv'[d] = inv[d] \/ inv'[d].state # "none"
  BY <1>4 DEF Restates
<1>5. ASSUME NEW e \in Invoices, NEW k \in Nat, NEW a \in Nat \ {0}, Collect(e, k, a)
      PROVE  inv'[d] = inv[d] \/ inv'[d].state # "none"
  BY <1>4, <1>5, CollectTypes
<1>6. ASSUME NEW p \in DOMAIN pays, VoidPayment(p)
      PROVE  inv'[d] = inv[d] \/ inv'[d].state # "none"
  BY <1>4, <1>6, VoidTypes
<1>7. ASSUME NEW s \in Sales, DeleteInvoice(s) PROVE inv'[d] = inv[d] \/ inv'[d].state # "none"
  BY <1>7, GoneIs DEF DeleteInvoice, RowsTyped
<1>8. ASSUME NEW row \in clients, DeleteClient(row)
      PROVE  inv'[d] = inv[d] \/ inv'[d].state # "none"
  BY <1>8, GoneIs DEF DeleteClient
<1>9. ASSUME NEW c \in Cashiers, NEW s \in Sales, NEW to \in {"draft", "sent", "paid", "cancelled"},
             NEW plan \in BOOLEAN, UpdateStateWrite(c, s, to, plan)
      PROVE  inv'[d] = inv[d] \/ inv'[d].state # "none"
  BY <1>4, <1>9, StateWriteTypes DEF Invoices
<1>10. ASSUME NEW c \in Cashiers, NEW e \in Loans, NEW to \in {"sent", "paid"},
              NEW from \in {"sent", "paid"}, UpdateLoanStateWrite(c, e, to, from)
       PROVE  inv'[d] = inv[d] \/ inv'[d].state # "none"
  BY <1>4, <1>10, LoanWriteTypes DEF Invoices
<1>11. ASSUME NEW c \in Cashiers, NEW r \in Import, ImportWrite(c, r.batch, r.refs, r.new, r.of)
       PROVE  inv'[d] = inv[d] \/ inv'[d].state # "none"
  <2>1. d \notin Brought(r)
    BY <1>11, BroughtIs DEF ImportWrite, Made
  <2> QED BY <1>11, <2>1, ImportRows
<1>12. ASSUME NEW c \in Cashiers, NEW b \in Batches, UndoWrite(c, b)
       PROVE  inv'[d] = inv[d] \/ inv'[d].state # "none"
  BY <1>12, GoneIs DEF UndoWrite
<1>13. CASE UNCHANGED Rows
  BY <1>13 DEF Rows
<1> QED BY <1>2, <1>3, <1>5, <1>6, <1>7, <1>8, <1>9, <1>10, <1>11, <1>12, <1>13 DEF RowStep

\* What is held between a read and a write is a request for what was read.
LEMMA HeldStaysTyped == CashTypeOK /\ [CashNext]_cashVars => held' \in [Cashiers -> Request]
<1> SUFFICES ASSUME CashTypeOK, [CashNext]_cashVars PROVE held' \in [Cashiers -> Request]
  OBVIOUS
<1> USE DEF CashTypeOK
<1> DEFINE state(s, to, plan) == [op |-> "state", doc |-> s, to |-> to, plan |-> plan]
           loan(d, to, from) == [op |-> "loan", doc |-> d, to |-> to, from |-> from]
           import(b, refs, new, of) ==
             [op |-> "import", batch |-> b, refs |-> refs, new |-> new, of |-> of]
           undo(b) == [op |-> "undo", batch |-> b]
<1>1. Free \in Request
  BY DEF Request
<1>2. ASSUME NEW c \in Cashiers, NEW r \in Request, held' = [held EXCEPT ![c] = r]
      PROVE  held' \in [Cashiers -> Request]
  BY <1>2
<1>3. ASSUME NEW c \in Cashiers, StartState(c) PROVE held' \in [Cashiers -> Request]
  <2>1. PICK s \in Sales, to \in {"draft", "sent", "paid", "cancelled"} : UpdateStateRead(c, s, to)
    BY <1>3 DEF StartState
  <2>2. PICK plan \in BOOLEAN : held' = [held EXCEPT ![c] = state(s, to, plan)]
    BY <2>1 DEF UpdateStateRead, Hold
  <2>3. state(s, to, plan) \in Request
    BY DEF Request
  <2> HIDE DEF state
  <2> QED BY <1>2, <2>2, <2>3
<1>4. ASSUME NEW c \in Cashiers, StartLoanState(c) PROVE held' \in [Cashiers -> Request]
  <2>1. PICK d \in Loans, to \in {"sent", "paid"} : UpdateLoanStateRead(c, d, to)
    BY <1>4 DEF StartLoanState
  <2>2. held' = [held EXCEPT ![c] = loan(d, to, inv[d].state)] /\ inv[d].state \in {"sent", "paid"}
    BY <2>1 DEF UpdateLoanStateRead, Hold, Issued
  <2>3. loan(d, to, inv[d].state) \in Request
    BY <2>2 DEF Request
  <2> HIDE DEF loan
  <2> QED BY <1>2, <2>2, <2>3
<1>5. ASSUME NEW c \in Cashiers, StartImport(c) PROVE held' \in [Cashiers -> Request]
  <2>1. PICK file \in Files, b \in Batches : ImportRead(c, file, b)
    BY <1>5 DEF StartImport
  <2> DEFINE plan == PlanImport(file, b)
  <2>2. held' = [held EXCEPT ![c] = import(b, plan.refs, plan.new, plan.of)]
    BY <2>1 DEF ImportRead, Hold
  <2>3. plan \in Plans
    BY PlanTyped
  <2> HIDE DEF plan
  <2>4. import(b, plan.refs, plan.new, plan.of) \in Import
    BY <2>3 DEF Plans, Import
  <2>5. import(b, plan.refs, plan.new, plan.of) \in Request
    BY <2>4 DEF Request
  <2> HIDE DEF import
  <2> QED BY <1>2, <2>2, <2>5
<1>6. ASSUME NEW c \in Cashiers, StartUndo(c) PROVE held' \in [Cashiers -> Request]
  <2>1. PICK b \in Batches : UndoRead(c, b)
    BY <1>6 DEF StartUndo
  <2>2. held' = [held EXCEPT ![c] = undo(b)]
    BY <2>1 DEF UndoRead, Hold
  <2>3. undo(b) \in Request
    BY DEF Request
  <2> HIDE DEF undo
  <2> QED BY <1>2, <2>2, <2>3
<1>7. ASSUME NEW c \in Cashiers, Finish(c) PROVE held' \in [Cashiers -> Request]
  <2>1. held' = [held EXCEPT ![c] = Free]
    BY <1>7 DEF Finish, UpdateStateWrite, UpdateLoanStateWrite, ImportWrite, UndoWrite, Fail, Release
  <2> QED BY <1>1, <1>2, <2>1
<1>8. CASE Invoice \/ Sell \/ Pay \/ Void \/ Drop
  <2>1. (Invoice \/ Void \/ Drop) => UNCHANGED held
    BY DEF Invoice, Void, Drop, CreateInvoice, VoidPayment, DeleteInvoice, DeleteClient
  <2>2. Sell => UNCHANGED held
    BY DEF Sell, SaleToClient, SaleToWalkin, CreateCashSale
  <2>3. Pay => UNCHANGED held
    BY DEF Pay, CreateCashSalePayment, CreatePayment, Collect
  <2> QED BY <1>8, <2>1, <2>2, <2>3
<1>9. CASE UNCHANGED cashVars
  BY <1>9 DEF cashVars
<1> QED BY <1>3, <1>4, <1>5, <1>6, <1>7, <1>8, <1>9 DEF CashNext

LEMMA CashInitTyped == CashInit => CashTypeOK
<1> SUFFICES ASSUME CashInit PROVE CashTypeOK
  OBVIOUS
<1> HIDE DEF NoRow
<1>1. inv \in [Invoices -> InvoiceRow] /\ ar \in [Invoices -> Nat]
  BY BlankRow DEF CashInit
<1>2. pays \in Seq(PaymentRow)
  BY DEF CashInit
<1>3. held \in [Cashiers -> Request]
  BY DEF CashInit, Request
<1> QED BY <1>1, <1>2, <1>3 DEF CashInit, CashTypeOK, RowsTyped

LEMMA MadeStaysFirst ==
  ASSUME CashTypeOK, MadeFirst, [CashNext]_cashVars
  PROVE  MadeFirst'
<1> SUFFICES ASSUME NEW c \in Cashiers, held'[c].op = "state"
             PROVE  inv'[held'[c].doc].state # "none"
  BY DEF MadeFirst, Made
<1>1. held \in [Cashiers -> Request] /\ held' \in [Cashiers -> Request]
  BY HeldStaysTyped DEF CashTypeOK
<1>2. CASE held'[c] = held[c]
  <2>1. held[c].doc \in Invoices
    <3> DEFINE r == held[c]
    <3>1. r \in Request /\ r.op = "state"
      BY <1>1, <1>2
    <3>2. r \in [op : {"state"}, doc : Sales, to : {"draft", "sent", "paid", "cancelled"},
                 plan : BOOLEAN]
      BY <3>1 DEF Request, Free, Import
    <3> SUFFICES r.doc \in Invoices
      OBVIOUS
    <3> HIDE DEF r
    <3> QED BY <3>2 DEF Invoices
  <2>2. PICK d \in Invoices : d = held[c].doc
    BY <2>1
  <2>3. RowsTyped /\ RowStep /\ Made(d)
    BY <1>2, <2>2, StepIs DEF CashTypeOK, MadeFirst
  <2>4. Made(d)'
    BY <2>3, StaysMade
  <2> QED BY <1>2, <2>2, <2>4 DEF Made
<1>3. ASSUME NEW s \in Sales, NEW to, UpdateStateRead(c, s, to)
      PROVE  inv'[held'[c].doc].state # "none"
  <2>1. held'[c].doc = s /\ inv' = inv /\ Stands(s)
    BY <1>1, <1>3 DEF UpdateStateRead, Hold, CashTypeOK
  <2> QED BY <2>1 DEF Made, Stands
<1>4. CASE held'[c] # held[c]
  <2>1. ~(Invoice \/ Sell \/ Pay \/ Void \/ Drop \/ UNCHANGED cashVars)
    <3>1. (Invoice \/ Void \/ Drop) => UNCHANGED held
      BY DEF Invoice, Void, Drop, CreateInvoice, VoidPayment, DeleteInvoice, DeleteClient
    <3>2. Sell => UNCHANGED held
      BY DEF Sell, SaleToClient, SaleToWalkin, CreateCashSale
    <3>3. Pay => UNCHANGED held
      BY DEF Pay, CreateCashSalePayment, CreatePayment, Collect
    <3> QED BY <1>4, <3>1, <3>2, <3>3 DEF cashVars
  <2>2. PICK e \in Cashiers :
          StartState(e) \/ StartLoanState(e) \/ StartImport(e) \/ StartUndo(e) \/ Finish(e)
    BY <2>1 DEF CashNext
  <2>3. ASSUME NEW r, held' = [held EXCEPT ![e] = r] PROVE e = c /\ held'[c] = r
    BY <1>1, <1>4, <2>3
  <2>4. CASE StartState(e)
    <3>1. PICK s \in Sales, to \in {"draft", "sent", "paid", "cancelled"} : UpdateStateRead(e, s, to)
      BY <2>4 DEF StartState
    <3>2. e = c
      BY <2>3, <3>1 DEF UpdateStateRead, Hold
    <3> QED BY <1>3, <3>1, <3>2
  <2>5. CASE StartLoanState(e) \/ StartImport(e) \/ StartUndo(e) \/ Finish(e)
    <3>1. PICK r : held' = [held EXCEPT ![e] = r] /\ r.op # "state"
      BY <2>5 DEF StartLoanState, StartImport, StartUndo, Finish, UpdateLoanStateRead, ImportRead,
                  UndoRead, Hold, UpdateStateWrite, UpdateLoanStateWrite, ImportWrite, UndoWrite,
                  Fail, Release, Free
    <3> QED BY <2>3, <3>1
  <2> QED BY <2>2, <2>4, <2>5
<1> QED BY <1>2, <1>4

LEMMA CashTyped ==
  CashTypeOK /\ MadeFirst /\ [CashNext]_cashVars => CashTypeOK' /\ MadeFirst'
<1> SUFFICES ASSUME CashTypeOK, MadeFirst, [CashNext]_cashVars PROVE CashTypeOK' /\ MadeFirst'
  OBVIOUS
<1>1. RowsTyped'
  BY StepIs, RowsStayTyped DEF CashTypeOK
<1> QED BY <1>1, HeldStaysTyped, MadeStaysFirst DEF CashTypeOK

-----------------------------------------------------------------------------
(* The inductive invariants.                                               *)

\* The live entry of an invoice is what was open of it when it was issued, and
\* the ledger names its client; money is only there while the entry is and the
\* invoice is issued. A sale that was written about too late is gone for good.
LedgerFollows(d) ==
  /\ d \notin stale => ar[d] = IF Issued(d) THEN inv[d].total - OpeningPaid(d) ELSE 0
  /\ ar[d] = 0 \/ ~Issued(d) => Posted(d) = {}
  /\ ar[d] # 0 => inv[d].client \in booked
  /\ d \in stale => inv[d].state = "gone"

LedgerFollowsAll == \A d \in Invoices : LedgerFollows(d)

StandsOnce ==
  \A r \in Refs, a, b \in Batches : Stands(<<r, a>>) /\ Stands(<<r, b>>) => a = b

BookIInv == LedgerFollowsAll /\ StandsOnce /\ NothingLosesItsCustomer

\* No basket gives stock away: what holds stock has a price.
NoGifts == \A basket \in Baskets : basket.units > 0 => basket.total > 0

\* s has its stock out while it is issued, and has a price if it holds stock,
\* so that its client is booked.
SaleFollowed(s) ==
  /\ s \notin stale => /\ moved[s] = IF Issued(s) THEN -inv[s].units ELSE 0
                       /\ s \in cogs <=> moved[s] # 0
  /\ inv[s].units > 0 => inv[s].total > 0

StockIInv == \A s \in Sales : SaleFollowed(s)

-----------------------------------------------------------------------------
(* The ledger follows every document.                                      *)

\* A document whose rows stay, or change only between sent and paid, and to
\* which no money is added unless it has a live entry.
LEMMA Undisturbed ==
  ASSUME NEW d \in Invoices, LedgerFollows(d), ar'[d] = ar[d], booked \subseteq booked',
         d \in stale' <=> d \in stale,
         \/ inv'[d] = inv[d]
         \/ /\ Issued(d) /\ inv'[d].state \in {"sent", "paid"}
            /\ inv'[d].client = inv[d].client /\ inv'[d].total = inv[d].total,
         Posted(d)' \subseteq Posted(d) \/ (ar[d] # 0 /\ Issued(d))
  PROVE  LedgerFollows(d)'
<1>1. Issued(d)' <=> Issued(d)
  BY DEF Issued
<1>2. Issued(d) => Stands(d) /\ Stands(d)'
  BY DEF Issued, Stands
<1>3. Issued(d) => OpeningPaid(d)' = OpeningPaid(d)
  BY <1>2 DEF OpeningPaid
<1>4. inv'[d].client = inv[d].client /\ inv'[d].total = inv[d].total
  OBVIOUS
<1>5. d \notin stale' => ar'[d] = IF Issued(d)' THEN inv'[d].total - OpeningPaid(d)' ELSE 0
  BY <1>1, <1>3, <1>4 DEF LedgerFollows
<1>6. ar'[d] = 0 \/ ~Issued(d)' => Posted(d)' = {}
  BY <1>1 DEF LedgerFollows
<1>7. ar'[d] # 0 => inv'[d].client \in booked'
  BY <1>4 DEF LedgerFollows
<1>8. d \in stale' => inv'[d].state = "gone"
  BY DEF LedgerFollows, Issued
<1> QED BY <1>5, <1>6, <1>7, <1>8 DEF LedgerFollows

LEMMA SamePayments ==
  ASSUME pays' = pays
  PROVE  \A d : On(d)' = On(d) /\ Posted(d)' = Posted(d)
BY DEF On, Posted

\* A new payment is posted for its own document.
LEMMA AddedPayment ==
  ASSUME RowsTyped, NEW d \in Invoices, NEW k \in Nat, NEW a \in Nat,
         pays' = Append(pays, Payment(d, k, a))
  PROVE  \A e \in Invoices : e # d => Posted(e)' = Posted(e) /\ On(e)' = On(e)
<1> SUFFICES ASSUME NEW e \in Invoices, e # d PROVE Posted(e)' = Posted(e) /\ On(e)' = On(e)
  OBVIOUS
<1>1. pays \in Seq(PaymentRow) /\ Payment(d, k, a) \in PaymentRow /\ Len(pays) \in Nat
  BY DEF RowsTyped, Payment, PaymentRow
<1>2. /\ DOMAIN pays' = DOMAIN pays \cup {Len(pays) + 1}
      /\ pays'[Len(pays) + 1] = Payment(d, k, a)
      /\ \A p \in DOMAIN pays : pays'[p] = pays[p]
  BY <1>1
<1>3. Payment(d, k, a).doc # e
  BY DEF Payment
<1>4. On(e)' = On(e)
  BY <1>2, <1>3 DEF On
<1>5. On(e) \subseteq DOMAIN pays
  BY DEF On
<1> QED BY <1>2, <1>4, <1>5 DEF Posted

LEMMA SaleFollows ==
  ASSUME RowsTyped, LedgerFollowsAll, NEW s \in Sales, NEW basket \in Baskets,
         NEW client \in Invoices, NEW received \in Nat,
         CreateCashSale(s, basket, client, received)
  PROVE  LedgerFollowsAll'
<1>1. s \in Invoices /\ s \notin Loans /\ basket.total \in Nat
  BY CashAssumption DEF Invoices
<1>2. /\ inv'[s].state \in {"sent", "paid"} /\ inv'[s].client = client
      /\ inv'[s].total = basket.total /\ ar'[s] = basket.total
      /\ \A e \in Invoices : e # s => inv'[e] = inv[e] /\ ar'[e] = ar[e]
  BY <1>1 DEF CreateCashSale, RowsTyped
<1>3. booked \subseteq booked' /\ stale' = stale /\ (basket.total > 0 => client \in booked')
  BY DEF CreateCashSale
<1>4. \A e \in Invoices : e # s => Posted(e)' = Posted(e)
  BY <1>1, SamePayments, AddedPayment DEF CreateCashSale
<1>5. LedgerFollows(s)'
  <2>1. Issued(s)' /\ OpeningPaid(s)' = 0
    BY <1>1, <1>2 DEF Issued, OpeningPaid
  <2>2. Posted(s) = {} /\ s \notin stale
    BY <1>1 DEF LedgerFollowsAll, LedgerFollows, CreateCashSale, Issued
  <2>3. basket.total = 0 => Posted(s)' = {}
    <3>1. basket.total = 0 => ~(received > 0)
      BY <1>1 DEF CreateCashSale
    <3> QED BY <2>2, <3>1, SamePayments DEF CreateCashSale
  <2>4. ar'[s] = inv'[s].total - 0
    BY <1>1, <1>2
  <2>5. ar'[s] # 0 => inv'[s].client \in booked'
    BY <1>1, <1>2, <1>3
  <2> QED BY <1>2, <1>3, <2>1, <2>2, <2>3, <2>4, <2>5 DEF LedgerFollows
<1>6. ASSUME NEW e \in Invoices, e # s PROVE LedgerFollows(e)'
  BY <1>2, <1>3, <1>4, <1>6, Undisturbed DEF LedgerFollowsAll
<1> QED BY <1>5, <1>6 DEF LedgerFollowsAll

LEMMA SoldFollows ==
  ASSUME RowsTyped, LedgerFollowsAll, NEW s \in Sales, NEW basket \in Baskets, Sold(s, basket)
  PROVE  LedgerFollowsAll'
<1>1. s \in Invoices /\ \A row \in clients : row.id \in Invoices
  BY DEF Invoices, RowsTyped, ClientRow
<1> QED BY <1>1, SaleFollows DEF Sold, SaleToClient, SaleToWalkin

LEMMA DraftFollows ==
  ASSUME RowsTyped, LedgerFollowsAll, NEW s \in Sales, NEW basket \in Baskets,
         NEW client, CreateInvoice(s, basket, client)
  PROVE  LedgerFollowsAll'
<1>1. s \in Invoices /\ \A e \in Invoices : Posted(e)' = Posted(e)
  BY SamePayments DEF Invoices, CreateInvoice
<1>2. /\ inv'[s].state = "draft" /\ ar' = ar /\ booked' = booked /\ stale' = stale
      /\ \A e \in Invoices : e # s => inv'[e] = inv[e]
  BY <1>1 DEF CreateInvoice, RowsTyped
<1>3. LedgerFollows(s)'
  <2>1. s \notin stale /\ ar[s] = 0 /\ Posted(s) = {}
    BY <1>1 DEF LedgerFollowsAll, LedgerFollows, CreateInvoice, Issued
  <2>2. ~Issued(s)'
    BY <1>2 DEF Issued
  <2> QED BY <1>1, <1>2, <2>1, <2>2 DEF LedgerFollows
<1>4. ASSUME NEW e \in Invoices, e # s PROVE LedgerFollows(e)'
  BY <1>1, <1>2, <1>4, Undisturbed DEF LedgerFollowsAll
<1> QED BY <1>3, <1>4 DEF LedgerFollowsAll

LEMMA CollectFollows ==
  ASSUME RowsTyped, LedgerFollowsAll, NEW d \in Invoices, NEW k \in Nat, NEW a \in Nat,
         Collect(d, k, a)
  PROVE  LedgerFollowsAll'
<1>1. PICK state \in {"sent", "paid"} : Restates(inv', d, state) /\ Issued(d)
  BY CollectTypes
<1>2. ar' = ar /\ booked \subseteq booked' /\ stale' = stale /\ ar[d] # 0
  BY DEF Collect
<1>3. \A e \in Invoices : e # d => Posted(e)' = Posted(e)
  BY AddedPayment DEF Collect
<1>4. LedgerFollows(d)'
  BY <1>1, <1>2, Undisturbed DEF LedgerFollowsAll, Restates
<1>5. ASSUME NEW e \in Invoices, e # d PROVE LedgerFollows(e)'
  BY <1>1, <1>2, <1>3, <1>5, Undisturbed DEF LedgerFollowsAll, Restates
<1> QED BY <1>4, <1>5 DEF LedgerFollowsAll

LEMMA VoidFollows ==
  ASSUME RowsTyped, LedgerFollowsAll, NEW p \in DOMAIN pays, VoidPayment(p)
  PROVE  LedgerFollowsAll'
<1> DEFINE d == pays[p].doc
<1>1. /\ d \in Invoices
      /\ inv' = inv \/ (Restates(inv', d, "sent") /\ inv[d].state = "paid")
  BY VoidTypes
<1>2. ar' = ar /\ booked' = booked /\ stale' = stale
  BY DEF VoidPayment
<1>3. \A e \in Invoices : Posted(e)' \subseteq Posted(e)
  <2>1. pays' = [pays EXCEPT ![p].status = "voided"]
    BY DEF VoidPayment
  <2>2. DOMAIN pays' = DOMAIN pays
    BY <2>1
  <2>3. pays'[p].status = "voided"
    <3>1. pays[p] \in PaymentRow
      BY DEF RowsTyped
    <3> QED BY <2>1, <3>1 DEF PaymentRow
  <2>4. \A q \in DOMAIN pays : q # p => pays'[q] = pays[q]
    BY <2>1
  <2> QED BY <2>2, <2>3, <2>4 DEF Posted, On
<1> HIDE DEF d
<1>4. ASSUME NEW e \in Invoices PROVE LedgerFollows(e)'
  <2>1. \/ inv'[e] = inv[e]
        \/ /\ Issued(e) /\ inv'[e].state \in {"sent", "paid"}
           /\ inv'[e].client = inv[e].client /\ inv'[e].total = inv[e].total
    BY <1>1 DEF Restates, Issued
  <2> QED BY <1>2, <1>3, <2>1, Undisturbed DEF LedgerFollowsAll
<1> QED BY <1>4 DEF LedgerFollowsAll

LEMMA DropFollows ==
  ASSUME RowsTyped, LedgerFollowsAll,
         (\E s \in Sales : DeleteInvoice(s)) \/ (\E row \in clients : DeleteClient(row))
  PROVE  LedgerFollowsAll'
<1>1. ASSUME NEW e \in Invoices, inv'[e] = Gone(e), ar' = ar, stale' = stale, ar[e] = 0, pays' = pays
      PROVE  LedgerFollows(e)'
  <2>1. inv'[e].state = "gone" /\ ~Issued(e)' /\ Posted(e)' = Posted(e)
    BY <1>1, GoneIs, SamePayments DEF Issued
  <2> QED BY <1>1, <2>1 DEF LedgerFollowsAll, LedgerFollows
<1>2. ASSUME NEW e \in Invoices, inv'[e] = inv[e], ar' = ar, booked' = booked, stale' = stale,
             pays' = pays
      PROVE  LedgerFollows(e)'
  <2>1. Posted(e)' = Posted(e)
    BY <1>2, SamePayments
  <2> QED BY <1>2, <2>1, Undisturbed DEF LedgerFollowsAll
<1>3. ASSUME NEW s \in Sales, DeleteInvoice(s) PROVE LedgerFollowsAll'
  <2>1. /\ s \in Invoices /\ ar' = ar /\ ar[s] = 0 /\ pays' = pays /\ booked' = booked
        /\ stale' = stale
    BY <1>3 DEF DeleteInvoice, Invoices
  <2>2. \A e \in Invoices : inv'[e] = IF e = s THEN Gone(e) ELSE inv[e]
    BY <1>3 DEF DeleteInvoice, RowsTyped
  <2> QED BY <1>1, <1>2, <2>1, <2>2 DEF LedgerFollowsAll
<1>4. ASSUME NEW row \in clients, DeleteClient(row) PROVE LedgerFollowsAll'
  <2>1. ar' = ar /\ pays' = pays /\ booked' = booked /\ stale' = stale /\ row.id \notin booked
    BY <1>4 DEF DeleteClient
  <2>2. \A e \in Invoices : inv'[e] = IF inv[e].client = row.id THEN Gone(e) ELSE inv[e]
    BY <1>4 DEF DeleteClient
  <2>3. \A e \in Invoices : inv[e].client = row.id => ar[e] = 0
    BY <2>1 DEF LedgerFollowsAll, LedgerFollows
  <2> QED BY <1>1, <1>2, <2>1, <2>2, <2>3 DEF LedgerFollowsAll
<1> QED BY <1>3, <1>4

LEMMA StateWriteFollows ==
  ASSUME RowsTyped, LedgerFollowsAll, NEW c, NEW s \in Sales,
         NEW to \in {"draft", "sent", "paid", "cancelled"}, NEW plan \in BOOLEAN,
         Made(s), UpdateStateWrite(c, s, to, plan)
  PROVE  LedgerFollowsAll'
<1> DEFINE needed == to \in {"sent", "paid"}
<1>1. /\ s \in Invoices /\ s \notin Loans
      /\ \/ Stands(s) /\ Restates(inv', s, to) /\ stale' = stale
         \/ ~Stands(s) /\ inv' = inv /\ stale' = stale \cup {s}
  BY StateWriteTypes, CashAssumption DEF Invoices
<1>2. inv[s].total \in Nat /\ ar[s] \in Nat /\ LedgerFollows(s)
  BY <1>1 DEF RowsTyped, InvoiceRow, LedgerFollowsAll
<1>3. EntryFollows(s, needed) /\ \A e \in Invoices : Posted(e)' = Posted(e)
  BY SamePayments DEF UpdateStateWrite
<1> HIDE DEF needed
\* What has to have an entry has the one it had, or one of its total.
<1>4. /\ booked \subseteq booked'
      /\ ar'[s] = IF ~needed THEN 0 ELSE IF ar[s] = 0 THEN inv[s].total ELSE ar[s]
      /\ \A e \in Invoices : e # s => ar'[e] = ar[e]
      /\ ar'[s] # 0 => inv[s].client \in booked'
      /\ ~needed => Posted(s) = {}
  BY <1>1, <1>2, <1>3 DEF EntryFollows, RowsTyped, LedgerFollows
<1>5. CASE Stands(s)
  <2>1. Restates(inv', s, to) /\ stale' = stale /\ s \notin stale
    BY <1>1, <1>2, <1>5 DEF LedgerFollows, Stands
  <2>2. Issued(s)' <=> needed
    BY <2>1 DEF Issued, Restates, needed
  <2>3. OpeningPaid(s)' = 0 /\ OpeningPaid(s) = 0
    BY <1>1 DEF OpeningPaid
  <2>4. inv'[s].total = inv[s].total /\ inv'[s].client = inv[s].client
    BY <2>1 DEF Restates
  <2>5. ar[s] # 0 => ar[s] = inv[s].total
    BY <1>2, <2>1, <2>3 DEF LedgerFollows
  <2>6. ar'[s] = IF Issued(s)' THEN inv'[s].total - OpeningPaid(s)' ELSE 0
    BY <1>2, <1>4, <2>2, <2>3, <2>4, <2>5
  <2>7. ar'[s] = 0 \/ ~Issued(s)' => Posted(s)' = {}
    BY <1>1, <1>2, <1>3, <1>4, <2>2 DEF LedgerFollows
  <2>8. LedgerFollows(s)'
    BY <1>4, <2>1, <2>4, <2>6, <2>7 DEF LedgerFollows
  <2>9. ASSUME NEW e \in Invoices, e # s PROVE LedgerFollows(e)'
    BY <1>3, <1>4, <2>1, <2>9, Undisturbed DEF LedgerFollowsAll, Restates
  <2> QED BY <2>8, <2>9 DEF LedgerFollowsAll
<1>6. CASE ~Stands(s)
  <2>1. inv' = inv /\ stale' = stale \cup {s} /\ ~Issued(s) /\ ~Issued(s)'
    BY <1>1, <1>6 DEF Issued, Stands
  <2>2. inv[s].state = "gone"
    BY <1>6 DEF Stands, Made
  <2>3. Posted(s)' = {} /\ s \in stale'
    BY <1>1, <1>2, <1>3, <2>1 DEF LedgerFollows
  <2>4. inv'[s].state = "gone" /\ (ar'[s] # 0 => inv'[s].client \in booked')
    BY <1>4, <2>1, <2>2
  <2>8. LedgerFollows(s)'
    BY <2>3, <2>4 DEF LedgerFollows
  <2>9. ASSUME NEW e \in Invoices, e # s PROVE LedgerFollows(e)'
    BY <1>3, <1>4, <2>1, <2>9, Undisturbed DEF LedgerFollowsAll
  <2> QED BY <2>8, <2>9 DEF LedgerFollowsAll
<1> QED BY <1>5, <1>6

LEMMA LoanWriteFollows ==
  ASSUME RowsTyped, LedgerFollowsAll, NEW c, NEW d \in Loans, NEW to \in {"sent", "paid"},
         NEW from \in {"sent", "paid"}, UpdateLoanStateWrite(c, d, to, from)
  PROVE  LedgerFollowsAll'
<1>1. Restates(inv', d, to) /\ d \in Invoices /\ Issued(d)
  BY LoanWriteTypes DEF Invoices, UpdateLoanStateWrite, Issued
<1>2. /\ ar' = ar /\ booked' = booked /\ stale' = stale
      /\ \A e \in Invoices : Posted(e)' = Posted(e)
  BY SamePayments DEF UpdateLoanStateWrite
<1>3. ASSUME NEW e \in Invoices PROVE LedgerFollows(e)'
  BY <1>1, <1>2, Undisturbed DEF LedgerFollowsAll, Restates
<1> QED BY <1>3 DEF LedgerFollowsAll

LEMMA ImportFollows ==
  ASSUME RowsTyped, LedgerFollowsAll, NEW c, NEW r \in Import,
         ImportWrite(c, r.batch, r.refs, r.new, r.of)
  PROVE  LedgerFollowsAll'
<1>1. /\ booked \subseteq booked' /\ stale' = stale
      /\ \A e \in Invoices : Posted(e)' = Posted(e)
  BY SamePayments DEF ImportWrite
<1>2. ASSUME NEW d \in Invoices, d \in Brought(r) PROVE LedgerFollows(d)'
  <2> DEFINE i == LoanAt(r, d)
  <2>1. /\ d \in Loans /\ d[1] \in Refs /\ i \in DOMAIN r.refs /\ r.refs[i] = d[1]
        /\ r.of[i] \in Invoices /\ d = <<r.refs[i], r.batch>>
    BY <1>2, BroughtIs
  <2>2. inv'[d] = LoanRow(d[1], r.of[i]) /\ ar'[d] = Owed(d[1])
    BY <1>2, ImportRows
  <2> HIDE DEF i
  <2>3. /\ inv'[d].state \in {"sent", "paid"} /\ inv'[d].client = r.of[i]
        /\ inv'[d].total = LineSum(d[1])
    BY <2>1, <2>2, LoanRowIs
  <2>4. Issued(d)' /\ OpeningPaid(d)' = Register[d[1]].paid
    BY <2>1, <2>3 DEF Issued, OpeningPaid, Stands
  <2>5. ar'[d] = inv'[d].total - OpeningPaid(d)'
    BY <2>2, <2>3, <2>4 DEF Owed
  <2>6. Posted(d)' = {} /\ d \notin stale
    <3>1. inv[d].state = "none"
      BY <2>1 DEF ImportWrite
    <3> QED BY <1>1, <1>2, <3>1 DEF LedgerFollowsAll, LedgerFollows, Issued
  <2>7. ar'[d] # 0 => inv'[d].client \in booked'
    <3>1. Owed(d[1]) \in Nat
      BY <2>1, LineSumType
    <3>2. Owed(r.refs[i]) > 0 => r.of[i] \in booked'
      BY <2>1 DEF ImportWrite
    <3> QED BY <2>1, <2>2, <2>3, <3>1, <3>2
  <2> QED BY <1>1, <2>4, <2>5, <2>6, <2>7 DEF LedgerFollows
<1>3. ASSUME NEW d \in Invoices, d \notin Brought(r) PROVE LedgerFollows(d)'
  BY <1>1, <1>3, ImportRows, Undisturbed DEF LedgerFollowsAll
<1> QED BY <1>2, <1>3 DEF LedgerFollowsAll

LEMMA UndoFollows ==
  ASSUME RowsTyped, LedgerFollowsAll, NEW c, NEW b \in Batches, UndoWrite(c, b)
  PROVE  LedgerFollowsAll'
<1>1. /\ booked' = booked /\ stale' = stale /\ \A e \in Invoices : Posted(e)' = Posted(e)
  BY SamePayments DEF UndoWrite
<1>2. \A e \in Invoices : /\ inv'[e] = IF e \in InBatch(b) THEN Gone(e) ELSE inv[e]
                          /\ ar'[e] = IF e \in InBatch(b) THEN 0 ELSE ar[e]
  BY DEF UndoWrite
<1>3. ASSUME NEW e \in Invoices, e \in InBatch(b) PROVE LedgerFollows(e)'
  <2>1. On(e) = {}
    BY <1>3 DEF UndoWrite, Collected, InBatch
  <2>2. Posted(e) = {}
    BY <2>1 DEF Posted
  <2>3. inv'[e].state = "gone" /\ ~Issued(e)'
    BY <1>2, <1>3, GoneIs DEF Issued
  <2> QED BY <1>1, <1>2, <1>3, <2>2, <2>3 DEF LedgerFollows
<1>4. ASSUME NEW e \in Invoices, e \notin InBatch(b) PROVE LedgerFollows(e)'
  BY <1>1, <1>2, <1>4, Undisturbed DEF LedgerFollowsAll
<1> QED BY <1>3, <1>4 DEF LedgerFollowsAll

LEMMA LedgerStaysInStep == RowsTyped /\ LedgerFollowsAll /\ RowStep => LedgerFollowsAll'
<1> SUFFICES ASSUME RowsTyped, LedgerFollowsAll, RowStep PROVE LedgerFollowsAll'
  OBVIOUS
<1>1. CASE UNCHANGED Rows
  BY <1>1 DEF Rows, LedgerFollowsAll, LedgerFollows, Issued, OpeningPaid, Stands, Posted, On
<1>2. ASSUME NEW row \in clients PROVE row.id \in Invoices
  BY DEF RowsTyped, ClientRow
<1> QED BY <1>1, <1>2, SoldFollows, DraftFollows, CollectFollows, VoidFollows, DropFollows,
           StateWriteFollows, LoanWriteFollows, ImportFollows, UndoFollows DEF RowStep

-----------------------------------------------------------------------------
(* A loan stands once.                                                     *)

\* Only an import makes a loan stand.
LEMMA OnlyImportsStand ==
  ASSUME RowsTyped, RowStep, NEW d \in Loans, Stands(d)', ~Stands(d)
  PROVE  \E c \in Cashiers, r \in Import :
            ImportWrite(c, r.batch, r.refs, r.new, r.of) /\ d \in Brought(r)
<1>1. d \in Invoices /\ d \notin Sales
  BY CashAssumption DEF Invoices
<1>2. inv'[d] # inv[d] /\ inv'[d].state \notin {"none", "gone"} /\ ~Issued(d)
  BY DEF Stands, Issued
<1>3. ASSUME NEW s \in Sales, NEW basket \in Baskets, Sold(s, basket) PROVE FALSE
  BY <1>1, <1>2, <1>3 DEF Sold, SaleToClient, SaleToWalkin, CreateCashSale, RowsTyped
<1>4. ASSUME NEW s \in Sales, NEW basket \in Baskets, NEW client, CreateInvoice(s, basket, client)
      PROVE  FALSE
  BY <1>1, <1>2, <1>4 DEF CreateInvoice, RowsTyped
<1>5. ASSUME NEW e \in Invoices, NEW k \in Nat, NEW a \in Nat, Collect(e, k, a) PROVE FALSE
  BY <1>1, <1>2, <1>5, CollectTypes DEF Restates
<1>6. ASSUME NEW p \in DOMAIN pays, VoidPayment(p) PROVE FALSE
  BY <1>1, <1>2, <1>6, VoidTypes DEF Restates, Issued
<1>7. ASSUME NEW s \in Sales, DeleteInvoice(s) PROVE FALSE
  BY <1>1, <1>2, <1>7 DEF DeleteInvoice, RowsTyped
<1>8. ASSUME NEW row \in clients, DeleteClient(row) PROVE FALSE
  <2>1. inv'[d] = inv[d] \/ inv'[d] = Gone(d)
    BY <1>1, <1>8 DEF DeleteClient
  <2> QED BY <1>1, <1>2, <2>1, GoneIs
<1>9. ASSUME NEW c \in Cashiers, NEW s \in Sales, NEW to \in {"draft", "sent", "paid", "cancelled"},
             NEW plan \in BOOLEAN, UpdateStateWrite(c, s, to, plan)
      PROVE  FALSE
  BY <1>1, <1>2, <1>9, StateWriteTypes DEF Restates
<1>10. ASSUME NEW c \in Cashiers, NEW e \in Loans, NEW to \in {"sent", "paid"},
              NEW from \in {"sent", "paid"}, UpdateLoanStateWrite(c, e, to, from)
       PROVE  FALSE
  <2>1. Restates(inv', e, to) /\ Issued(e)
    BY <1>10, LoanWriteTypes DEF UpdateLoanStateWrite, Issued
  <2> QED BY <1>1, <1>2, <2>1 DEF Restates
<1>11. ASSUME NEW c \in Cashiers, NEW r \in Import, ImportWrite(c, r.batch, r.refs, r.new, r.of)
       PROVE  d \in Brought(r)
  BY <1>1, <1>2, <1>11, ImportRows
<1>12. ASSUME NEW c \in Cashiers, NEW b \in Batches, UndoWrite(c, b) PROVE FALSE
  <2>1. inv'[d] = inv[d] \/ inv'[d] = Gone(d)
    BY <1>1, <1>12 DEF UndoWrite
  <2> QED BY <1>1, <1>2, <2>1, GoneIs
<1>13. ASSUME UNCHANGED Rows PROVE FALSE
  BY <1>2, <1>13 DEF Rows
<1> QED BY <1>3, <1>4, <1>5, <1>6, <1>7, <1>8, <1>9, <1>10, <1>11, <1>12, <1>13 DEF RowStep

LEMMA StandsOnceStays == RowsTyped /\ StandsOnce /\ RowStep => StandsOnce'
<1> SUFFICES ASSUME RowsTyped, StandsOnce, RowStep,
                    NEW r \in Refs, NEW a \in Batches, NEW b \in Batches,
                    Stands(<<r, a>>)', Stands(<<r, b>>)', a # b
             PROVE  FALSE
  BY DEF StandsOnce
\* Two batches cannot both have stood; the one that did not is imported while
\* the other stands, or both are, in one batch.
<1>1. ASSUME NEW x \in Batches, NEW y \in Batches, x # y, Stands(<<r, x>>)', Stands(<<r, y>>)',
             ~Stands(<<r, x>>)
      PROVE  FALSE
  <2>1. <<r, x>> \in Loans /\ <<r, y>> \in Loans
    BY DEF Loans
  <2>2. PICK c \in Cashiers, i \in Import :
          ImportWrite(c, i.batch, i.refs, i.new, i.of) /\ <<r, x>> \in Brought(i)
    BY <1>1, <2>1, OnlyImportsStand
  <2>3. x = i.batch /\ \E k \in DOMAIN i.refs : i.refs[k] = r
    BY <2>2, BroughtIs DEF Brought
  <2>4. ~Imported(r)
    BY <2>2, <2>3 DEF ImportWrite
  <2>5. ~Stands(<<r, y>>)
    BY <2>4 DEF Imported
  <2>6. <<r, y>> \notin Brought(i)
    BY <1>1, <2>3 DEF Brought
  <2>7. <<r, y>> \in Invoices
    BY <2>1 DEF Invoices
  <2>8. inv'[<<r, y>>] = inv[<<r, y>>]
    BY <2>2, <2>6, <2>7, ImportRows
  <2> QED BY <1>1, <2>5, <2>8 DEF Stands
<1>2. Stands(<<r, a>>) /\ Stands(<<r, b>>)
  BY <1>1
<1> QED BY <1>2 DEF StandsOnce

LEMMA OnceCounts == StandsOnce => BroughtForwardOnce
<1> SUFFICES ASSUME StandsOnce, NEW r \in Refs
             PROVE  Cardinality({b \in Batches : Stands(<<r, b>>)}) <= 1
  BY DEF BroughtForwardOnce
<1> DEFINE S == {b \in Batches : Stands(<<r, b>>)}
<1>1. \A a, b \in S : a = b
  BY DEF StandsOnce
<1>4. SUFFICES Cardinality(S) <= 1
  OBVIOUS
<1> HIDE DEF S
<1>2. CASE S = {}
  <2>1. Cardinality(S) = 0
    BY <1>2, FS_EmptySet
  <2> QED BY <2>1
<1>3. CASE S # {}
  <2>1. PICK a : S = {a}
    BY <1>1, <1>3
  <2>2. Cardinality(S) = 1
    BY <2>1, FS_Singleton
  <2> QED BY <2>2
<1> QED BY <1>2, <1>3

-----------------------------------------------------------------------------
(* Nothing loses its customer.                                             *)

OnFile(id) == \E row \in clients : row.id = id

\* A step that keeps every client, every document's client, and books only
\* clients on file.
LEMMA ClientsKept ==
  ASSUME NothingLosesItsCustomer, clients \subseteq clients',
         \A d \in Invoices : \/ inv'[d].client = inv[d].client /\ (Stands(d)' => Stands(d))
                             \/ \E row \in clients' : row.id = inv'[d].client
                             \/ ~Stands(d)',
         \A id \in booked' : id \in booked \/ \E row \in clients' : row.id = id
  PROVE  NothingLosesItsCustomer'
BY DEF NothingLosesItsCustomer

LEMMA SaleKeepsCustomers ==
  ASSUME RowsTyped, NothingLosesItsCustomer, NEW s \in Sales, NEW basket \in Baskets,
         Sold(s, basket)
  PROVE  NothingLosesItsCustomer'
<1>1. PICK received \in Nat, client \in Invoices :
        /\ CreateCashSale(s, basket, client, received)
        /\ clients \subseteq clients' /\ \E row \in clients' : row.id = client
  <2>1. PICK received \in Nat : SaleToClient(s, basket, received) \/ SaleToWalkin(s, basket, received)
    BY DEF Sold
  <2>2. CASE SaleToClient(s, basket, received)
    BY <2>2 DEF SaleToClient, RowsTyped, ClientRow
  <2>3. CASE SaleToWalkin(s, basket, received)
    <3>1. CreateCashSale(s, basket, s, received) /\ clients \subseteq clients'
      BY <2>3 DEF SaleToWalkin
    <3>2. \E row \in clients' : row.id = s
      <4> DEFINE row(who) == [id |-> s, name |-> who.name, cin |-> Unknown,
                              phones |-> {who.phone} \ {Unknown}, batch |-> 0]
      <4>1. PICK who \in Walkins : clients' = clients \cup {row(who)}
        BY <2>3 DEF SaleToWalkin
      <4>2. row(who).id = s
        OBVIOUS
      <4> HIDE DEF row
      <4> QED BY <4>1, <4>2
    <3>3. s \in Invoices
      BY DEF Invoices
    <3> QED BY <3>1, <3>2, <3>3
  <2> QED BY <2>1, <2>2, <2>3
<1>2. /\ s \in Invoices /\ inv'[s].client = client
      /\ \A e \in Invoices : e # s => inv'[e] = inv[e]
  BY <1>1 DEF CreateCashSale, RowsTyped, Invoices
<1>3. \A id \in booked' : id \in booked \/ id = client
  BY <1>1 DEF CreateCashSale
<1>4. \A e \in Invoices : e # s => (Stands(e)' <=> Stands(e))
  BY <1>2 DEF Stands
<1> QED BY <1>1, <1>2, <1>3, <1>4, ClientsKept

LEMMA DraftKeepsCustomers ==
  ASSUME RowsTyped, NothingLosesItsCustomer, NEW s \in Sales, NEW basket \in Baskets,
         NEW row \in clients, CreateInvoice(s, basket, row.id)
  PROVE  NothingLosesItsCustomer'
<1>1. /\ s \in Invoices /\ inv'[s].client = row.id /\ clients' = clients /\ booked' = booked
      /\ \A e \in Invoices : e # s => inv'[e] = inv[e]
  BY DEF CreateInvoice, RowsTyped, Invoices
<1>2. \A e \in Invoices : e # s => (Stands(e)' <=> Stands(e))
  BY <1>1 DEF Stands
<1> QED BY <1>1, <1>2, ClientsKept

\* A change of state of a document that stands.
LEMMA RestateKeepsCustomers ==
  ASSUME NothingLosesItsCustomer, NEW d \in Invoices, NEW state, Restates(inv', d, state),
         Stands(d), clients' = clients, booked' \subseteq booked \cup {inv[d].client}
  PROVE  NothingLosesItsCustomer'
<1>1. \A e \in Invoices : inv'[e].client = inv[e].client /\ (Stands(e)' => Stands(e))
  BY DEF Restates, Stands
<1>2. \E row \in clients' : row.id = inv[d].client
  BY DEF NothingLosesItsCustomer
<1> QED BY <1>1, <1>2, ClientsKept

LEMMA DropKeepsCustomers ==
  ASSUME RowsTyped, NothingLosesItsCustomer,
         (\E s \in Sales : DeleteInvoice(s)) \/ (\E row \in clients : DeleteClient(row))
  PROVE  NothingLosesItsCustomer'
<1>1. ASSUME NEW s \in Sales, DeleteInvoice(s) PROVE NothingLosesItsCustomer'
  <2>1. clients' = clients /\ booked' = booked
    BY <1>1 DEF DeleteInvoice
  <2>2. \A e \in Invoices : inv'[e] = IF e = s THEN Gone(e) ELSE inv[e]
    BY <1>1 DEF DeleteInvoice, RowsTyped
  <2>3. \A e \in Invoices : inv'[e] = inv[e] \/ ~Stands(e)'
    BY <2>2, GoneIs DEF Stands
  <2>4. \A e \in Invoices : inv'[e] = inv[e] => (Stands(e)' => Stands(e))
    BY DEF Stands
  <2> QED BY <2>1, <2>3, <2>4, ClientsKept
<1>2. ASSUME NEW row \in clients, DeleteClient(row) PROVE NothingLosesItsCustomer'
  <2>1. clients' = clients \ {row} /\ booked' = booked /\ row.id \notin booked
    BY <1>2 DEF DeleteClient
  <2>2. \A e \in Invoices : inv'[e] = IF inv[e].client = row.id THEN Gone(e) ELSE inv[e]
    BY <1>2 DEF DeleteClient
  <2>3. ASSUME NEW e \in Invoices, Stands(e)' PROVE \E c \in clients' : c.id = inv'[e].client
    <3>1. inv[e].client # row.id /\ inv'[e] = inv[e]
      BY <2>2, <2>3, GoneIs DEF Stands
    <3>2. Stands(e)
      BY <2>3, <3>1 DEF Stands
    <3> QED BY <2>1, <3>1, <3>2 DEF NothingLosesItsCustomer
  <2>4. \A id \in booked' : \E c \in clients' : c.id = id
    BY <2>1 DEF NothingLosesItsCustomer
  <2> QED BY <2>3, <2>4 DEF NothingLosesItsCustomer
<1> QED BY <1>1, <1>2

LEMMA ImportKeepsCustomers ==
  ASSUME RowsTyped, NothingLosesItsCustomer, NEW c, NEW r \in Import,
         ImportWrite(c, r.batch, r.refs, r.new, r.of)
  PROVE  NothingLosesItsCustomer'
<1>1. clients' = clients \cup r.new /\ clients \subseteq clients'
  BY DEF ImportWrite
<1>2. \A i \in DOMAIN r.of : \E row \in clients' : row.id = r.of[i]
  BY <1>1 DEF ImportWrite
<1>3. DOMAIN r.refs = DOMAIN r.of
  BY DEF Import
<1>4. \A id \in booked' : id \in booked \/ \E row \in clients' : row.id = id
  BY <1>2, <1>3 DEF ImportWrite
<1>5. ASSUME NEW d \in Invoices
      PROVE  \/ inv'[d].client = inv[d].client /\ (Stands(d)' => Stands(d))
             \/ \E row \in clients' : row.id = inv'[d].client
  <2>1. CASE d \in Brought(r)
    <3>1. /\ d[1] \in Refs /\ r.of[LoanAt(r, d)] \in Invoices
          /\ LoanAt(r, d) \in DOMAIN r.of
      BY <2>1, BroughtIs
    <3>2. inv'[d] = LoanRow(d[1], r.of[LoanAt(r, d)])
      BY <2>1, ImportRows
    <3>3. LoanRow(d[1], r.of[LoanAt(r, d)]).client = r.of[LoanAt(r, d)]
      BY <3>1, LoanRowIs
    <3> QED BY <1>2, <3>1, <3>2, <3>3
  <2>2. CASE d \notin Brought(r)
    <3>1. inv'[d] = inv[d]
      BY <2>2, ImportRows
    <3> QED BY <3>1 DEF Stands
  <2> QED BY <2>1, <2>2
<1> QED BY <1>1, <1>4, <1>5, ClientsKept

LEMMA UndoKeepsCustomers ==
  ASSUME RowsTyped, NothingLosesItsCustomer, NEW c, NEW b \in Batches, UndoWrite(c, b)
  PROVE  NothingLosesItsCustomer'
<1>1. clients' = clients \ Removable(b) /\ booked' = booked
  BY DEF UndoWrite
<1>2. \A e \in Invoices : inv'[e] = IF e \in InBatch(b) THEN Gone(e) ELSE inv[e]
  BY DEF UndoWrite
<1>3. ASSUME NEW e \in Invoices, Stands(e)' PROVE \E row \in clients' : row.id = inv'[e].client
  <2>1. e \notin InBatch(b) /\ inv'[e] = inv[e]
    BY <1>2, <1>3, GoneIs DEF Stands
  <2>2. Stands(e)
    BY <1>3, <2>1 DEF Stands
  <2>3. PICK row \in clients : row.id = inv[e].client
    BY <2>2 DEF NothingLosesItsCustomer
  <2>4. row \notin Removable(b)
    BY <2>1, <2>2, <2>3 DEF Removable
  <2> QED BY <1>1, <2>1, <2>3, <2>4
<1>4. \A id \in booked' : \E row \in clients' : row.id = id
  BY <1>1 DEF NothingLosesItsCustomer, Removable
<1> QED BY <1>3, <1>4 DEF NothingLosesItsCustomer

LEMMA CustomersStay == RowsTyped /\ NothingLosesItsCustomer /\ RowStep => NothingLosesItsCustomer'
<1> SUFFICES ASSUME RowsTyped, NothingLosesItsCustomer, RowStep PROVE NothingLosesItsCustomer'
  OBVIOUS
<1>1. ASSUME NEW d \in Invoices, Issued(d) PROVE Stands(d)
  BY <1>1 DEF Issued, Stands
<1>2. ASSUME NEW d \in Invoices, NEW k \in Nat, NEW a \in Nat \ {0}, Collect(d, k, a)
      PROVE  NothingLosesItsCustomer'
  BY <1>1, <1>2, CollectTypes, RestateKeepsCustomers DEF Collect
<1>3. ASSUME NEW p \in DOMAIN pays, VoidPayment(p) PROVE NothingLosesItsCustomer'
  <2>1. clients' = clients /\ booked' = booked
    BY <1>3 DEF VoidPayment
  <2>2. CASE inv' = inv
    BY <2>1, <2>2 DEF NothingLosesItsCustomer, Stands
  <2>3. CASE Restates(inv', pays[p].doc, "sent") /\ inv[pays[p].doc].state = "paid"
    BY <1>1, <1>3, <2>1, <2>3, VoidTypes, RestateKeepsCustomers DEF Issued
  <2> QED BY <1>3, <2>2, <2>3, VoidTypes
<1>4. ASSUME NEW c \in Cashiers, NEW s \in Sales, NEW to \in {"draft", "sent", "paid", "cancelled"},
             NEW plan \in BOOLEAN, UpdateStateWrite(c, s, to, plan)
      PROVE  NothingLosesItsCustomer'
  \* The entry of a sale that is gone is refused if its client is gone too.
  <2>1. /\ s \in Invoices /\ clients' = clients
        /\ \A id \in booked' : id \in booked \/ OnFile(id)
    BY <1>4 DEF UpdateStateWrite, EntryFollows, Invoices, OnFile
  <2>2. \A e \in Invoices : inv'[e].client = inv[e].client /\ (Stands(e)' => Stands(e))
    BY <1>4, StateWriteTypes DEF Restates, Stands
  <2> QED BY <2>1, <2>2, ClientsKept DEF OnFile
<1>5. ASSUME NEW c \in Cashiers, NEW d \in Loans, NEW to \in {"sent", "paid"},
             NEW from \in {"sent", "paid"}, UpdateLoanStateWrite(c, d, to, from)
      PROVE  NothingLosesItsCustomer'
  <2>1. d \in Invoices /\ Issued(d) /\ clients' = clients /\ booked' = booked
    BY <1>5 DEF UpdateLoanStateWrite, Invoices, Issued
  <2> QED BY <1>1, <1>5, <2>1, LoanWriteTypes, RestateKeepsCustomers
<1>6. CASE UNCHANGED Rows
  BY <1>6 DEF Rows, NothingLosesItsCustomer, Stands
<1> QED BY <1>2, <1>3, <1>4, <1>5, <1>6, SaleKeepsCustomers, DraftKeepsCustomers, DropKeepsCustomers,
           ImportKeepsCustomers, UndoKeepsCustomers DEF RowStep

-----------------------------------------------------------------------------
(* Stock follows the sale.                                                 *)

\* A step leaves a sale what it holds, or has it hold no stock; and it leaves it
\* issued or not issued, or takes it out of the issued ones with no stock out.
StaysPut(s) ==
  /\ s \in stale' <=> s \in stale
  /\ inv'[s].units = 0 \/ (inv'[s].units = inv[s].units /\ inv'[s].total = inv[s].total)
  /\ \/ inv'[s].units = inv[s].units /\ (Issued(s)' <=> Issued(s))
     \/ moved[s] = 0 /\ ~Issued(s)'
     \/ s \in stale

LEMMA SaleUndisturbed ==
  ASSUME NEW s \in Sales, SaleFollowed(s), moved'[s] = moved[s], s \in cogs' <=> s \in cogs,
         StaysPut(s)
  PROVE  SaleFollowed(s)'
<1>1. inv'[s].units > 0 => inv'[s].total > 0
  <2>1. ~(0 > 0)
    OBVIOUS
  <2> QED BY <2>1 DEF StaysPut, SaleFollowed
<1>2. ASSUME s \notin stale'
      PROVE  /\ moved'[s] = IF Issued(s)' THEN -inv'[s].units ELSE 0
             /\ s \in cogs' <=> moved'[s] # 0
  BY <1>2 DEF StaysPut, SaleFollowed
<1> QED BY <1>1, <1>2 DEF SaleFollowed

LEMMA SaleStocks ==
  ASSUME NoGifts, RowsTyped, LedgerFollowsAll, StockIInv, NEW s \in Sales, NEW basket \in Baskets, Sold(s, basket)
  PROVE  StockIInv'
<1>1. PICK received \in Nat, client \in Invoices : CreateCashSale(s, basket, client, received)
  BY DEF Sold, SaleToClient, SaleToWalkin, RowsTyped, ClientRow, Invoices
<1>2. s \in Invoices /\ basket.units \in Nat /\ basket.total \in Nat
  BY CashAssumption DEF Invoices
<1>3. /\ inv'[s].state \in {"sent", "paid"} /\ inv'[s].units = basket.units
      /\ inv'[s].total = basket.total /\ moved'[s] = -basket.units
      /\ \A e \in Sales : e # s => inv'[e] = inv[e] /\ moved'[e] = moved[e]
  BY <1>1, <1>2 DEF CreateCashSale, RowsTyped, Invoices
<1>4. ~Issued(s) /\ s \notin stale /\ stale' = stale /\ SaleFollowed(s)
  BY <1>1, <1>2 DEF StockIInv, CreateCashSale, Issued, LedgerFollowsAll, LedgerFollows
<1>5. s \notin cogs
  BY <1>4 DEF SaleFollowed
<1>6. s \in cogs' <=> basket.units > 0
  BY <1>1, <1>5 DEF CreateCashSale
<1>7. \A e \in Sales : e # s => (e \in cogs' <=> e \in cogs)
  BY <1>1 DEF CreateCashSale
<1>8. SaleFollowed(s)'
  <2>1. Issued(s)'
    BY <1>3 DEF Issued
  <2>2. -basket.units # 0 <=> basket.units > 0
    BY <1>2
  <2>3. basket.units > 0 => basket.total > 0
    BY DEF NoGifts
  <2> QED BY <1>3, <1>6, <2>1, <2>2, <2>3 DEF SaleFollowed
<1>9. ASSUME NEW e \in Sales, e # s PROVE SaleFollowed(e)'
  BY <1>3, <1>4, <1>7, <1>9, SaleUndisturbed DEF StockIInv, Issued, StaysPut
<1> QED BY <1>8, <1>9 DEF StockIInv

LEMMA StateWriteStocks ==
  ASSUME RowsTyped, StockIInv, NEW c, NEW s \in Sales,
         NEW to \in {"draft", "sent", "paid", "cancelled"}, NEW plan \in BOOLEAN,
         UpdateStateWrite(c, s, to, plan)
  PROVE  StockIInv'
<1> DEFINE needed == to \in {"sent", "paid"}
<1>1. /\ s \in Invoices
      /\ \/ Stands(s) /\ Restates(inv', s, to) /\ stale' = stale
         \/ ~Stands(s) /\ inv' = inv /\ stale' = stale \cup {s}
  BY StateWriteTypes DEF Invoices
<1>2. inv'[s].units = inv[s].units /\ inv'[s].total = inv[s].total
  BY <1>1 DEF Restates
<1>3. inv[s].units \in Nat /\ SaleFollowed(s) /\ moved \in [Sales -> Int]
  BY <1>1 DEF StockIInv, RowsTyped, InvoiceRow
<1>4. StockFollows(s, needed, plan)
  BY DEF UpdateStateWrite
<1>5. ASSUME s \notin stale'
      PROVE  StockSeen(s) = moved[s] /\ (Issued(s)' <=> needed) /\ s \notin stale
  BY <1>1, <1>5 DEF StockSeen, Restates, Issued
<1> HIDE DEF needed
<1>6. ASSUME s \notin stale'
      PROVE  /\ moved'[s] = IF needed THEN -inv[s].units ELSE 0
             /\ s \in cogs' <=> moved'[s] # 0
  <2>1. CASE needed /\ moved[s] = 0
    <3>1. s \notin cogs
      BY <1>3, <1>5, <1>6, <2>1 DEF SaleFollowed
    <3>2. /\ moved' = [moved EXCEPT ![s] = @ - inv[s].units]
          /\ cogs' = IF inv[s].units > 0 THEN cogs \cup {s} ELSE cogs
      BY <1>4, <1>5, <1>6, <2>1 DEF StockFollows
    <3>3. moved'[s] = -inv[s].units /\ (-inv[s].units # 0 <=> inv[s].units > 0)
      BY <1>3, <2>1, <3>2
    <3> QED BY <2>1, <3>1, <3>2, <3>3
  <2>2. CASE ~needed /\ moved[s] # 0
    <3>1. moved' = [moved EXCEPT ![s] = 0] /\ cogs' = cogs \ {s}
      BY <1>4, <1>5, <1>6, <2>2 DEF StockFollows
    <3> QED BY <1>3, <2>2, <3>1
  <2>3. CASE (needed /\ moved[s] # 0) \/ (~needed /\ moved[s] = 0)
    <3>1. moved' = moved /\ cogs' = cogs
      BY <1>4, <1>5, <1>6, <2>3 DEF StockFollows
    <3> QED BY <1>3, <1>5, <1>6, <2>3, <3>1 DEF SaleFollowed
  <2> QED BY <2>1, <2>2, <2>3
<1>7. SaleFollowed(s)'
  BY <1>2, <1>3, <1>5, <1>6 DEF SaleFollowed
<1>8. ASSUME NEW e \in Sales, e # s PROVE SaleFollowed(e)'
  <2>1. moved'[e] = moved[e] /\ (e \in cogs' <=> e \in cogs)
    BY <1>3, <1>4, <1>8 DEF StockFollows
  <2>2. inv'[e] = inv[e] /\ (Issued(e)' <=> Issued(e)) /\ (e \in stale' <=> e \in stale)
    BY <1>1, <1>8 DEF Restates, Issued, Invoices
  <2> QED BY <1>8, <2>1, <2>2, SaleUndisturbed DEF StockIInv, StaysPut
<1> QED BY <1>7, <1>8 DEF StockIInv

LEMMA StockKept ==
  ASSUME StockIInv, moved' = moved, cogs' = cogs, \A s \in Sales : StaysPut(s)
  PROVE  StockIInv'
BY SaleUndisturbed DEF StockIInv

LEMMA StockStays ==
  NoGifts /\ RowsTyped /\ LedgerFollowsAll /\ StockIInv /\ RowStep => StockIInv'
<1> SUFFICES ASSUME NoGifts, RowsTyped, LedgerFollowsAll, StockIInv, RowStep PROVE StockIInv'
  OBVIOUS
<1>1. Sales \subseteq Invoices /\ \A s \in Sales : s \notin Loans
  BY CashAssumption DEF Invoices
<1>2. ASSUME NEW s \in Sales, NEW basket \in Baskets, Sold(s, basket) PROVE StockIInv'
  BY <1>2, SaleStocks
<1>3. ASSUME NEW s \in Sales, NEW basket \in Baskets, NEW client, CreateInvoice(s, basket, client)
      PROVE  StockIInv'
  <2>1. moved' = moved /\ cogs' = cogs /\ stale' = stale /\ inv[s].state = "none"
    BY <1>3 DEF CreateInvoice
  <2>2. /\ inv'[s].state = "draft" /\ inv'[s].units = 0
        /\ \A e \in Sales : e # s => inv'[e] = inv[e]
    BY <1>1, <1>3 DEF CreateInvoice, RowsTyped
  <2>3. moved[s] = 0 \/ s \in stale
    BY <2>1 DEF StockIInv, SaleFollowed, Issued
  <2>4. ~Issued(s)' /\ \A e \in Sales : e # s => (Issued(e)' <=> Issued(e))
    BY <2>2 DEF Issued
  <2>9. \A e \in Sales : StaysPut(e)
    BY <2>1, <2>2, <2>3, <2>4 DEF StaysPut
  <2> QED BY <2>1, <2>2, <2>3, <2>4, <2>9, StockKept
<1>4. ASSUME NEW d \in Invoices, NEW state, Restates(inv', d, state), Issued(d),
             state \in {"sent", "paid"}, moved' = moved, cogs' = cogs, stale' = stale
      PROVE  StockIInv'
  <2>1. \A s \in Sales : /\ inv'[s].units = inv[s].units /\ inv'[s].total = inv[s].total
                         /\ Issued(s)' <=> Issued(s)
    BY <1>1, <1>4 DEF Restates, Issued
  <2>9. \A e \in Sales : StaysPut(e)
    BY <1>4, <2>1 DEF StaysPut
  <2> QED BY <1>4, <2>1, <2>9, StockKept
<1>5. ASSUME NEW d \in Invoices, NEW k \in Nat, NEW a \in Nat \ {0}, Collect(d, k, a)
      PROVE  StockIInv'
  <2>1. moved' = moved /\ cogs' = cogs /\ stale' = stale
    BY <1>5 DEF Collect
  <2> QED BY <1>4, <1>5, <2>1, CollectTypes
<1>6. ASSUME NEW p \in DOMAIN pays, VoidPayment(p) PROVE StockIInv'
  <2>1. moved' = moved /\ cogs' = cogs /\ stale' = stale
    BY <1>6 DEF VoidPayment
  <2>2. CASE inv' = inv
    <3>1. \A e \in Sales : StaysPut(e)
      BY <2>1, <2>2 DEF StaysPut, Issued
    <3> QED BY <2>1, <3>1, StockKept
  <2>3. CASE Restates(inv', pays[p].doc, "sent") /\ inv[pays[p].doc].state = "paid"
    <3>1. Issued(pays[p].doc) /\ pays[p].doc \in Invoices
      BY <1>6, <2>3, VoidTypes DEF Issued
    <3> QED BY <1>4, <2>1, <2>3, <3>1
  <2> QED BY <1>6, <2>2, <2>3, VoidTypes
<1>7. ASSUME NEW s \in Sales, DeleteInvoice(s) PROVE StockIInv'
  <2>1. moved' = moved /\ cogs' = cogs /\ stale' = stale /\ moved[s] = 0
    BY <1>7 DEF DeleteInvoice
  <2>2. \A e \in Sales : inv'[e] = IF e = s THEN Gone(e) ELSE inv[e]
    BY <1>1, <1>7 DEF DeleteInvoice, RowsTyped
  <2>3. ~Issued(s)' /\ inv'[s].units = inv[s].units /\ inv'[s].total = inv[s].total
    BY <1>1, <2>2, GoneIs DEF Issued
  <2>4. \A e \in Sales : e # s => inv'[e] = inv[e] /\ (Issued(e)' <=> Issued(e))
    BY <2>2 DEF Issued
  <2>9. \A e \in Sales : StaysPut(e)
    BY <2>1, <2>3, <2>4 DEF StaysPut
  <2> QED BY <2>1, <2>3, <2>4, <2>9, StockKept
<1>8. ASSUME NEW row \in clients, DeleteClient(row) PROVE StockIInv'
  <2>1. moved' = moved /\ cogs' = cogs /\ stale' = stale /\ row.id \notin booked
    BY <1>8 DEF DeleteClient
  <2>2. \A e \in Sales : inv'[e] = IF inv[e].client = row.id THEN Gone(e) ELSE inv[e]
    BY <1>1, <1>8 DEF DeleteClient
  <2>3. ASSUME NEW e \in Sales, inv[e].client = row.id
        PROVE  /\ moved[e] = 0 \/ e \in stale
               /\ ~Issued(e)' /\ inv'[e].units = inv[e].units /\ inv'[e].total = inv[e].total
    \* An issued sale that holds stock has a price, so its client is booked.
    <3>1. ar[e] = 0 /\ e \in Invoices /\ OpeningPaid(e) = 0
      BY <1>1, <2>1, <2>3 DEF LedgerFollowsAll, LedgerFollows, OpeningPaid
    <3>2. inv[e].total \in Nat /\ inv[e].units \in Nat
      BY <3>1 DEF RowsTyped, InvoiceRow
    <3>3. Issued(e) => inv[e].total = 0 \/ e \in stale
      BY <3>1, <3>2 DEF LedgerFollowsAll, LedgerFollows
    <3>4. SaleFollowed(e)
      BY DEF StockIInv
    <3>5. Issued(e) => inv[e].units = 0 \/ e \in stale
      BY <3>2, <3>3, <3>4 DEF SaleFollowed
    <3>6. moved[e] = 0 \/ e \in stale
      BY <3>4, <3>5 DEF SaleFollowed
    <3> QED BY <2>2, <2>3, <3>1, <3>6, GoneIs DEF Issued
  <2>4. \A e \in Sales : inv[e].client # row.id => inv'[e] = inv[e] /\ (Issued(e)' <=> Issued(e))
    BY <2>2 DEF Issued
  <2>9. \A e \in Sales : StaysPut(e)
    BY <2>1, <2>3, <2>4 DEF StaysPut
  <2> QED BY <2>1, <2>3, <2>4, <2>9, StockKept
<1>9. ASSUME NEW c \in Cashiers, NEW s \in Sales, NEW to \in {"draft", "sent", "paid", "cancelled"},
             NEW plan \in BOOLEAN, UpdateStateWrite(c, s, to, plan)
      PROVE  StockIInv'
  BY <1>9, StateWriteStocks
<1>10. ASSUME NEW c \in Cashiers, NEW d \in Loans, NEW to \in {"sent", "paid"},
              NEW from \in {"sent", "paid"}, UpdateLoanStateWrite(c, d, to, from)
       PROVE  StockIInv'
  <2>1. moved' = moved /\ cogs' = cogs /\ stale' = stale /\ Issued(d) /\ d \in Invoices
    BY <1>10 DEF UpdateLoanStateWrite, Issued, Invoices
  <2> QED BY <1>4, <1>10, <2>1, LoanWriteTypes
<1>11. ASSUME NEW c \in Cashiers, NEW r \in Import, ImportWrite(c, r.batch, r.refs, r.new, r.of)
       PROVE  StockIInv'
  <2>1. moved' = moved /\ cogs' = cogs /\ stale' = stale
    BY <1>11 DEF ImportWrite
  <2>2. \A s \in Sales : s \notin Brought(r)
    BY <1>1, BroughtIs
  <2>3. \A s \in Sales : inv'[s] = inv[s] /\ (Issued(s)' <=> Issued(s))
    BY <1>1, <1>11, <2>2, ImportRows DEF Issued
  <2>9. \A e \in Sales : StaysPut(e)
    BY <2>1, <2>3 DEF StaysPut
  <2> QED BY <2>1, <2>3, <2>9, StockKept
<1>12. ASSUME NEW c \in Cashiers, NEW b \in Batches, UndoWrite(c, b) PROVE StockIInv'
  <2>1. moved' = moved /\ cogs' = cogs /\ stale' = stale
    BY <1>12 DEF UndoWrite
  <2>2. \A s \in Sales : s \notin InBatch(b)
    BY <1>1 DEF InBatch, Loans
  <2>3. \A s \in Sales : inv'[s] = inv[s] /\ (Issued(s)' <=> Issued(s))
    BY <1>1, <1>12, <2>2 DEF UndoWrite, Issued
  <2>9. \A e \in Sales : StaysPut(e)
    BY <2>1, <2>3 DEF StaysPut
  <2> QED BY <2>1, <2>3, <2>9, StockKept
<1>13. CASE UNCHANGED Rows
  <2>1. moved' = moved /\ cogs' = cogs /\ stale' = stale /\ inv' = inv
    BY <1>13 DEF Rows
  <2>2. \A e \in Sales : StaysPut(e)
    BY <2>1 DEF StaysPut, Issued
  <2> QED BY <2>1, <2>2, StockKept
<1> QED BY <1>2, <1>3, <1>5, <1>6, <1>7, <1>8, <1>9, <1>10, <1>11, <1>12, <1>13 DEF RowStep

-----------------------------------------------------------------------------
(* No line is collected beyond what it is for.                             *)

\* What is posted on an invoice for one line, or, for 0, for no line of it.
Named(d, k) == Received({p \in Posted(d) : pays[p].line = k})

\* The lines of an invoice account for its total, and nothing is paid beyond:
\* not the invoice, not a line by the payments that name it; and every payment
\* names a line it has, or none.
LinesFollow(d) ==
  /\ inv[d].lines # <<>> => Total(inv[d].lines, DOMAIN inv[d].lines) = inv[d].total
  /\ Paid(d) <= inv[d].total
  /\ \A k \in DOMAIN inv[d].lines : Named(d, k) <= inv[d].lines[k]
  /\ \A p \in Posted(d) : pays[p].line \in DOMAIN inv[d].lines \cup {0}

LinesFollowAll == \A d \in Invoices : LinesFollow(d)

LEMMA ReceivedType ==
  ASSUME RowsTyped, NEW S \in SUBSET DOMAIN pays
  PROVE  /\ IsFiniteSet(S) /\ Received(S) \in Nat
         /\ \A T \in SUBSET S : Received(T) \in Nat /\ Received(T) <= Received(S)
<1> DEFINE amount == [p \in DOMAIN pays |-> pays[p].amount]
<1>1. /\ pays \in Seq(PaymentRow) /\ Len(pays) \in Nat /\ DOMAIN pays = 1..Len(pays)
      /\ IsFiniteSet(DOMAIN pays)
  BY FS_Interval DEF RowsTyped
<1>2. IsFiniteSet(S)
  BY <1>1, FS_Subset
<1>3. \A p \in S : amount[p] \in Nat
  <2>1. \A p \in DOMAIN pays : pays[p] \in PaymentRow
    BY <1>1
  <2> QED BY <2>1 DEF PaymentRow
<1>4. \A T : Received(T) = Total(amount, T)
  BY DEF Received
<1> HIDE DEF amount
<1> QED BY <1>2, <1>3, <1>4, TotalNat, TotalSubset

LEMMA PaidType ==
  ASSUME RowsTyped, NEW d \in Invoices
  PROVE  /\ Posted(d) \in SUBSET DOMAIN pays /\ IsFiniteSet(Posted(d))
         /\ OpeningPaid(d) \in Nat /\ Received(Posted(d)) \in Nat /\ Paid(d) \in Nat
         /\ \A k : Named(d, k) \in Nat
<1>1. Posted(d) \in SUBSET DOMAIN pays
  BY DEF Posted, On
<1>2. OpeningPaid(d) \in Nat
  BY CashAssumption DEF OpeningPaid, Loans
<1>3. Received(Posted(d)) \in Nat /\ IsFiniteSet(Posted(d))
  BY <1>1, ReceivedType
<1>4. \A k : Named(d, k) \in Nat
  <2>1. \A k : {p \in Posted(d) : pays[p].line = k} \in SUBSET Posted(d)
    OBVIOUS
  <2> QED BY <1>1, <2>1, ReceivedType DEF Named
<1> QED BY <1>1, <1>2, <1>3, <1>4 DEF Paid

LEMMA LinesTyped ==
  ASSUME RowsTyped, NEW d \in Invoices
  PROVE  inv[d].lines \in Seq(Nat)
BY DEF RowsTyped, InvoiceRow

\* What an invoice is paid, by what each payment names.
LEMMA PaidByLine ==
  ASSUME RowsTyped, NEW d \in Invoices,
         \A p \in Posted(d) : pays[p].line \in DOMAIN inv[d].lines \cup {0}
  PROVE  /\ \A k \in DOMAIN inv[d].lines : Direct(d)[k] = Named(d, k)
         /\ Total(Direct(d), DOMAIN inv[d].lines) \in Nat
         /\ Paid(d) = Total(Direct(d), DOMAIN inv[d].lines) + (OpeningPaid(d) + Named(d, 0))
<1> DEFINE lines == DOMAIN inv[d].lines
           amount == [p \in DOMAIN pays |-> pays[p].amount]
           line == [p \in Posted(d) |-> pays[p].line]
           raw == [k \in lines |-> Named(d, k)]
           some == {p \in Posted(d) : pays[p].line \in lines}
           whole == {p \in Posted(d) : pays[p].line = 0}
<1>1. lines = 1..Len(inv[d].lines) /\ Len(inv[d].lines) \in Nat /\ IsFiniteSet(lines) /\ 0 \notin lines
  BY LinesTyped, SlotsFinite
<1>2. /\ Posted(d) \in SUBSET DOMAIN pays /\ IsFiniteSet(Posted(d))
      /\ OpeningPaid(d) \in Nat /\ \A k : Named(d, k) \in Nat
  BY PaidType
<1>3. Direct(d) = Tuple(raw)
  BY DEF Direct, Named
<1>4. Tuple(raw) = raw
  <2>1. raw \in [1..Len(inv[d].lines) -> Nat]
    BY <1>1, <1>2
  <2> HIDE DEF raw
  <2> QED BY <1>1, <2>1, TupleIs
<1>5. \A k \in lines : Direct(d)[k] = Named(d, k)
  BY <1>3, <1>4
<1>6. \A S : Received(S) = Total(amount, S)
  BY DEF Received
<1>7. \A p \in Posted(d) : amount[p] \in Nat /\ amount[p] \in Int
  <2>1. \A p \in DOMAIN pays : pays[p] \in PaymentRow
    BY DEF RowsTyped
  <2> QED BY <1>2, <2>1 DEF PaymentRow
<1>8. /\ some \cap whole = {} /\ Posted(d) = some \cup whole
      /\ IsFiniteSet(some) /\ IsFiniteSet(whole)
  BY <1>1, <1>2, FS_Subset
<1> HIDE DEF amount
<1>9. Received(Posted(d)) = Total(amount, some) + Total(amount, whole)
  BY <1>6, <1>7, <1>8, TotalUnion
<1>10. Total(Direct(d), lines) = Total(amount, some)
  <2>1. \A k \in lines : Direct(d)[k] = Total(amount, OfClass(Posted(d), line, k))
    <3> SUFFICES ASSUME NEW k \in lines
                 PROVE  Direct(d)[k] = Total(amount, OfClass(Posted(d), line, k))
      OBVIOUS
    <3>1. OfClass(Posted(d), line, k) = {p \in Posted(d) : pays[p].line = k}
      BY DEF OfClass
    <3> QED BY <1>5, <1>6, <3>1 DEF Named
  <2>2. OfClasses(Posted(d), line, lines) = some
    BY DEF OfClasses
  <2> HIDE DEF lines, line, some
  <2>3. /\ IsFiniteSet(Posted(d)) /\ IsFiniteSet(lines)
        /\ \A p \in Posted(d) : amount[p] \in Int
    BY <1>1, <1>2, <1>7
  <2>4. Total(Direct(d), lines) = Total(amount, OfClasses(Posted(d), line, lines))
    BY ONLY <2>1, <2>3, TotalByClass
  <2> QED BY <2>2, <2>4
<1>11. Total(amount, whole) = Named(d, 0)
  BY <1>6 DEF Named
<1>12. Total(Direct(d), lines) \in Nat
  BY <1>1, <1>2, <1>5, TotalNat
<1>13. Named(d, 0) \in Nat
  BY <1>2
<1> QED BY <1>2, <1>5, <1>9, <1>10, <1>11, <1>12, <1>13 DEF Paid

\* The split of what was paid never gives a line more than it is for.
LEMMA SplitFits ==
  ASSUME RowsTyped, NEW d \in Invoices, LinesFollow(d), inv[d].lines # <<>>
  PROVE  /\ \A k \in DOMAIN inv[d].lines : LinesPaid(d)[k] \in Named(d, k)..inv[d].lines[k]
         /\ Total(LinesPaid(d), DOMAIN inv[d].lines) = Paid(d)
<1> DEFINE amounts == inv[d].lines
           direct == Direct(d)
           whole == OpeningPaid(d) + Named(d, 0)
           paid == LinesPaid(d)
<1>1. /\ amounts \in Seq(Nat) /\ Total(amounts, DOMAIN amounts) = inv[d].total
      /\ Paid(d) <= inv[d].total
      /\ \A k \in DOMAIN amounts : Named(d, k) <= amounts[k]
      /\ \A p \in Posted(d) : pays[p].line \in DOMAIN amounts \cup {0}
  BY LinesTyped DEF LinesFollow
<1>2. paid = LinePaid(amounts, direct, whole)
  BY DEF LinesPaid, Named
<1>3. OpeningPaid(d) \in Nat /\ \A k : Named(d, k) \in Nat
  BY PaidType
<1>4. /\ \A k \in DOMAIN amounts : direct[k] = Named(d, k)
      /\ Total(direct, DOMAIN amounts) \in Nat
      /\ Paid(d) = Total(direct, DOMAIN amounts) + whole
  BY <1>1, PaidByLine
<1> HIDE DEF amounts, direct, paid, whole
<1>5. whole \in Nat
  BY <1>3 DEF whole
<1>6. \A k \in DOMAIN amounts : direct[k] \in Nat /\ direct[k] <= amounts[k]
  BY <1>1, <1>3, <1>4
<1>7. Total(direct, DOMAIN amounts) + whole <= Total(amounts, DOMAIN amounts)
  BY <1>1, <1>4
<1>8. /\ \A k \in DOMAIN amounts : paid[k] \in direct[k]..amounts[k]
      /\ Total(paid, DOMAIN amounts) = Total(direct, DOMAIN amounts) + whole
  BY <1>1, <1>2, <1>5, <1>6, <1>7, LinePaidFits
<1> QED BY <1>4, <1>8 DEF amounts, paid

LEMMA LinesHold == RowsTyped /\ LinesFollowAll => LinesNeverOvercollected
<1> SUFFICES ASSUME RowsTyped, LinesFollowAll, NEW d \in Invoices
             PROVE  /\ \A k \in DOMAIN inv[d].lines : LinesPaid(d)[k] \in 0..inv[d].lines[k]
                    /\ inv[d].lines # <<>> => Total(LinesPaid(d), DOMAIN inv[d].lines) = Paid(d)
  BY DEF LinesNeverOvercollected
<1>1. LinesFollow(d)
  BY DEF LinesFollowAll
<1>2. CASE inv[d].lines = <<>>
  BY <1>2
<1>3. CASE inv[d].lines # <<>>
  <2>1. /\ \A k \in DOMAIN inv[d].lines : LinesPaid(d)[k] \in Named(d, k)..inv[d].lines[k]
        /\ Total(LinesPaid(d), DOMAIN inv[d].lines) = Paid(d)
    BY <1>1, <1>3, SplitFits
  <2>2. \A k : Named(d, k) \in Nat
    BY PaidType
  <2>3. \A k \in DOMAIN inv[d].lines : inv[d].lines[k] \in Nat
    BY LinesTyped
  <2>4. ASSUME NEW k \in DOMAIN inv[d].lines PROVE LinesPaid(d)[k] \in 0..inv[d].lines[k]
    <3> DEFINE p == LinesPaid(d)[k]
               n == Named(d, k)
               m == inv[d].lines[k]
    <3>1. p \in n..m /\ n \in Nat /\ m \in Nat
      BY <2>1, <2>2, <2>3
    <3> HIDE DEF p, n, m
    <3>2. p \in 0..m
      BY <3>1
    <3> QED BY <3>2 DEF p, m
  <2> QED BY <2>1, <2>4
<1> QED BY <1>2, <1>3

\* What a line has left to collect, the invoice has left to collect.
LEMMA CoveredFits ==
  ASSUME RowsTyped, NEW d \in Invoices, NEW k \in Nat, NEW a \in Nat, LinesFollow(d), Covered(d, k, a)
  PROVE  /\ Paid(d) + a <= inv[d].total
         /\ k \in DOMAIN inv[d].lines => Named(d, k) + a <= inv[d].lines[k]
         /\ k \in DOMAIN inv[d].lines \cup {0}
<1>1. /\ inv[d].lines \in Seq(Nat) /\ Paid(d) \in Nat /\ Named(d, k) \in Nat /\ inv[d].total \in Nat
  BY PaidType, LinesTyped DEF RowsTyped, InvoiceRow
<1>2. CASE k = 0 /\ a <= inv[d].total - Paid(d)
  <2>1. k \notin DOMAIN inv[d].lines
    BY <1>1, <1>2
  <2> QED BY <1>1, <1>2, <2>1
<1>3. CASE k \in DOMAIN inv[d].lines /\ a <= Outstanding(d, k)
  <2> DEFINE amounts == inv[d].lines
             lines == DOMAIN amounts
             paid == LinesPaid(d)
             open == [j \in lines |-> amounts[j] - paid[j]]
  <2>1. amounts # <<>> /\ lines = 1..Len(amounts) /\ IsFiniteSet(lines)
    BY <1>1, <1>3, SlotsFinite
  <2>2. /\ \A j \in lines : paid[j] \in Named(d, j)..amounts[j]
        /\ Total(paid, lines) = Paid(d) /\ Total(amounts, lines) = inv[d].total
    BY <2>1, SplitFits DEF LinesFollow
  <2>3. /\ \A j : Named(d, j) \in Nat
        /\ \A j \in lines : amounts[j] \in Nat
    BY <1>1, PaidType
  <2>4. ASSUME NEW j \in lines
        PROVE  /\ open[j] = amounts[j] - paid[j] /\ open[j] \in Nat /\ open[j] <= amounts[j] - Named(d, j)
               /\ amounts[j] \in Int /\ paid[j] \in Int
    <3> DEFINE p == paid[j]
               n == Named(d, j)
               m == amounts[j]
               o == open[j]
    <3>1. p \in n..m /\ n \in Nat /\ m \in Nat /\ o = m - p
      BY <2>2, <2>3
    <3> SUFFICES o = m - p /\ o \in Nat /\ o <= m - n /\ m \in Int /\ p \in Int
      OBVIOUS
    <3> HIDE DEF p, n, m, o
    <3> QED BY ONLY <3>1
  <2>5. a <= open[k] /\ k \in lines
    BY <1>3 DEF Outstanding
  <2>6. Named(d, k) + a <= amounts[k]
    <3> DEFINE n == Named(d, k)
               m == amounts[k]
               o == open[k]
    <3>1. n \in Nat /\ m \in Nat /\ o \in Nat /\ o <= m - n /\ a <= o
      BY <2>3, <2>4, <2>5
    <3> SUFFICES n + a <= m
      OBVIOUS
    <3> HIDE DEF n, m, o
    <3> QED BY <3>1
  <2> HIDE DEF open, paid, amounts, lines
  <2>7. Total(open, lines) = inv[d].total - Paid(d)
    BY <2>1, <2>2, <2>4, TotalMinus
  <2>8. open[k] <= Total(open, lines)
    <3>1. Total(open, lines) = open[k] + Total(open, lines \ {k})
      <4>1. \A j \in lines : open[j] \in Int
        BY <2>4
      <4> QED BY ONLY <2>1, <2>5, <4>1, TotalRemove
    <3>2. Total(open, lines \ {k}) \in Nat
      <4>1. lines \ {k} \in SUBSET lines
        OBVIOUS
      <4> QED BY <2>1, <2>4, <4>1, TotalSubset
    <3> QED BY <2>4, <2>5, <3>1, <3>2
  <2>9. Paid(d) + a <= inv[d].total
    BY <1>1, <2>4, <2>5, <2>7, <2>8
  <2> QED BY <2>5, <2>6, <2>9 DEF amounts, lines
<1> QED BY <1>2, <1>3 DEF Covered

\* A document that no more money is posted to, whose lines and total stay and
\* that stands only if it stood.
LEMMA LinesKept ==
  ASSUME RowsTyped, RowsTyped', NEW d \in Invoices, LinesFollow(d),
         inv'[d].lines = inv[d].lines, inv'[d].total = inv[d].total, Stands(d)' => Stands(d),
         \A p \in Posted(d)' : /\ p \in Posted(d) /\ pays'[p].amount = pays[p].amount
                               /\ pays'[p].line = pays[p].line
  PROVE  LinesFollow(d)'
<1> DEFINE amount == [p \in DOMAIN pays |-> pays[p].amount]
           new == [p \in DOMAIN pays' |-> pays'[p].amount]
<1>1. /\ Posted(d) \in SUBSET DOMAIN pays /\ IsFiniteSet(Posted(d))
      /\ Posted(d)' \in SUBSET DOMAIN pays'
  BY PaidType DEF Posted, On
<1>2. \A p \in DOMAIN pays : amount[p] \in Nat
  <2>1. \A p \in DOMAIN pays : pays[p] \in PaymentRow
    BY DEF RowsTyped
  <2> QED BY <2>1 DEF PaymentRow
<1>3. /\ \A T : Received(T) = Total(amount, T)
      /\ Received(Posted(d))' = Total(new, Posted(d)')
      /\ \A k : Named(d, k)' = Total(new, {p \in Posted(d)' : pays'[p].line = k})
  BY DEF Received, Named
<1>4. \A p \in Posted(d)' : new[p] = amount[p] /\ amount[p] \in Int
  BY <1>1, <1>2
<1> HIDE DEF amount, new
\* Fewer payments, of the same amounts, are no more money.
<1>5. ASSUME NEW S \in SUBSET Posted(d), NEW T \in SUBSET Posted(d)', T \subseteq S
      PROVE  Total(new, T) <= Total(amount, S) /\ Total(new, T) \in Nat /\ Total(amount, S) \in Nat
  <2>1. IsFiniteSet(S) /\ IsFiniteSet(T) /\ T \in SUBSET S /\ \A p \in S : amount[p] \in Nat
    BY <1>1, <1>2, <1>5, FS_Subset
  <2>2. Total(new, T) = Total(amount, T)
    BY <1>4, <2>1, TotalEqual
  <2> QED BY <2>1, <2>2, TotalSubset
<1>6. Received(Posted(d))' <= Received(Posted(d)) /\ Received(Posted(d))' \in Nat
      /\ Received(Posted(d)) \in Nat
  BY <1>3, <1>5
<1>7. ASSUME NEW k \in DOMAIN inv[d].lines PROVE Named(d, k)' <= inv[d].lines[k]
  <2> DEFINE S == {p \in Posted(d) : pays[p].line = k}
             T == {p \in Posted(d)' : pays'[p].line = k}
  <2>1. T \subseteq S
    OBVIOUS
  <2>2. Total(new, T) <= Total(amount, S) /\ Total(new, T) \in Nat /\ Total(amount, S) \in Nat
    BY <1>5, <2>1
  <2>3. Named(d, k)' = Total(new, T) /\ Named(d, k) = Total(amount, S)
    BY <1>3 DEF Named
  <2>4. Named(d, k) <= inv[d].lines[k] /\ inv[d].lines[k] \in Nat
    BY LinesTyped DEF LinesFollow
  <2> HIDE DEF S, T
  <2> QED BY <2>2, <2>3, <2>4
<1>8. OpeningPaid(d) \in Nat /\ OpeningPaid(d)' \in Nat /\ OpeningPaid(d)' <= OpeningPaid(d)
  <2>1. OpeningPaid(d)' = IF d \in Loans /\ Stands(d)' THEN Register[d[1]].paid ELSE 0
    BY DEF OpeningPaid
  <2>2. d \in Loans => Register[d[1]].paid \in Nat
    BY CashAssumption DEF Loans
  <2> QED BY <2>1, <2>2 DEF OpeningPaid
<1>9. Paid(d)' <= inv'[d].total
  <2>1. Paid(d) = OpeningPaid(d) + Received(Posted(d)) /\ Paid(d) <= inv[d].total
    BY DEF Paid, LinesFollow
  <2>2. Paid(d)' = OpeningPaid(d)' + Received(Posted(d))'
    BY DEF Paid
  <2>3. inv[d].total \in Nat
    BY DEF RowsTyped, InvoiceRow
  <2> QED BY <1>6, <1>8, <2>1, <2>2, <2>3
<1> QED BY <1>7, <1>9 DEF LinesFollow

\* A document no money is posted to.
LEMMA LinesUnpaid ==
  ASSUME NEW d \in Invoices, Posted(d)' = {},
         inv'[d].lines \in Seq(Nat), OpeningPaid(d)' \in Nat, OpeningPaid(d)' <= inv'[d].total,
         inv'[d].lines # <<>> => Total(inv'[d].lines, DOMAIN inv'[d].lines) = inv'[d].total
  PROVE  LinesFollow(d)'
<1>1. \A f : Total(f, {}) = 0
  BY TotalEmpty
<1>2. Received(Posted(d))' = 0
  BY <1>1 DEF Received
<1>3. \A k : Named(d, k)' = 0
  <2>1. \A k : {p \in Posted(d)' : pays'[p].line = k} = {}
    OBVIOUS
  <2> QED BY <1>1, <2>1 DEF Named, Received
<1>4. \A k \in DOMAIN inv'[d].lines : inv'[d].lines[k] \in Nat
  OBVIOUS
<1>5. Paid(d)' <= inv'[d].total
  BY <1>2 DEF Paid
<1> QED BY <1>3, <1>4, <1>5 DEF LinesFollow

\* What one more payment adds to what its document was paid.
LEMMA AddedAmounts ==
  ASSUME RowsTyped, NEW d \in Invoices, NEW k \in Nat, NEW a \in Nat,
         pays' = Append(pays, Payment(d, k, a))
  PROVE  /\ Received(Posted(d))' = Received(Posted(d)) + a
         /\ \A j : Named(d, j)' = Named(d, j) + (IF j = k THEN a ELSE 0)
         /\ \A p \in Posted(d)' : pays'[p].line = k \/ (p \in Posted(d) /\ pays'[p].line = pays[p].line)
<1> DEFINE n == Len(pays) + 1
           amount == [p \in DOMAIN pays |-> pays[p].amount]
           new == [p \in DOMAIN pays' |-> pays'[p].amount]
<1>1. /\ pays \in Seq(PaymentRow) /\ Len(pays) \in Nat /\ n \notin DOMAIN pays
      /\ DOMAIN pays' = DOMAIN pays \cup {n} /\ pays'[n] = Payment(d, k, a)
      /\ \A p \in DOMAIN pays : pays'[p] = pays[p] /\ pays[p] \in PaymentRow
  BY DEF RowsTyped
<1>2. Posted(d)' = Posted(d) \cup {n}
  <2>1. Payment(d, k, a).doc = d /\ Payment(d, k, a).status = "posted"
    BY DEF Payment
  <2> QED BY <1>1, <2>1 DEF Posted, On
<1>3. /\ Posted(d) \in SUBSET DOMAIN pays /\ IsFiniteSet(Posted(d))
      /\ pays'[n].line = k /\ new[n] = a
  BY <1>1, PaidType DEF Payment
<1>4. \A p \in DOMAIN pays : amount[p] \in Int /\ new[p] = amount[p]
  BY <1>1 DEF PaymentRow
<1>5. /\ \A T : Received(T) = Total(amount, T)
      /\ Received(Posted(d))' = Total(new, Posted(d)')
      /\ \A j : Named(d, j)' = Total(new, {p \in Posted(d)' : pays'[p].line = j})
  BY DEF Received, Named
<1>6. n \notin Posted(d)
  BY <1>1, <1>3
<1> HIDE DEF n, amount, new
<1>7. ASSUME NEW S \in SUBSET Posted(d)
      PROVE  /\ Total(new, S) = Total(amount, S) /\ Total(amount, S) \in Int
             /\ Total(new, S \cup {n}) = Total(amount, S) + a
  <2>1. /\ IsFiniteSet(S) /\ n \notin S /\ \A p \in S : amount[p] \in Int /\ new[p] = amount[p]
    BY <1>3, <1>4, <1>6, FS_Subset
  <2>2. Total(new, S) = Total(amount, S) /\ Total(amount, S) \in Int
    BY <2>1, TotalEqual, TotalType
  <2>3. /\ IsFiniteSet(S \cup {n}) /\ (S \cup {n}) \ {n} = S
        /\ \A p \in S \cup {n} : new[p] \in Int
    BY <1>3, <2>1, FS_AddElement
  <2>4. Total(new, S \cup {n}) = new[n] + Total(new, S)
    BY <2>3, TotalRemove
  <2> QED BY <1>3, <2>2, <2>4
<1>8. Received(Posted(d))' = Received(Posted(d)) + a
  BY <1>2, <1>5, <1>7
<1>9. ASSUME NEW j PROVE Named(d, j)' = Named(d, j) + (IF j = k THEN a ELSE 0)
  <2> DEFINE S == {p \in Posted(d) : pays[p].line = j}
             T == {p \in Posted(d)' : pays'[p].line = j}
  <2>1. T = IF j = k THEN S \cup {n} ELSE S
    BY <1>1, <1>2, <1>3
  <2>2. Named(d, j)' = Total(new, T) /\ Named(d, j) = Total(amount, S)
    BY <1>5 DEF Named
  <2>3. S \in SUBSET Posted(d)
    OBVIOUS
  <2> HIDE DEF S, T
  <2>4. /\ Total(new, S) = Total(amount, S) /\ Total(amount, S) \in Int
        /\ Total(new, S \cup {n}) = Total(amount, S) + a
    BY <1>7, <2>3
  <2>5. CASE j = k
    BY <2>1, <2>2, <2>4, <2>5
  <2>6. CASE j # k
    BY <2>1, <2>2, <2>4, <2>6
  <2> QED BY <2>5, <2>6
<1> QED BY <1>1, <1>2, <1>3, <1>8, <1>9

LEMMA LinesSplit ==
  ASSUME NEW net \in Seq(Int), NEW total \in Nat, NEW lines, lines = LineAmounts(net, total)
  PROVE  lines \in Seq(Nat) /\ (lines # <<>> => Total(lines, DOMAIN lines) = total)
<1>1. /\ lines \in Seq(Nat) /\ DOMAIN lines = DOMAIN net
      /\ net # <<>> => Total(lines, DOMAIN net) = total
  BY LineAmountsFit
<1>2. net = <<>> => lines = <<>>
  <2> SUFFICES ASSUME net = <<>> PROVE lines = <<>>
    OBVIOUS
  <2>1. DOMAIN lines = {}
    BY <1>1
  <2>2. DOMAIN lines = 1..Len(lines) /\ Len(lines) \in Nat
    BY <1>1
  <2>3. Len(lines) = 0
    BY <2>1, <2>2
  <2> QED BY <1>1, <2>3
<1> QED BY <1>1, <1>2

\* No money is on a document without an entry.
LEMMA NoMoney ==
  ASSUME LedgerFollowsAll, NEW d \in Invoices, ~Issued(d)
  PROVE  Posted(d) = {}
BY DEF LedgerFollowsAll, LedgerFollows

\* A step that leaves the payments and what a document is for alone.
LEMMA LinesSame ==
  ASSUME RowsTyped, RowsTyped', LinesFollowAll, pays' = pays, NEW d \in Invoices,
         inv'[d].lines = inv[d].lines, inv'[d].total = inv[d].total, Stands(d)' => Stands(d)
  PROVE  LinesFollow(d)'
<1>1. LinesFollow(d) /\ Posted(d)' = Posted(d)
  BY SamePayments DEF LinesFollowAll
<1> QED BY <1>1, LinesKept

\* A payment of another document.
LEMMA LinesElsewhere ==
  ASSUME RowsTyped, RowsTyped', LinesFollowAll, NEW d \in Invoices, NEW k \in Nat, NEW a \in Nat,
         pays' = Append(pays, Payment(d, k, a)), NEW e \in Invoices, e # d, inv'[e] = inv[e]
  PROVE  LinesFollow(e)'
<1>1. LinesFollow(e) /\ Posted(e)' = Posted(e) /\ Posted(e) \subseteq DOMAIN pays
  BY AddedPayment, PaidType DEF LinesFollowAll
<1>2. \A p \in DOMAIN pays : pays'[p] = pays[p]
  BY DEF RowsTyped
<1>3. Stands(e)' => Stands(e)
  BY DEF Stands
<1> QED BY <1>1, <1>2, <1>3, LinesKept

LEMMA SaleLines ==
  ASSUME RowsTyped, RowsTyped', LedgerFollowsAll, LinesFollowAll, NEW s \in Sales,
         NEW basket \in Baskets, NEW client, NEW received \in Nat,
         CreateCashSale(s, basket, client, received)
  PROVE  LinesFollowAll'
<1>1. /\ s \in Invoices /\ s \notin Loans /\ basket.total \in Nat /\ basket.net \in Seq(Int)
      /\ received <= basket.total
  BY CashAssumption DEF Invoices, CreateCashSale
<1>2. /\ inv'[s].lines = LineAmounts(basket.net, basket.total) /\ inv'[s].total = basket.total
      /\ \A e \in Invoices : e # s => inv'[e] = inv[e]
  BY <1>1 DEF CreateCashSale, RowsTyped
<1>3. /\ inv'[s].lines \in Seq(Nat)
      /\ inv'[s].lines # <<>> => Total(inv'[s].lines, DOMAIN inv'[s].lines) = inv'[s].total
  BY <1>1, <1>2, LinesSplit
<1>4. Posted(s) = {} /\ OpeningPaid(s)' = 0
  <2>1. ~Issued(s)
    BY DEF CreateCashSale, Issued
  <2> QED BY <1>1, <2>1, NoMoney DEF OpeningPaid
<1>5. CASE received = 0
  <2>1. pays' = pays
    BY <1>5 DEF CreateCashSale
  <2>2. Posted(s)' = {}
    BY <1>1, <1>4, <2>1, SamePayments
  <2>3. LinesFollow(s)'
    BY <1>1, <1>2, <1>3, <1>4, <2>2, LinesUnpaid
  <2>4. ASSUME NEW e \in Invoices, e # s PROVE LinesFollow(e)'
    BY <1>2, <2>1, <2>4, LinesSame DEF Stands
  <2> QED BY <2>3, <2>4 DEF LinesFollowAll
<1>6. CASE received # 0
  <2>1. pays' = Append(pays, Payment(s, 0, received)) /\ 0 \in Nat
    BY <1>6 DEF CreateCashSale
  <2>2. \A f : Total(f, {}) = 0
    BY TotalEmpty
  <2>3. Received(Posted(s)) = 0 /\ \A j : Named(s, j) = 0
    <3>1. \A j : {p \in Posted(s) : pays[p].line = j} = {}
      BY <1>4
    <3> QED BY <1>4, <2>2, <3>1 DEF Received, Named
  <2>4. /\ Received(Posted(s))' = Received(Posted(s)) + received
        /\ \A j : Named(s, j)' = Named(s, j) + (IF j = 0 THEN received ELSE 0)
        /\ \A p \in Posted(s)' : pays'[p].line = 0 \/ (p \in Posted(s) /\ pays'[p].line = pays[p].line)
    BY <1>1, <2>1, AddedAmounts
  <2>5. Paid(s)' <= inv'[s].total
    BY <1>1, <1>2, <1>4, <2>3, <2>4 DEF Paid
  <2>6. ASSUME NEW k \in DOMAIN inv'[s].lines PROVE Named(s, k)' <= inv'[s].lines[k]
    <3>1. k # 0 /\ inv'[s].lines[k] \in Nat
      BY <1>3
    <3>2. Named(s, k)' = 0
      BY <2>3, <2>4, <3>1
    <3> QED BY <3>1, <3>2
  <2>7. \A p \in Posted(s)' : pays'[p].line = 0
    BY <1>4, <2>4
  <2>8. LinesFollow(s)'
    BY <1>3, <2>5, <2>6, <2>7 DEF LinesFollow
  <2>9. ASSUME NEW e \in Invoices, e # s PROVE LinesFollow(e)'
    BY <1>1, <1>2, <2>1, <2>9, LinesElsewhere
  <2> QED BY <2>8, <2>9 DEF LinesFollowAll
<1> QED BY <1>5, <1>6

LEMMA SoldLines ==
  ASSUME RowsTyped, RowsTyped', LedgerFollowsAll, LinesFollowAll, NEW s \in Sales,
         NEW basket \in Baskets, Sold(s, basket)
  PROVE  LinesFollowAll'
<1>1. PICK received \in Nat : \E client : CreateCashSale(s, basket, client, received)
  BY DEF Sold, SaleToClient, SaleToWalkin
<1> QED BY <1>1, SaleLines

LEMMA DraftLines ==
  ASSUME RowsTyped, RowsTyped', LedgerFollowsAll, LinesFollowAll, NEW s \in Sales,
         NEW basket \in Baskets, NEW client, CreateInvoice(s, basket, client)
  PROVE  LinesFollowAll'
<1>1. /\ s \in Invoices /\ s \notin Loans /\ basket.total \in Nat /\ basket.net \in Seq(Int)
      /\ pays' = pays
  BY CashAssumption DEF Invoices, CreateInvoice
<1>2. /\ inv'[s].lines = LineAmounts(basket.net, basket.total) /\ inv'[s].total = basket.total
      /\ \A e \in Invoices : e # s => inv'[e] = inv[e]
  BY <1>1 DEF CreateInvoice, RowsTyped
<1>3. /\ inv'[s].lines \in Seq(Nat)
      /\ inv'[s].lines # <<>> => Total(inv'[s].lines, DOMAIN inv'[s].lines) = inv'[s].total
  BY <1>1, <1>2, LinesSplit
<1>4. Posted(s)' = {} /\ OpeningPaid(s)' = 0
  <2>1. ~Issued(s)
    BY DEF CreateInvoice, Issued
  <2> QED BY <1>1, <2>1, NoMoney, SamePayments DEF OpeningPaid
<1>5. LinesFollow(s)'
  BY <1>1, <1>2, <1>3, <1>4, LinesUnpaid
<1>6. ASSUME NEW e \in Invoices, e # s PROVE LinesFollow(e)'
  BY <1>1, <1>2, <1>6, LinesSame DEF Stands
<1> QED BY <1>5, <1>6 DEF LinesFollowAll

LEMMA CollectLines ==
  ASSUME RowsTyped, RowsTyped', LinesFollowAll, NEW d \in Invoices, NEW k \in Nat, NEW a \in Nat,
         Collect(d, k, a), Covered(d, k, a)
  PROVE  LinesFollowAll'
<1>1. PICK state \in {"sent", "paid"} : Restates(inv', d, state) /\ Issued(d)
  BY CollectTypes
<1>2. pays' = Append(pays, Payment(d, k, a))
  BY DEF Collect
<1>3. LinesFollow(d)
  BY DEF LinesFollowAll
<1>4. /\ Received(Posted(d))' = Received(Posted(d)) + a
      /\ \A j : Named(d, j)' = Named(d, j) + (IF j = k THEN a ELSE 0)
      /\ \A p \in Posted(d)' : pays'[p].line = k \/ (p \in Posted(d) /\ pays'[p].line = pays[p].line)
  BY <1>2, AddedAmounts
<1>5. /\ Paid(d) + a <= inv[d].total
      /\ k \in DOMAIN inv[d].lines => Named(d, k) + a <= inv[d].lines[k]
      /\ k \in DOMAIN inv[d].lines \cup {0}
  BY <1>3, CoveredFits
<1>6. inv'[d].lines = inv[d].lines /\ inv'[d].total = inv[d].total
  BY <1>1 DEF Restates
<1>7. Paid(d)' <= inv'[d].total
  <2>1. OpeningPaid(d)' = OpeningPaid(d)
    BY <1>1 DEF OpeningPaid, Stands, Restates, Issued
  <2>2. OpeningPaid(d) \in Nat /\ Received(Posted(d)) \in Nat
    BY PaidType
  <2>3. Paid(d)' = Paid(d) + a
    BY <1>4, <2>1, <2>2 DEF Paid
  <2> QED BY <1>5, <1>6, <2>3
<1>8. ASSUME NEW j \in DOMAIN inv[d].lines PROVE Named(d, j)' <= inv[d].lines[j]
  <2>1. Named(d, j) <= inv[d].lines[j] /\ Named(d, j) \in Nat
    BY <1>3, PaidType DEF LinesFollow
  <2>2. CASE j = k
    BY <1>4, <1>5, <2>2
  <2>3. CASE j # k
    BY <1>4, <2>1, <2>3
  <2> QED BY <2>2, <2>3
<1>9. \A p \in Posted(d)' : pays'[p].line \in DOMAIN inv'[d].lines \cup {0}
  BY <1>3, <1>4, <1>5, <1>6 DEF LinesFollow
<1>10. LinesFollow(d)'
  BY <1>3, <1>6, <1>7, <1>8, <1>9 DEF LinesFollow
<1>11. ASSUME NEW e \in Invoices, e # d PROVE LinesFollow(e)'
  BY <1>1, <1>2, <1>11, LinesElsewhere DEF Restates
<1> QED BY <1>10, <1>11 DEF LinesFollowAll

LEMMA VoidLines ==
  ASSUME RowsTyped, RowsTyped', LinesFollowAll, NEW p \in DOMAIN pays, VoidPayment(p)
  PROVE  LinesFollowAll'
<1>1. inv' = inv \/ (Restates(inv', pays[p].doc, "sent") /\ inv[pays[p].doc].state = "paid")
  BY VoidTypes
<1>2. pays' = [pays EXCEPT ![p].status = "voided"]
  BY DEF VoidPayment
<1>3. /\ DOMAIN pays' = DOMAIN pays
      /\ \A q \in DOMAIN pays : /\ pays'[q].amount = pays[q].amount /\ pays'[q].line = pays[q].line
                                /\ pays'[q].doc = pays[q].doc
                                /\ pays'[q].status = "posted" => pays[q].status = "posted"
  <2>1. \A q \in DOMAIN pays : pays[q] \in PaymentRow
    BY DEF RowsTyped
  <2> QED BY <1>2, <2>1 DEF PaymentRow
<1>4. ASSUME NEW e \in Invoices PROVE LinesFollow(e)'
  <2>1. \A q \in Posted(e)' : /\ q \in Posted(e) /\ pays'[q].amount = pays[q].amount
                              /\ pays'[q].line = pays[q].line
    BY <1>3 DEF Posted, On
  <2>2. inv'[e].lines = inv[e].lines /\ inv'[e].total = inv[e].total /\ (Stands(e)' => Stands(e))
    BY <1>1 DEF Restates, Stands
  <2> QED BY <2>1, <2>2, LinesKept DEF LinesFollowAll
<1> QED BY <1>4 DEF LinesFollowAll

\* The lines of a row that was never written.
LEMMA NothingDue == <<0>> \in Seq(Nat) /\ Total(<<0>>, DOMAIN <<0>>) = 0
<1> DEFINE row == <<0>>
<1>1. row \in Seq(Nat) /\ DOMAIN row = 1..1 /\ \A k \in DOMAIN row : row[k] = 0
  OBVIOUS
<1> HIDE DEF row
<1>2. IsFiniteSet(DOMAIN row)
  BY <1>1, FS_Interval
<1>3. Total(row, DOMAIN row) = 0
  BY <1>1, <1>2, TotalNone
<1> QED BY <1>1, <1>3 DEF row

LEMMA DropLines ==
  ASSUME RowsTyped, RowsTyped', LinesFollowAll,
         (\E s \in Sales : DeleteInvoice(s)) \/ (\E row \in clients : DeleteClient(row))
  PROVE  LinesFollowAll'
<1>1. pays' = pays /\ \A e \in Invoices : inv'[e] \in {inv[e], Gone(e)}
  BY DEF DeleteInvoice, DeleteClient, RowsTyped
<1>2. ASSUME NEW e \in Invoices PROVE LinesFollow(e)'
  <2>1. /\ inv'[e].lines = inv[e].lines /\ inv'[e].total = inv[e].total
        /\ Stands(e)' => Stands(e)
    BY <1>1, GoneIs DEF Stands
  <2> QED BY <1>1, <2>1, LinesSame
<1> QED BY <1>2 DEF LinesFollowAll

LEMMA RestateLines ==
  ASSUME RowsTyped, RowsTyped', LinesFollowAll, NEW d \in Invoices, NEW state,
         Restates(inv', d, state), Stands(d), pays' = pays
  PROVE  LinesFollowAll'
<1>1. ASSUME NEW e \in Invoices PROVE LinesFollow(e)'
  <2>1. /\ inv'[e].lines = inv[e].lines /\ inv'[e].total = inv[e].total
        /\ Stands(e)' => Stands(e)
    BY DEF Restates, Stands
  <2> QED BY <2>1, LinesSame
<1> QED BY <1>1 DEF LinesFollowAll

LEMMA ImportLines ==
  ASSUME RowsTyped, RowsTyped', LedgerFollowsAll, LinesFollowAll, NEW c, NEW r \in Import,
         ImportWrite(c, r.batch, r.refs, r.new, r.of)
  PROVE  LinesFollowAll'
<1>1. pays' = pays
  BY DEF ImportWrite
<1>2. ASSUME NEW d \in Invoices, d \in Brought(r) PROVE LinesFollow(d)'
  <2>1. d[1] \in Refs /\ d[2] = r.batch /\ d \in Loans /\ d = <<d[1], r.batch>>
    BY <1>2, BroughtIs
  <2>2. inv'[d] = LoanRow(d[1], r.of[LoanAt(r, d)])
    BY <1>2, ImportRows
  <2>3. /\ Register[d[1]].net \in Seq(Int) /\ LineSum(d[1]) \in Nat /\ Owed(d[1]) \in Nat
        /\ Register[d[1]].paid \in Nat /\ LineSum(d[1]) = Owed(d[1]) + Register[d[1]].paid
    BY <2>1, LineSumType, CashAssumption
  <2>4. /\ inv'[d].lines = LineAmounts(Register[d[1]].net, LineSum(d[1]))
        /\ inv'[d].total = LineSum(d[1])
    BY <2>2 DEF LoanRow
  <2>5. /\ inv'[d].lines \in Seq(Nat)
        /\ inv'[d].lines # <<>> => Total(inv'[d].lines, DOMAIN inv'[d].lines) = inv'[d].total
    BY <2>3, <2>4, LinesSplit
  <2>6. Posted(d)' = {}
    <3>1. ~Issued(d)
      BY <2>1 DEF ImportWrite, Issued
    <3> QED BY <1>1, <3>1, NoMoney, SamePayments
  <2>7. OpeningPaid(d)' \in Nat /\ OpeningPaid(d)' <= inv'[d].total
    <3>1. OpeningPaid(d)' = 0 \/ OpeningPaid(d)' = Register[d[1]].paid
      BY DEF OpeningPaid
    <3> QED BY <2>3, <2>4, <3>1
  <2> QED BY <2>5, <2>6, <2>7, LinesUnpaid
<1>3. ASSUME NEW d \in Invoices, d \notin Brought(r) PROVE LinesFollow(d)'
  <2>1. inv'[d] = inv[d]
    BY <1>3, ImportRows
  <2> QED BY <1>1, <2>1, LinesSame DEF Stands
<1> QED BY <1>2, <1>3 DEF LinesFollowAll

LEMMA UndoLines ==
  ASSUME RowsTyped, RowsTyped', LinesFollowAll, NEW c, NEW b \in Batches, UndoWrite(c, b)
  PROVE  LinesFollowAll'
<1>1. pays' = pays /\ \A e \in Invoices : inv'[e] \in {inv[e], Gone(e)}
  BY DEF UndoWrite
<1>2. ASSUME NEW e \in Invoices PROVE LinesFollow(e)'
  <2>1. /\ inv'[e].lines = inv[e].lines /\ inv'[e].total = inv[e].total
        /\ Stands(e)' => Stands(e)
    BY <1>1, GoneIs DEF Stands
  <2> QED BY <1>1, <2>1, LinesSame
<1> QED BY <1>2 DEF LinesFollowAll

LEMMA LinesStay ==
  RowsTyped /\ RowsTyped' /\ LedgerFollowsAll /\ LinesFollowAll /\ RowStep => LinesFollowAll'
<1> SUFFICES ASSUME RowsTyped, RowsTyped', LedgerFollowsAll, LinesFollowAll, RowStep
             PROVE  LinesFollowAll'
  OBVIOUS
<1>1. ASSUME NEW c \in Cashiers, NEW s \in Sales, NEW to \in {"draft", "sent", "paid", "cancelled"},
             NEW plan \in BOOLEAN, UpdateStateWrite(c, s, to, plan)
      PROVE  LinesFollowAll'
  <2>1. pays' = pays /\ s \in Invoices
    BY <1>1 DEF UpdateStateWrite, Invoices
  <2>2. CASE Stands(s) /\ Restates(inv', s, to)
    BY <2>1, <2>2, RestateLines
  <2>3. CASE inv' = inv
    BY <2>1, <2>3, LinesSame DEF LinesFollowAll, Stands
  <2> QED BY <1>1, <2>2, <2>3, StateWriteTypes
<1>2. ASSUME NEW c \in Cashiers, NEW d \in Loans, NEW to \in {"sent", "paid"},
             NEW from \in {"sent", "paid"}, UpdateLoanStateWrite(c, d, to, from)
      PROVE  LinesFollowAll'
  <2>1. d \in Invoices /\ Stands(d) /\ pays' = pays /\ Restates(inv', d, to)
    BY <1>2, LoanWriteTypes DEF UpdateLoanStateWrite, Invoices, Stands
  <2> QED BY <2>1, RestateLines
<1>3. CASE UNCHANGED Rows
  <2>1. pays' = pays /\ inv' = inv
    BY <1>3 DEF Rows
  <2>2. \A d \in Invoices : LinesFollow(d)'
    BY <2>1, LinesSame DEF Stands
  <2> QED BY <2>2 DEF LinesFollowAll
<1> QED BY <1>1, <1>2, <1>3, SoldLines, DraftLines, CollectLines, VoidLines, DropLines, ImportLines,
           UndoLines DEF RowStep

LEMMA LinesInit == CashInit => LinesFollowAll
<1> SUFFICES ASSUME CashInit, NEW d \in Invoices PROVE LinesFollow(d)
  BY DEF LinesFollowAll
<1>1. /\ inv[d].lines = <<0>> /\ inv[d].total = 0 /\ Posted(d) = {} /\ OpeningPaid(d) = 0
  BY DEF CashInit, Posted, On, OpeningPaid, Stands, NoRow
<1>2. \A f : Total(f, {}) = 0
  BY TotalEmpty
<1>3. Received(Posted(d)) = 0 /\ \A k : Named(d, k) = 0
  <2>1. \A k : {p \in Posted(d) : pays[p].line = k} = {}
    BY <1>1
  <2> QED BY <1>1, <1>2, <2>1 DEF Named, Received
<1>4. \A k \in DOMAIN <<0>> : <<0>>[k] = 0
  OBVIOUS
<1> QED BY <1>1, <1>3, <1>4, NothingDue DEF LinesFollow, Paid

-----------------------------------------------------------------------------
(* The theorems.                                                           *)

LEMMA BookInit == CashInit => BookIInv
<1> SUFFICES ASSUME CashInit PROVE BookIInv
  OBVIOUS
<1>1. \A d \in Invoices : /\ inv[d] = NoRow /\ ar[d] = 0 /\ Posted(d) = {}
                          /\ ~Issued(d) /\ ~Stands(d) /\ d \notin stale
  BY DEF CashInit, Posted, On, Issued, Stands, NoRow
<1>2. LedgerFollowsAll
  BY <1>1 DEF LedgerFollowsAll, LedgerFollows
<1>3. StandsOnce
  BY <1>1 DEF StandsOnce, Invoices, Loans
<1>4. NothingLosesItsCustomer
  BY <1>1 DEF NothingLosesItsCustomer, CashInit
<1> QED BY <1>2, <1>3, <1>4 DEF BookIInv

LEMMA CounterHeld == CashSpec => [](CashTypeOK /\ MadeFirst)
<1>1. CashInit => CashTypeOK /\ MadeFirst
  <2>1. Free.op # "state"
    BY DEF Free
  <2>2. CashInit => \A c \in Cashiers : held[c] = Free
    BY DEF CashInit
  <2> QED BY <2>1, <2>2, CashInitTyped DEF MadeFirst
<1> QED BY <1>1, CashTyped, PTL DEF CashSpec

\* The rows of the counter and its parked requests are always of the kinds the
\* handlers write: in particular an import's plan, made a loan at a time.
THEOREM CounterTyped == CashSpec => []CashTypeOK
BY CounterHeld, PTL

LEMMA BookHolds == CashSpec => [](CashTypeOK /\ MadeFirst /\ BookIInv)
<1>1. CashTypeOK /\ MadeFirst /\ BookIInv /\ [CashNext]_cashVars => BookIInv'
  <2> SUFFICES ASSUME CashTypeOK, MadeFirst, BookIInv, [CashNext]_cashVars PROVE BookIInv'
    OBVIOUS
  <2>1. RowsTyped /\ RowStep
    BY StepIs DEF CashTypeOK
  <2> QED BY <2>1, LedgerStaysInStep, StandsOnceStays, CustomersStay DEF BookIInv
<1> QED BY <1>1, BookInit, CounterHeld, PTL DEF CashSpec

\* What the ledger says a customer owes on a sale or a loan brought forward is
\* what the loan tracker says, whatever requests overlap: but for a sale that a
\* state change wrote about after its deletion.
THEOREM CounterLedgerAgrees == CashSpec => []LedgerOwesWhatTrackerSays
<1>1. CashTypeOK /\ BookIInv => LedgerOwesWhatTrackerSays
  <2> SUFFICES ASSUME CashTypeOK, BookIInv, NEW d \in Invoices \ stale
               PROVE  ar[d] - Received(Posted(d)) = IF Issued(d) THEN inv[d].total - Paid(d) ELSE 0
    BY DEF LedgerOwesWhatTrackerSays
  <2>1. inv[d].total \in Nat /\ ar[d] \in Nat
    BY DEF CashTypeOK, RowsTyped, InvoiceRow
  <2>2. Received(Posted(d)) \in Nat /\ OpeningPaid(d) \in Nat
    BY PaidType DEF CashTypeOK
  <2>3. LedgerFollows(d)
    BY DEF BookIInv, LedgerFollowsAll
  <2>4. Posted(d) = {} => Received(Posted(d)) = 0
    BY TotalEmpty DEF Received
  <2>5. CASE Issued(d)
    <3>1. ar[d] = inv[d].total - OpeningPaid(d)
      BY <2>3, <2>5 DEF LedgerFollows
    <3> HIDE DEF OpeningPaid, Received, Posted
    <3> QED BY <2>1, <2>2, <2>5, <3>1 DEF Paid
  <2>6. CASE ~Issued(d)
    BY <2>3, <2>4, <2>6 DEF LedgerFollows
  <2> QED BY <2>5, <2>6
<1> QED BY <1>1, BookHolds, PTL

\* No line is collected beyond its share of the invoice, and the lines account
\* for every cent paid, for any baskets, register and payments.
THEOREM CounterLinesFit == CashSpec => []LinesNeverOvercollected
<1>1. CashTypeOK /\ LinesFollowAll => LinesNeverOvercollected
  BY LinesHold DEF CashTypeOK
<1>2. CashTypeOK /\ CashTypeOK' /\ MadeFirst /\ BookIInv /\ LinesFollowAll /\ [CashNext]_cashVars
        => LinesFollowAll'
  <2> SUFFICES ASSUME CashTypeOK, CashTypeOK', MadeFirst, BookIInv, LinesFollowAll,
                      [CashNext]_cashVars
               PROVE  LinesFollowAll'
    OBVIOUS
  <2>1. RowsTyped /\ RowsTyped' /\ RowStep
    BY StepIs DEF CashTypeOK
  <2> QED BY <2>1, LinesStay DEF BookIInv
<1> QED BY <1>1, <1>2, LinesInit, BookHolds, PTL DEF CashSpec

\* A loan of the paper register stands at most once, whatever files are
\* imported at the same time.
THEOREM CounterForwardOnce == CashSpec => []BroughtForwardOnce
<1>1. BookIInv => BroughtForwardOnce
  BY OnceCounts DEF BookIInv
<1> QED BY <1>1, BookHolds, PTL

\* No document, and no entry of the ledger, loses its customer: not to a
\* deletion, not to the undo of the import that created it.
THEOREM CounterCustomersKept == CashSpec => []NothingLosesItsCustomer
<1>1. BookIInv => NothingLosesItsCustomer
  BY DEF BookIInv
<1> QED BY <1>1, BookHolds, PTL

\* A sale's stock is out, once, exactly while it is issued, but for a sale that
\* a state change wrote about after its deletion, and provided no basket gives
\* stock away: a gift has no entry, so its client can be deleted.
THEOREM CounterStockFollows == NoGifts => (CashSpec => []StockFollowsSale)
<1> SUFFICES ASSUME NoGifts PROVE CashSpec => []StockFollowsSale
  OBVIOUS
<1>1. CashInit => StockIInv
  BY CashAssumption DEF CashInit, StockIInv, SaleFollowed, Issued, NoRow, Invoices
<1>2. CashTypeOK /\ MadeFirst /\ BookIInv /\ StockIInv /\ [CashNext]_cashVars => StockIInv'
  <2> SUFFICES ASSUME CashTypeOK, MadeFirst, BookIInv, StockIInv, [CashNext]_cashVars
               PROVE  StockIInv'
    OBVIOUS
  <2>1. RowsTyped /\ RowStep /\ LedgerFollowsAll
    BY StepIs DEF CashTypeOK, BookIInv
  <2> QED BY <2>1, StockStays
<1>3. StockIInv => StockFollowsSale
  BY DEF StockIInv, SaleFollowed, StockFollowsSale
<1> QED BY <1>1, <1>2, <1>3, BookHolds, PTL DEF CashSpec

-----------------------------------------------------------------------------
(* The numbers of documents.                                               *)

\* What is assigned under the present counting lies at or below the counter.
IssuedBelow == \A n \in issued : n.format # Fixed => n.n \in 0..counter

\* The inductive invariant: the counter of an invoice may fall behind what it
\* assigned, those of the other documents do not.
NumbersIInv ==
  /\ number = [d \in Docs |-> number[d]]
  /\ UniqueNumbers
  /\ kind = "document" => counter \in Nat /\ IssuedBelow
  /\ NeverReissued

\* A number nobody else carries, or none at all, keeps numbers unique.
LEMMA OneMore ==
  ASSUME number = [d \in Docs |-> number[d]], UniqueNumbers, NEW d \in Docs, NEW n,
         n = Blank \/ n = None \/ ~Taken(n, d), number' = [number EXCEPT ![d] = n]
  PROVE  number' = [e \in Docs |-> number'[e]] /\ UniqueNumbers'
<1>1. number'[d] = n /\ \A e \in Docs \ {d} : number'[e] = number[e]
  OBVIOUS
<1>2. number' = [e \in Docs |-> number'[e]]
  OBVIOUS
<1>3. ASSUME NEW a \in Docs, NEW b \in Docs, Present(a)', number'[a] = number'[b],
             number'[a] # Blank
      PROVE  a = b
  <2>1. CASE a # d /\ b # d
    BY <1>1, <1>3, <2>1 DEF UniqueNumbers, Present
  <2>2. CASE a = d \/ b = d
    BY <1>1, <1>3, <2>2 DEF Taken, Present
  <2> QED
    BY <2>1, <2>2
<1> QED
  BY <1>2, <1>3 DEF UniqueNumbers, Blank

\* The counter a creation uses is beyond the one stored.
LEMMA FirstFreeBeyond ==
  ASSUME kind = "document" => counter \in Nat, NEW k, FirstFree(k)
  PROVE  ~Taken(Formatted(format, k), None) /\ (kind = "document" => k \in Nat /\ k > counter)
  BY ConstantsAssumption DEF FirstFree

LEMMA FreeForNew ==
  ASSUME NEW n, NEW d, ~Taken(n, None)
  PROVE  ~Taken(n, d)
  BY ConstantsAssumption DEF Taken

LEMMA CreateIInv ==
  ASSUME NumbersIInv, NEW d \in Docs, Create(d)
  PROVE  NumbersIInv'
<1>1. PICK k \in 1..MaxCounter :
        /\ FirstFree(k)
        /\ number' = [number EXCEPT ![d] = Formatted(format, k)]
        /\ counter' = k
        /\ issued' = issued \cup {Formatted(format, k)}
        /\ reissued' = reissued \cup ({Formatted(format, k)} \cap issued)
  BY DEF Create
<1> DEFINE n == Formatted(format, k)
<1>2. ~Taken(n, None) /\ (kind = "document" => k \in Nat /\ k > counter)
  BY <1>1, FirstFreeBeyond DEF NumbersIInv
<1>3. n.format = format /\ (format # Fixed => n.n = k)
  BY DEF Formatted
<1>4. number' = [e \in Docs |-> number'[e]] /\ UniqueNumbers'
  BY <1>1, <1>2, FreeForNew, OneMore DEF NumbersIInv
<1>5. kind' = kind
  BY DEF Create
<1>6. kind = "document" => counter' \in Nat /\ IssuedBelow'
  BY <1>1, <1>2, <1>3 DEF NumbersIInv, IssuedBelow
<1>7. NeverReissued'
  <2>1. kind = "document" /\ n \in issued => n.format = Fixed
    BY <1>2, <1>3 DEF NumbersIInv, IssuedBelow
  <2> QED
    BY <1>1, <1>5, <2>1 DEF NumbersIInv, NeverReissued
<1> QED
  BY <1>4, <1>5, <1>6, <1>7 DEF NumbersIInv

LEMMA CreateTypedIInv ==
  ASSUME NumbersIInv, NEW d \in Docs, NEW n, CreateTyped(d, n)
  PROVE  NumbersIInv'
<1>1. number' = [e \in Docs |-> number'[e]] /\ UniqueNumbers'
  BY FreeForNew, OneMore DEF NumbersIInv, CreateTyped
<1>2. kind' = kind /\ issued' = issued /\ reissued' = reissued
  BY DEF CreateTyped, assigned
<1>3. kind = "document" => counter' \in Nat /\ counter' > counter
  BY FirstFreeBeyond DEF NumbersIInv, CreateTyped
<1>4. kind = "document" => IssuedBelow'
  <2> SUFFICES ASSUME kind = "document", NEW m \in issued, m.format # Fixed
               PROVE  m.n \in 0..counter'
    BY <1>2 DEF IssuedBelow
  <2>1. m.n \in 0..counter /\ counter \in Nat
    BY DEF NumbersIInv, IssuedBelow
  <2> QED
    BY <1>3, <2>1
<1> QED
  BY <1>1, <1>2, <1>3, <1>4 DEF NumbersIInv, NeverReissued

\* A step that assigns nothing and leaves the counter of the others alone.
LEMMA CountingStays ==
  ASSUME NumbersIInv, kind' = kind, kind = "document" => counter' = counter,
         issued' = issued, reissued' = reissued
  PROVE  (kind = "document" => counter \in Nat /\ IssuedBelow)' /\ NeverReissued'
  BY DEF NumbersIInv, IssuedBelow, NeverReissued

LEMMA NumbersStay ==
  ASSUME NumbersIInv, number' = number
  PROVE  (number = [d \in Docs |-> number[d]])' /\ UniqueNumbers'
  BY DEF NumbersIInv, UniqueNumbers, Present

\* Renaming goes by the index, whatever was checked before.
LEMMA RenameIInv ==
  ASSUME NumbersIInv, NEW d, NEW n, Present(d), IndexAllows(d, n),
         number' = [number EXCEPT ![d] = n], UNCHANGED <<kind, settings, assigned>>
  PROVE  NumbersIInv'
<1>1. (number = [e \in Docs |-> number[e]])' /\ UniqueNumbers'
  <2>1. CASE d \in Docs
    BY <2>1, OneMore DEF NumbersIInv, IndexAllows
  <2>2. CASE d \notin Docs
    <3>1. number' = number
      BY <2>2 DEF NumbersIInv
    <3> QED
      BY <3>1, NumbersStay
  <2> QED
    BY <2>1, <2>2
<1> QED
  BY <1>1, CountingStays DEF NumbersIInv, settings, assigned

LEMMA DeleteIInv ==
  ASSUME NumbersIInv, NEW d \in Docs, Delete(d)
  PROVE  NumbersIInv'
<1>1. (number = [e \in Docs |-> number[e]])' /\ UniqueNumbers'
  BY OneMore DEF NumbersIInv, Delete
<1> QED
  BY <1>1, CountingStays DEF NumbersIInv, Delete, settings, assigned

LEMMA SetCounterIInv ==
  ASSUME NumbersIInv, NEW c, NEW f, NEW k \in 0..MaxCounter, SetCounter(c, f, k)
  PROVE  NumbersIInv'
<1>1. number' = number /\ kind' = kind /\ counter' = k
  BY DEF SetCounter
<1>2. issued' = {n \in issued : n.n <= k} /\ reissued' = reissued \cap issued'
  BY DEF SetCounter
<1>3. k \in Nat
  BY ConstantsAssumption
<1>4. kind = "document" => IssuedBelow'
  BY <1>1, <1>2, <1>3 DEF NumbersIInv, IssuedBelow
<1>5. NeverReissued'
  BY <1>1, <1>2 DEF NumbersIInv, NeverReissued
<1> QED
  BY <1>1, <1>3, <1>4, <1>5, NumbersStay DEF NumbersIInv

LEMMA ResetIInv ==
  ASSUME NumbersIInv, NEW master \in BOOLEAN, Reset(master)
  PROVE  NumbersIInv'
<1>1. number' = [d \in Docs |-> None] /\ kind' = kind
  BY DEF Reset
<1>2. (number = [d \in Docs |-> number[d]])' /\ UniqueNumbers'
  BY <1>1 DEF UniqueNumbers, Present
<1>3. CASE counter' = 0 /\ issued' = {} /\ reissued' = {}
  BY <1>1, <1>2, <1>3 DEF NumbersIInv, IssuedBelow, NeverReissued
<1>4. CASE UNCHANGED <<settings, assigned>>
  BY <1>1, <1>2, <1>4, CountingStays DEF NumbersIInv, settings, assigned
<1> QED
  BY <1>3, <1>4 DEF Reset

LEMMA NumbersInitIInv == Init => NumbersIInv
<1> SUFFICES ASSUME Init PROVE NumbersIInv
  OBVIOUS
<1>1. number = [d \in Docs |-> number[d]] /\ UniqueNumbers
  BY DEF Init, UniqueNumbers, Present
<1> QED
  BY <1>1 DEF Init, NumbersIInv, IssuedBelow, NeverReissued

LEMMA NumbersStepIInv == NumbersIInv /\ [Next]_vars => NumbersIInv'
<1> SUFFICES ASSUME NumbersIInv, [Next]_vars PROVE NumbersIInv'
  OBVIOUS
<1>1. ASSUME NEW d \in Docs, Create(d) \/ Delete(d) PROVE NumbersIInv'
  BY <1>1, CreateIInv, DeleteIInv
<1>2. ASSUME NEW d \in Docs, NEW n \in Numbers, CreateTyped(d, n) \/ RenameInvoice(d, n)
      PROVE  NumbersIInv'
  <2>1. CASE CreateTyped(d, n)
    BY <2>1, CreateTypedIInv
  <2>2. CASE RenameInvoice(d, n)
    BY <2>2, RenameIInv DEF RenameInvoice
  <2> QED
    BY <1>2, <2>1, <2>2
<1>3. ASSUME NEW c \in Clerks, RenameWrite(c) PROVE NumbersIInv'
  BY <1>3, RenameIInv DEF RenameWrite
<1>4. ASSUME NEW c \in Clerks, NEW f, SaveFormat(c, f) PROVE NumbersIInv'
  BY <1>4, NumbersStay, CountingStays DEF NumbersIInv, SaveFormat, Unchanged, assigned
<1>5. ASSUME NEW c \in Clerks, NEW f, NEW k \in 0..MaxCounter, SetCounter(c, f, k) PROVE NumbersIInv'
  BY <1>5, SetCounterIInv
<1>6. ASSUME NEW master \in BOOLEAN, Reset(master) PROVE NumbersIInv'
  BY <1>6, ResetIInv
<1>7. CASE UNCHANGED <<kind, number, settings, assigned>>
  BY <1>7, NumbersStay, CountingStays DEF NumbersIInv, settings, assigned
<1> QED
  BY <1>1, <1>2, <1>3, <1>4, <1>5, <1>6, <1>7
  DEF Next, vars, RenameRead, OpenSettings, Leave

\* What holds of numbers and counters in every reachable state
\* (db/document_number.go, db/document_number_unique.go).
THEOREM NumbersInvariant == Spec => []NumbersIInv
  BY NumbersInitIInv, NumbersStepIInv, PTL DEF Spec

\* No two documents of a kind carry one number, whatever creations and
\* renamings cross: the check of a renaming may look at an old number, the
\* index behind it does not (migrations 0106 and 0108).
THEOREM NumbersUnique == Spec => []UniqueNumbers
  BY NumbersInvariant, PTL DEF NumbersIInv

\* While it counts on, a counter kept in document_number_settings assigns no
\* number twice, whatever is deleted, renamed or saved meanwhile
\* (GenerateNextDocumentNumberTx, UpdateDocumentNumberSetting).
THEOREM NumbersNotReissued == Spec => []NeverReissued
  BY NumbersInvariant, PTL DEF NumbersIInv
=============================================================================
