-------------------------- MODULE SearchEngineProofs --------------------------
(***************************************************************************)
(* Proofs about the search engine, for any messages, tags, namespaces,     *)
(* batches of tag operations, history slots and multipliers of versions.   *)
(***************************************************************************)
EXTENDS SearchEngine, SequenceTheorems, FiniteSetTheorems, WellFoundedInduction, TLAPS

\* A non-empty set of natural numbers has a least element.
LEMMA LeastOf == ASSUME NEW S, S \subseteq Nat, S # {} PROVE \E n \in S : \A m \in S : n <= m
  <1>1. PICK n \in S : \A m \in S : <<m, n>> \notin OpToRel(<, Nat)
    BY NatLessThanWellFounded, WFMin
  <1>2. \A m \in S : ~(m < n)
    BY <1>1 DEF OpToRel
  <1> QED  BY <1>2

-----------------------------------------------------------------------------
(* The version keywords: what version_term_magic() asks for covers every   *)
(* version in its range.                                                   *)

\* No multiple of u lies strictly between two that are u apart.
LEMMA MultiplesApart ==
    ASSUME NEW u \in Nat \ {0}, NEW p \in Int, NEW q \in Int, u * p < u * q + u, u * q < u * p + u
    PROVE  p = q
  <1>1. ASSUME NEW a \in Int, NEW b \in Int, a < b PROVE u * a + u <= u * b
    <2> DEFINE d == b - a - 1
    <2>1. d \in Nat /\ b = a + 1 + d
      BY <1>1
    <2>2. u * b = u * a + u + u * d
      BY <2>1
    <2>3. u * d \in Nat
      BY <2>1
    <2> QED  BY <2>2, <2>3
  <1>2. u * p \in Int /\ u * q \in Int
    OBVIOUS
  <1>3. ~(p < q)
    BY <1>1, <1>2
  <1>4. ~(q < p)
    BY <1>1, <1>2
  <1> QED  BY <1>3, <1>4

\* Division with remainder.
LEMMA Division ==
    ASSUME NEW a \in Nat, NEW u \in Nat \ {0}
    PROVE  /\ a \div u \in Nat /\ a % u \in 0 .. u - 1
           /\ a = u * (a \div u) + (a % u)
  OBVIOUS

\* The numbers from one multiple of u up to the next have the same quotient.
LEMMA SameQuotient ==
    ASSUME NEW u \in Nat \ {0}, NEW b \in Nat, NEW w \in Nat, b % u = 0, b <= w, w < b + u
    PROVE  w \div u = b \div u
  <1> DEFINE p == w \div u
             q == b \div u
             r == w % u
  <1>1. p \in Nat /\ q \in Nat /\ r \in 0 .. u - 1 /\ w = u * p + r /\ b = u * q + 0
    BY Division
  <1> HIDE DEF p, q, r
  <1>2. u * p \in Nat /\ u * q \in Nat
    BY <1>1
  <1>3. u * p < u * q + u /\ u * q < u * p + u
    BY <1>1, <1>2
  <1>4. p = q
    BY <1>1, <1>3, MultiplesApart
  <1> QED  BY <1>4 DEF p, q

\* A multiple is one with no remainder.
LEMMA NoRemainder ==
    ASSUME NEW u \in Nat \ {0}, NEW q \in Nat PROVE (u * q) \in Nat /\ (u * q) % u = 0
  <1> DEFINE a == u * q
             p == a \div u
             r == a % u
  <1>1. a \in Nat
    OBVIOUS
  <1>2. p \in Nat /\ r \in 0 .. u - 1 /\ a = u * p + r
    BY <1>1, Division
  <1>3. a = u * q
    OBVIOUS
  <1> HIDE DEF p, r, a
  <1>4. u * p \in Nat
    BY <1>2
  <1>5. p = q
    <2>1. u * p < u * q + u /\ u * q < u * p + u
      BY <1>1, <1>2, <1>3, <1>4
    <2> QED  BY <1>2, <2>1, MultiplesApart
  <1>6. r = 0
    BY <1>2, <1>3, <1>4, <1>5
  <1> QED  BY <1>1, <1>6 DEF a, r

\* The next multiple; the multiple at or below; two multiples that are close.
LEMMA Multiples ==
    ASSUME NEW u \in Nat \ {0}, NEW b \in Nat
    PROVE  /\ b % u = 0 => (b + u) % u = 0
           /\ (u * (b \div u)) % u = 0 /\ u * (b \div u) <= b /\ b < u * (b \div u) + u
           /\ u * (b \div u) \in Nat
           /\ (u * (b \div u + 1)) % u = 0 /\ u * (b \div u + 1) > b /\ u * (b \div u + 1) \in Nat
           /\ u * (b \div u + 1) <= b + u
           /\ \A a \in Nat : a % u = 0 /\ b % u = 0 /\ a < b + u => a <= b
  <1> DEFINE q == b \div u
             r == b % u
  <1>1. q \in Nat /\ r \in 0 .. u - 1 /\ b = u * q + r
    BY Division
  <1>2. u * (q + 1) = u * q + u /\ q + 1 \in Nat /\ u * q \in Nat
    BY <1>1
  <1>3. (u * q) % u = 0 /\ (u * (q + 1)) % u = 0
    BY <1>1, <1>2, NoRemainder
  <1>4. ASSUME NEW a \in Nat, a % u = 0, b % u = 0, a < b + u PROVE a <= b
    <2> DEFINE p == a \div u
    <2>1. p \in Nat /\ a = u * p + 0
      BY <1>4, Division
    <2> HIDE DEF p
    <2>2. u * p \in Nat /\ u * p < u * q + u
      BY <1>1, <1>2, <1>4, <2>1
    <2>3. CASE u * q < u * p + u
      <3>1. p = q
        BY <1>1, <2>1, <2>2, <2>3, MultiplesApart
      <3> QED  BY <1>1, <1>4, <2>1, <3>1
    <2>4. CASE ~(u * q < u * p + u)
      BY <1>1, <1>2, <2>1, <2>2, <2>4
    <2> QED  BY <2>3, <2>4
  <1>5. r = 0 => b + u = u * (q + 1)
    <2> HIDE DEF q, r
    <2> QED  BY <1>1, <1>2
  <1>6. b % u = 0 => (b + u) % u = 0
    BY <1>3, <1>5
  <1>7. u * q <= b /\ b < u * q + u /\ u * (q + 1) > b /\ u * (q + 1) \in Nat /\ u * (q + 1) <= b + u
    <2> HIDE DEF q, r
    <2> QED  BY <1>1, <1>2
  <1> QED  BY <1>2, <1>3, <1>4, <1>6, <1>7

\* A loop goes up in steps of u, while it is in G, and collects lab; then
\* comes h.  What it collects is well defined.
Loop(g, E, u, G, lab, h) ==
    \A b \in 0 .. E : g[b] = IF b \in G THEN lab[b] \cup g[b + u] ELSE h[b]
LEMMA LoopExists ==
    ASSUME NEW E \in Nat, NEW u \in Nat \ {0}, NEW G, NEW lab, NEW h,
           \A b \in G : b \in 0 .. E /\ b + u \in 0 .. E
    PROVE  \E g : Loop(g, E, u, G, lab, h)
  <1> DEFINE Eq(g, b) == g[b] = IF b \in G THEN lab[b] \cup g[b + u] ELSE h[b]
             P(n) == \E g : /\ DOMAIN g = 0 .. E /\ g = [b \in 0 .. E |-> g[b]]
                            /\ \A b \in 0 .. E : b >= n => Eq(g, b)
             S == {k \in Nat : k <= E + 1 /\ ~P(E + 1 - k)}
  <1>1. P(E + 1)
    <2>1. [b \in 0 .. E |-> 0] = [b \in 0 .. E |-> [c \in 0 .. E |-> 0][b]]
      OBVIOUS
    <2>2. \A b \in 0 .. E : ~(b >= E + 1)
      OBVIOUS
    <2> HIDE DEF Eq
    <2> QED  BY <2>1, <2>2
  <1>2. ASSUME NEW n \in 0 .. E, P(n + 1) PROVE P(n)
    <2>1. PICK g : /\ DOMAIN g = 0 .. E /\ g = [b \in 0 .. E |-> g[b]]
                   /\ \A b \in 0 .. E : b >= n + 1 => Eq(g, b)
      BY <1>2
    <2> DEFINE f == [b \in 0 .. E |-> IF b = n THEN IF b \in G THEN lab[b] \cup g[b + u] ELSE h[b]
                                      ELSE g[b]]
    <2>2. DOMAIN f = 0 .. E /\ f = [b \in 0 .. E |-> f[b]]
      OBVIOUS
    <2>3. \A b \in 0 .. E : b # n => f[b] = g[b]
      OBVIOUS
    <2>4. f[n] = IF n \in G THEN lab[n] \cup g[n + u] ELSE h[n]
      OBVIOUS
    <2> HIDE DEF f
    <2>5. ASSUME NEW b \in 0 .. E, b >= n PROVE Eq(f, b)
      <3>1. b \in G => b + u \in 0 .. E /\ b + u # n
        BY <2>5
      <3>2. b \in G => f[b + u] = g[b + u]
        BY <2>3, <3>1
      <3>3. CASE b = n
        BY <2>4, <3>2, <3>3
      <3>4. CASE b # n
        <4>1. Eq(g, b)
          BY <2>1, <2>5, <3>4
        <4> QED  BY <2>3, <3>2, <3>4, <4>1
      <3> QED  BY <3>3, <3>4
    <2> HIDE DEF Eq
    <2> QED  BY <2>2, <2>5
  <1>3. P(0)
    <2> HIDE DEF P
    <2>1. SUFFICES ASSUME ~P(0) PROVE FALSE
      OBVIOUS
    <2>2. E + 1 \in S
      <3>1. E + 1 \in Nat /\ E + 1 <= E + 1 /\ E + 1 - (E + 1) = 0
        OBVIOUS
      <3> QED  BY <2>1, <3>1
    <2>3. PICK k \in S : \A m \in S : k <= m
      BY <2>2, LeastOf
    <2>4. k \in Nat /\ k <= E + 1 /\ ~P(E + 1 - k)
      OBVIOUS
    <2>5. k # 0
      <3>1. k = 0 => E + 1 - k = E + 1
        OBVIOUS
      <3> QED  BY <1>1, <2>4, <3>1
    <2>6. k - 1 \notin S
      BY <2>3, <2>4
    <2> DEFINE n == E + 1 - k
    <2>7. n \in 0 .. E /\ E + 1 - (k - 1) = n + 1 /\ k - 1 \in Nat /\ k - 1 <= E + 1
      BY <2>4, <2>5
    <2>8. P(n + 1)
      BY <2>6, <2>7
    <2>9. P(n)
      BY <1>2, <2>7, <2>8
    <2> QED  BY <2>4, <2>9
  <1>4. PICK g : /\ DOMAIN g = 0 .. E /\ g = [b \in 0 .. E |-> g[b]]
                 /\ \A b \in 0 .. E : b >= 0 => Eq(g, b)
    BY <1>3
  <1>5. \A b \in 0 .. E : g[b] = IF b \in G THEN lab[b] \cup g[b + u] ELSE h[b]
    <2>1. \A b \in 0 .. E : b >= 0
      OBVIOUS
    <2>2. \A b \in 0 .. E : Eq(g, b)
      <3> HIDE DEF Eq
      <3> QED  BY <1>4, <2>1
    <2> QED  BY <2>2
  <1> QED  BY <1>5 DEF Loop

\* The steps of the five loops, and when each of them goes on.
Unit(n) == <<1, K, M, K, 1>>[n]
EndK(end) == K * (end \div K)
BegK(beg) == K * (beg \div K + 1)
BegM(beg) == M * (beg \div M + 1)
Goes(beg, end, n, b) ==
    CASE n = 1 -> b % K # 0 /\ b % M # 0 /\ b < BegK(beg) /\ b < EndK(end)
      [] n = 2 -> b % M # 0 /\ b + K <= BegM(beg) /\ b + K <= EndK(end)
      [] n = 3 -> b + M <= end + 1
      [] n = 4 -> b + K <= end + 1
      [] n = 5 -> b <= end
Terms(beg, end, t, at) ==
    IF at[1] = 6 THEN {}
    ELSE IF Goes(beg, end, at[1], at[2])
         THEN {<<Unit(at[1]), at[2] \div Unit(at[1])>>} \cup t[<<at[1], at[2] + Unit(at[1])>>]
    ELSE t[<<at[1] + 1, at[2]>>]

\* The multipliers.
LEMMA Sizes == /\ K \in Nat /\ K > 1 /\ M \in Nat /\ M > 0 /\ M >= K + K
               /\ K \in Nat \ {0} /\ M \in Nat \ {0}
  <1>1. K \in Nat /\ K > 1 /\ M \in Nat /\ M > K /\ M % K = 0 /\ K \in Nat \ {0}
    BY SizesAssumption
  <1>2. K % K = 0 /\ (K + K) % K = 0
    <2>1. K % K = 0
      BY <1>1
    <2> QED  BY <1>1, <2>1, Multiples
  <1>3. M >= K + K
    <2>1. M < K + K => M <= K
      BY <1>1, <1>2, Multiples
    <2> QED  BY <1>1, <2>1
  <1> QED  BY <1>1, <1>3

\* A loop that goes on stays in range.
LEMMA LoopsStay ==
    ASSUME NEW beg \in Nat, NEW end \in Nat, NEW n \in 1 .. 5, NEW b \in 0 .. end + M,
           Goes(beg, end, n, b)
    PROVE  b + Unit(n) \in 0 .. end + M
  <1>1. EndK(end) \in Nat /\ EndK(end) <= end
    BY Sizes, Multiples DEF EndK
  <1>2. CASE n = 1
    BY <1>1, <1>2, Sizes DEF Goes, Unit
  <1>3. CASE n = 2
    BY <1>1, <1>3, Sizes DEF Goes, Unit
  <1>4. CASE n = 3
    BY <1>4, Sizes DEF Goes, Unit
  <1>5. CASE n = 4
    BY <1>5, Sizes DEF Goes, Unit
  <1>6. CASE n = 5
    BY <1>6, Sizes DEF Goes, Unit
  <1> QED  BY <1>2, <1>3, <1>4, <1>5, <1>6

\* One loop, before a loop that collects h.
LEMMA LevelExists ==
    ASSUME NEW beg \in Nat, NEW end \in Nat, NEW n \in 1 .. 5, NEW h
    PROVE  \E g : \A b \in 0 .. end + M :
              g[b] = IF Goes(beg, end, n, b) THEN {<<Unit(n), b \div Unit(n)>>} \cup g[b + Unit(n)]
                     ELSE h[b]
  <1> DEFINE E == end + M
             u == Unit(n)
             G == {b \in 0 .. E : Goes(beg, end, n, b)}
             lab == [b \in 0 .. E |-> {<<u, b \div u>>}]
  <1>1. E \in Nat
    BY Sizes
  <1>2. u \in Nat \ {0}
    <2>1. n = 1 \/ n = 2 \/ n = 3 \/ n = 4 \/ n = 5
      OBVIOUS
    <2> QED  BY <2>1, Sizes DEF Unit
  <1>3. \A b \in G : b \in 0 .. E /\ b + u \in 0 .. E
    BY LoopsStay
  <1>4. \A b \in 0 .. E : b \in G <=> Goes(beg, end, n, b)
    OBVIOUS
  <1>5. \A b \in 0 .. E : lab[b] = {<<u, b \div u>>}
    OBVIOUS
  <1>6. PICK g : Loop(g, E, u, G, lab, h)
    <2> HIDE DEF E, u, G, lab
    <2> QED  BY <1>1, <1>2, <1>3, LoopExists
  <1>8. \A b \in 0 .. E : g[b] = IF Goes(beg, end, n, b) THEN {<<u, b \div u>>} \cup g[b + u] ELSE h[b]
    <2> HIDE DEF G, lab, u, E
    <2> QED  BY <1>4, <1>5, <1>6 DEF Loop
  <1> QED  BY <1>8

\* The five loops, one after the other.
LEMMA TermsExist ==
    ASSUME NEW beg \in Nat, NEW end \in Nat
    PROVE  \E t : t = [at \in (1 .. 6) \X (0 .. end + M) |-> Terms(beg, end, t, at)]
  <1> DEFINE E == end + M
             D == (1 .. 6) \X (0 .. E)
             Level(g, n, h) == \A b \in 0 .. E :
                g[b] = IF Goes(beg, end, n, b) THEN {<<Unit(n), b \div Unit(n)>>} \cup g[b + Unit(n)]
                       ELSE h[b]
             g6 == [b \in 0 .. E |-> {}]
  <1>1. \A n \in 1 .. 5 : \A h : \E g : Level(g, n, h)
    BY LevelExists
  <1> HIDE DEF Level
  <1>5. PICK g5 : Level(g5, 5, g6)
    BY <1>1
  <1>4. PICK g4 : Level(g4, 4, g5)
    BY <1>1
  <1>3. PICK g3 : Level(g3, 3, g4)
    BY <1>1
  <1>2. PICK g2 : Level(g2, 2, g3)
    BY <1>1
  <1>6. PICK g1 : Level(g1, 1, g2)
    BY <1>1
  <1> DEFINE gs == <<g1, g2, g3, g4, g5, g6>>
             t == [at \in D |-> gs[at[1]][at[2]]]
  <1>7. \A n \in 1 .. 5 : Level(gs[n], n, gs[n + 1])
    <2>1. \A n \in 1 .. 5 : n = 1 \/ n = 2 \/ n = 3 \/ n = 4 \/ n = 5
      OBVIOUS
    <2> HIDE DEF g6
    <2> QED  BY <1>2, <1>3, <1>4, <1>5, <1>6, <2>1
  <1>8. \A b \in 0 .. E : gs[6][b] = {}
    OBVIOUS
  <1> HIDE DEF gs, g6
  <1>9. \A n \in 1 .. 6, b \in 0 .. E : t[<<n, b>>] = gs[n][b]
    OBVIOUS
  <1>10. ASSUME NEW at \in D PROVE t[at] = Terms(beg, end, t, at)
    <2>1. PICK n \in 1 .. 6, b \in 0 .. E : at = <<n, b>>
      OBVIOUS
    <2>2. t[at] = gs[n][b] /\ at[1] = n /\ at[2] = b
      BY <1>9, <2>1
    <2> HIDE DEF t
    <2>3. CASE n = 6
      BY <1>8, <2>2, <2>3 DEF Terms
    <2>4. CASE n # 6
      <3>1. n \in 1 .. 5 /\ n + 1 \in 1 .. 6
        BY <2>4
      <3>2. gs[n][b] = IF Goes(beg, end, n, b)
                       THEN {<<Unit(n), b \div Unit(n)>>} \cup gs[n][b + Unit(n)]
                       ELSE gs[n + 1][b]
        BY <1>7, <3>1 DEF Level
      <3>3. Goes(beg, end, n, b) => t[<<n, b + Unit(n)>>] = gs[n][b + Unit(n)]
        BY <1>9, <3>1, LoopsStay
      <3>4. t[<<n + 1, b>>] = gs[n + 1][b]
        BY <1>9, <3>1
      <3> QED  BY <2>2, <2>4, <3>2, <3>3, <3>4 DEF Terms
    <2> QED  BY <2>3, <2>4
  <1>11. t = [at \in D |-> Terms(beg, end, t, at)]
    <2> DEFINE r == [at \in D |-> Terms(beg, end, t, at)]
    <2>1. \A at \in D : r[at] = t[at]
      BY <1>10
    <2>2. r = [at \in D |-> r[at]] /\ DOMAIN r = D /\ t = [at \in D |-> t[at]] /\ DOMAIN t = D
      OBVIOUS
    <2>3. t = r
      <3> HIDE DEF r, t, D
      <3> QED  BY <2>1, <2>2
    <2> QED  BY <2>3
  <1> QED  BY <1>11

\* What version_term_magic() returns is what the loops collect.
LEMMA CoverIs ==
    ASSUME NEW beg \in Nat, NEW end \in Nat, beg <= end
    PROVE  \E t : /\ Cover(beg, end) = t[<<1, beg>>]
                  /\ \A at \in (1 .. 6) \X (0 .. end + M) : t[at] = Terms(beg, end, t, at)
  <1> DEFINE D == (1 .. 6) \X (0 .. end + M)
             t == CHOOSE t : t = [at \in D |-> Terms(beg, end, t, at)]
  <1>1. t = [at \in D |-> Terms(beg, end, t, at)]
    BY TermsExist, Zenon
  <1>2. \A at \in D : t[at] = Terms(beg, end, t, at)
    <2> HIDE DEF t, D
    <2> QED  BY <1>1
  <1>3. ~(beg > end)
    OBVIOUS
  <1>4. Cover(beg, end) = t[<<1, beg>>]
    BY <1>3, Zenon DEF Cover, Terms, Goes, Unit, BegK, BegM, EndK
  <1> HIDE DEF t
  <1> QED  BY <1>2, <1>4

\* A loop covers what is left, if the next one does: each of its steps is
\* covered by the keyword it collects.
Covers(t, n, b, w) == \E x \in t[<<n, b>>] : x \in VersionKeywords(w)
CoversFrom(end, t, n, P) ==
    \A b \in 0 .. end + M, w \in 0 .. end : b \in P /\ b <= w => Covers(t, n, b, w)
Steps(beg, end, n, P) ==
    \A b \in 0 .. end + M : b \in P /\ Goes(beg, end, n, b) =>
        /\ b + Unit(n) \in P
        /\ \A w \in Nat : b <= w /\ w < b + Unit(n) =>
              <<Unit(n), b \div Unit(n)>> \in VersionKeywords(w)
Leaves(beg, end, n, P, Q) ==
    \A b \in 0 .. end + M : b \in P /\ ~Goes(beg, end, n, b) => b \in Q
IsTerms(beg, end, t) ==
    \A at \in (1 .. 6) \X (0 .. end + M) : t[at] = Terms(beg, end, t, at)
LEMMA LoopCovers ==
    ASSUME NEW beg \in Nat, NEW end \in Nat, NEW t, NEW n \in 1 .. 5, NEW m, NEW P, NEW Q,
           m = n + 1, IsTerms(beg, end, t), Steps(beg, end, n, P), Leaves(beg, end, n, P, Q),
           CoversFrom(end, t, m, Q)
    PROVE  CoversFrom(end, t, n, P)
  <1> DEFINE E == end + M
             S == {k \in 0 .. E : E - k \in P /\ \E w \in 0 .. end : E - k <= w /\ ~Covers(t, n, E - k, w)}
  <1>1. E \in Nat
    BY Sizes
  <1>2. Unit(n) \in Nat /\ Unit(n) > 0
    <2>1. n = 1 \/ n = 2 \/ n = 3 \/ n = 4 \/ n = 5
      OBVIOUS
    <2> QED  BY <2>1, Sizes DEF Unit
  <1>3. \A b \in 0 .. E : <<n, b>> \in (1 .. 6) \X (0 .. E)
    OBVIOUS
  <1>4. \A b \in 0 .. E : t[<<n, b>>] = Terms(beg, end, t, <<n, b>>)
    BY <1>3 DEF IsTerms
  <1>5. \A b \in 0 .. E : t[<<n, b>>] = IF Goes(beg, end, n, b)
                                    THEN {<<Unit(n), b \div Unit(n)>>} \cup t[<<n, b + Unit(n)>>]
                                    ELSE t[<<n + 1, b>>]
    <2>1. \A b : <<n, b>>[1] = n /\ <<n, b>>[2] = b /\ n # 6
      OBVIOUS
    <2> HIDE DEF E
    <2> QED  BY <1>4, <2>1 DEF Terms
  <1>6. SUFFICES ASSUME NEW b0 \in 0 .. E, NEW w0 \in 0 .. end, b0 \in P, b0 <= w0, ~Covers(t, n, b0, w0)
                 PROVE  FALSE
    BY DEF CoversFrom
  <1>7. S # {} /\ S \subseteq Nat
    <2>1. E - b0 \in 0 .. E /\ E - (E - b0) = b0
      BY <1>1
    <2>2. E - b0 \in S
      <3> HIDE DEF E
      <3> QED  BY <1>6, <2>1
    <2> QED  BY <1>1, <2>2
  <1>8. PICK k \in S : \A i \in S : k <= i
    BY <1>7, LeastOf
  <1> DEFINE b == E - k
  <1>9. PICK w \in 0 .. end : b <= w /\ ~Covers(t, n, b, w)
    OBVIOUS
  <1>10. b \in 0 .. E /\ b \in P /\ k \in 0 .. E
    BY <1>1
  <1>11. CASE ~Goes(beg, end, n, b)
    <2>1. b \in Q
      BY <1>10, <1>11 DEF Leaves
    <2>2. Covers(t, n + 1, b, w)
      BY <1>9, <1>10, <2>1 DEF CoversFrom
    <2>3. t[<<n, b>>] = t[<<n + 1, b>>]
      BY <1>5, <1>10, <1>11
    <2> HIDE DEF b
    <2> QED  BY <1>9, <2>2, <2>3 DEF Covers
  <1>12. CASE Goes(beg, end, n, b)
    <2>1. t[<<n, b>>] = {<<Unit(n), b \div Unit(n)>>} \cup t[<<n, b + Unit(n)>>]
      BY <1>5, <1>10, <1>12
    <2>2. b + Unit(n) \in 0 .. E
      BY <1>10, <1>12, LoopsStay
    <2>3. b + Unit(n) \in P /\ \A v \in Nat : b <= v /\ v < b + Unit(n) =>
                    <<Unit(n), b \div Unit(n)>> \in VersionKeywords(v)
      BY <1>10, <1>12 DEF Steps
    <2>4. ~(w < b + Unit(n))
      <3>1. w \in Nat
        OBVIOUS
      <3> HIDE DEF b
      <3> QED  BY <1>9, <2>1, <2>3, <3>1 DEF Covers
    <2>5. ~Covers(t, n, b + Unit(n), w)
      <3> HIDE DEF b
      <3> QED  BY <1>9, <2>1 DEF Covers
    <2> DEFINE j == k - Unit(n)
    <2>6. E - j = b + Unit(n) /\ j \in 0 .. E /\ j < k
      BY <1>1, <1>2, <1>10, <2>2
    <2>7. b + Unit(n) <= w
      BY <1>2, <1>9, <1>10, <2>4
    <2>8. j \in S
      <3> HIDE DEF j, b, E
      <3> QED  BY <2>3, <2>5, <2>6, <2>7
    <2> QED  BY <1>8, <1>10, <2>6, <2>8
  <1> QED  BY <1>11, <1>12

\* One unit on from a multiple is a multiple.
LEMMA NextMultiple ==
    ASSUME NEW u \in Nat \ {0}, NEW b \in Nat, b % u = 0 PROVE (b + u) % u = 0 /\ b + u \in Nat
  <1>1. (b + u) % u = 0
    BY Multiples
  <1> QED  BY <1>1

\* A multiple of the second multiplier is one of the first.
LEMMA Millions == ASSUME NEW a \in Nat, a % M = 0 PROVE a % K = 0
  <1> DEFINE p == a \div M
             q == M \div K
  <1>1. p \in Nat /\ a = M * p + 0
    BY Sizes, Division
  <1>2. q \in Nat /\ M = K * q + 0
    BY Sizes, SizesAssumption, Division
  <1> HIDE DEF p, q
  <1>3. M * p \in Nat /\ K * q \in Nat /\ q * p \in Nat
    BY <1>1, <1>2, Sizes
  <1>4. a = M * p /\ M = K * q
    BY <1>1, <1>2, <1>3
  <1>5. (K * q) * p = K * (q * p)
    BY <1>1, <1>2, Sizes
  <1>6. a = K * (q * p)
    BY <1>4, <1>5
  <1> QED  BY <1>3, <1>6, Sizes, NoRemainder

\* A step of a loop from a multiple of its unit is covered by one keyword.
LEMMA StepCovered ==
    ASSUME NEW u \in {1, K, M}, NEW b \in Nat, b % u = 0, NEW w \in Nat, b <= w, w < b + u
    PROVE  <<u, b \div u>> \in VersionKeywords(w)
  <1>1. u \in Nat \ {0}
    BY Sizes
  <1>2. w \div u = b \div u
    BY <1>1, SameQuotient
  <1>3. w \div 1 = w
    OBVIOUS
  <1> QED  BY <1>2, <1>3 DEF VersionKeywords

\* The search for the versions from beg on finds what was touched by any of
\* them, whatever the multipliers: version_term_magic() leaves no gap.
LEMMA CoverIsComplete ==
    ASSUME NEW beg \in Nat, NEW end \in Nat, NEW w \in Nat, beg <= w, w <= end
    PROVE  \E x \in Cover(beg, end) : x \in VersionKeywords(w)
  <1>1. PICK t : Cover(beg, end) = t[<<1, beg>>] /\ IsTerms(beg, end, t)
    BY CoverIs DEF IsTerms
  <1> DEFINE E == end + M
             eK == EndK(end)
             bK == BegK(beg)
             bM == BegM(beg)
             P1 == {b \in Nat : b <= bK}
             P2 == {b \in Nat : (b % K = 0 \/ b >= eK) /\ b <= bM}
             P3 == {b \in Nat : b % M = 0 \/ b >= eK}
             P4 == {b \in Nat : b % K = 0 \/ b >= eK}
             P6 == {b \in Nat : b > end}
  <1>2. E \in Nat
    BY Sizes
  <1>3. eK \in Nat /\ eK % K = 0 /\ eK <= end /\ end < eK + K
    BY Sizes, Multiples DEF EndK
  <1>4. bK \in Nat /\ bK % K = 0 /\ beg < bK /\ bK <= beg + K
    BY Sizes, Multiples DEF BegK
  <1>5. bM \in Nat /\ bM % M = 0 /\ beg < bM
    BY Sizes, Multiples DEF BegM
  <1>6. bK <= bM
    <2>1. bM % K = 0
      BY <1>5, Millions
    <2>2. bK < bM + K
      BY <1>4, <1>5, Sizes
    <2> QED  BY <1>4, <1>5, <2>1, <2>2, Sizes, Multiples
  <1> HIDE DEF eK, bK, bM
  <1>7. CoversFrom(end, t, 6, P6)
    BY <1>2 DEF CoversFrom
  <1>8. CoversFrom(end, t, 5, Nat)
    <2>1. ASSUME NEW b \in 0 .. E, Goes(beg, end, 5, b)
          PROVE  /\ b + Unit(5) \in Nat
                 /\ \A v \in Nat : b <= v /\ v < b + Unit(5) =>
                       <<Unit(5), b \div Unit(5)>> \in VersionKeywords(v)
      <3>1. Unit(5) = 1 /\ b \in Nat /\ b % 1 = 0
        BY <1>2 DEF Unit
      <3> QED  BY <3>1, StepCovered
    <2>2. ASSUME NEW b \in 0 .. E, ~Goes(beg, end, 5, b) PROVE b \in P6
      BY <1>2, <2>2 DEF Goes
    <2>3. Steps(beg, end, 5, Nat)
      BY <2>1 DEF Steps
    <2>4. Leaves(beg, end, 5, Nat, P6)
      BY <2>2 DEF Leaves
    <2>5. 5 \in 1 .. 5 /\ 6 = 5 + 1
      OBVIOUS
    <2> HIDE DEF P6
    <2> QED  BY <1>1, <1>7, <2>3, <2>4, <2>5, LoopCovers
  <1>9. CoversFrom(end, t, 4, P4)
    <2>1. ASSUME NEW b \in 0 .. E, b \in P4, Goes(beg, end, 4, b)
          PROVE  /\ b + Unit(4) \in P4
                 /\ \A v \in Nat : b <= v /\ v < b + Unit(4) =>
                       <<Unit(4), b \div Unit(4)>> \in VersionKeywords(v)
      <3>1. Unit(4) = K /\ b \in Nat /\ b + K <= end + 1
        BY <1>2, <2>1 DEF Unit, Goes
      <3>2. b % K = 0
        <4>1. b >= eK => b = eK
          BY <1>3, <3>1, Sizes
        <4> QED  BY <1>3, <2>1, <4>1
      <3>3. (b + K) % K = 0 /\ b + K \in Nat
        BY <3>1, <3>2, Sizes, NextMultiple
      <3> QED  BY <3>1, <3>2, <3>3, StepCovered
    <2>2. \A b \in 0 .. E : b \in Nat
      BY <1>2
    <2>3. Steps(beg, end, 4, P4)
      BY <2>1 DEF Steps
    <2>4. Leaves(beg, end, 4, P4, Nat)
      BY <2>2 DEF Leaves
    <2>5. 4 \in 1 .. 5 /\ 5 = 4 + 1
      OBVIOUS
    <2> HIDE DEF P4
    <2> QED  BY <1>1, <1>8, <2>3, <2>4, <2>5, LoopCovers
  <1>10. CoversFrom(end, t, 3, P3)
    <2>1. ASSUME NEW b \in 0 .. E, b \in P3, Goes(beg, end, 3, b)
          PROVE  /\ b + Unit(3) \in P3
                 /\ \A v \in Nat : b <= v /\ v < b + Unit(3) =>
                       <<Unit(3), b \div Unit(3)>> \in VersionKeywords(v)
      <3>1. Unit(3) = M /\ b \in Nat /\ b + M <= end + 1
        BY <1>2, <2>1 DEF Unit, Goes
      <3>2. b % M = 0
        <4>1. ~(b >= eK)
          BY <1>3, <3>1, Sizes
        <4> QED  BY <2>1, <4>1
      <3>3. (b + M) % M = 0 /\ b + M \in Nat
        BY <3>1, <3>2, Sizes, NextMultiple
      <3> QED  BY <3>1, <3>2, <3>3, StepCovered
    <2>2. ASSUME NEW b \in 0 .. E, b \in P3 PROVE b \in P4
      BY <2>2, Millions
    <2>3. Steps(beg, end, 3, P3)
      BY <2>1 DEF Steps
    <2>4. Leaves(beg, end, 3, P3, P4)
      BY <2>2 DEF Leaves
    <2>5. 3 \in 1 .. 5 /\ 4 = 3 + 1
      OBVIOUS
    <2> HIDE DEF P3, P4
    <2> QED  BY <1>1, <1>9, <2>3, <2>4, <2>5, LoopCovers
  <1>11. CoversFrom(end, t, 2, P2)
    <2>1. ASSUME NEW b \in 0 .. E, b \in P2, Goes(beg, end, 2, b)
          PROVE  /\ b + Unit(2) \in P2
                 /\ \A v \in Nat : b <= v /\ v < b + Unit(2) =>
                       <<Unit(2), b \div Unit(2)>> \in VersionKeywords(v)
      <3>1. Unit(2) = K /\ b \in Nat /\ b + K <= bM /\ b + K <= eK
        BY <1>2, <2>1 DEF Unit, Goes, bM, eK
      <3>2. b % K = 0
        <4>1. b >= eK => b = eK
          BY <1>3, <3>1, Sizes
        <4> QED  BY <1>3, <2>1, <4>1
      <3>3. (b + K) % K = 0 /\ b + K \in Nat
        BY <3>1, <3>2, Sizes, NextMultiple
      <3> QED  BY <3>1, <3>2, <3>3, StepCovered
    <2>2. ASSUME NEW b \in 0 .. E, b \in P2, ~Goes(beg, end, 2, b) PROVE b \in P3
      <3>1. b \in Nat /\ (b % M = 0 \/ b + K > bM \/ b + K > eK) /\ b <= bM
        BY <1>2, <1>3, <1>5, <2>2, Sizes DEF Goes, bM, eK
      <3>2. CASE b % K = 0 /\ b + K > bM
        <4>1. bM <= b
          BY <1>5, <3>1, <3>2, Millions, Sizes, Multiples
        <4>2. bM = b
          BY <1>5, <3>1, <4>1
        <4> QED  BY <1>5, <3>1, <4>2
      <3>3. CASE b % K = 0 /\ b + K > eK
        <4>1. eK <= b
          BY <1>3, <3>1, <3>3, Sizes, Multiples
        <4> QED  BY <3>1, <4>1
      <3> QED  BY <2>2, <3>1, <3>2, <3>3
    <2>3. Steps(beg, end, 2, P2)
      BY <2>1 DEF Steps
    <2>4. Leaves(beg, end, 2, P2, P3)
      BY <2>2 DEF Leaves
    <2>5. 2 \in 1 .. 5 /\ 3 = 2 + 1
      OBVIOUS
    <2> HIDE DEF P2, P3
    <2> QED  BY <1>1, <1>10, <2>3, <2>4, <2>5, LoopCovers
  <1>12. CoversFrom(end, t, 1, P1)
    <2>1. ASSUME NEW b \in 0 .. E, b \in P1, Goes(beg, end, 1, b)
          PROVE  /\ b + Unit(1) \in P1
                 /\ \A v \in Nat : b <= v /\ v < b + Unit(1) =>
                       <<Unit(1), b \div Unit(1)>> \in VersionKeywords(v)
      <3>1. Unit(1) = 1 /\ b \in Nat /\ b < bK /\ b % 1 = 0 /\ b + 1 \in P1
        BY <1>2, <1>4, <2>1 DEF Unit, Goes, bK
      <3> QED  BY <3>1, StepCovered
    <2>2. ASSUME NEW b \in 0 .. E, b \in P1, ~Goes(beg, end, 1, b) PROVE b \in P2
      <3>1. b \in Nat /\ (b % K = 0 \/ b % M = 0 \/ b >= bK \/ b >= eK) /\ b <= bK
        BY <1>2, <1>3, <1>4, <2>2 DEF Goes, bK, eK
      <3>2. b % K = 0 \/ b >= eK
        <4>1. CASE b >= bK
          BY <1>4, <3>1, <4>1
        <4> QED  BY <3>1, <4>1, Millions
      <3> QED  BY <1>4, <1>5, <1>6, <3>1, <3>2
    <2>3. Steps(beg, end, 1, P1)
      BY <2>1 DEF Steps
    <2>4. Leaves(beg, end, 1, P1, P2)
      BY <2>2 DEF Leaves
    <2>5. 1 \in 1 .. 5 /\ 2 = 1 + 1
      OBVIOUS
    <2> HIDE DEF P1, P2
    <2> QED  BY <1>1, <1>11, <2>3, <2>4, <2>5, LoopCovers
  <1>13. beg \in 0 .. E /\ w \in 0 .. end /\ beg \in P1
    BY <1>2, <1>4, Sizes
  <1>14. Covers(t, 1, beg, w)
    <2> HIDE DEF P1
    <2> QED  BY <1>12, <1>13 DEF CoversFrom, E
  <1> QED  BY <1>1, <1>14 DEF Covers

-----------------------------------------------------------------------------
(* Lists of lists: the operations of a batch, the changes of an undo.      *)

\* Induction from m to n, over a set.
LEMMA UpTo ==
    ASSUME NEW m \in Nat, NEW n \in Nat, NEW S, m \in S,
           \A i \in Nat : m <= i /\ i < n /\ i \in S => i + 1 \in S
    PROVE  \A i \in m .. n : i \in S
  <1> DEFINE B == {i \in m .. n : i \notin S}
  <1>1. SUFFICES ASSUME B # {} PROVE FALSE
    OBVIOUS
  <1>2. B \subseteq Nat
    OBVIOUS
  <1>3. PICK i \in B : \A j \in B : i <= j
    BY <1>1, <1>2, LeastOf
  <1>4. i \in m .. n /\ i # m /\ i \notin S
    OBVIOUS
  <1>5. i - 1 \in Nat /\ m <= i - 1 /\ i - 1 < n /\ i - 1 + 1 = i /\ i - 1 \in m .. n
    BY <1>4
  <1>6. i - 1 \in S
    BY <1>3, <1>4, <1>5
  <1> QED  BY <1>4, <1>5, <1>6

\* The prefixes of a list of lists can be joined.
Joined(g, s, n) == g[1] = s[1] /\ \A i \in 2 .. n : g[i] = g[i - 1] \o s[i]
LEMMA JoinedNext ==
    ASSUME NEW g, NEW s, NEW n \in Nat, Joined(g, s, n), NEW i \in Nat, 1 <= i, i < n
    PROVE  g[i + 1] = g[i] \o s[i + 1]
  <1>1. i + 1 \in 2 .. n /\ (i + 1) - 1 = i
    OBVIOUS
  <1>2. g[i + 1] = g[(i + 1) - 1] \o s[i + 1]
    BY <1>1, Zenon DEF Joined
  <1> QED  BY <1>1, <1>2, Zenon

LEMMA JoinExists ==
    ASSUME NEW s, NEW n \in Nat, n > 0
    PROVE  \E g : g = [i \in 1 .. n |-> g[i]] /\ Joined(g, s, n)
  <1> DEFINE S == {k \in Nat : \E g : Joined(g, s, k)}
  <1>1. 1 \in S
    <2>1. Joined(s, s, 1)
      BY DEF Joined
    <2> QED  BY <2>1
  <1>2. ASSUME NEW k \in Nat, 1 <= k, k < n, k \in S PROVE k + 1 \in S
    <2>1. PICK g : Joined(g, s, k)
      BY <1>2
    <2> DEFINE new == g[k] \o s[k + 1]
               f == [i \in 1 .. k + 1 |-> IF i = k + 1 THEN new ELSE g[i]]
    <2>2. f[k + 1] = g[k] \o s[k + 1] /\ \A i \in 1 .. k : f[i] = g[i]
      <3>1. f[k + 1] = new
        <4> HIDE DEF new
        <4> QED  BY <1>2
      <3>2. \A i \in 1 .. k : f[i] = g[i]
        <4> HIDE DEF new
        <4> QED  BY <1>2
      <3> HIDE DEF f
      <3> QED  BY <3>1, <3>2, Zenon
    <2> HIDE DEF f
    <2>3. f[1] = s[1]
      BY <1>2, <2>1, <2>2 DEF Joined
    <2>4. ASSUME NEW i \in 2 .. k + 1 PROVE f[i] = f[i - 1] \o s[i]
      <3>1. CASE i = k + 1
        <4>1. i - 1 = k /\ k \in 1 .. k
          BY <1>2, <3>1
        <4>2. f[k] = g[k]
          BY <2>2, <4>1
        <4> QED  BY <2>2, <3>1, <4>1, <4>2
      <3>2. CASE i # k + 1
        <4>1. i \in 2 .. k /\ i \in 1 .. k /\ i - 1 \in 1 .. k
          BY <1>2, <3>2
        <4>2. g[i] = g[i - 1] \o s[i]
          BY <2>1, <4>1 DEF Joined
        <4>3. f[i] = g[i] /\ f[i - 1] = g[i - 1]
          BY <2>2, <4>1
        <4> QED  BY <4>2, <4>3
      <3> QED  BY <3>1, <3>2
    <2>5. Joined(f, s, k + 1)
      BY <2>3, <2>4 DEF Joined
    <2> QED  BY <1>2, <2>5
  <1>3. n \in S
    <2> HIDE DEF S
    <2>1. \A i \in 1 .. n : i \in S
      BY <1>1, <1>2, UpTo
    <2> QED  BY <2>1
  <1>4. PICK g : Joined(g, s, n)
    BY <1>3
  <1> DEFINE f == [i \in 1 .. n |-> g[i]]
  <1>5. \A i \in 1 .. n : f[i] = g[i]
    OBVIOUS
  <1>6. f = [i \in 1 .. n |-> f[i]]
    OBVIOUS
  <1> HIDE DEF f
  <1>7. f[1] = s[1]
    BY <1>4, <1>5 DEF Joined
  <1>8. ASSUME NEW i \in 2 .. n PROVE f[i] = f[i - 1] \o s[i]
    <2>1. i \in 1 .. n /\ i - 1 \in 1 .. n
      OBVIOUS
    <2>2. g[i] = g[i - 1] \o s[i]
      BY <1>4 DEF Joined
    <2> QED  BY <1>5, <2>1, <2>2
  <1>9. Joined(f, s, n)
    BY <1>7, <1>8 DEF Joined
  <1> QED  BY <1>6, <1>9

\* FlattenSeq joins them all.
LEMMA FlattenIs ==
    ASSUME NEW T, NEW s \in Seq(T), Len(s) > 0
    PROVE  \E g : FlattenSeq(s) = g[Len(s)] /\ Joined(g, s, Len(s))
  <1> DEFINE n == Len(s)
             R(g, i) == IF i = 1 THEN s[i] ELSE g[i - 1] \o s[i]
             g == CHOOSE g : g = [i \in 1 .. n |-> R(g, i)]
  <1>1. n \in Nat /\ n > 0
    BY LenProperties
  <1>2. \E h : h = [i \in 1 .. n |-> R(h, i)]
    <2> HIDE DEF n
    <2>1. PICK h : h = [i \in 1 .. n |-> h[i]] /\ Joined(h, s, n)
      BY <1>1, JoinExists
    <2>2. ASSUME NEW i \in 1 .. n PROVE h[i] = R(h, i)
      <3>1. CASE i = 1
        BY <2>1, <3>1, Zenon DEF Joined
      <3>2. CASE i # 1
        <4>1. i \in 2 .. n
          BY <1>1, <3>2
        <4> QED  BY <2>1, <3>2, <4>1, Zenon DEF Joined
      <3> QED  BY <3>1, <3>2, Zenon
    <2> DEFINE r == [i \in 1 .. n |-> R(h, i)]
    <2>3. \A i \in 1 .. n : r[i] = h[i]
      BY <2>2
    <2>4. r = [i \in 1 .. n |-> r[i]] /\ DOMAIN r = 1 .. n
      OBVIOUS
    <2>5. DOMAIN h = 1 .. n
      <3> HIDE DEF R
      <3> QED  BY <2>1
    <2>6. h = r
      <3> HIDE DEF r, R
      <3> QED  BY <2>1, <2>3, <2>4, <2>5
    <2> QED  BY <2>6
  <1>3. g = [i \in 1 .. n |-> R(g, i)]
    <2> HIDE DEF n, R
    <2> QED  BY <1>2, Zenon
  <1>4. FlattenSeq(s) = g[n]
    <2>1. ~(Len(s) = 0)
      BY <1>1
    <2> QED  BY <2>1, Zenon DEF FlattenSeq
  <1>5. \A i \in 1 .. n : g[i] = R(g, i)
    <2> HIDE DEF g, R, n
    <2> QED  BY <1>3
  <1>6. Joined(g, s, n)
    <2>1. 1 \in 1 .. n /\ \A i \in 2 .. n : i \in 1 .. n /\ i # 1
      BY <1>1
    <2> HIDE DEF g, n
    <2> QED  BY <1>5, <2>1, Zenon DEF Joined
  <1> HIDE DEF g
  <1> QED  BY <1>4, <1>6

\* What is in a list, and what the last element of it in a set is.
Has(q, e) == \E k \in 1 .. Len(q) : q[k] = e
NoneIn(q, H) == \A k \in 1 .. Len(q) : q[k] \notin H
LastIn(q, H, e) ==
    \E k \in 1 .. Len(q) : q[k] = e /\ e \in H /\ \A l \in 1 .. Len(q) : l > k => q[l] \notin H

LEMMA ConcatHas ==
    ASSUME NEW T, NEW a \in Seq(T), NEW b \in Seq(T), NEW e
    PROVE  Has(a \o b, e) <=> Has(a, e) \/ Has(b, e)
  <1> DEFINE c == a \o b
  <1>1. Len(a) \in Nat /\ Len(b) \in Nat /\ Len(c) = Len(a) + Len(b)
    BY ConcatProperties, LenProperties
  <1>2. \A k \in 1 .. Len(a) : c[k] = a[k] /\ k \in 1 .. Len(c)
    BY <1>1, ConcatProperties
  <1>3. \A k \in 1 .. Len(b) : c[k + Len(a)] = b[k] /\ k + Len(a) \in 1 .. Len(c)
    BY <1>1, ConcatProperties
  <1>4. \A k \in 1 .. Len(c) : k \in 1 .. Len(a) \/ (k - Len(a) \in 1 .. Len(b) /\ k - Len(a) + Len(a) = k)
    BY <1>1
  <1> HIDE DEF c
  <1>5. Has(a, e) => Has(c, e)
    BY <1>2 DEF Has
  <1>6. Has(b, e) => Has(c, e)
    BY <1>3 DEF Has
  <1>7. Has(c, e) => Has(a, e) \/ Has(b, e)
    BY <1>2, <1>3, <1>4 DEF Has
  <1> QED  BY <1>5, <1>6, <1>7 DEF c

LEMMA ConcatLast ==
    ASSUME NEW T, NEW a \in Seq(T), NEW b \in Seq(T), NEW H, NEW e
    PROVE  /\ LastIn(b, H, e) => LastIn(a \o b, H, e)
           /\ LastIn(a, H, e) /\ NoneIn(b, H) => LastIn(a \o b, H, e)
  <1> DEFINE c == a \o b
  <1>1. Len(a) \in Nat /\ Len(b) \in Nat /\ Len(c) = Len(a) + Len(b)
    BY ConcatProperties, LenProperties
  <1>2. \A k \in 1 .. Len(a) : c[k] = a[k] /\ k \in 1 .. Len(c)
    BY <1>1, ConcatProperties
  <1>3. \A k \in 1 .. Len(b) : c[k + Len(a)] = b[k] /\ k + Len(a) \in 1 .. Len(c) /\ k + Len(a) > Len(a)
    BY <1>1, ConcatProperties
  <1>4. \A k \in 1 .. Len(c) : k \in 1 .. Len(a) \/ (k - Len(a) \in 1 .. Len(b) /\ k - Len(a) + Len(a) = k)
    BY <1>1
  <1> HIDE DEF c
  <1>5. ASSUME LastIn(b, H, e) PROVE LastIn(c, H, e)
    <2>1. PICK k \in 1 .. Len(b) : b[k] = e /\ e \in H /\ \A l \in 1 .. Len(b) : l > k => b[l] \notin H
      BY <1>5 DEF LastIn
    <2>2. ASSUME NEW l \in 1 .. Len(c), l > k + Len(a) PROVE c[l] \notin H
      <3>1. l - Len(a) \in 1 .. Len(b) /\ l - Len(a) > k /\ l - Len(a) + Len(a) = l
        BY <1>1, <2>2
      <3>2. c[l] = b[l - Len(a)]
        BY <1>3, <3>1
      <3> QED  BY <2>1, <3>1, <3>2
    <2> QED  BY <1>3, <2>1, <2>2 DEF LastIn
  <1>6. ASSUME LastIn(a, H, e), NoneIn(b, H) PROVE LastIn(c, H, e)
    <2>1. PICK k \in 1 .. Len(a) : a[k] = e /\ e \in H /\ \A l \in 1 .. Len(a) : l > k => a[l] \notin H
      BY <1>6 DEF LastIn
    <2>2. ASSUME NEW l \in 1 .. Len(c), l > k PROVE c[l] \notin H
      BY <1>2, <1>3, <1>4, <1>6, <2>1, <2>2 DEF NoneIn
    <2> QED  BY <1>2, <2>1, <2>2 DEF LastIn
  <1> QED  BY <1>5, <1>6 DEF c

\* What is in a flattened list is in one of its parts.
LEMMA FlattenHas ==
    ASSUME NEW T, NEW s \in Seq(Seq(T))
    PROVE  /\ FlattenSeq(s) \in Seq(T)
           /\ \A e : Has(FlattenSeq(s), e) <=> \E j \in 1 .. Len(s) : Has(s[j], e)
  <1>1. Len(s) \in Nat /\ \A i \in 1 .. Len(s) : s[i] \in Seq(T)
    BY LenProperties, ElementOfSeq
  <1>2. CASE Len(s) = 0
    <2>1. FlattenSeq(s) = s
      BY <1>2 DEF FlattenSeq
    <2>2. s = << >>
      BY <1>2, EmptySeq
    <2> QED  BY <1>2, <2>1, <2>2, EmptySeq DEF Has
  <1>3. CASE Len(s) > 0
    <2>1. PICK g : FlattenSeq(s) = g[Len(s)] /\ Joined(g, s, Len(s))
      BY <1>3, FlattenIs
    <2> DEFINE S == {i \in Nat : /\ g[i] \in Seq(T)
                                 /\ \A e : Has(g[i], e) <=> \E j \in 1 .. i : Has(s[j], e)}
    <2>2. 1 \in S
      <3>1. g[1] = s[1] /\ 1 \in 1 .. Len(s)
        BY <1>1, <1>3, <2>1 DEF Joined
      <3>2. \A j \in 1 .. 1 : j = 1
        OBVIOUS
      <3> QED  BY <1>1, <3>1, <3>2
    <2>3. ASSUME NEW i \in Nat, 1 <= i, i < Len(s), i \in S PROVE i + 1 \in S
      <3>1. i + 1 \in 2 .. Len(s) /\ i + 1 \in 1 .. Len(s) /\ i + 1 - 1 = i
        BY <1>1, <2>3
      <3>2. g[i + 1] = g[i] \o s[i + 1]
        BY <1>1, <2>1, <2>3, JoinedNext
      <3>3. g[i] \in Seq(T) /\ s[i + 1] \in Seq(T)
        BY <1>1, <2>3, <3>1
      <3>4. g[i + 1] \in Seq(T)
        BY <3>2, <3>3, ConcatProperties
      <3>5. ASSUME NEW e PROVE Has(g[i + 1], e) <=> \E j \in 1 .. i + 1 : Has(s[j], e)
        <4>1. Has(g[i + 1], e) <=> Has(g[i], e) \/ Has(s[i + 1], e)
          BY <3>2, <3>3, ConcatHas
        <4>2. Has(g[i], e) <=> \E j \in 1 .. i : Has(s[j], e)
          BY <2>3
        <4>3. \A j : j \in 1 .. i + 1 <=> j \in 1 .. i \/ j = i + 1
          BY <2>3
        <4> QED  BY <4>1, <4>2, <4>3
      <3> QED  BY <3>4, <3>5
    <2>4. Len(s) \in S
      <3> HIDE DEF S
      <3>1. \A i \in 1 .. Len(s) : i \in S
        BY <1>1, <2>2, <2>3, UpTo
      <3> QED  BY <1>1, <1>3, <3>1
    <2> QED  BY <2>1, <2>4
  <1> QED  BY <1>1, <1>2, <1>3

\* What comes last in a flattened list.
LEMMA FlattenLast ==
    ASSUME NEW T, NEW s \in Seq(Seq(T)), NEW H, NEW e, NEW i \in 1 .. Len(s), LastIn(s[i], H, e),
           \A j \in 1 .. Len(s) : j > i => NoneIn(s[j], H)
    PROVE  LastIn(FlattenSeq(s), H, e)
  <1>1. Len(s) \in Nat /\ Len(s) > 0 /\ \A j \in 1 .. Len(s) : s[j] \in Seq(T)
    BY LenProperties, ElementOfSeq
  <1>2. PICK g : FlattenSeq(s) = g[Len(s)] /\ Joined(g, s, Len(s))
    BY <1>1, FlattenIs
  <1> DEFINE S == {j \in Nat : g[j] \in Seq(T)}
             L == {j \in Nat : LastIn(g[j], H, e)}
  <1>3. 1 \in S
    BY <1>1, <1>2 DEF Joined
  <1>4. ASSUME NEW j \in Nat, 1 <= j, j < Len(s), j \in S PROVE j + 1 \in S
    <2>1. j + 1 \in 2 .. Len(s) /\ j + 1 \in 1 .. Len(s) /\ j + 1 - 1 = j
      BY <1>1, <1>4
    <2>2. g[j + 1] = g[j] \o s[j + 1]
      BY <1>1, <1>2, <1>4, JoinedNext
    <2>3. g[j + 1] \in Seq(T)
      BY <1>1, <1>4, <2>1, <2>2, ConcatProperties
    <2> QED  BY <2>3
  <1>5. \A j \in 1 .. Len(s) : j \in S
    <2> HIDE DEF S
    <2> QED  BY <1>1, <1>3, <1>4, UpTo
  <1>6. i \in L
    <2>1. CASE i = 1
      BY <1>2, <2>1 DEF Joined
    <2>2. CASE i # 1
      <3>1. i \in 2 .. Len(s) /\ i - 1 \in 1 .. Len(s)
        BY <1>1, <2>2
      <3>2. g[i] = g[i - 1] \o s[i]
        BY <1>2, <3>1 DEF Joined
      <3>3. g[i - 1] \in Seq(T) /\ s[i] \in Seq(T)
        BY <1>1, <1>5, <3>1
      <3>4. LastIn(g[i], H, e)
        BY <3>2, <3>3, ConcatLast
      <3> QED  BY <3>1, <3>4
    <2> QED  BY <2>1, <2>2
  <1>7. ASSUME NEW j \in Nat, i <= j, j < Len(s), j \in L PROVE j + 1 \in L
    <2>1. j + 1 \in 2 .. Len(s) /\ j + 1 \in 1 .. Len(s) /\ j + 1 - 1 = j /\ j + 1 > i /\ j \in 1 .. Len(s)
      BY <1>1, <1>7
    <2>2. g[j + 1] = g[j] \o s[j + 1]
      <3>1. 1 <= j
        BY <1>7
      <3> QED  BY <1>1, <1>2, <1>7, <3>1, JoinedNext
    <2>3. g[j] \in Seq(T) /\ s[j + 1] \in Seq(T) /\ NoneIn(s[j + 1], H) /\ LastIn(g[j], H, e)
      BY <1>1, <1>5, <1>7, <2>1
    <2>4. LastIn(g[j + 1], H, e)
      BY <2>2, <2>3, ConcatLast
    <2> QED  BY <2>4
  <1>8. Len(s) \in L
    <2>1. \A j \in i .. Len(s) : j \in L
      <3> HIDE DEF L
      <3>1. i \in Nat
        BY <1>1
      <3> QED  BY <1>1, <1>6, <1>7, <3>1, UpTo
    <2> QED  BY <1>1, <2>1
  <1> QED  BY <1>2, <1>8

-----------------------------------------------------------------------------
(* The inductive invariant.                                                *)

Postings == [Keyword -> SUBSET Msgs]
Sign == {"+", "-"}
Term == [tag : Tags \cup {Star, All}, ns : Spaces \cup {None}]
Operation == [sign : Sign, kw : Term]
Job == [on : SUBSET Msgs, ops : Seq(Operation)]
Act == [sign : Sign, kw : Keyword]
Change == [kw : Keyword, iset : SUBSET Msgs, oset : SUBSET Msgs]
Snapshot == [slot : Slots, before : Postings, after : Postings, want : {"before", "after"}]
Mutating ==
    [stage : {"index", "record", "touch"}, ns : Spaces \cup {None}, rec : BOOLEAN,
     before : Postings, todo : Seq(Job), acts : Seq(Act), base : Nat, star : BOOLEAN,
     cset : SUBSET Msgs, changes : Seq(Change), real : SUBSET Msgs]
Adding ==
    [stage : {"key", "add", "touch"}, kws : SUBSET Keyword, new : SUBSET Keyword, ns : {None},
     touch : BOOLEAN, base : Nat, cset : SUBSET Msgs, real : SUBSET Msgs]
Deleting ==
    [stage : {"index", "touch"}, todo : {<< >>}, rec : {FALSE}, ns : {None},
     cset : SUBSET Msgs, real : SUBSET Msgs]

Types ==
    /\ posts \in Postings
    /\ DOMAIN keys \subseteq Keyword /\ l1 \in 0 .. L1Keywords
    /\ \A kw \in DOMAIN keys : keys[kw] \in 1 .. L1Keywords
    /\ ver \in 1 .. MaxVersion /\ pos \in Slots
    /\ hist \in [Slots -> [id : 0 .. MaxVersion, changes : Seq(Change)]]
    /\ op \in {Idle} \cup Mutating \cup Adding \cup Deleting
    /\ snap \in {NoSnap} \cup Snapshot
    /\ since \in [Msgs -> 0 .. MaxVersion] /\ lost \subseteq Msgs
    /\ loose \in [Spaces -> SUBSET Msgs]
    /\ undone \in BOOLEAN /\ stops \in Nat /\ quiet \in Nat

\* The stages of a request, and the version that it will touch.
Stages ==
    /\ op \in Mutating =>
        /\ op.stage = "index" => ver = op.base /\ ver < MaxVersion
        /\ op.stage # "index" => ver = op.base + 1 /\ op.todo = << >>
        /\ op.stage = "record" => op.rec
    /\ op \in Adding =>
        /\ ver = IF op.touch THEN op.base + 1 ELSE op.base
        /\ op.stage = "touch" => op.kws = {}
    /\ op \in Deleting => (op.stage = "index" => ver < MaxVersion)

\* What will be found by a tag has a key, before it is found.
Fits(kw, ns) == kw.tag = Star \/ Refused(kw, ns) \/ InSpace(kw, ns) \in Keyword
Fitting(jb, ns) == \A k \in 1 .. Len(jb.ops) : Fits(jb.ops[k].kw, ns)
Keyed ==
    /\ \A kw \in Keyword : posts[kw] # {} => kw \in DOMAIN keys
    /\ op \in Mutating =>
        /\ \A i \in 1 .. Len(op.acts) : op.acts[i].sign = "+" => op.acts[i].kw \in DOMAIN keys
        /\ \A j \in 1 .. Len(op.todo) : Fitting(op.todo[j], op.ns)
    /\ op \in Adding =>
        /\ op.kws \ op.new \subseteq DOMAIN keys
        /\ op.stage # "key" => op.kws \subseteq DOMAIN keys

\* Until a request is cut short, keys lead to slots that are in use.
SlotsInUse ==
    stops = 0 =>
        /\ \A kw \in DOMAIN keys : keys[kw] <= l1
        /\ \A k1, k2 \in DOMAIN keys : keys[k1] = keys[k2] => k1 = k2

\* Inside a namespace, the keywords that were looked up are the namespace's.
Inside ==
    op \in Mutating /\ op.ns # None /\ ~op.star =>
        \A i \in 1 .. Len(op.acts) : op.acts[i].kw.ns = op.ns

\* A message is found by what changed it, or is about to be touched.
Reached(v, m, n, posted) ==
    \E w \in 1 .. n : v <= w /\ \A t \in VersionKeywords(w) : <<t[1], t[2], m>> \in posted
Coming(o, n) == IF o.stage = "index" THEN n + 1 ELSE n
Awaited(m, o, v, n) == o # Idle /\ m \in o.real /\ v = Coming(o, n)
Found ==
    /\ op # Idle => op.real \subseteq op.cset
    /\ op \in Adding => (op.stage = "key" \/ ~op.touch => op.real = {})
    /\ \A m \in Msgs : since[m] > 0 =>
          m \in lost \/ Reached(since[m], m, ver, touched) \/ Awaited(m, op, since[m], ver)

\* The mark of a namespace, as an operation of a request, or looked up.
IsMark(p, sp, ns) ==
    /\ p.sign = "+" /\ p.kw.tag = All
    /\ IF sp = None THEN p.kw.ns = ns ELSE sp = ns /\ p.kw.ns = None
IsTag(p, sp, ns) ==
    /\ p.sign = "+" /\ p.kw.tag \in Tags
    /\ IF sp = None THEN p.kw.ns = ns ELSE sp = ns
ActMark(e, ns) == e.sign = "+" /\ e.kw = Kw(All, ns)
ActTag(e, ns) == e.sign = "+" /\ e.kw.tag \in Tags /\ e.kw.ns = ns
MarkComes(o, ns) ==
    \/ \E i \in 1 .. Len(o.acts) : ActMark(o.acts[i], ns)
    \/ \E k \in 1 .. Len(o.todo[1].ops) : IsMark(o.todo[1].ops[k], o.ns, ns)
TagComes(o, ns) ==
    \/ \E i \in 1 .. Len(o.acts) : ActTag(o.acts[i], ns)
    \/ \E k \in 1 .. Len(o.todo[1].ops) : IsTag(o.todo[1].ops[k], o.ns, ns)
\* No operation takes a mark away, and each that tags has one that marks.
Sparing(e) == e.sign = "-" => e.kw.tag # All
SparingJob(jb) == \A k \in 1 .. Len(jb.ops) : Sparing(jb.ops[k])
Paired(jb, sp, ns) ==
    (\E k \in 1 .. Len(jb.ops) : IsTag(jb.ops[k], sp, ns)) =>
        \E k \in 1 .. Len(jb.ops) : IsMark(jb.ops[k], sp, ns)
\* What clients tag in a namespace is marked, or the mark is on its way.
Owed(o, ns, m) ==
    o \in Mutating /\ o.todo # << >> /\ m \in o.todo[1].on \cap o.real /\ MarkComes(o, ns)
Held(P, gone, free, o) ==
    \A ns \in Spaces, t \in Tags : \A m \in P[Kw(t, ns)] :
        m \in P[Kw(All, ns)] \/ m \in gone \/ m \in free[ns] \/ Owed(o, ns, m)
Promised(P, o) ==
    o \in Mutating =>
        /\ \A i \in 1 .. Len(o.acts) : Sparing(o.acts[i])
        /\ \A j \in 1 .. Len(o.todo) : SparingJob(o.todo[j])
        /\ \A ns \in Spaces : o.todo # << >> /\ TagComes(o, ns) =>
              MarkComes(o, ns) \/ o.todo[1].on \subseteq P[Kw(All, ns)]
        /\ \A ns \in Spaces : \A j \in 2 .. Len(o.todo) : Paired(o.todo[j], o.ns, ns)
Marks == undone \/ (Held(posts, lost, loose, op) /\ Promised(posts, op))

\* A list of changes leads from before to after: for every keyword and
\* message the first change that touches it starts from what was before, and
\* the last one leaves what is after.
Touched(c, kw, m) == c.kw = kw /\ ((m \in c.iset) # (m \in c.oset))
FirstAgrees(ch, kw, m, b) ==
    \E i \in 1 .. Len(ch) : /\ Touched(ch[i], kw, m) /\ (m \in ch[i].iset <=> b)
                            /\ \A j \in 1 .. Len(ch) : j < i => ~Touched(ch[j], kw, m)
LastAgrees(ch, kw, m, b) ==
    \E i \in 1 .. Len(ch) : /\ Touched(ch[i], kw, m) /\ (m \in ch[i].oset <=> b)
                            /\ \A j \in 1 .. Len(ch) : j > i => ~Touched(ch[j], kw, m)
Faithful(ch, before, after) ==
    \A kw \in Keyword, m \in Msgs :
        \/ /\ \A i \in 1 .. Len(ch) : ~Touched(ch[i], kw, m)
           /\ m \in before[kw] <=> m \in after[kw]
        \/ /\ FirstAgrees(ch, kw, m, m \in before[kw])
           /\ LastAgrees(ch, kw, m, m \in after[kw])
\* An undo has one operation to do for each set of messages; the last that
\* concerns a keyword and a message leaves what is wanted.
Simple(o) ==
    \/ o.todo = << >> /\ o.acts = << >>
    \/ /\ o.todo # << >>
       /\ \A j \in 2 .. Len(o.todo) : Len(o.todo[j].ops) = 1
       /\ \/ Len(o.todo[1].ops) = 1 /\ o.acts = << >>
          \/ o.todo[1].ops = << >> /\ Len(o.acts) = 1
Doing(o, j) == IF j = 1 /\ o.acts # << >> THEN o.acts[1] ELSE o.todo[j].ops[1]
Concerns(o, j, kw, m) == Doing(o, j).kw = kw /\ m \in o.todo[j].on
Lands(o, from, to) ==
    \A kw \in Keyword, m \in Msgs :
        \/ /\ \A j \in 1 .. Len(o.todo) : ~Concerns(o, j, kw, m)
           /\ m \in from[kw] <=> m \in to[kw]
        \/ \E j \in 1 .. Len(o.todo) :
              /\ Concerns(o, j, kw, m) /\ (Doing(o, j).sign = "+" <=> m \in to[kw])
              /\ \A l \in 1 .. Len(o.todo) : l > j => ~Concerns(o, l, kw, m)
Heading(o, P, to) ==
    /\ ~o.rec /\ o.ns = None /\ Simple(o)
    /\ \A j \in 1 .. Len(o.todo) : Doing(o, j).kw \in Keyword
    /\ Lands(o, P, to)
Recorded(o, P) == o \in Mutating /\ o.stage # "touch" => Faithful(o.changes, o.before, P)
Restoring(sn, h, o, P) ==
    /\ Faithful(h[sn.slot].changes, sn.before, sn.after)
    /\ o \notin Adding /\ o \notin Deleting
    /\ o = Idle \/ o.stage = "touch" => P = sn[sn.want]
    /\ o \in Mutating /\ o.stage # "touch" => Heading(o, P, sn[sn.want])
Undoing == Recorded(op, posts) /\ (snap # NoSnap => Restoring(snap, hist, op, posts))

IInv == Types /\ Stages /\ Keyed /\ SlotsInUse /\ Inside /\ Found /\ Marks /\ Undoing

-----------------------------------------------------------------------------
(* The lists that requests are made of.                                    *)

\* A list with at most one element.
LEMMA OneOrNone ==
    ASSUME NEW T, NEW e \in T
    PROVE  /\ <<e>> \in Seq(T) /\ Len(<<e>>) = 1 /\ <<e>>[1] = e
           /\ << >> \in Seq(T) /\ Len(<< >>) = 0
           /\ \A x : Has(<<e>>, x) <=> x = e
           /\ \A x : ~Has(<< >>, x)
           /\ \A H : e \in H => LastIn(<<e>>, H, e)
           /\ \A H : e \notin H => NoneIn(<<e>>, H)
           /\ \A H : NoneIn(<< >>, H)
  <1>1. <<e>> \in Seq(T) /\ Len(<<e>>) = 1 /\ <<e>>[1] = e /\ << >> \in Seq(T) /\ Len(<< >>) = 0
    OBVIOUS
  <1>2. \A k : k \in 1 .. 1 <=> k = 1
    OBVIOUS
  <1>3. \A x : Has(<<e>>, x) <=> x = e
    BY <1>1, <1>2 DEF Has
  <1>4. \A x : ~Has(<< >>, x)
    BY <1>1 DEF Has
  <1>5. \A H : e \in H => LastIn(<<e>>, H, e)
    BY <1>1, <1>2 DEF LastIn
  <1>6. \A H : e \notin H => NoneIn(<<e>>, H)
    BY <1>1, <1>2 DEF NoneIn
  <1>7. \A H : NoneIn(<< >>, H)
    BY <1>1 DEF NoneIn
  <1> QED  BY <1>1, <1>3, <1>4, <1>5, <1>6, <1>7

\* The operations that undo, or redo, one change.
Single(sign, on, kw) ==
    IF on = {} THEN << >> ELSE <<[on |-> on, ops |-> <<[sign |-> sign, kw |-> kw]>>]>>
Part(c, undo) ==
    LET from == IF undo THEN c.oset ELSE c.iset
        to == IF undo THEN c.iset ELSE c.oset
    IN Single("+", to \ from, c.kw) \o Single("-", from \ to, c.kw)
\* A list of jobs of one operation each, with keywords that are there.
Plain(jb) == Len(jb.ops) = 1 /\ jb.ops[1].kw \in Keyword
Hits(kw, m) == {jb \in Job : jb.ops[1].kw = kw /\ m \in jb.on}

LEMMA KeywordIsTerm == Keyword \subseteq Term /\ \A kw \in Keyword : kw.tag # Star
  BY NamesAssumption DEF Keyword, Term

SingleIs(s, sign, on, c) ==
    /\ s \in Seq(Job)
    /\ \A x : Has(s, x) => Plain(x)
    /\ \A kw \in Keyword, m \in Msgs :
        /\ kw # c \/ m \notin on => NoneIn(s, Hits(kw, m))
        /\ kw = c /\ m \in on => \E e : LastIn(s, Hits(kw, m), e) /\ e.ops[1].sign = sign
LEMMA SingleFacts ==
    ASSUME NEW sign \in Sign, NEW on \in SUBSET Msgs, NEW c \in Keyword
    PROVE  SingleIs(Single(sign, on, c), sign, on, c)
  <1> DEFINE p == [sign |-> sign, kw |-> c]
             e == [on |-> on, ops |-> <<p>>]
  <1>1. p \in Operation
    BY KeywordIsTerm DEF Operation
  <1>2. <<p>> \in Seq(Operation) /\ Len(<<p>>) = 1 /\ <<p>>[1] = p
    BY <1>1, OneOrNone
  <1>3. e \in Job /\ e.ops[1] = p /\ e.on = on /\ Len(e.ops) = 1
    BY <1>2 DEF Job
  <1>4. p.kw = c /\ p.sign = sign
    OBVIOUS
  <1>5. Plain(e)
    BY <1>3, <1>4 DEF Plain
  <1>6. \A kw \in Keyword, m \in Msgs : e \in Hits(kw, m) <=> kw = c /\ m \in on
    BY <1>3, <1>4 DEF Hits
  <1>7. Single(sign, on, c) = IF on = {} THEN << >> ELSE <<e>>
    BY Zenon DEF Single
  <1> HIDE DEF e, p
  <1>8. CASE on = {}
    <2>1. Single(sign, on, c) = << >>
      BY <1>7, <1>8
    <2>2. << >> \in Seq(Job) /\ (\A x : ~Has(<< >>, x)) /\ \A H : NoneIn(<< >>, H)
      BY <1>3, OneOrNone
    <2> QED  BY <1>8, <2>1, <2>2 DEF SingleIs
  <1>9. CASE on # {}
    <2>1. Single(sign, on, c) = <<e>>
      BY <1>7, <1>9
    <2>2. \A x : Has(<<e>>, x) => Plain(x)
      BY <1>3, <1>5, OneOrNone
    <2>3. ASSUME NEW kw \in Keyword, NEW m \in Msgs
          PROVE  /\ kw # c \/ m \notin on => NoneIn(<<e>>, Hits(kw, m))
                 /\ kw = c /\ m \in on => LastIn(<<e>>, Hits(kw, m), e) /\ e.ops[1].sign = sign
      <3>1. kw # c \/ m \notin on => NoneIn(<<e>>, Hits(kw, m))
        BY <1>3, <1>6, OneOrNone
      <3>2. kw = c /\ m \in on => LastIn(<<e>>, Hits(kw, m), e)
        BY <1>3, <1>6, OneOrNone
      <3> QED  BY <1>3, <1>4, <3>1, <3>2
    <2>4. <<e>> \in Seq(Job)
      BY <1>3, OneOrNone
    <2> QED  BY <2>1, <2>2, <2>3, <2>4 DEF SingleIs
  <1> QED  BY <1>8, <1>9

\* What undoes one change: the last operation on what it touched leaves the
\* bit that the change found; for a redo, the one it left.
LEMMA PartFacts ==
    ASSUME NEW c \in Change, NEW undo \in BOOLEAN
    PROVE  /\ Part(c, undo) \in Seq(Job)
           /\ \A x : Has(Part(c, undo), x) => Plain(x)
           /\ \A kw \in Keyword, m \in Msgs :
                /\ ~Touched(c, kw, m) => NoneIn(Part(c, undo), Hits(kw, m))
                /\ Touched(c, kw, m) =>
                     \E e : /\ LastIn(Part(c, undo), Hits(kw, m), e)
                            /\ e.ops[1].sign = "+" <=> m \in IF undo THEN c.iset ELSE c.oset
  <1> DEFINE from == IF undo THEN c.oset ELSE c.iset
             to == IF undo THEN c.iset ELSE c.oset
             a == Single("+", to \ from, c.kw)
             b == Single("-", from \ to, c.kw)
  <1>1. c.kw \in Keyword /\ from \in SUBSET Msgs /\ to \in SUBSET Msgs /\ to \ from \in SUBSET Msgs
        /\ from \ to \in SUBSET Msgs
    BY DEF Change
  <1>2. Part(c, undo) = a \o b
    BY Zenon DEF Part
  <1>3. \A kw \in Keyword, m \in Msgs :
            Touched(c, kw, m) <=> kw = c.kw /\ (m \in to \ from \/ m \in from \ to)
    BY DEF Touched
  <1>4. "+" \in Sign /\ "-" \in Sign
    BY DEF Sign
  <1> HIDE DEF from, to
  <1>5. SingleIs(a, "+", to \ from, c.kw)
    BY <1>1, <1>4, SingleFacts
  <1>6. SingleIs(b, "-", from \ to, c.kw)
    BY <1>1, <1>4, SingleFacts
  <1> HIDE DEF a, b
  <1>7. a \o b \in Seq(Job)
    BY <1>5, <1>6, ConcatProperties DEF SingleIs
  <1>8. \A x : Has(a \o b, x) => Plain(x)
    BY <1>5, <1>6, ConcatHas DEF SingleIs
  <1>9. ASSUME NEW kw \in Keyword, NEW m \in Msgs, ~Touched(c, kw, m) PROVE NoneIn(a \o b, Hits(kw, m))
    <2>1. NoneIn(a, Hits(kw, m)) /\ NoneIn(b, Hits(kw, m))
      BY <1>3, <1>5, <1>6, <1>9 DEF SingleIs
    <2>2. \A x : Has(a \o b, x) => x \notin Hits(kw, m)
      <3>1. \A x : Has(a, x) => x \notin Hits(kw, m)
        BY <2>1 DEF NoneIn, Has
      <3>2. \A x : Has(b, x) => x \notin Hits(kw, m)
        BY <2>1 DEF NoneIn, Has
      <3> QED  BY <1>5, <1>6, <3>1, <3>2, ConcatHas DEF SingleIs
    <2> QED  BY <2>2 DEF NoneIn, Has
  <1>10. ASSUME NEW kw \in Keyword, NEW m \in Msgs, Touched(c, kw, m)
         PROVE  \E e : LastIn(a \o b, Hits(kw, m), e) /\ (e.ops[1].sign = "+" <=> m \in to)
    <2>1. CASE m \in to \ from
      <3>1. PICK e : LastIn(a, Hits(kw, m), e) /\ e.ops[1].sign = "+"
        BY <1>3, <1>5, <1>10, <2>1 DEF SingleIs
      <3>2. NoneIn(b, Hits(kw, m))
        BY <1>6, <2>1 DEF SingleIs
      <3>3. LastIn(a \o b, Hits(kw, m), e)
        BY <1>5, <1>6, <3>1, <3>2, ConcatLast DEF SingleIs
      <3> QED  BY <2>1, <3>1, <3>3
    <2>2. CASE m \in from \ to
      <3>1. PICK e : LastIn(b, Hits(kw, m), e) /\ e.ops[1].sign = "-"
        BY <1>3, <1>6, <1>10, <2>2 DEF SingleIs
      <3>2. LastIn(a \o b, Hits(kw, m), e)
        BY <1>5, <1>6, <3>1, ConcatLast DEF SingleIs
      <3> QED  BY <2>2, <3>1, <3>2
    <2> QED  BY <1>3, <1>10, <2>1, <2>2
  <1> QED  BY <1>2, <1>7, <1>8, <1>9, <1>10 DEF to

\* The changes in the order they are undone, or redone.
Order(ch, undo) == IF undo THEN Reverse(ch) ELSE ch
LEMMA OrderFacts ==
    ASSUME NEW ch \in Seq(Change), NEW undo \in BOOLEAN
    PROVE  /\ Order(ch, undo) \in Seq(Change) /\ Len(Order(ch, undo)) = Len(ch) /\ Len(ch) \in Nat
           /\ \A i \in 1 .. Len(ch) :
                 Order(ch, undo)[i] = IF undo THEN ch[Len(ch) - i + 1] ELSE ch[i]
           /\ DOMAIN Order(ch, undo) = 1 .. Len(ch)
  <1>1. Len(ch) \in Nat /\ DOMAIN ch = 1 .. Len(ch) /\ \A i \in 1 .. Len(ch) : ch[i] \in Change
    BY LenProperties, ElementOfSeq
  <1>2. CASE ~undo
    BY <1>1, <1>2 DEF Order
  <1>3. CASE undo
    <2> DEFINE n == Len(ch)
               r == [i \in 1 .. n |-> ch[(n - i) + 1]]
    <2>1. Order(ch, undo) = r
      BY <1>3 DEF Order, Reverse
    <2>2. \A i \in 1 .. n : (n - i) + 1 \in 1 .. n
      BY <1>1
    <2>3. \A i \in 1 .. n : r[i] = ch[(n - i) + 1] /\ r[i] \in Change
      BY <1>1, <2>2
    <2>4. DOMAIN r = 1 .. n
      OBVIOUS
    <2>5. r \in [1 .. n -> Change]
      BY <2>3
    <2>6. r \in Seq(Change) /\ Len(r) = n
      <3> HIDE DEF r
      <3> QED  BY <1>1, <2>4, <2>5, SeqDef
    <2> HIDE DEF r
    <2> QED  BY <1>1, <1>3, <2>1, <2>3, <2>4, <2>6
  <1> QED  BY <1>2, <1>3

\* The jobs of an undo come from the changes, in order.
LEMMA MutationsAre ==
    ASSUME NEW ch \in Seq(Change), NEW undo \in BOOLEAN
    PROVE  \E s \in Seq(Seq(Job)) :
              /\ Mutations(ch, undo) = FlattenSeq(s) /\ Len(s) = Len(ch) /\ Len(ch) \in Nat
              /\ \A i \in 1 .. Len(ch) :
                    /\ Order(ch, undo)[i] \in Change
                    /\ s[i] = Part(Order(ch, undo)[i], undo)
  <1> DEFINE q == Order(ch, undo)
             s == [i \in DOMAIN q |-> Part(q[i], undo)]
  <1>1. q \in Seq(Change) /\ DOMAIN q = 1 .. Len(ch) /\ Len(q) = Len(ch) /\ Len(ch) \in Nat
    BY OrderFacts
  <1>2. \A i \in 1 .. Len(ch) : q[i] \in Change
    BY <1>1, ElementOfSeq
  <1>3. Mutations(ch, undo) = FlattenSeq(s)
    BY Zenon DEF Mutations, Order, Part, Single
  <1> HIDE DEF q
  <1>4. \A i \in 1 .. Len(ch) : s[i] = Part(q[i], undo) /\ s[i] \in Seq(Job)
    BY <1>1, <1>2, PartFacts
  <1>5. DOMAIN s = 1 .. Len(ch)
    BY <1>1
  <1>6. s \in [1 .. Len(ch) -> Seq(Job)]
    BY <1>1, <1>4
  <1> HIDE DEF s
  <1>7. s \in Seq(Seq(Job)) /\ Len(s) = Len(ch)
    BY <1>1, <1>5, <1>6, SeqDef
  <1> QED  BY <1>1, <1>2, <1>3, <1>4, <1>7 DEF q

LEMMA MutationsFacts ==
    ASSUME NEW ch \in Seq(Change), NEW undo \in BOOLEAN
    PROVE  /\ Mutations(ch, undo) \in Seq(Job)
           /\ \A j \in 1 .. Len(Mutations(ch, undo)) : Plain(Mutations(ch, undo)[j])
  <1>1. PICK s \in Seq(Seq(Job)) :
              /\ Mutations(ch, undo) = FlattenSeq(s) /\ Len(s) = Len(ch) /\ Len(ch) \in Nat
              /\ \A i \in 1 .. Len(ch) :
                    /\ Order(ch, undo)[i] \in Change
                    /\ s[i] = Part(Order(ch, undo)[i], undo)
    BY MutationsAre
  <1>2. /\ FlattenSeq(s) \in Seq(Job)
        /\ \A e : Has(FlattenSeq(s), e) <=> \E j \in 1 .. Len(s) : Has(s[j], e)
    BY FlattenHas
  <1>3. \A i \in 1 .. Len(ch) : \A x : Has(s[i], x) => Plain(x)
    BY <1>1, PartFacts
  <1>4. \A x : Has(FlattenSeq(s), x) => Plain(x)
    BY <1>1, <1>2, <1>3
  <1> QED  BY <1>1, <1>2, <1>4 DEF Has

\* An undo, from what there was before the changes or from what there was
\* after them, leads to what there was before; a redo, to what was after.
LEMMA MutationsLand ==
    ASSUME NEW ch \in Seq(Change), NEW undo \in BOOLEAN, NEW before \in Postings, NEW after \in Postings,
           Faithful(ch, before, after), NEW from \in {before, after}, NEW o,
           o.todo = Mutations(ch, undo), o.acts = << >>
    PROVE  Lands(o, from, IF undo THEN before ELSE after)
  <1> DEFINE todo == Mutations(ch, undo)
             to == IF undo THEN before ELSE after
             n == Len(ch)
  <1>1. PICK s \in Seq(Seq(Job)) :
              /\ todo = FlattenSeq(s) /\ Len(s) = n /\ n \in Nat
              /\ \A i \in 1 .. n : /\ Order(ch, undo)[i] \in Change
                                   /\ s[i] = Part(Order(ch, undo)[i], undo)
    BY MutationsAre
  <1>2. /\ todo \in Seq(Job) /\ Len(todo) \in Nat /\ \A j \in 1 .. Len(todo) : todo[j] \in Job
    BY MutationsFacts, LenProperties, ElementOfSeq
  <1>3. \A j \in 1 .. Len(todo), kw \in Keyword, m \in Msgs :
            /\ Doing(o, j) = o.todo[j].ops[1]
            /\ Concerns(o, j, kw, m) <=> todo[j] \in Hits(kw, m)
    BY <1>2 DEF Doing, Concerns, Hits
  <1> SUFFICES ASSUME NEW kw \in Keyword, NEW m \in Msgs
               PROVE \/ /\ \A j \in 1 .. Len(todo) : ~Concerns(o, j, kw, m)
                        /\ m \in from[kw] <=> m \in to[kw]
                     \/ \E j \in 1 .. Len(todo) :
                           /\ Concerns(o, j, kw, m) /\ (Doing(o, j).sign = "+" <=> m \in to[kw])
                           /\ \A l \in 1 .. Len(todo) : l > j => ~Concerns(o, l, kw, m)
    BY DEF Lands
  <1>4. CASE /\ \A i \in 1 .. n : ~Touched(ch[i], kw, m)
             /\ m \in before[kw] <=> m \in after[kw]
    <2>1. \A i \in 1 .. n : ~Touched(Order(ch, undo)[i], kw, m)
      <3>1. \A i \in 1 .. n : n - i + 1 \in 1 .. n
        BY <1>1
      <3> QED  BY <1>4, <3>1, OrderFacts
    <2>2. \A i \in 1 .. n : NoneIn(s[i], Hits(kw, m))
      BY <1>1, <2>1, PartFacts
    <2>3. \A i \in 1 .. n : \A x : Has(s[i], x) => x \notin Hits(kw, m)
      BY <2>2 DEF NoneIn, Has
    <2>4. \A x : Has(todo, x) => x \notin Hits(kw, m)
      BY <1>1, <2>3, FlattenHas
    <2>5. \A j \in 1 .. Len(todo) : todo[j] \notin Hits(kw, m)
      BY <2>4 DEF Has
    <2> QED  BY <1>3, <1>4, <2>5
  <1>5. CASE /\ FirstAgrees(ch, kw, m, m \in before[kw])
             /\ LastAgrees(ch, kw, m, m \in after[kw])
    <2>1. \E i \in 1 .. n :
             /\ Touched(Order(ch, undo)[i], kw, m)
             /\ m \in (IF undo THEN Order(ch, undo)[i].iset ELSE Order(ch, undo)[i].oset) <=> m \in to[kw]
             /\ \A j \in 1 .. n : j > i => ~Touched(Order(ch, undo)[j], kw, m)
      <3>1. CASE ~undo
        BY <1>5, <3>1, OrderFacts DEF LastAgrees
      <3>2. CASE undo
        <4>1. PICK i \in 1 .. n : /\ Touched(ch[i], kw, m) /\ (m \in ch[i].iset <=> m \in before[kw])
                                  /\ \A j \in 1 .. n : j < i => ~Touched(ch[j], kw, m)
          BY <1>5 DEF FirstAgrees
        <4> DEFINE k == n - i + 1
        <4>2. k \in 1 .. n /\ n - k + 1 = i
          BY <1>1
        <4>0. \A j \in 1 .. n : Order(ch, undo)[j] = ch[n - j + 1]
          BY <3>2, OrderFacts
        <4>3. Order(ch, undo)[k] = ch[i]
          <5> HIDE DEF k, n
          <5> QED  BY <4>0, <4>2
        <4>4. ASSUME NEW j \in 1 .. n, j > k PROVE ~Touched(Order(ch, undo)[j], kw, m)
          <5>1. n - j + 1 \in 1 .. n /\ n - j + 1 < i
            BY <1>1, <4>4
          <5>2. Order(ch, undo)[j] = ch[n - j + 1]
            BY <4>0
          <5> QED  BY <4>1, <5>1, <5>2
        <4> HIDE DEF k
        <4> QED  BY <3>2, <4>1, <4>2, <4>3, <4>4
      <3> QED  BY <3>1, <3>2
    <2>2. PICK i \in 1 .. n :
             /\ Touched(Order(ch, undo)[i], kw, m)
             /\ m \in (IF undo THEN Order(ch, undo)[i].iset ELSE Order(ch, undo)[i].oset) <=> m \in to[kw]
             /\ \A j \in 1 .. n : j > i => ~Touched(Order(ch, undo)[j], kw, m)
      BY <2>1
    <2>3. PICK e : LastIn(s[i], Hits(kw, m), e) /\ (e.ops[1].sign = "+" <=> m \in to[kw])
      <3> DEFINE c == Order(ch, undo)[i]
      <3>1. c \in Change /\ s[i] = Part(c, undo)
        BY <1>1
      <3> HIDE DEF c, to
      <3>2. PICK e : /\ LastIn(Part(c, undo), Hits(kw, m), e)
                     /\ e.ops[1].sign = "+" <=> m \in IF undo THEN c.iset ELSE c.oset
        BY <2>2, <3>1, PartFacts DEF c
      <3> QED  BY <2>2, <3>1, <3>2 DEF c
    <2>4. \A j \in 1 .. n : j > i => NoneIn(s[j], Hits(kw, m))
      BY <1>1, <2>2, PartFacts
    <2>5. LastIn(todo, Hits(kw, m), e)
      BY <1>1, <2>3, <2>4, FlattenLast
    <2>6. PICK j \in 1 .. Len(todo) : /\ todo[j] = e /\ e \in Hits(kw, m)
                                      /\ \A l \in 1 .. Len(todo) : l > j => todo[l] \notin Hits(kw, m)
      BY <2>5 DEF LastIn
    <2>7. Doing(o, j).sign = "+" <=> m \in to[kw]
      BY <1>3, <2>3, <2>6
    <2>8. Concerns(o, j, kw, m) /\ \A l \in 1 .. Len(todo) : l > j => ~Concerns(o, l, kw, m)
      BY <1>3, <2>6
    <2> QED  BY <2>7, <2>8
  <1> QED  BY <1>4, <1>5 DEF Faithful

\* The operations of a batch, with the marks of the namespaces they tag in.
Asked == [sign : Sign, kw : [tag : Tags, ns : Spaces \cup {None}] \cup [tag : {Star}, ns : {None}]]
Mark(o, ns) == [sign |-> "+", kw |-> Kw(All, IF ns = None THEN o.kw.ns ELSE None)]
Unmarked(o, ns) == o.sign = "-" \/ (ns = None /\ o.kw.ns = None)
MarkOf(o, ns) == IF Unmarked(o, ns) THEN << >> ELSE <<Mark(o, ns)>>
Good(x, ns) == x \in Operation /\ Fits(x.kw, ns) /\ (x.sign = "-" => x.kw.tag # All)

LEMMA AskedIsGood == ASSUME NEW o \in Asked, NEW ns \in Spaces \cup {None} PROVE Good(o, ns)
  <1>1. o \in Operation /\ o.kw.tag \in Tags \cup {Star} /\ o.kw.ns \in Spaces \cup {None} /\ o.kw.tag # All
    <2>1. o.sign \in Sign /\ o = [sign |-> o.sign, kw |-> o.kw]
      BY DEF Asked
    <2>2. o.kw \in [tag : Tags, ns : Spaces \cup {None}] \/ o.kw \in [tag : {Star}, ns : {None}]
      BY DEF Asked
    <2>3. o.kw \in Term /\ o.kw.tag \in Tags \cup {Star} /\ o.kw.ns \in Spaces \cup {None} /\ o.kw.tag # All
      BY <2>2, NamesAssumption DEF Term
    <2> QED  BY <2>1, <2>3 DEF Operation
  <1>2. o.kw = [tag |-> o.kw.tag, ns |-> o.kw.ns]
    BY DEF Asked
  <1>3. Fits(o.kw, ns)
    BY <1>1, <1>2 DEF Fits, Refused, InSpace, Kw, Keyword
  <1> QED  BY <1>1, <1>3 DEF Good

LEMMA MarkIsGood ==
    ASSUME NEW o \in Asked, NEW ns \in Spaces \cup {None}, ~Unmarked(o, ns)
    PROVE  Good(Mark(o, ns), ns)
  <1>1. o.kw.ns \in Spaces \cup {None}
    BY DEF Asked
  <1>2. Mark(o, ns).sign = "+" /\ Mark(o, ns).kw = Kw(All, IF ns = None THEN o.kw.ns ELSE None)
    BY DEF Mark
  <1>3. Mark(o, ns) \in Operation
    BY <1>1 DEF Mark, Kw, Operation, Term, Sign
  <1>4. Fits(Mark(o, ns).kw, ns)
    <2>1. CASE ns = None
      <3>1. o.kw.ns \in Spaces
        BY <1>1, <2>1 DEF Unmarked, Asked, Sign
      <3>2. InSpace(Mark(o, ns).kw, ns) = Kw(All, o.kw.ns)
        BY <1>2, <2>1 DEF InSpace
      <3> QED  BY <3>1, <3>2 DEF Fits, Kw, Keyword
    <2>2. CASE ns # None
      <3>1. InSpace(Mark(o, ns).kw, ns) = Kw(All, ns)
        BY <1>2, <2>2 DEF InSpace, Kw
      <3> QED  BY <2>2, <3>1 DEF Fits, Kw, Keyword
    <2> QED  BY <2>1, <2>2
  <1> QED  BY <1>2, <1>3, <1>4 DEF Good

\* A tag in a namespace comes with its mark.
LEMMA TagIsMarked ==
    ASSUME NEW o \in Asked, NEW ns \in Spaces \cup {None}, NEW sp \in Spaces, IsTag(o, ns, sp)
    PROVE  ~Unmarked(o, ns) /\ IsMark(Mark(o, ns), ns, sp)
  BY NamesAssumption DEF IsTag, Unmarked, IsMark, Mark, Kw

LEMMA MarkedFacts ==
    ASSUME NEW ops \in Seq(Asked), NEW ns \in Spaces \cup {None}
    PROVE  /\ Marked(ops, ns) \in Seq(Operation)
           /\ \A x : Has(Marked(ops, ns), x) => Good(x, ns)
           /\ \A sp \in Spaces : \A x : Has(Marked(ops, ns), x) /\ IsTag(x, ns, sp) =>
                 \E y : Has(Marked(ops, ns), y) /\ IsMark(y, ns, sp)
  <1> DEFINE s == [i \in DOMAIN ops |-> <<ops[i]>> \o MarkOf(ops[i], ns)]
             n == Len(ops)
  <1>1. n \in Nat /\ DOMAIN ops = 1 .. n /\ \A i \in 1 .. n : ops[i] \in Asked
    BY LenProperties, ElementOfSeq
  <1>2. Marked(ops, ns) = FlattenSeq(s)
    BY Zenon DEF Marked, MarkOf, Unmarked, Mark
  <1>3. ASSUME NEW o \in Asked
        PROVE  /\ <<o>> \o MarkOf(o, ns) \in Seq(Operation)
               /\ \A x : Has(<<o>> \o MarkOf(o, ns), x) <=> x = o \/ (~Unmarked(o, ns) /\ x = Mark(o, ns))
    <2>1. o \in Operation
      BY AskedIsGood DEF Good
    <2>2. <<o>> \in Seq(Operation) /\ (\A x : Has(<<o>>, x) <=> x = o) /\ << >> \in Seq(Operation)
          /\ \A x : ~Has(<< >>, x)
      BY <2>1, OneOrNone
    <2>3. MarkOf(o, ns) \in Seq(Operation)
          /\ \A x : Has(MarkOf(o, ns), x) <=> ~Unmarked(o, ns) /\ x = Mark(o, ns)
      <3>1. CASE Unmarked(o, ns)
        BY <2>2, <3>1 DEF MarkOf
      <3>2. CASE ~Unmarked(o, ns)
        <4>1. Mark(o, ns) \in Operation
          BY <3>2, MarkIsGood DEF Good
        <4>2. MarkOf(o, ns) = <<Mark(o, ns)>>
          BY <3>2, Zenon DEF MarkOf
        <4> QED  BY <3>2, <4>1, <4>2, OneOrNone
      <3> QED  BY <3>1, <3>2
    <2>4. <<o>> \o MarkOf(o, ns) \in Seq(Operation)
      BY <2>2, <2>3, ConcatProperties
    <2> QED  BY <2>2, <2>3, <2>4, ConcatHas
  <1>4. \A i \in 1 .. n : s[i] = <<ops[i]>> \o MarkOf(ops[i], ns)
    BY <1>1, Zenon
  <1>5. DOMAIN s = 1 .. n
    BY <1>1
  <1>6. s = [i \in 1 .. n |-> s[i]]
    <2>1. s = [i \in DOMAIN ops |-> s[i]]
      OBVIOUS
    <2> HIDE DEF s
    <2> QED  BY <1>1, <2>1
  <1> HIDE DEF s
  <1>7. \A i \in 1 .. n : s[i] \in Seq(Operation)
    <2>1. ASSUME NEW i \in 1 .. n PROVE s[i] \in Seq(Operation)
      <3>1. <<ops[i]>> \o MarkOf(ops[i], ns) \in Seq(Operation)
        BY <1>1, <1>3
      <3> QED  BY <1>4, <3>1, Zenon
    <2> QED  BY <2>1
  <1>8. \A i \in 1 .. n : \A x : Has(s[i], x) <=>
            x = ops[i] \/ (~Unmarked(ops[i], ns) /\ x = Mark(ops[i], ns))
    <2>1. ASSUME NEW i \in 1 .. n, NEW x
          PROVE Has(s[i], x) <=> x = ops[i] \/ (~Unmarked(ops[i], ns) /\ x = Mark(ops[i], ns))
      <3>1. Has(<<ops[i]>> \o MarkOf(ops[i], ns), x) <=>
                x = ops[i] \/ (~Unmarked(ops[i], ns) /\ x = Mark(ops[i], ns))
        BY <1>1, <1>3
      <3>2. s[i] = <<ops[i]>> \o MarkOf(ops[i], ns)
        BY <1>4
      <3> QED  BY <3>1, <3>2, Zenon
    <2> QED  BY <2>1
  <1>9. s \in Seq(Seq(Operation)) /\ Len(s) = n
    <2>1. s \in [1 .. n -> Seq(Operation)]
      BY <1>6, <1>7
    <2> QED  BY <1>1, <1>5, <2>1, SeqDef
  <1>10. /\ FlattenSeq(s) \in Seq(Operation)
         /\ \A e : Has(FlattenSeq(s), e) <=> \E j \in 1 .. n : Has(s[j], e)
    BY <1>9, FlattenHas
  <1>11. ASSUME NEW x, Has(Marked(ops, ns), x) PROVE Good(x, ns)
    <2>1. PICK j \in 1 .. n : Has(s[j], x)
      BY <1>2, <1>10, <1>11
    <2>2. ops[j] \in Asked
      BY <1>1
    <2>3. x = ops[j] \/ (~Unmarked(ops[j], ns) /\ x = Mark(ops[j], ns))
      BY <1>8, <2>1
    <2>4. Good(ops[j], ns)
      BY <2>2, AskedIsGood
    <2>5. ~Unmarked(ops[j], ns) => Good(Mark(ops[j], ns), ns)
      BY <2>2, MarkIsGood
    <2> QED  BY <2>3, <2>4, <2>5
  <1>12. ASSUME NEW sp \in Spaces, NEW x, Has(Marked(ops, ns), x), IsTag(x, ns, sp)
         PROVE  \E y : Has(Marked(ops, ns), y) /\ IsMark(y, ns, sp)
    <2>1. PICK j \in 1 .. n : Has(s[j], x)
      BY <1>2, <1>10, <1>12
    <2>2. x = ops[j] \/ (~Unmarked(ops[j], ns) /\ x = Mark(ops[j], ns))
      BY <1>8, <2>1
    <2>3. x = ops[j]
      BY <1>12, <2>2, NamesAssumption DEF IsTag, Mark, Kw
    <2>4. ~Unmarked(ops[j], ns) /\ IsMark(Mark(ops[j], ns), ns, sp)
      BY <1>1, <1>12, <2>3, TagIsMarked
    <2>5. Has(s[j], Mark(ops[j], ns))
      BY <1>8, <2>4
    <2> QED  BY <1>2, <1>10, <2>4, <2>5
  <1> QED  BY <1>2, <1>10, <1>11, <1>12

\* There are finitely many keywords.
LEMMA KeywordsFinite == IsFiniteSet(Keyword)
  <1> DEFINE A == Tags \cup {All}
             B == Spaces \cup {None}
             f == [p \in A \X B |-> Kw(p[1], p[2])]
             R == {f[p] : p \in A \X B}
  <1>1. IsFiniteSet(A) /\ IsFiniteSet(B)
    BY NamesAssumption, FS_AddElement
  <1>2. IsFiniteSet(A \X B)
    BY <1>1, FS_Product
  <1>3. f \in Surjection(A \X B, R)
    <2>1. f \in [A \X B -> R]
      OBVIOUS
    <2>2. \A y \in R : \E p \in A \X B : f[p] = y
      OBVIOUS
    <2> HIDE DEF R, f
    <2> QED  BY <2>1, <2>2 DEF Surjection
  <1>4. IsFiniteSet(R)
    BY <1>2, <1>3, FS_Surjection
  <1>5. Keyword \subseteq R
    <2>1. \A a \in A, b \in B : Kw(a, b) \in R
      <3>1. ASSUME NEW a \in A, NEW b \in B PROVE Kw(a, b) \in R
        <4>1. <<a, b>> \in A \X B /\ f[<<a, b>>] = Kw(a, b)
          OBVIOUS
        <4> HIDE DEF f
        <4> QED  BY <4>1
      <3> QED  BY <3>1
    <2>2. \A kw \in Keyword : kw = Kw(kw.tag, kw.ns) /\ kw.tag \in A /\ kw.ns \in B
      BY DEF Keyword, Kw
    <2> HIDE DEF A, B, R
    <2> QED  BY <2>1, <2>2
  <1> QED  BY <1>4, <1>5, FS_Subset

\* SetToSeq lists the elements of a finite set.
LEMMA SetToSeqIs == ASSUME NEW S, IsFiniteSet(S) PROVE SetToSeq(S) \in Seq(S)
  <1> DEFINE n == Cardinality(S)
  <1>1. n \in Nat /\ ExistsBijection(1 .. n, S)
    BY FS_CardinalityType
  <1>2. \E f \in [1 .. n -> S] : IsInjective(f)
    BY <1>1 DEF ExistsBijection, Bijection, Injection, IsInjective
  <1>3. SetToSeq(S) \in [1 .. n -> S]
    BY <1>2, Zenon DEF SetToSeq
  <1> QED  BY <1>1, <1>3, SeqDef

\* What in:* clears in a namespace, or in all of them.
LEMMA IterTagsFacts == \A ns : \A kw \in IterTags(ns) : kw \in Keyword /\ kw.tag \in Tags
  <1>1. \A kw \in Stored : kw \in Keyword /\ kw.tag \in Tags
    BY DEF Stored, Keyword
  <1>2. \A t \in Tags : Kw(t, None) \in Keyword /\ Kw(t, None).tag \in Tags
    BY DEF Kw, Keyword
  <1> QED  BY <1>1, <1>2 DEF IterTags

LEMMA ClearFacts ==
    ASSUME NEW kws, \A kw \in kws : kw \in Keyword /\ kw.tag \in Tags
    PROVE  LET q == SetToSeq([sign : {"-"}, kw : kws])
           IN /\ q \in Seq(Act)
              /\ \A i \in 1 .. Len(q) : q[i].sign = "-" /\ q[i].kw.tag \in Tags
  <1> DEFINE S == [sign : {"-"}, kw : kws]
             q == SetToSeq(S)
  <1>2. IsFiniteSet(kws)
    BY KeywordsFinite, FS_Subset
  <1>3. IsFiniteSet(S)
    <2> DEFINE f == [k \in kws |-> [sign |-> "-", kw |-> k]]
    <2>1. f \in Surjection(kws, S)
      <3>1. f \in [kws -> S]
        OBVIOUS
      <3>2. \A y \in S : \E k \in kws : f[k] = y
        <4>1. ASSUME NEW y \in S PROVE y.kw \in kws /\ f[y.kw] = y
          OBVIOUS
        <4> HIDE DEF f, S
        <4> QED  BY <4>1
      <3> HIDE DEF f, S
      <3> QED  BY <3>1, <3>2 DEF Surjection
    <2> QED  BY <1>2, <2>1, FS_Surjection
  <1>4. q \in Seq(S)
    BY <1>3, SetToSeqIs
  <1>5. S \subseteq Act
    BY DEF Act, Sign
  <1>6. q \in Seq(Act)
    <2> HIDE DEF q, S
    <2> QED  BY <1>4, <1>5, SeqMonotonic
  <1>7. ASSUME NEW i \in 1 .. Len(q) PROVE q[i].sign = "-" /\ q[i].kw.tag \in Tags
    <2>1. q[i] \in S
      <3> HIDE DEF S
      <3> QED  BY <1>4, ElementOfSeq
    <2> HIDE DEF q
    <2> QED  BY <2>1
  <1> QED  BY <1>6, <1>7

-----------------------------------------------------------------------------
(* The requests and their steps.                                           *)

\* The kinds of requests tell apart.
LEMMA Kinds ==
    /\ \A o \in Mutating : /\ o \notin Adding /\ o \notin Deleting /\ o # Idle
                           /\ o.stage \in {"index", "record", "touch"}
    /\ \A o \in Adding : /\ o \notin Mutating /\ o \notin Deleting /\ o # Idle
                         /\ o.stage \in {"key", "add", "touch"} /\ o.ns = None
    /\ \A o \in Deleting : /\ o \notin Mutating /\ o \notin Adding /\ o # Idle
                           /\ o.stage \in {"index", "touch"} /\ o.todo = << >> /\ ~o.rec /\ o.ns = None
    /\ Idle \notin Mutating /\ Idle \notin Adding /\ Idle \notin Deleting /\ Idle.stage = "idle"
  <1>1. \A o \in Mutating : "acts" \in DOMAIN o /\ o.stage \in {"index", "record", "touch"}
    BY DEF Mutating
  <1>2. \A o \in Adding : /\ "acts" \notin DOMAIN o /\ "kws" \in DOMAIN o
                          /\ o.stage \in {"key", "add", "touch"} /\ o.ns = None
    BY DEF Adding
  <1>3. \A o \in Deleting : /\ "acts" \notin DOMAIN o /\ "kws" \notin DOMAIN o /\ "todo" \in DOMAIN o
                            /\ o.stage \in {"index", "touch"} /\ o.todo = << >> /\ ~o.rec /\ o.ns = None
    BY DEF Deleting
  <1>4. "acts" \notin DOMAIN Idle /\ "kws" \notin DOMAIN Idle /\ "todo" \notin DOMAIN Idle
        /\ Idle.stage = "idle"
    BY DEF Idle
  <1> QED  BY <1>1, <1>2, <1>3, <1>4

\* The fields of a request to mutate.
LEMMA Fields ==
    ASSUME NEW o \in Mutating
    PROVE  /\ o.ns \in Spaces \cup {None} /\ o.rec \in BOOLEAN /\ o.before \in Postings
           /\ o.todo \in Seq(Job) /\ o.acts \in Seq(Act) /\ o.base \in Nat /\ o.star \in BOOLEAN
           /\ o.cset \in SUBSET Msgs /\ o.changes \in Seq(Change) /\ o.real \in SUBSET Msgs
           /\ Len(o.todo) \in Nat /\ Len(o.acts) \in Nat
           /\ \A j \in 1 .. Len(o.todo) : o.todo[j] \in Job
           /\ \A i \in 1 .. Len(o.acts) : o.acts[i] \in Act
  <1>1. o.todo \in Seq(Job) /\ o.acts \in Seq(Act)
    BY DEF Mutating
  <1>2. /\ Len(o.todo) \in Nat /\ Len(o.acts) \in Nat
        /\ \A j \in 1 .. Len(o.todo) : o.todo[j] \in Job
        /\ \A i \in 1 .. Len(o.acts) : o.acts[i] \in Act
    BY <1>1, LenProperties, ElementOfSeq
  <1> QED  BY <1>1, <1>2 DEF Mutating

\* Only a request to mutate has operations to look up or to do.
LEMMA Busy ==
    ASSUME Types, op.stage = "index", op.todo # << >>
    PROVE  op \in Mutating /\ Len(op.todo) > 0 /\ Head(op.todo) = op.todo[1] /\ op.todo[1] \in Job
  <1>1. op \in Mutating
    BY Kinds DEF Types
  <1>2. op.todo \in Seq(Job) /\ \A j \in 1 .. Len(op.todo) : op.todo[j] \in Job
    BY <1>1, Fields
  <1>3. Len(op.todo) \in Nat /\ Len(op.todo) > 0
    BY <1>2, EmptySeq
  <1> QED  BY <1>1, <1>2, <1>3

\* The operation that is looked up next.
LEMMA NextFacts ==
    ASSUME Types, Indexing
    PROVE  /\ op \in Mutating /\ op.stage = "index" /\ op.todo # << >> /\ Len(op.todo) > 0
           /\ op.todo[1] \in Job /\ op.todo[1].ops \in Seq(Operation) /\ op.todo[1].ops # << >>
           /\ Len(op.todo[1].ops) \in Nat /\ Len(op.todo[1].ops) > 0
           /\ NextOp = op.todo[1].ops[1] /\ NextOp \in Operation
  <1>1. /\ op \in Mutating /\ op.stage = "index" /\ op.todo # << >> /\ Len(op.todo) > 0
        /\ op.todo[1] \in Job /\ Head(op.todo) = op.todo[1]
    BY Busy DEF Indexing
  <1>2. op.todo[1].ops \in Seq(Operation) /\ op.todo[1].ops # << >>
    BY <1>1 DEF Indexing, Job
  <1>3. Len(op.todo[1].ops) \in Nat /\ Len(op.todo[1].ops) > 0
    BY <1>2, EmptySeq
  <1>4. NextOp = op.todo[1].ops[1] /\ NextOp \in Operation
    BY <1>1, <1>2, <1>3, HeadTailProperties DEF NextOp
  <1> QED  BY <1>1, <1>2, <1>3, <1>4

\* What looking an operation up does to the request.
IsLooked(o, p, acts, star) ==
    /\ o \in Mutating /\ p \in Mutating
    /\ p.stage = "index" /\ p.ns = o.ns /\ p.rec = o.rec /\ p.before = o.before /\ p.base = o.base
    /\ p.star = (o.star \/ star) /\ p.cset = o.cset /\ p.changes = o.changes /\ p.real = o.real
    /\ p.acts = o.acts \o acts
    /\ Len(p.todo) = Len(o.todo) /\ p.todo # << >>
    /\ p.todo[1].on = o.todo[1].on /\ p.todo[1].ops = Tail(o.todo[1].ops)
    /\ \A j \in 2 .. Len(o.todo) : p.todo[j] = o.todo[j]
LEMMA LookedFacts ==
    ASSUME Types, Indexing, NEW acts \in Seq(Act), NEW star \in BOOLEAN, Looked(acts, star)
    PROVE  IsLooked(op, op', acts, star)
  <1> DEFINE j1 == [op.todo[1] EXCEPT !.ops = Tail(@)]
             todo == [op.todo EXCEPT ![1] = j1]
  <1>1. op \in Mutating /\ op.stage = "index" /\ Len(op.todo) > 0 /\ op.todo[1] \in Job
        /\ op.todo[1].ops \in Seq(Operation) /\ op.todo[1].ops # << >>
    BY NextFacts
  <1>2. op.todo \in Seq(Job) /\ op.acts \in Seq(Act) /\ Len(op.todo) \in Nat
    BY <1>1, Fields
  <1>3. Tail(op.todo[1].ops) \in Seq(Operation)
    BY <1>1, HeadTailProperties
  <1>4. j1 \in Job /\ j1.on = op.todo[1].on /\ j1.ops = Tail(op.todo[1].ops)
    BY <1>1, <1>3 DEF Job
  <1> HIDE DEF j1
  <1>5. todo \in Seq(Job) /\ Len(todo) = Len(op.todo) /\ todo[1] = j1
        /\ \A j \in 2 .. Len(op.todo) : todo[j] = op.todo[j]
    BY <1>1, <1>2, <1>4, ExceptSeq
  <1>6. todo # << >>
    <2> HIDE DEF todo
    <2> QED  BY <1>1, <1>5
  <1>7. op' = [op EXCEPT !.todo = todo, !.acts = op.acts \o acts, !.star = op.star \/ star]
    BY <1>1, <1>2 DEF Looked, j1, Mutating
  <1>8. op.acts \o acts \in Seq(Act)
    BY <1>2, ConcatProperties
  <1> HIDE DEF todo
  <1> DEFINE both == op.acts \o acts
  <1>9. op' = [op EXCEPT !.todo = todo, !.acts = both, !.star = op.star \/ star]
    BY <1>7
  <1>10. both \in Seq(Act)
    BY <1>8
  <1> HIDE DEF both
  <1>11. op' \in Mutating
    BY <1>1, <1>5, <1>9, <1>10 DEF Mutating
  <1>12. /\ op'.stage = "index" /\ op'.ns = op.ns /\ op'.rec = op.rec /\ op'.before = op.before
         /\ op'.base = op.base /\ op'.star = (op.star \/ star) /\ op'.cset = op.cset
         /\ op'.changes = op.changes /\ op'.real = op.real /\ op'.acts = both /\ op'.todo = todo
    BY <1>1, <1>9 DEF Mutating
  <1> QED  BY <1>1, <1>4, <1>5, <1>6, <1>11, <1>12 DEF IsLooked, both

\* What doing an operation does.
ActKw == op.acts[1].kw
OnMsgs == op.todo[1].on
OldSet == posts[ActKw]
NewSet == IF op.acts[1].sign = "+" THEN OldSet \cup OnMsgs ELSE OldSet \ OnMsgs
Diff == (OldSet \ NewSet) \cup (NewSet \ OldSet)
TheChange == [kw |-> ActKw, iset |-> OldSet \cap OnMsgs, oset |-> NewSet \cap OnMsgs]
IsApplied(p) ==
    /\ p \in Mutating
    /\ p.stage = "index" /\ p.ns = op.ns /\ p.rec = op.rec /\ p.before = op.before
    /\ p.base = op.base /\ p.star = op.star
    /\ p.acts = Tail(op.acts) /\ p.todo = AfterAct /\ p.real = op.real \cup Diff
    /\ p.cset = IF Diff = {} THEN op.cset ELSE op.cset \cup ((OldSet \cup NewSet) \cap OnMsgs)
    /\ p.changes = IF Diff = {} THEN op.changes ELSE Append(op.changes, TheChange)

\* The operation that is done next.
LEMMA ApplyingFacts ==
    ASSUME Types, Applying
    PROVE  /\ op \in Mutating /\ op.stage = "index" /\ op.todo # << >> /\ Len(op.todo) > 0
           /\ op.todo[1] \in Job /\ op.todo[1].ops = << >> /\ op.acts # << >> /\ Len(op.acts) > 0
           /\ Head(op.acts) = op.acts[1] /\ Head(op.todo) = op.todo[1] /\ op.acts[1] \in Act
           /\ ActKw \in Keyword /\ OnMsgs \in SUBSET Msgs /\ OldSet \in SUBSET Msgs
           /\ NewSet \in SUBSET Msgs /\ Diff \in SUBSET Msgs /\ Diff \subseteq OnMsgs
           /\ TheChange \in Change
  <1>1. /\ op \in Mutating /\ op.stage = "index" /\ op.todo # << >> /\ Len(op.todo) > 0
        /\ op.todo[1] \in Job /\ Head(op.todo) = op.todo[1] /\ op.todo[1].ops = << >> /\ op.acts # << >>
    BY Busy DEF Applying
  <1>2. op.acts \in Seq(Act) /\ Len(op.acts) \in Nat /\ \A i \in 1 .. Len(op.acts) : op.acts[i] \in Act
    BY <1>1, Fields
  <1>3. Len(op.acts) > 0
    BY <1>1, <1>2, EmptySeq
  <1>4. op.acts[1] \in Act /\ Head(op.acts) = op.acts[1]
    BY <1>2, <1>3
  <1>5. ActKw \in Keyword /\ OnMsgs \in SUBSET Msgs
    BY <1>1, <1>4 DEF ActKw, OnMsgs, Act, Job
  <1>6. OldSet \in SUBSET Msgs
    BY <1>5 DEF Types, Postings, OldSet
  <1>7. NewSet \in SUBSET Msgs
    BY <1>5, <1>6 DEF NewSet
  <1>8. Diff \in SUBSET Msgs /\ Diff \subseteq OnMsgs
    BY <1>5, <1>6 DEF NewSet, Diff
  <1>9. TheChange \in Change
    BY <1>5, <1>6, <1>7 DEF TheChange, Change
  <1> QED  BY <1>1, <1>3, <1>4, <1>5, <1>6, <1>7, <1>8, <1>9

LEMMA ApplyFacts ==
    ASSUME Types, Apply
    PROVE  /\ IsApplied(op') /\ posts' = [posts EXCEPT ![ActKw] = NewSet]
           /\ posts' \in Postings /\ posts'[ActKw] = NewSet
           /\ \A kw \in Keyword : kw # ActKw => posts'[kw] = posts[kw]
           /\ since' = [m \in Msgs |-> IF m \in Diff THEN op.base + 1 ELSE since[m]]
           /\ UNCHANGED <<keys, l1, ver, pos, hist, touched, snap, lost, loose, undone, stops, quiet>>
  <1>1. Applying
    BY DEF Apply
  <1>2. /\ op \in Mutating /\ op.stage = "index" /\ op.todo # << >> /\ op.acts # << >>
        /\ Head(op.acts) = op.acts[1] /\ Head(op.todo) = op.todo[1]
        /\ ActKw \in Keyword /\ NewSet \in SUBSET Msgs /\ Diff \in SUBSET Msgs
        /\ OldSet \in SUBSET Msgs /\ OnMsgs \in SUBSET Msgs /\ TheChange \in Change
    BY <1>1, ApplyingFacts
  <1>3. op.todo \in Seq(Job) /\ op.acts \in Seq(Act) /\ op.changes \in Seq(Change)
        /\ op.real \in SUBSET Msgs /\ op.cset \in SUBSET Msgs
    BY <1>2, Fields
  <1>4. Tail(op.acts) \in Seq(Act) /\ Tail(op.todo) \in Seq(Job) /\ AfterAct \in Seq(Job)
    BY <1>2, <1>3, HeadTailProperties DEF AfterAct
  <1> DEFINE cs == IF Diff = {} THEN op.cset ELSE op.cset \cup ((OldSet \cup NewSet) \cap OnMsgs)
             ch == IF Diff = {} THEN op.changes ELSE Append(op.changes, TheChange)
             re == op.real \cup Diff
             ta == Tail(op.acts)
  <1>5. cs \in SUBSET Msgs /\ re \in SUBSET Msgs
    BY <1>2, <1>3
  <1>6. ch \in Seq(Change)
    BY <1>2, <1>3, AppendProperties
  <1>7. /\ op' = [op EXCEPT !.acts = ta, !.todo = AfterAct, !.real = re, !.cset = cs, !.changes = ch]
        /\ posts' = [posts EXCEPT ![ActKw] = NewSet]
        /\ since' = [m \in Msgs |-> IF m \in Diff THEN op.base + 1 ELSE since[m]]
        /\ UNCHANGED <<keys, l1, ver, pos, hist, touched, snap, lost, loose, undone, stops, quiet>>
    BY <1>2 DEF Apply, ActKw, OnMsgs, OldSet, NewSet, Diff, TheChange
  <1>8. ta \in Seq(Act)
    BY <1>4
  <1> HIDE DEF cs, ch, re, ta
  <1>9. op' \in Mutating
    BY <1>2, <1>4, <1>5, <1>6, <1>7, <1>8 DEF Mutating
  <1>10. /\ op'.stage = "index" /\ op'.ns = op.ns /\ op'.rec = op.rec /\ op'.before = op.before
         /\ op'.base = op.base /\ op'.star = op.star /\ op'.acts = ta /\ op'.todo = AfterAct
         /\ op'.real = re /\ op'.cset = cs /\ op'.changes = ch
    BY <1>2, <1>7 DEF Mutating
  <1>11. IsApplied(op')
    BY <1>9, <1>10 DEF IsApplied, cs, ch, re, ta
  <1>12. /\ posts' \in Postings /\ posts'[ActKw] = NewSet
         /\ \A kw \in Keyword : kw # ActKw => posts'[kw] = posts[kw]
    <2>1. posts \in [Keyword -> SUBSET Msgs]
      BY DEF Types, Postings
    <2> QED  BY <1>2, <1>7, <2>1 DEF Postings
  <1> QED  BY <1>7, <1>11, <1>12

\* A request begins while there are versions left.
LEMMA MayRequestFacts == ASSUME Types, MayRequest PROVE op = Idle /\ ver < MaxVersion
  BY SizesAssumption DEF Types, MayRequest

\* What the requests begin with.
IsBegun(p, todo, ns, rec) ==
    /\ p \in Mutating /\ p.stage = "index" /\ p.ns = ns /\ p.rec = rec /\ p.before = posts
    /\ p.todo = todo /\ p.acts = << >> /\ p.base = ver /\ p.star = FALSE /\ p.cset = {}
    /\ p.changes = << >> /\ p.real = {}
LEMMA MutateFacts ==
    ASSUME Types, NEW todo \in Seq(Job), NEW ns \in Spaces \cup {None}, NEW rec \in BOOLEAN,
           Mutate(todo, ns, rec)
    PROVE  IsBegun(op', todo, ns, rec)
  <1>1. posts \in Postings /\ ver \in Nat
    BY SizesAssumption DEF Types
  <1>2. << >> \in Seq(Act) /\ << >> \in Seq(Change)
    BY EmptySeq
  <1>3. op' \in Mutating
    BY <1>1, <1>2 DEF Mutate, Mutating
  <1> QED  BY <1>3 DEF Mutate, IsBegun

LEMMA TagFacts ==
    ASSUME Types, NEW b \in Batches, NEW ns \in Spaces \cup {None}, Tag(b, ns, TRUE)
    PROVE  \E todo \in Seq(Job) :
              /\ IsBegun(op', todo, ns, TRUE)
              /\ \A j \in 1 .. Len(todo) : \E ops \in Seq(Asked) : todo[j].ops = Marked(ops, ns)
              /\ op = Idle /\ ver < MaxVersion /\ snap' = NoSnap
              /\ UNCHANGED <<index, since, lost, loose, undone, stops, quiet>>
  <1> DEFINE todo == [i \in DOMAIN b |-> [on |-> b[i].on, ops |-> Marked(b[i].ops, ns)]]
             n == Len(b)
  <1>1. b \in Seq([on : SUBSET Msgs, ops : Seq(Asked)])
    BY RequestsAssumption DEF Asked, Sign
  <1>2. n \in Nat /\ DOMAIN b = 1 .. n /\ \A i \in 1 .. n : b[i].on \in SUBSET Msgs /\ b[i].ops \in Seq(Asked)
    <2>1. n \in Nat /\ DOMAIN b = 1 .. n
      BY <1>1, LenProperties
    <2>2. \A i \in 1 .. n : b[i] \in [on : SUBSET Msgs, ops : Seq(Asked)]
      BY <1>1, ElementOfSeq
    <2> QED  BY <2>1, <2>2
  <1>3. \A i \in 1 .. n : Marked(b[i].ops, ns) \in Seq(Operation)
    BY <1>2, MarkedFacts
  <1>4. \A i \in 1 .. n : /\ todo[i] = [on |-> b[i].on, ops |-> Marked(b[i].ops, ns)]
                          /\ todo[i] \in Job
    BY <1>2, <1>3 DEF Job
  <1>5. \A i \in 1 .. n : todo[i].ops = Marked(b[i].ops, ns)
    BY <1>4
  <1>6. DOMAIN todo = 1 .. n /\ todo \in [1 .. n -> Job]
    BY <1>2, <1>4
  <1>m. MayRequest
    BY DEF Tag
  <1>7. Mutate(todo, ns, TRUE) /\ op = Idle /\ ver < MaxVersion /\ snap' = NoSnap
        /\ UNCHANGED <<index, since, lost, loose, undone, stops, quiet>>
    BY <1>m, MayRequestFacts DEF Tag
  <1> HIDE DEF todo
  <1>8. todo \in Seq(Job) /\ Len(todo) = n
    BY <1>2, <1>6, SeqDef
  <1>9. IsBegun(op', todo, ns, TRUE)
    BY <1>7, <1>8, MutateFacts
  <1> QED  BY <1>2, <1>5, <1>7, <1>8, <1>9

LEMMA UndoFacts ==
    ASSUME Types, NEW slot \in Slots, NEW id \in 1 .. MaxVersion, NEW undo \in BOOLEAN,
           NEW ns \in Spaces \cup {None}, Undo(slot, id, undo, ns)
    PROVE  /\ hist[slot].changes \in Seq(Change)
           /\ IsBegun(op', Mutations(hist[slot].changes, undo), ns, FALSE)
           /\ op = Idle /\ ver < MaxVersion /\ undone' = TRUE
           /\ snap' = IF slot = snap.slot /\ ns = None
                      THEN [snap EXCEPT !.want = IF undo THEN "before" ELSE "after"] ELSE NoSnap
           /\ UNCHANGED <<index, since, lost, loose, stops, quiet>>
  <1>1. hist[slot].changes \in Seq(Change)
    BY DEF Types
  <1>2. Mutations(hist[slot].changes, undo) \in Seq(Job)
    BY <1>1, MutationsFacts
  <1>m. MayRequest
    BY DEF Undo
  <1>3. /\ Mutate(Mutations(hist[slot].changes, undo), ns, FALSE)
        /\ op = Idle /\ ver < MaxVersion /\ undone' = TRUE
        /\ snap' = IF slot = snap.slot /\ ns = None
                   THEN [snap EXCEPT !.want = IF undo THEN "before" ELSE "after"] ELSE NoSnap
        /\ UNCHANGED <<index, since, lost, loose, stops, quiet>>
    BY <1>m, MayRequestFacts DEF Undo
  <1>4. IsBegun(op', Mutations(hist[slot].changes, undo), ns, FALSE)
    BY <1>2, <1>3, MutateFacts
  <1> QED  BY <1>1, <1>3, <1>4

\* The tags that are imported together.
LEMMA ImportsFacts == \A kws \in Imports : kws \subseteq Keyword
  BY DEF Imports, Kw, Keyword

IsAdding(p, kws, ids, touch) ==
    /\ p \in Adding /\ p.stage = "key" /\ p.kws = kws /\ p.new = kws /\ p.base = ver /\ p.cset = ids
    /\ (p.touch <=> touch) /\ p.real = {}
LEMMA AddResultsFacts ==
    ASSUME Types, NEW kws \in Imports, NEW ids \in Imported, NEW touch \in BOOLEAN,
           AddResults(kws, ids, touch)
    PROVE  /\ kws \subseteq Keyword /\ ids \subseteq Msgs /\ IsAdding(op', kws, ids, touch)
           /\ op = Idle /\ ver < MaxVersion /\ snap' = NoSnap
           /\ ver' = (IF touch THEN ver + 1 ELSE ver) /\ quiet' \in Nat
           /\ UNCHANGED <<posts, keys, l1, pos, hist, touched, since, lost, loose, undone, stops>>
  <1>1. kws \subseteq Keyword /\ ids \subseteq Msgs /\ ver \in Nat /\ quiet \in Nat
    BY ImportsFacts, RequestsAssumption, SizesAssumption DEF Types
  <1>2. op' = [stage |-> "key", kws |-> kws, new |-> kws, ns |-> None, touch |-> touch,
               base |-> ver, cset |-> ids, real |-> {}]
    BY DEF AddResults
  <1>3. op' \in Adding
    BY <1>1, <1>2 DEF Adding
  <1>4. IsAdding(op', kws, ids, touch)
    BY <1>2, <1>3 DEF IsAdding
  <1>5. op = Idle /\ ver < MaxVersion
    BY MayRequestFacts DEF AddResults
  <1>6. quiet' \in Nat /\ ver' = (IF touch THEN ver + 1 ELSE ver)
    BY <1>1 DEF AddResults
  <1> QED  BY <1>1, <1>4, <1>5, <1>6 DEF AddResults

LEMMA DelResultsFacts ==
    ASSUME Types, NEW t \in Tags, NEW ns \in Spaces \cup {None}, NEW ids \in Imported, DelResults(Kw(t, ns), ids)
    PROVE  /\ Kw(t, ns) \in Keyword /\ ids \subseteq Msgs
           /\ op' \in Deleting /\ op'.stage = "index" /\ op'.cset = ids
           /\ op'.real = posts[Kw(t, ns)] \cap ids
           /\ op = Idle /\ ver < MaxVersion /\ snap' = NoSnap
           /\ posts' \in Postings /\ posts'[Kw(t, ns)] = posts[Kw(t, ns)] \ ids
           /\ \A kw \in Keyword : kw # Kw(t, ns) => posts'[kw] = posts[kw]
           /\ \/ keys' = keys
              \/ /\ keys' = [k \in DOMAIN keys \ {Kw(t, ns)} |-> keys[k]]
                 /\ posts[Kw(t, ns)] \subseteq ids
           /\ since' = [m \in Msgs |-> IF m \in posts[Kw(t, ns)] \cap ids THEN ver + 1 ELSE since[m]]
           /\ UNCHANGED <<l1, ver, pos, hist, touched, lost, loose, undone, stops, quiet>>
  <1> DEFINE k0 == Kw(t, ns)
  <1>1. k0 \in Keyword /\ ids \subseteq Msgs
    BY RequestsAssumption DEF Kw, Keyword
  <1> HIDE DEF k0
  <1>2. op' = [stage |-> "index", todo |-> << >>, rec |-> FALSE, ns |-> None,
               cset |-> ids, real |-> posts[k0] \cap ids]
    BY DEF DelResults, k0
  <1>3. op' \in Deleting /\ op'.stage = "index" /\ op'.cset = ids /\ op'.real = posts[k0] \cap ids
    BY <1>1, <1>2 DEF Deleting
  <1>4. posts \in [Keyword -> SUBSET Msgs] /\ posts' = [posts EXCEPT ![k0] = @ \ ids]
    BY DEF DelResults, Types, Postings, k0
  <1>5. /\ posts' \in Postings /\ posts'[k0] = posts[k0] \ ids
        /\ \A kw \in Keyword : kw # k0 => posts'[kw] = posts[kw]
    BY <1>1, <1>4 DEF Postings
  <1>6. \/ keys' = keys
        \/ /\ keys' = [k \in DOMAIN keys \ {k0} |-> keys[k]]
           /\ k0 \in DOMAIN keys
           /\ \A k \in DOMAIN keys :
                    keys[k] = keys[k0] => posts[k] \subseteq (IF k = k0 THEN ids ELSE {})
    BY DEF DelResults, k0
  <1>7. \/ keys' = keys
        \/ keys' = [k \in DOMAIN keys \ {k0} |-> keys[k]] /\ posts[k0] \subseteq ids
    BY <1>6
  <1>m. MayRequest
    BY DEF DelResults
  <1>8. /\ op = Idle /\ ver < MaxVersion /\ snap' = NoSnap
        /\ since' = [m \in Msgs |-> IF m \in posts[k0] \cap ids THEN ver + 1 ELSE since[m]]
        /\ UNCHANGED <<l1, ver, pos, hist, touched, lost, loose, undone, stops, quiet>>
    BY <1>m, MayRequestFacts DEF DelResults, k0
  <1> QED  BY <1>1, <1>3, <1>5, <1>7, <1>8 DEF k0

\* The smaller steps of a request to mutate.
SameBut(o, p) ==
    /\ o \in Mutating /\ p \in Mutating
    /\ p.ns = o.ns /\ p.rec = o.rec /\ p.before = o.before /\ p.acts = o.acts
    /\ p.base = o.base /\ p.star = o.star /\ p.cset = o.cset /\ p.changes = o.changes
    /\ p.real = o.real
LEMMA AppliedFacts ==
    ASSUME Types, Applied
    PROVE  /\ SameBut(op, op') /\ op.stage = "index" /\ op'.stage = "index"
           /\ op.todo # << >> /\ op.todo[1].ops = << >> /\ op.acts = << >>
           /\ op'.todo = Tail(op.todo) /\ UNCHANGED <<index, history>>
  <1>1. op \in Mutating /\ Head(op.todo) = op.todo[1] /\ op.stage = "index" /\ op.todo # << >>
    BY Busy DEF Applied
  <1>2. op.todo \in Seq(Job) /\ Tail(op.todo) \in Seq(Job)
    BY <1>1, Fields, HeadTailProperties
  <1> DEFINE tt == Tail(op.todo)
  <1>3. op' = [op EXCEPT !.todo = tt]
    BY DEF Applied
  <1>4. tt \in Seq(Job)
    BY <1>2
  <1> HIDE DEF tt
  <1>5. SameBut(op, op') /\ op'.stage = "index" /\ op'.todo = tt
    BY <1>1, <1>3, <1>4 DEF SameBut, Mutating
  <1> QED  BY <1>1, <1>5 DEF Applied, tt

LEMMA AllocateFacts ==
    ASSUME Types, Allocate
    PROVE  /\ SameBut(op, op') /\ op.stage = "index" /\ op'.stage = "record" /\ op.rec
           /\ op.todo = << >> /\ op'.todo = << >>
           /\ ver' = ver + 1 /\ pos' = NextSlot(pos)
           /\ UNCHANGED <<posts, keys, l1, hist, touched, history>>
  <1>1. op \in Mutating
    BY Kinds DEF Types, Allocate, Finished
  <1>2. op' = [op EXCEPT !.stage = "record"]
    BY DEF Allocate
  <1>3. SameBut(op, op') /\ op'.stage = "record" /\ op'.todo = op.todo
    BY <1>1, <1>2 DEF SameBut, Mutating
  <1> QED  BY <1>3 DEF Allocate, Finished

LEMMA NewVersionFacts ==
    ASSUME Types, NewVersion
    PROVE  /\ \/ SameBut(op, op') /\ op.todo = << >> /\ op'.todo = << >> /\ ~op.rec
              \/ op \in Deleting /\ op' \in Deleting /\ op'.cset = op.cset /\ op'.real = op.real
           /\ op.stage = "index" /\ op'.stage = "touch"
           /\ ver' = ver + 1 /\ UNCHANGED <<posts, keys, l1, pos, hist, touched, history>>
  <1>1. op \in Mutating \/ op \in Deleting
    BY Kinds DEF Types, NewVersion, Finished
  <1>2. op' = [op EXCEPT !.stage = "touch"] /\ op.todo = << >> /\ ~op.rec
    BY DEF NewVersion, Finished
  <1>3. CASE op \in Mutating
    <2>1. SameBut(op, op') /\ op'.stage = "touch" /\ op'.todo = op.todo
      BY <1>2, <1>3 DEF SameBut, Mutating
    <2> QED  BY <1>2, <2>1 DEF NewVersion, Finished
  <1>4. CASE op \in Deleting
    <2>1. op' \in Deleting /\ op'.cset = op.cset /\ op'.real = op.real /\ op'.stage = "touch"
      BY <1>2, <1>4 DEF Deleting
    <2> QED  BY <1>4, <2>1 DEF NewVersion, Finished
  <1> QED  BY <1>1, <1>3, <1>4

LEMMA RecordFacts ==
    ASSUME Types, RecordHistory
    PROVE  /\ SameBut(op, op') /\ op.stage = "record" /\ op'.stage = "touch" /\ op'.todo = op.todo
           /\ hist' = [hist EXCEPT ![pos] = [id |-> ver, changes |-> op.changes]]
           /\ snap' = [slot |-> pos, before |-> op.before, after |-> posts, want |-> "after"]
           /\ UNCHANGED <<posts, keys, l1, ver, pos, touched, since, lost, loose, undone, stops, quiet>>
  <1>1. op \in Mutating
    BY Kinds DEF Types, RecordHistory
  <1>2. op' = [op EXCEPT !.stage = "touch"]
    BY DEF RecordHistory
  <1>3. SameBut(op, op') /\ op'.stage = "touch" /\ op'.todo = op.todo
    BY <1>1, <1>2 DEF SameBut, Mutating
  <1> QED  BY <1>3 DEF RecordHistory

\* The steps of add_results().
AddSame(o, p) ==
    o \in Adding /\ p \in Adding /\ p.base = o.base /\ p.cset = o.cset /\ (p.touch <=> o.touch)
LEMMA AddKeyFacts ==
    ASSUME Types, NEW kw \in Keyword, AddKey(kw)
    PROVE  /\ AddSame(op, op') /\ op.stage = "key" /\ op'.stage = "key" /\ op'.real = op.real
           /\ op'.kws = op.kws /\ op'.new = op.new \ {kw} /\ MakeKey(kw)
           /\ UNCHANGED <<posts, ver, pos, hist, touched, history>>
  <1>1. op \in Adding /\ op.stage = "key"
    BY Kinds DEF Types, AddKey
  <1>2. op' = [op EXCEPT !.new = op.new \ {kw}]
    BY <1>1 DEF AddKey, Adding
  <1>3. /\ AddSame(op, op') /\ op'.stage = "key" /\ op'.real = op.real
        /\ op'.kws = op.kws /\ op'.new = op.new \ {kw}
    BY <1>1, <1>2 DEF AddSame, Adding
  <1> QED  BY <1>1, <1>3 DEF AddKey

LEMMA AddKeysDoneFacts ==
    ASSUME Types, AddKeysDone
    PROVE  /\ AddSame(op, op') /\ op.stage = "key" /\ op'.stage = "add" /\ op'.real = op.real
           /\ op'.kws = op.kws /\ op.new \subseteq DOMAIN keys
           /\ UNCHANGED <<index, history>>
  <1>1. op \in Adding /\ op.stage = "key"
    BY Kinds DEF Types, AddKeysDone
  <1>2. op' = [op EXCEPT !.stage = "add", !.new = {}]
    BY DEF AddKeysDone
  <1>3. AddSame(op, op') /\ op'.stage = "add" /\ op'.real = op.real /\ op'.kws = op.kws
    BY <1>1, <1>2 DEF AddSame, Adding
  <1> QED  BY <1>1, <1>3 DEF AddKeysDone, NeedsSlot

Seen(kw) == IF op.touch THEN op.cset \ posts[kw] ELSE {}
IsAdded(kw, p) ==
    \/ /\ AddSame(op, p) /\ p.stage \in {"add", "touch"} /\ (p.stage = "touch" => p.kws = {})
       /\ p.kws = op.kws \ {kw} /\ p.new = op.new /\ p.real = op.real \cup Seen(kw)
    \/ p = Idle /\ ~op.touch
LEMMA AddPostFacts ==
    ASSUME Types, NEW kw \in Keyword, AddPost(kw)
    PROVE  /\ op \in Adding /\ op.stage = "add" /\ kw \in op.kws /\ IsAdded(kw, op')
           /\ Seen(kw) \subseteq op.cset /\ op.cset \in SUBSET Msgs
           /\ posts' \in Postings /\ posts'[kw] = posts[kw] \cup op.cset
           /\ \A k \in Keyword : k # kw => posts'[k] = posts[k]
           /\ since' = [m \in Msgs |-> IF m \in Seen(kw) THEN op.base + 1 ELSE since[m]]
           /\ loose' \in [Spaces -> SUBSET Msgs]
           /\ \A ns \in Spaces : /\ loose[ns] \subseteq loose'[ns]
                                 /\ ns = kw.ns => op.cset \ posts[kw] \subseteq loose'[ns]
           /\ UNCHANGED <<keys, l1, ver, pos, hist, touched, snap, lost, undone, stops, quiet>>
  <1>1. op \in Adding /\ op.stage = "add" /\ op.cset \in SUBSET Msgs /\ op.touch \in BOOLEAN
    <2>1. op \in Adding
      BY Kinds DEF Types, AddPost
    <2> QED  BY <2>1 DEF AddPost, Adding
  <1> DEFINE re == op.real \cup Seen(kw)
             kk == op.kws \ {kw}
  <1>2. Seen(kw) \subseteq op.cset
    BY DEF Seen
  <1>3. re \in SUBSET Msgs /\ kk \in SUBSET Keyword
    BY <1>1, <1>2 DEF Adding
  <1>4. /\ op.kws # {kw} => op' = [op EXCEPT !.kws = kk, !.real = re]
        /\ op.kws = {kw} /\ op.touch => op' = [op EXCEPT !.kws = kk, !.real = re, !.stage = "touch"]
        /\ op.kws = {kw} /\ ~op.touch => op' = Idle
        /\ op.kws = {kw} => kk = {}
    BY <1>1 DEF AddPost, Adding, Seen
  <1> HIDE DEF re, kk
  <1>5. IsAdded(kw, op')
    <2>1. CASE op.kws # {kw}
      <3>1. AddSame(op, op') /\ op'.stage = "add" /\ op'.kws = kk /\ op'.new = op.new /\ op'.real = re
        BY <1>1, <1>3, <1>4, <2>1 DEF AddSame, Adding
      <3> QED  BY <3>1 DEF IsAdded, re, kk
    <2>2. CASE op.kws = {kw} /\ op.touch
      <3>1. /\ AddSame(op, op') /\ op'.stage = "touch" /\ op'.kws = kk /\ op'.new = op.new
            /\ op'.real = re /\ op'.kws = {}
        BY <1>1, <1>3, <1>4, <2>2 DEF AddSame, Adding
      <3> QED  BY <3>1 DEF IsAdded, re, kk
    <2>3. CASE op.kws = {kw} /\ ~op.touch
      BY <1>4, <2>3 DEF IsAdded
    <2> QED  BY <1>1, <2>1, <2>2, <2>3
  <1>6. posts \in [Keyword -> SUBSET Msgs] /\ posts' = [posts EXCEPT ![kw] = @ \cup op.cset]
    BY DEF AddPost, Types, Postings
  <1>7. /\ posts' \in Postings /\ posts'[kw] = posts[kw] \cup op.cset
        /\ \A k \in Keyword : k # kw => posts'[k] = posts[k]
    BY <1>1, <1>6 DEF Postings
  <1>8. /\ since' = [m \in Msgs |-> IF m \in Seen(kw) THEN op.base + 1 ELSE since[m]]
        /\ UNCHANGED <<keys, l1, ver, pos, hist, touched, snap, lost, undone, stops, quiet>> /\ kw \in op.kws
    BY DEF AddPost, Seen
  <1> DEFINE new == op.cset \ posts[kw]
  <1>9. loose' = [ns \in Spaces |-> IF ns = kw.ns THEN loose[ns] \cup new ELSE loose[ns]]
    BY DEF AddPost
  <1>10. new \in SUBSET Msgs /\ loose \in [Spaces -> SUBSET Msgs]
    BY <1>1 DEF Types
  <1> HIDE DEF new
  <1>11. /\ loose' \in [Spaces -> SUBSET Msgs]
         /\ \A ns \in Spaces : loose[ns] \subseteq loose'[ns] /\ (ns = kw.ns => new \subseteq loose'[ns])
    BY <1>9, <1>10
  <1> QED  BY <1>1, <1>2, <1>5, <1>7, <1>8, <1>11 DEF new

\* A new key, with its slot.
LEMMA PutFacts ==
    ASSUME NEW f, NEW x, NEW y
    PROVE  /\ DOMAIN Put(f, x, y) = DOMAIN f \cup {x} /\ Put(f, x, y)[x] = y
           /\ \A z \in DOMAIN f : z # x => Put(f, x, y)[z] = f[z]
  BY DEF Put

\* The keyword that is looked up.
TheKw == InSpace(NextOp.kw, op.ns)
TheAct == [sign |-> NextOp.sign, kw |-> TheKw]
LEMMA LookupFacts ==
    ASSUME Types, Keyed, Indexing, NextOp.kw.tag # Star, ~Refused(NextOp.kw, op.ns)
    PROVE  /\ TheKw \in Keyword /\ TheAct \in Act /\ <<TheAct>> \in Seq(Act)
           /\ Len(<<TheAct>>) = 1 /\ <<TheAct>>[1] = TheAct
           /\ TheAct.sign = NextOp.sign /\ TheAct.kw = TheKw
  <1>1. /\ op \in Mutating /\ Len(op.todo) > 0 /\ NextOp = op.todo[1].ops[1] /\ NextOp \in Operation
        /\ Len(op.todo[1].ops) \in Nat /\ Len(op.todo[1].ops) > 0
    BY NextFacts
  <1>2. Len(op.todo) \in Nat
    BY <1>1, Fields
  <1>3. Fits(NextOp.kw, op.ns)
    BY <1>1, <1>2 DEF Keyed, Fitting
  <1>4. TheKw \in Keyword
    BY <1>3 DEF Fits, TheKw
  <1>5. TheAct \in Act /\ TheAct.sign = NextOp.sign /\ TheAct.kw = TheKw
    BY <1>1, <1>4 DEF TheAct, Act, Operation
  <1> QED  BY <1>4, <1>5, OneOrNone

\* The three ways to look an operation up.
StarActs == SetToSeq([sign : {"-"}, kw : IF NextOp.sign = "-" THEN IterTags(op.ns) ELSE {}])
LEMMA IndexStarFacts ==
    ASSUME Types, IndexStar
    PROVE  /\ Indexing /\ IsLooked(op, op', StarActs, TRUE) /\ StarActs \in Seq(Act)
           /\ \A i \in 1 .. Len(StarActs) : StarActs[i].sign = "-" /\ StarActs[i].kw.tag \in Tags
           /\ NextOp.kw.tag = Star /\ UNCHANGED <<index, history>>
  <1> DEFINE kws == IF NextOp.sign = "-" THEN IterTags(op.ns) ELSE {}
  <1>1. \A kw \in kws : kw \in Keyword /\ kw.tag \in Tags
    BY IterTagsFacts
  <1>2. /\ StarActs \in Seq(Act)
        /\ \A i \in 1 .. Len(StarActs) : StarActs[i].sign = "-" /\ StarActs[i].kw.tag \in Tags
    <2>1. StarActs = SetToSeq([sign : {"-"}, kw : kws])
      BY DEF StarActs
    <2> HIDE DEF kws
    <2> QED  BY <1>1, <2>1, ClearFacts
  <1>3. Looked(StarActs, TRUE) /\ Indexing /\ NextOp.kw.tag = Star /\ UNCHANGED <<index, history>>
    BY Zenon DEF IndexStar, StarActs
  <1>4. IsLooked(op, op', StarActs, TRUE)
    BY <1>2, <1>3, LookedFacts
  <1> QED  BY <1>2, <1>3, <1>4

LEMMA IndexOpFacts ==
    ASSUME Types, Keyed, IndexOp
    PROVE  /\ Indexing /\ NextOp.kw.tag # Star /\ ~Refused(NextOp.kw, op.ns)
           /\ IsLooked(op, op', <<TheAct>>, FALSE)
           /\ NextOp.sign = "+" => TheKw \in DOMAIN keys
           /\ UNCHANGED <<index, history>>
  <1>1. /\ Indexing /\ NextOp.kw.tag # Star /\ ~Refused(NextOp.kw, op.ns) /\ Looked(<<TheAct>>, FALSE)
        /\ UNCHANGED <<index, history>> /\ (NextOp.sign = "-" \/ ~NeedsSlot(TheKw))
    BY Zenon DEF IndexOp, TheKw, TheAct
  <1>2. <<TheAct>> \in Seq(Act)
    BY <1>1, LookupFacts
  <1>3. IsLooked(op, op', <<TheAct>>, FALSE)
    BY <1>1, <1>2, LookedFacts
  <1> QED  BY <1>1, <1>3 DEF NeedsSlot

LEMMA IndexNewFacts ==
    ASSUME Types, Keyed, IndexNew
    PROVE  /\ Indexing /\ NextOp.kw.tag # Star /\ ~Refused(NextOp.kw, op.ns) /\ NextOp.sign = "+"
           /\ IsLooked(op, op', <<TheAct>>, FALSE) /\ MakeKey(TheKw)
           /\ UNCHANGED <<posts, ver, pos, hist, touched, history>>
  <1>1. /\ Indexing /\ NextOp.kw.tag # Star /\ ~Refused(NextOp.kw, op.ns) /\ NextOp.sign = "+"
        /\ Looked(<<[sign |-> "+", kw |-> TheKw]>>, FALSE) /\ MakeKey(TheKw)
        /\ UNCHANGED <<posts, ver, pos, hist, touched, history>>
    BY Zenon DEF IndexNew, TheKw
  <1>2. <<TheAct>> \in Seq(Act)
    BY <1>1, LookupFacts
  <1>3. TheAct = [sign |-> "+", kw |-> TheKw]
    BY <1>1 DEF TheAct
  <1>4. Looked(<<TheAct>>, FALSE)
    BY <1>1, <1>3, Zenon
  <1>5. IsLooked(op, op', <<TheAct>>, FALSE)
    BY <1>1, <1>2, <1>4, LookedFacts
  <1> QED  BY <1>1, <1>5

\* A new key keeps the table of keys well typed.
LEMMA MakeKeyFacts ==
    ASSUME Types, NEW kw \in Keyword, NEW k, k = Put(keys, kw, l1 + 1), HasSlot, NeedsSlot(kw)
    PROVE  /\ DOMAIN k = DOMAIN keys \cup {kw} /\ k[kw] = l1 + 1 /\ kw \notin DOMAIN keys
           /\ \A z \in DOMAIN keys : k[z] = keys[z]
           /\ DOMAIN k \subseteq Keyword /\ \A z \in DOMAIN k : k[z] \in 1 .. L1Keywords
           /\ l1 + 1 \in 0 .. L1Keywords
  <1>1. /\ DOMAIN k = DOMAIN keys \cup {kw} /\ k[kw] = l1 + 1 /\ kw \notin DOMAIN keys
        /\ \A z \in DOMAIN keys : k[z] = keys[z]
    BY PutFacts DEF NeedsSlot
  <1>2. l1 + 1 \in 0 .. L1Keywords /\ l1 + 1 \in 1 .. L1Keywords
    BY SizesAssumption DEF Types, HasSlot
  <1> QED  BY <1>1, <1>2 DEF Types

\* The messages that are kept about the request's end.
LEMMA RealFacts ==
    ASSUME Types, op # Idle
    PROVE  op.real \in SUBSET Msgs /\ op.cset \in SUBSET Msgs
  <1>1. op \in Mutating => op.real \in SUBSET Msgs /\ op.cset \in SUBSET Msgs
    BY DEF Mutating
  <1>2. op \in Adding => op.real \in SUBSET Msgs /\ op.cset \in SUBSET Msgs
    BY DEF Adding
  <1>3. op \in Deleting => op.real \in SUBSET Msgs /\ op.cset \in SUBSET Msgs
    BY DEF Deleting
  <1> QED  BY <1>1, <1>2, <1>3 DEF Types

\* A killed worker: what it leaves.
LEMMA KillFacts ==
    ASSUME Types, Keyed, Kill
    PROVE  /\ op # Idle /\ op' = Idle /\ snap' = NoSnap /\ stops' = stops + 1
           /\ lost' = lost \cup op.real /\ touched \subseteq touched'
           /\ UNCHANGED <<posts, l1, ver, pos, hist, since, loose, undone, quiet>>
           /\ \/ keys' = keys
              \/ /\ DOMAIN keys \subseteq DOMAIN keys' /\ DOMAIN keys' \subseteq Keyword
                 /\ \A z \in DOMAIN keys' : keys'[z] \in 1 .. L1Keywords
  <1>1. /\ op # Idle /\ op' = Idle /\ snap' = NoSnap /\ stops' = stops + 1
        /\ lost' = lost \cup op.real /\ touched \subseteq touched'
        /\ UNCHANGED <<posts, l1, ver, pos, hist, since, loose, undone, quiet>>
        /\ \/ keys' = keys
           \/ \E kw \in Making : NeedsSlot(kw) /\ HasSlot /\ keys' = Put(keys, kw, l1 + 1)
    BY DEF Kill
  <1>2. Making \subseteq Keyword
    <2>1. op.stage = "key" => op.new \subseteq Keyword
      <3>1. op.stage = "key" => op \in Adding
        BY Kinds DEF Types
      <3> QED  BY <3>1 DEF Adding
    <2> QED  BY <2>1 DEF Making
  <1>3. ASSUME NEW kw \in Making, NeedsSlot(kw), HasSlot, keys' = Put(keys, kw, l1 + 1)
        PROVE  /\ DOMAIN keys \subseteq DOMAIN keys' /\ DOMAIN keys' \subseteq Keyword
               /\ \A z \in DOMAIN keys' : keys'[z] \in 1 .. L1Keywords
    <2>1. kw \in Keyword
      BY <1>2
    <2>2. DOMAIN keys' = DOMAIN keys \cup {kw} /\ DOMAIN keys' \subseteq Keyword
      BY <1>3, <2>1, MakeKeyFacts
    <2>3. \A z \in DOMAIN keys' : keys'[z] \in 1 .. L1Keywords
      BY <1>3, <2>1, MakeKeyFacts
    <2> QED  BY <2>2, <2>3
  <1> QED  BY <1>1, <1>3

-----------------------------------------------------------------------------
(* The invariant holds at the start.                                       *)

LEMMA Start == Init => IInv
  <1> SUFFICES ASSUME Init PROVE IInv
    OBVIOUS
  <1>1. Types
    <2>1. << >> \in Seq(Change)
      BY EmptySeq
    <2>2. NoChange \in [id : 0 .. MaxVersion, changes : Seq(Change)]
      BY <2>1, SizesAssumption DEF NoChange
    <2>3. hist \in [Slots -> [id : 0 .. MaxVersion, changes : Seq(Change)]]
      BY <2>2, Zenon DEF Init
    <2>4. posts \in Postings /\ op \in {Idle} /\ snap \in {NoSnap} /\ undone \in BOOLEAN
      BY DEF Init, Postings
    <2>5. DOMAIN keys = {} /\ l1 = 0 /\ ver = 1 /\ pos = HistSlots /\ lost = {} /\ stops = 0
      BY DEF Init
    <2>6. since \in [Msgs -> 0 .. MaxVersion] /\ loose \in [Spaces -> SUBSET Msgs] /\ quiet = 0
      BY SizesAssumption DEF Init
    <2> QED  BY <2>3, <2>4, <2>5, <2>6, SizesAssumption DEF Types, Slots
  <1>2. op = Idle /\ op \notin Mutating /\ op \notin Adding /\ op \notin Deleting
    BY Kinds DEF Init
  <1>3. Stages /\ Inside
    BY <1>2 DEF Stages, Inside
  <1>4. DOMAIN keys = {} /\ \A kw \in Keyword : posts[kw] = {}
    BY DEF Init
  <1>5. Keyed /\ SlotsInUse
    BY <1>2, <1>4 DEF Keyed, SlotsInUse
  <1>6. Found
    BY <1>2 DEF Found, Init
  <1>7. Marks
    <2>1. \A ns \in Spaces, t \in Tags : posts[Kw(t, ns)] = {}
      BY <1>4 DEF Kw, Keyword
    <2> QED  BY <1>2, <2>1 DEF Marks, Held, Promised
  <1>8. Undoing
    BY <1>2 DEF Undoing, Recorded, Init
  <1> QED  BY <1>1, <1>3, <1>5, <1>6, <1>7, <1>8 DEF IInv

-----------------------------------------------------------------------------
(* Every step keeps the types.                                             *)

LEMMA TypesStep == ASSUME IInv, Next PROVE Types'
  <1> USE DEF index, history
  <1>0. Types /\ Stages /\ Keyed
    BY DEF IInv
  <1>1. ASSUME NEW b \in Batches, NEW ns \in Spaces \cup {None}, Tag(b, ns, TRUE) PROVE Types'
    BY <1>0, <1>1, TagFacts DEF IsBegun, Types
  <1>2. ASSUME NEW slot \in Slots, NEW id \in 1 .. MaxVersion, NEW undo \in BOOLEAN,
               NEW ns \in Spaces \cup {None}, Undo(slot, id, undo, ns)
        PROVE  Types'
    <2>a. op' \in Mutating
      BY <1>0, <1>2, UndoFacts DEF IsBegun
    <2>b. UNCHANGED <<index, since, lost, loose, stops, quiet>> /\ undone' = TRUE
      BY <1>0, <1>2, UndoFacts
    <2>c. snap' = IF slot = snap.slot /\ ns = None
                  THEN [snap EXCEPT !.want = IF undo THEN "before" ELSE "after"] ELSE NoSnap
      BY <1>0, <1>2, UndoFacts
    <2>1. /\ op' \in Mutating /\ UNCHANGED <<index, since, lost, loose, stops, quiet>> /\ undone' = TRUE
          /\ snap' = IF slot = snap.slot /\ ns = None
                     THEN [snap EXCEPT !.want = IF undo THEN "before" ELSE "after"] ELSE NoSnap
      BY <2>a, <2>b, <2>c, Zenon
    <2>2. snap' \in {NoSnap} \cup Snapshot
      <3>1. snap = NoSnap => snap' = NoSnap
        <4>1. NoSnap.slot = 0 /\ slot # 0
          BY SizesAssumption DEF NoSnap, Slots
        <4> QED  BY <2>1, <4>1
      <3>2. snap \in Snapshot => snap' \in {NoSnap} \cup Snapshot
        BY <2>1 DEF Snapshot
      <3> QED  BY <1>0, <3>1, <3>2 DEF Types
    <2> QED  BY <1>0, <2>1, <2>2 DEF Types
  <1>3. ASSUME NEW kws \in Imports, NEW ids \in Imported, NEW touch \in BOOLEAN,
               AddResults(kws, ids, touch)
        PROVE  Types'
    <2>1. ver \in 1 .. MaxVersion /\ ver < MaxVersion /\ ver' = (IF touch THEN ver + 1 ELSE ver)
      BY <1>0, <1>3, AddResultsFacts DEF Types
    <2>2. ver' \in 1 .. MaxVersion
      BY <2>1, SizesAssumption
    <2>3. op' \in Adding
      BY <1>0, <1>3, AddResultsFacts DEF IsAdding
    <2> QED  BY <1>0, <1>3, <2>2, <2>3, AddResultsFacts DEF Types
  <1>4. ASSUME NEW t \in Tags, NEW ns \in Spaces \cup {None}, NEW ids \in Imported,
               DelResults(Kw(t, ns), ids)
        PROVE  Types'
    <2> DEFINE gone == posts[Kw(t, ns)] \cap ids
    <2>a. op' \in Deleting /\ posts' \in Postings /\ snap' = NoSnap /\ ver < MaxVersion
      BY <1>0, <1>4, DelResultsFacts
    <2>b. keys' = keys \/ keys' = [k \in DOMAIN keys \ {Kw(t, ns)} |-> keys[k]]
      BY <1>0, <1>4, DelResultsFacts
    <2>c. since' = [m \in Msgs |-> IF m \in gone THEN ver + 1 ELSE since[m]]
      BY <1>0, <1>4, DelResultsFacts
    <2>d. UNCHANGED <<l1, ver, pos, hist, touched, lost, loose, undone, stops, quiet>>
      BY <1>0, <1>4, DelResultsFacts
    <2>1. /\ op' \in Deleting /\ posts' \in Postings /\ snap' = NoSnap /\ ver < MaxVersion
          /\ keys' = keys \/ keys' = [k \in DOMAIN keys \ {Kw(t, ns)} |-> keys[k]]
          /\ since' = [m \in Msgs |-> IF m \in gone THEN ver + 1 ELSE since[m]]
          /\ UNCHANGED <<l1, ver, pos, hist, touched, lost, loose, undone, stops, quiet>>
      BY <2>a, <2>b, <2>c, <2>d
    <2> HIDE DEF gone
    <2>2. ver + 1 \in 0 .. MaxVersion
      BY <1>0, <2>1, SizesAssumption DEF Types
    <2>3. since' \in [Msgs -> 0 .. MaxVersion]
      BY <1>0, <2>1, <2>2 DEF Types
    <2>4. DOMAIN keys' \subseteq Keyword /\ \A kw \in DOMAIN keys' : keys'[kw] \in 1 .. L1Keywords
      BY <1>0, <2>1 DEF Types
    <2> QED  BY <1>0, <2>1, <2>3, <2>4 DEF Types
  <1>5. ASSUME IndexStar PROVE Types'
    BY <1>0, <1>5, IndexStarFacts DEF IsLooked, Types
  <1>6. ASSUME IndexOp PROVE Types'
    BY <1>0, <1>6, IndexOpFacts DEF IsLooked, Types
  <1>7. ASSUME IndexNew PROVE Types'
    <2>1. /\ op' \in Mutating /\ MakeKey(TheKw) /\ TheKw \in Keyword
          /\ UNCHANGED <<posts, ver, pos, hist, touched, history>>
      BY <1>0, <1>7, IndexNewFacts, LookupFacts DEF IsLooked
    <2>2. HasSlot /\ NeedsSlot(TheKw) /\ keys' = Put(keys, TheKw, l1 + 1) /\ l1' = l1 + 1
      BY <2>1 DEF MakeKey
    <2>3. /\ DOMAIN keys' \subseteq Keyword /\ \A z \in DOMAIN keys' : keys'[z] \in 1 .. L1Keywords
          /\ l1' \in 0 .. L1Keywords
      BY <1>0, <2>1, <2>2, MakeKeyFacts
    <2> QED  BY <1>0, <2>1, <2>3 DEF Types
  <1>8. ASSUME Fail PROVE Types'
    <2>1. op.real \in SUBSET Msgs
      BY <1>0, <1>8, RealFacts, NextFacts, Kinds DEF Fail
    <2> QED  BY <1>0, <1>8, <2>1 DEF Fail, Types
  <1>9. ASSUME Apply PROVE Types'
    <2>1. /\ op' \in Mutating /\ posts' \in Postings
          /\ since' = [m \in Msgs |-> IF m \in Diff THEN op.base + 1 ELSE since[m]]
          /\ UNCHANGED <<keys, l1, ver, pos, hist, touched, snap, lost, loose, undone, stops, quiet>>
      BY <1>0, <1>9, ApplyFacts DEF IsApplied
    <2>2. op \in Mutating /\ op.stage = "index"
      BY <1>0, <1>9, ApplyingFacts DEF Apply
    <2>3. op.base + 1 \in 0 .. MaxVersion
      BY <1>0, <2>2, SizesAssumption DEF Types, Stages
    <2>4. since' \in [Msgs -> 0 .. MaxVersion]
      BY <1>0, <2>1, <2>3 DEF Types
    <2> QED  BY <1>0, <2>1, <2>4 DEF Types
  <1>10. ASSUME Applied PROVE Types'
    BY <1>0, <1>10, AppliedFacts DEF SameBut, Types
  <1>11. ASSUME Allocate PROVE Types'
    <2>1. /\ op' \in Mutating /\ op \in Mutating /\ op.stage = "index"
          /\ ver' = ver + 1 /\ pos' = NextSlot(pos)
          /\ UNCHANGED <<posts, keys, l1, hist, touched, history>>
      BY <1>0, <1>11, AllocateFacts DEF SameBut
    <2>2. ver + 1 \in 1 .. MaxVersion
      BY <1>0, <2>1, SizesAssumption DEF Types, Stages
    <2>3. NextSlot(pos) \in Slots
      BY <1>0, SizesAssumption DEF Types, NextSlot, Slots
    <2> QED  BY <1>0, <2>1, <2>2, <2>3 DEF Types
  <1>12. ASSUME NewVersion PROVE Types'
    <2>1. /\ (op \in Mutating /\ op' \in Mutating) \/ (op \in Deleting /\ op' \in Deleting)
          /\ op.stage = "index" /\ ver' = ver + 1
          /\ UNCHANGED <<posts, keys, l1, pos, hist, touched, history>>
      BY <1>0, <1>12, NewVersionFacts DEF SameBut
    <2>2. ver + 1 \in 1 .. MaxVersion
      BY <1>0, <2>1, SizesAssumption DEF Types, Stages
    <2> QED  BY <1>0, <2>1, <2>2 DEF Types
  <1>13. ASSUME RecordHistory PROVE Types'
    <2>1. /\ op \in Mutating /\ op' \in Mutating
          /\ hist' = [hist EXCEPT ![pos] = [id |-> ver, changes |-> op.changes]]
          /\ snap' = [slot |-> pos, before |-> op.before, after |-> posts, want |-> "after"]
          /\ UNCHANGED <<posts, keys, l1, ver, pos, touched, since, lost, loose, undone, stops, quiet>>
      BY <1>0, <1>13, RecordFacts DEF SameBut
    <2>2. op.changes \in Seq(Change) /\ op.before \in Postings
      BY <2>1, Fields
    <2>3. snap' \in Snapshot
      BY <1>0, <2>1, <2>2 DEF Types, Snapshot
    <2>4. hist' \in [Slots -> [id : 0 .. MaxVersion, changes : Seq(Change)]]
      <3>1. [id |-> ver, changes |-> op.changes] \in [id : 0 .. MaxVersion, changes : Seq(Change)]
        BY <1>0, <2>2, SizesAssumption DEF Types
      <3> QED  BY <1>0, <2>1, <3>1, Zenon DEF Types
    <2> QED  BY <1>0, <2>1, <2>3, <2>4 DEF Types
  <1>14. ASSUME Touch PROVE Types'
    BY <1>0, <1>14 DEF Touch, Types
  <1>15. ASSUME NEW kw \in Keyword, AddKey(kw) PROVE Types'
    <2>1. /\ op' \in Adding /\ MakeKey(kw) /\ UNCHANGED <<posts, ver, pos, hist, touched, history>>
      BY <1>0, <1>15, AddKeyFacts DEF AddSame
    <2>2. HasSlot /\ NeedsSlot(kw) /\ keys' = Put(keys, kw, l1 + 1) /\ l1' = l1 + 1
      BY <2>1 DEF MakeKey
    <2>3. /\ DOMAIN keys' \subseteq Keyword /\ \A z \in DOMAIN keys' : keys'[z] \in 1 .. L1Keywords
          /\ l1' \in 0 .. L1Keywords
      BY <1>0, <2>1, <2>2, MakeKeyFacts
    <2> QED  BY <1>0, <2>1, <2>3 DEF Types
  <1>16. ASSUME NEW kw \in Keyword, AddPost(kw) PROVE Types'
    <2>1. /\ op \in Adding /\ op' \in Adding \cup {Idle} /\ posts' \in Postings
          /\ since' = [m \in Msgs |-> IF m \in Seen(kw) THEN op.base + 1 ELSE since[m]]
          /\ loose' \in [Spaces -> SUBSET Msgs]
          /\ UNCHANGED <<keys, l1, ver, pos, hist, touched, snap, lost, undone, stops, quiet>>
      BY <1>0, <1>16, AddPostFacts DEF IsAdded, AddSame
    <2>2. Seen(kw) # {} => op.base + 1 \in 0 .. MaxVersion
      BY <1>0, <2>1, SizesAssumption DEF Types, Stages, Seen
    <2>3. since' \in [Msgs -> 0 .. MaxVersion]
      BY <1>0, <2>1, <2>2 DEF Types
    <2> QED  BY <1>0, <2>1, <2>3 DEF Types
  <1>17. ASSUME AddKeyFails PROVE Types'
    BY <1>0, <1>17 DEF AddKeyFails, Types
  <1>18. ASSUME AddKeysDone PROVE Types'
    BY <1>0, <1>18, AddKeysDoneFacts DEF AddSame, Types
  <1>19. ASSUME Kill PROVE Types'
    <2>1. op.real \in SUBSET Msgs
      BY <1>0, <1>19, RealFacts, KillFacts
    <2> QED  BY <1>0, <1>19, <2>1, KillFacts DEF Types
  <1> QED
    BY <1>1, <1>2, <1>3, <1>4, <1>5, <1>6, <1>7, <1>8, <1>9, <1>10, <1>11, <1>12, <1>13, <1>14,
       <1>15, <1>16, <1>17, <1>18, <1>19 DEF Next, Requests

\* Every step keeps the order of the stages.
LEMMA StagesStep == ASSUME IInv, Next PROVE Stages'
  <1> USE DEF index, history
  <1>0. Types /\ Stages /\ Keyed /\ SlotsInUse /\ Inside
    BY DEF IInv
  <1>1. ASSUME NEW b \in Batches, NEW ns \in Spaces \cup {None}, Tag(b, ns, TRUE) PROVE Stages'
    BY <1>0, <1>1, TagFacts, Kinds DEF IsBegun, Stages
  <1>2. ASSUME NEW slot \in Slots, NEW id \in 1 .. MaxVersion, NEW undo \in BOOLEAN,
               NEW ns \in Spaces \cup {None}, Undo(slot, id, undo, ns)
        PROVE  Stages'
    <2>1. op' \in Mutating /\ op'.stage = "index" /\ op'.base = ver /\ ver < MaxVersion /\ ver' = ver
      BY <1>0, <1>2, UndoFacts DEF IsBegun
    <2> QED  BY <2>1, Kinds DEF Stages
  <1>3. ASSUME NEW kws \in Imports, NEW ids \in Imported, NEW touch \in BOOLEAN,
               AddResults(kws, ids, touch)
        PROVE  Stages'
    <2>1. op' \in Adding /\ op'.stage = "key" /\ op'.base = ver /\ (op'.touch <=> touch)
          /\ ver' = (IF touch THEN ver + 1 ELSE ver)
      BY <1>0, <1>3, AddResultsFacts DEF IsAdding
    <2> QED  BY <2>1, Kinds DEF Stages
  <1>4. ASSUME NEW t \in Tags, NEW ns \in Spaces \cup {None}, NEW ids \in Imported,
               DelResults(Kw(t, ns), ids)
        PROVE  Stages'
    BY <1>0, <1>4, DelResultsFacts, Kinds DEF Stages
  <1>5. ASSUME IndexStar PROVE Stages'
    BY <1>0, <1>5, IndexStarFacts, NextFacts, Kinds DEF IsLooked, Stages
  <1>6. ASSUME IndexOp PROVE Stages'
    BY <1>0, <1>6, IndexOpFacts, NextFacts, Kinds DEF IsLooked, Stages
  <1>7. ASSUME IndexNew PROVE Stages'
    BY <1>0, <1>7, IndexNewFacts, NextFacts, Kinds DEF IsLooked, Stages
  <1>8. ASSUME Fail PROVE Stages'
    BY <1>0, <1>8, Kinds DEF Fail, Stages
  <1>9. ASSUME Apply PROVE Stages'
    BY <1>0, <1>9, ApplyFacts, ApplyingFacts, Kinds DEF Apply, IsApplied, Stages
  <1>10. ASSUME Applied PROVE Stages'
    BY <1>0, <1>10, AppliedFacts, Kinds DEF SameBut, Stages
  <1>11. ASSUME Allocate PROVE Stages'
    BY <1>0, <1>11, AllocateFacts, Kinds DEF SameBut, Stages
  <1>12. ASSUME NewVersion PROVE Stages'
    BY <1>0, <1>12, NewVersionFacts, Kinds DEF SameBut, Stages
  <1>13. ASSUME RecordHistory PROVE Stages'
    BY <1>0, <1>13, RecordFacts, Kinds DEF SameBut, Stages
  <1>14. ASSUME Touch PROVE Stages'
    BY <1>0, <1>14, Kinds DEF Touch, Stages
  <1>15. ASSUME NEW kw \in Keyword, AddKey(kw) PROVE Stages'
    BY <1>0, <1>15, AddKeyFacts, Kinds DEF AddSame, Stages
  <1>16. ASSUME NEW kw \in Keyword, AddPost(kw) PROVE Stages'
    BY <1>0, <1>16, AddPostFacts, Kinds DEF IsAdded, AddSame, Stages
  <1>17. ASSUME AddKeyFails PROVE Stages'
    BY <1>0, <1>17, Kinds DEF AddKeyFails, Stages
  <1>18. ASSUME AddKeysDone PROVE Stages'
    BY <1>0, <1>18, AddKeysDoneFacts, Kinds DEF AddSame, Stages
  <1>19. ASSUME Kill PROVE Stages'
    BY <1>0, <1>19, KillFacts, Kinds DEF Stages
  <1> QED
    BY <1>1, <1>2, <1>3, <1>4, <1>5, <1>6, <1>7, <1>8, <1>9, <1>10, <1>11, <1>12, <1>13, <1>14,
       <1>15, <1>16, <1>17, <1>18, <1>19 DEF Next, Requests

\* A list with one element more.
LEMMA OneMore ==
    ASSUME NEW S, NEW s \in Seq(S), NEW e \in S
    PROVE  /\ Len(s \o <<e>>) = Len(s) + 1
           /\ \A i \in 1 .. Len(s \o <<e>>) :
                 (s \o <<e>>)[i] = IF i <= Len(s) THEN s[i] ELSE e
  <1>1. <<e>> \in Seq(S) /\ Len(<<e>>) = 1 /\ <<e>>[1] = e
    BY OneOrNone
  <1>2. Len(s) \in Nat
    BY LenProperties
  <1>3. /\ Len(s \o <<e>>) = Len(s) + Len(<<e>>)
        /\ \A i \in 1 .. Len(s) + Len(<<e>>) :
              (s \o <<e>>)[i] = IF i <= Len(s) THEN s[i] ELSE <<e>>[i - Len(s)]
    BY <1>1, ConcatProperties
  <1>4. \A i \in 1 .. Len(s) + 1 : ~(i <= Len(s)) => i - Len(s) = 1
    BY <1>2
  <1> QED  BY <1>1, <1>2, <1>3, <1>4

\* Looking up a keyword inside a namespace gives one of its keywords.
LEMMA InsideLooked ==
    ASSUME Inside, IsLooked(op, op', <<TheAct>>, FALSE), <<TheAct>> \in Seq(Act), TheAct.kw = TheKw
    PROVE  Inside'
  <1>1. op \in Mutating /\ op'.ns = op.ns /\ op'.star = op.star /\ op'.acts = op.acts \o <<TheAct>>
    BY Fields DEF IsLooked
  <1>2. op.acts \in Seq(Act) /\ Len(op.acts) \in Nat
    BY <1>1, Fields
  <1>3. /\ Len(op'.acts) = Len(op.acts) + 1
        /\ \A i \in 1 .. Len(op'.acts) :
              op'.acts[i] = IF i <= Len(op.acts) THEN op.acts[i] ELSE TheAct
    BY <1>1, <1>2, OneMore
  <1>4. op.ns # None => TheKw.ns = op.ns
    BY DEF TheKw, InSpace, Kw
  <1> QED  BY <1>1, <1>2, <1>3, <1>4 DEF Inside

\* Every step keeps the keywords looked up inside the namespace.
LEMMA InsideStep == ASSUME IInv, Next PROVE Inside'
  <1> USE DEF index, history
  <1>0. Types /\ Stages /\ Keyed /\ SlotsInUse /\ Inside
    BY DEF IInv
  <1>1. ASSUME NEW b \in Batches, NEW ns \in Spaces \cup {None}, Tag(b, ns, TRUE) PROVE Inside'
    <2>1. op'.acts = << >>
      BY <1>0, <1>1, TagFacts DEF IsBegun
    <2> QED  BY <2>1 DEF Inside
  <1>2. ASSUME NEW slot \in Slots, NEW id \in 1 .. MaxVersion, NEW undo \in BOOLEAN,
               NEW ns \in Spaces \cup {None}, Undo(slot, id, undo, ns)
        PROVE  Inside'
    <2>1. op'.acts = << >>
      BY <1>0, <1>2, UndoFacts DEF IsBegun
    <2> QED  BY <2>1 DEF Inside
  <1>3. ASSUME NEW kws \in Imports, NEW ids \in Imported, NEW touch \in BOOLEAN,
               AddResults(kws, ids, touch)
        PROVE  Inside'
    BY <1>0, <1>3, AddResultsFacts, Kinds DEF IsAdding, Inside
  <1>4. ASSUME NEW t \in Tags, NEW ns \in Spaces \cup {None}, NEW ids \in Imported,
               DelResults(Kw(t, ns), ids)
        PROVE  Inside'
    BY <1>0, <1>4, DelResultsFacts, Kinds DEF Inside
  <1>5. ASSUME IndexStar PROVE Inside'
    BY <1>0, <1>5, IndexStarFacts DEF IsLooked, Inside
  <1>6. ASSUME IndexOp PROVE Inside'
    <2>1. IsLooked(op, op', <<TheAct>>, FALSE) /\ <<TheAct>> \in Seq(Act) /\ TheAct.kw = TheKw
      BY <1>0, <1>6, IndexOpFacts, LookupFacts
    <2> QED  BY <1>0, <2>1, InsideLooked
  <1>7. ASSUME IndexNew PROVE Inside'
    <2>1. IsLooked(op, op', <<TheAct>>, FALSE) /\ <<TheAct>> \in Seq(Act) /\ TheAct.kw = TheKw
      BY <1>0, <1>7, IndexNewFacts, LookupFacts
    <2> QED  BY <1>0, <2>1, InsideLooked
  <1>8. ASSUME Fail PROVE Inside'
    BY <1>0, <1>8, Kinds DEF Fail, Inside
  <1>9. ASSUME Apply PROVE Inside'
    <2>1. op \in Mutating /\ op.acts # << >> /\ IsApplied(op')
      BY <1>0, <1>9, ApplyFacts, ApplyingFacts DEF Apply
    <2>2. op.acts \in Seq(Act) /\ Len(op.acts) \in Nat
      BY <2>1, Fields
    <2>3. /\ Len(Tail(op.acts)) = Len(op.acts) - 1
          /\ \A i \in 1 .. Len(Tail(op.acts)) : Tail(op.acts)[i] = op.acts[i + 1]
      BY <2>1, <2>2, HeadTailProperties
    <2>4. \A i \in 1 .. Len(Tail(op.acts)) : i + 1 \in 1 .. Len(op.acts)
      BY <2>2, <2>3
    <2> QED  BY <1>0, <2>1, <2>3, <2>4 DEF IsApplied, Inside
  <1>10. ASSUME Applied PROVE Inside'
    BY <1>0, <1>10, AppliedFacts DEF SameBut, Inside
  <1>11. ASSUME Allocate PROVE Inside'
    BY <1>0, <1>11, AllocateFacts DEF SameBut, Inside
  <1>12. ASSUME NewVersion PROVE Inside'
    BY <1>0, <1>12, NewVersionFacts, Kinds DEF SameBut, Inside
  <1>13. ASSUME RecordHistory PROVE Inside'
    BY <1>0, <1>13, RecordFacts DEF SameBut, Inside
  <1>14. ASSUME Touch PROVE Inside'
    BY <1>0, <1>14, Kinds DEF Touch, Inside
  <1>15. ASSUME NEW kw \in Keyword, AddKey(kw) PROVE Inside'
    BY <1>0, <1>15, AddKeyFacts, Kinds DEF AddSame, Inside
  <1>16. ASSUME NEW kw \in Keyword, AddPost(kw) PROVE Inside'
    BY <1>0, <1>16, AddPostFacts, Kinds DEF IsAdded, AddSame, Inside
  <1>17. ASSUME AddKeyFails PROVE Inside'
    BY <1>0, <1>17, Kinds DEF AddKeyFails, Inside
  <1>18. ASSUME AddKeysDone PROVE Inside'
    BY <1>0, <1>18, AddKeysDoneFacts, Kinds DEF AddSame, Inside
  <1>19. ASSUME Kill PROVE Inside'
    BY <1>0, <1>19, KillFacts, Kinds DEF Inside
  <1> QED
    BY <1>1, <1>2, <1>3, <1>4, <1>5, <1>6, <1>7, <1>8, <1>9, <1>10, <1>11, <1>12, <1>13, <1>14,
       <1>15, <1>16, <1>17, <1>18, <1>19 DEF Next, Requests

\* The rest of a list.
LEMMA TailFacts ==
    ASSUME NEW S, NEW s \in Seq(S), s # << >>
    PROVE  /\ Tail(s) \in Seq(S) /\ Len(Tail(s)) = Len(s) - 1 /\ Len(s) \in Nat /\ Len(s) > 0
           /\ \A k \in 1 .. Len(Tail(s)) : k + 1 \in 1 .. Len(s) /\ Tail(s)[k] = s[k + 1]
           /\ \A k \in 2 .. Len(s) : k - 1 \in 1 .. Len(Tail(s)) /\ Tail(s)[k - 1] = s[k]
           /\ \A e : Has(s, e) <=> e = s[1] \/ Has(Tail(s), e)
  <1>1. /\ Tail(s) \in Seq(S) /\ Len(Tail(s)) = Len(s) - 1
        /\ \A k \in 1 .. Len(Tail(s)) : Tail(s)[k] = s[k + 1]
    BY HeadTailProperties
  <1>2. Len(s) \in Nat /\ Len(s) > 0
    BY EmptySeq, LenProperties
  <1> DEFINE t == Tail(s)
  <1> HIDE DEF t
  <1>3. /\ \A k \in 1 .. Len(t) : k + 1 \in 1 .. Len(s) /\ t[k] = s[k + 1]
        /\ \A k \in 2 .. Len(s) : k - 1 \in 1 .. Len(t)
    BY <1>1, <1>2 DEF t
  <1>4. \A k \in 2 .. Len(s) : t[k - 1] = s[k]
    <2>1. ASSUME NEW k \in 2 .. Len(s) PROVE t[k - 1] = s[k]
      <3>1. k - 1 \in 1 .. Len(t) /\ (k - 1) + 1 = k
        BY <1>3
      <3> QED  BY <1>3, <3>1
    <2> QED  BY <2>1
  <1>5. \A e : Has(s, e) <=> e = s[1] \/ Has(t, e)
    <2>1. \A k \in 1 .. Len(s) : k = 1 \/ k \in 2 .. Len(s)
      BY <1>2
    <2>2. 1 \in 1 .. Len(s)
      BY <1>2
    <2> QED  BY <1>2, <1>3, <1>4, <2>1, <2>2 DEF Has
  <1> QED  BY <1>1, <1>2, <1>3, <1>4, <1>5 DEF t

\* The lists of a request, before and after an operation is looked up.
ListsLooked(o, p, acts) ==
    /\ \A e : Has(p.acts, e) <=> Has(o.acts, e) \/ Has(acts, e)
    /\ \A e : Has(o.todo[1].ops, e) <=> e = o.todo[1].ops[1] \/ Has(p.todo[1].ops, e)
    /\ \A k \in 1 .. Len(p.todo[1].ops) :
          k + 1 \in 1 .. Len(o.todo[1].ops) /\ p.todo[1].ops[k] = o.todo[1].ops[k + 1]
    /\ Len(o.todo) \in Nat /\ Len(o.todo) > 0 /\ Len(p.todo) = Len(o.todo)
    /\ \A j \in 2 .. Len(o.todo) : p.todo[j] = o.todo[j]
LEMMA LookedLists ==
    ASSUME NEW o, NEW p, NEW acts \in Seq(Act), NEW star, IsLooked(o, p, acts, star),
           o.todo # << >>, o.todo[1].ops \in Seq(Operation), o.todo[1].ops # << >>
    PROVE  ListsLooked(o, p, acts)
  <1>1. o \in Mutating /\ p.acts = o.acts \o acts /\ p.todo[1].ops = Tail(o.todo[1].ops)
        /\ Len(p.todo) = Len(o.todo) /\ \A j \in 2 .. Len(o.todo) : p.todo[j] = o.todo[j]
    BY DEF IsLooked
  <1>2. o.acts \in Seq(Act) /\ o.todo \in Seq(Job) /\ Len(o.todo) \in Nat
    BY <1>1, Fields
  <1>3. Len(o.todo) > 0
    BY <1>2, EmptySeq
  <1>4. \A e : Has(p.acts, e) <=> Has(o.acts, e) \/ Has(acts, e)
    BY <1>1, <1>2, ConcatHas
  <1>5. /\ \A e : Has(o.todo[1].ops, e) <=> e = o.todo[1].ops[1] \/ Has(p.todo[1].ops, e)
        /\ \A k \in 1 .. Len(p.todo[1].ops) :
              k + 1 \in 1 .. Len(o.todo[1].ops) /\ p.todo[1].ops[k] = o.todo[1].ops[k + 1]
    BY <1>1, TailFacts
  <1> QED  BY <1>1, <1>2, <1>3, <1>4, <1>5 DEF ListsLooked

\* The lists of a request, before and after an operation is done.
LEMMA AppliedLists ==
    ASSUME Types, Applying, NEW p, IsApplied(p)
    PROVE  /\ \A e : Has(op.acts, e) <=> e = op.acts[1] \/ Has(p.acts, e)
           /\ Len(p.acts) = Len(op.acts) - 1 /\ Len(op.acts) \in Nat /\ Len(op.acts) > 0
           /\ Len(op.todo) \in Nat /\ Len(op.todo) > 0
           /\ \/ p.todo = op.todo /\ Len(op.acts) > 1 /\ p.acts # << >>
              \/ /\ p.todo = Tail(op.todo) /\ Len(op.acts) = 1 /\ p.acts = << >>
                 /\ Len(p.todo) = Len(op.todo) - 1
                 /\ \A j \in 1 .. Len(p.todo) : j + 1 \in 1 .. Len(op.todo) /\ p.todo[j] = op.todo[j + 1]
  <1>1. op \in Mutating /\ op.todo # << >> /\ op.acts # << >>
    BY ApplyingFacts
  <1>2. op.acts \in Seq(Act) /\ op.todo \in Seq(Job)
    BY <1>1, Fields
  <1>3. p.acts = Tail(op.acts) /\ p.todo = AfterAct
    BY DEF IsApplied
  <1>4. /\ \A e : Has(op.acts, e) <=> e = op.acts[1] \/ Has(p.acts, e)
        /\ Len(p.acts) = Len(op.acts) - 1 /\ Len(op.acts) \in Nat /\ Len(op.acts) > 0
        /\ p.acts \in Seq(Act)
    BY <1>1, <1>2, <1>3, TailFacts
  <1>5. /\ Len(op.todo) \in Nat /\ Len(op.todo) > 0 /\ Len(Tail(op.todo)) = Len(op.todo) - 1
        /\ \A j \in 1 .. Len(Tail(op.todo)) :
              j + 1 \in 1 .. Len(op.todo) /\ Tail(op.todo)[j] = op.todo[j + 1]
    BY <1>1, <1>2, TailFacts
  <1>6. CASE Len(op.acts) = 1
    <2>1. p.todo = Tail(op.todo) /\ p.acts = << >>
      <3>1. AfterAct = Tail(op.todo)
        BY <1>6, Zenon DEF AfterAct
      <3>2. Len(p.acts) = 0
        BY <1>4, <1>6
      <3> QED  BY <1>3, <1>4, <3>1, <3>2, EmptySeq
    <2> QED  BY <1>4, <1>5, <1>6, <2>1
  <1>7. CASE Len(op.acts) # 1
    <2>1. p.todo = op.todo /\ Len(op.acts) > 1
      <3>1. AfterAct = op.todo
        BY <1>7, Zenon DEF AfterAct
      <3>2. Len(op.acts) > 1
        <4> DEFINE n == Len(op.acts)
        <4>1. n \in Nat /\ n > 0 /\ n # 1
          BY <1>4, <1>7, Zenon
        <4> HIDE DEF n
        <4>2. n > 1
          BY <4>1
        <4> QED  BY <4>2 DEF n
      <3> QED  BY <1>3, <3>1, <3>2
    <2>2. p.acts # << >>
      BY <1>4, <2>1
    <2> QED  BY <1>4, <1>5, <2>1, <2>2
  <1> QED  BY <1>6, <1>7

\* A keyword that is there can be looked up, or is refused.
LEMMA KeywordFits == ASSUME NEW kw \in Keyword, NEW ns \in Spaces \cup {None} PROVE Fits(kw, ns)
  <1>1. kw.ns = None => kw.tag \in Tags /\ Kw(kw.tag, None) = kw
    BY NamesAssumption DEF Keyword, Kw
  <1>2. \A t \in Tags : Kw(t, ns) \in Keyword
    BY DEF Keyword, Kw
  <1> QED  BY <1>1, <1>2 DEF Fits, Refused, InSpace

\* The operations that are left fit, and the keys that are there stay.
LEMMA KeyedLooked ==
    ASSUME Types, Keyed, Indexing, NEW acts \in Seq(Act), NEW star, IsLooked(op, op', acts, star),
           \A e : Has(acts, e) /\ e.sign = "+" => e.kw \in DOMAIN keys',
           DOMAIN keys \subseteq DOMAIN keys', posts' = posts
    PROVE  Keyed'
  <1>1. /\ op \in Mutating /\ op' \in Mutating /\ op.todo # << >> /\ op.todo[1].ops \in Seq(Operation)
        /\ op.todo[1].ops # << >> /\ op'.ns = op.ns
    BY NextFacts DEF IsLooked
  <1>2. /\ \A e : Has(op'.acts, e) <=> Has(op.acts, e) \/ Has(acts, e)
        /\ \A k \in 1 .. Len(op'.todo[1].ops) :
              k + 1 \in 1 .. Len(op.todo[1].ops) /\ op'.todo[1].ops[k] = op.todo[1].ops[k + 1]
        /\ Len(op.todo) \in Nat /\ Len(op.todo) > 0 /\ Len(op'.todo) = Len(op.todo)
        /\ \A j \in 2 .. Len(op.todo) : op'.todo[j] = op.todo[j]
    <2>1. ListsLooked(op, op', acts)
      BY <1>1, LookedLists
    <2> QED  BY <2>1 DEF ListsLooked
  <1>3. /\ \A e : Has(op.acts, e) /\ e.sign = "+" => e.kw \in DOMAIN keys
        /\ \A j \in 1 .. Len(op.todo) : Fitting(op.todo[j], op.ns)
        /\ \A kw \in Keyword : posts[kw] # {} => kw \in DOMAIN keys
    BY <1>1 DEF Keyed, Has
  <1>4. \A e : Has(op'.acts, e) /\ e.sign = "+" => e.kw \in DOMAIN keys'
    BY <1>2, <1>3
  <1>5. \A i \in 1 .. Len(op'.acts) : Has(op'.acts, op'.acts[i])
    BY DEF Has
  <1>6. \A j \in 1 .. Len(op'.todo) : Fitting(op'.todo[j], op'.ns)
    <2>1. Fitting(op'.todo[1], op.ns)
      <3>1. Fitting(op.todo[1], op.ns)
        BY <1>2, <1>3
      <3>2. ASSUME NEW k \in 1 .. Len(op'.todo[1].ops) PROVE Fits(op'.todo[1].ops[k].kw, op.ns)
        BY <1>2, <3>1 DEF Fitting
      <3> QED  BY <3>2 DEF Fitting
    <2>2. \A j \in 1 .. Len(op'.todo) : j = 1 \/ j \in 2 .. Len(op.todo)
      BY <1>2
    <2> QED  BY <1>1, <1>2, <1>3, <2>1, <2>2
  <1>7. op' \notin Adding
    BY <1>1, Kinds
  <1> QED  BY <1>1, <1>3, <1>4, <1>5, <1>6, <1>7 DEF Keyed

\* Every step keeps keys for what is found.
LEMMA KeyedStep == ASSUME IInv, Next PROVE Keyed'
  <1> USE DEF index, history
  <1>0. Types /\ Stages /\ Keyed /\ SlotsInUse
    BY DEF IInv
  <1>1. ASSUME NEW b \in Batches, NEW ns \in Spaces \cup {None}, Tag(b, ns, TRUE) PROVE Keyed'
    <2>1. PICK todo \in Seq(Job) :
              /\ IsBegun(op', todo, ns, TRUE)
              /\ \A j \in 1 .. Len(todo) : \E ops \in Seq(Asked) : todo[j].ops = Marked(ops, ns)
              /\ UNCHANGED <<index, since, lost, loose, undone, stops, quiet>>
      BY <1>0, <1>1, TagFacts
    <2>2. op' \in Mutating /\ op'.acts = << >> /\ op'.todo = todo /\ op'.ns = ns
      BY <2>1 DEF IsBegun
    <2>3. \A j \in 1 .. Len(todo) : Fitting(todo[j], ns)
      <3>1. ASSUME NEW j \in 1 .. Len(todo), NEW k \in 1 .. Len(todo[j].ops)
            PROVE  Fits(todo[j].ops[k].kw, ns)
        <4>1. Has(todo[j].ops, todo[j].ops[k])
          BY DEF Has
        <4> QED  BY <2>1, <4>1, MarkedFacts DEF Good
      <3> QED  BY <3>1 DEF Fitting
    <2>4. op' \notin Adding
      BY <2>2, Kinds
    <2> QED  BY <1>0, <2>1, <2>2, <2>3, <2>4 DEF Keyed
  <1>2. ASSUME NEW slot \in Slots, NEW id \in 1 .. MaxVersion, NEW undo \in BOOLEAN,
               NEW ns \in Spaces \cup {None}, Undo(slot, id, undo, ns)
        PROVE  Keyed'
    <2> DEFINE todo == Mutations(hist[slot].changes, undo)
    <2>1. /\ hist[slot].changes \in Seq(Change) /\ IsBegun(op', todo, ns, FALSE)
          /\ UNCHANGED <<index, since, lost, loose, stops, quiet>>
      BY <1>0, <1>2, UndoFacts
    <2>2. \A j \in 1 .. Len(todo) : Plain(todo[j])
      BY <2>1, MutationsFacts
    <2> HIDE DEF todo
    <2>3. op' \in Mutating /\ op'.acts = << >> /\ op'.todo = todo /\ op'.ns = ns
      BY <2>1 DEF IsBegun
    <2>4. \A j \in 1 .. Len(todo) : Fitting(todo[j], ns)
      BY <2>2, KeywordFits DEF Plain, Fitting
    <2>5. op' \notin Adding
      BY <2>3, Kinds
    <2> QED  BY <1>0, <2>1, <2>3, <2>4, <2>5 DEF Keyed
  <1>3. ASSUME NEW kws \in Imports, NEW ids \in Imported, NEW touch \in BOOLEAN,
               AddResults(kws, ids, touch)
        PROVE  Keyed'
    BY <1>0, <1>3, AddResultsFacts, Kinds DEF IsAdding, Keyed
  <1>4. ASSUME NEW t \in Tags, NEW ns \in Spaces \cup {None}, NEW ids \in Imported,
               DelResults(Kw(t, ns), ids)
        PROVE  Keyed'
    <2>1. op' \notin Mutating /\ op' \notin Adding
      BY <1>0, <1>4, DelResultsFacts, Kinds
    <2>2. /\ posts'[Kw(t, ns)] = posts[Kw(t, ns)] \ ids
          /\ \A kw \in Keyword : kw # Kw(t, ns) => posts'[kw] = posts[kw]
          /\ \/ keys' = keys
             \/ /\ keys' = [k \in DOMAIN keys \ {Kw(t, ns)} |-> keys[k]]
                /\ posts[Kw(t, ns)] \subseteq ids
      BY <1>0, <1>4, DelResultsFacts
    <2>3. \A kw \in Keyword : posts'[kw] # {} => kw \in DOMAIN keys'
      <3> HIDE DEF Kw
      <3> QED  BY <1>0, <2>2 DEF Keyed
    <2> QED  BY <2>1, <2>3 DEF Keyed
  <1>5. ASSUME IndexStar PROVE Keyed'
    <2>1. /\ Indexing /\ IsLooked(op, op', StarActs, TRUE) /\ StarActs \in Seq(Act)
          /\ \A i \in 1 .. Len(StarActs) : StarActs[i].sign = "-"
          /\ UNCHANGED <<index, history>>
      BY <1>0, <1>5, IndexStarFacts
    <2>2. \A e : Has(StarActs, e) => e.sign # "+"
      BY <2>1 DEF Has
    <2> QED  BY <1>0, <2>1, <2>2, KeyedLooked
  <1>6. ASSUME IndexOp PROVE Keyed'
    <2>1. /\ Indexing /\ IsLooked(op, op', <<TheAct>>, FALSE) /\ <<TheAct>> \in Seq(Act)
          /\ TheAct \in Act /\ TheAct.sign = NextOp.sign /\ TheAct.kw = TheKw
          /\ NextOp.sign = "+" => TheKw \in DOMAIN keys
          /\ UNCHANGED <<index, history>>
      BY <1>0, <1>6, IndexOpFacts, LookupFacts
    <2>2. \A e : Has(<<TheAct>>, e) => e = TheAct
      BY <2>1, OneOrNone
    <2> QED  BY <1>0, <2>1, <2>2, KeyedLooked
  <1>7. ASSUME IndexNew PROVE Keyed'
    <2>1. /\ Indexing /\ IsLooked(op, op', <<TheAct>>, FALSE) /\ <<TheAct>> \in Seq(Act)
          /\ TheAct \in Act /\ TheAct.kw = TheKw /\ TheKw \in Keyword
          /\ MakeKey(TheKw) /\ posts' = posts
      BY <1>0, <1>7, IndexNewFacts, LookupFacts
    <2>2. \A e : Has(<<TheAct>>, e) => e = TheAct
      BY <2>1, OneOrNone
    <2>3. DOMAIN keys' = DOMAIN keys \cup {TheKw}
      BY <1>0, <2>1, MakeKeyFacts DEF MakeKey
    <2> QED  BY <1>0, <2>1, <2>2, <2>3, KeyedLooked
  <1>8. ASSUME Fail PROVE Keyed'
    BY <1>0, <1>8, Kinds DEF Fail, Keyed
  <1>9. ASSUME Apply PROVE Keyed'
    <2>1. /\ Applying /\ IsApplied(op') /\ op' \in Mutating /\ op'.ns = op.ns /\ posts'[ActKw] = NewSet
          /\ \A kw \in Keyword : kw # ActKw => posts'[kw] = posts[kw]
          /\ keys' = keys
      BY <1>0, <1>9, ApplyFacts DEF Apply, IsApplied
    <2>2. op \in Mutating /\ op.acts[1] \in Act /\ ActKw \in Keyword
      BY <1>0, <2>1, ApplyingFacts
    <2>3. /\ \A e : Has(op.acts, e) <=> e = op.acts[1] \/ Has(op'.acts, e)
          /\ \/ op'.todo = op.todo
             \/ \A j \in 1 .. Len(op'.todo) : j + 1 \in 1 .. Len(op.todo) /\ op'.todo[j] = op.todo[j + 1]
      BY <1>0, <2>1, AppliedLists
    <2>4. \A e : Has(op.acts, e) /\ e.sign = "+" => e.kw \in DOMAIN keys
      BY <1>0, <2>2 DEF Keyed, Has
    <2>5. \A i \in 1 .. Len(op'.acts) : Has(op'.acts, op'.acts[i])
      BY DEF Has
    <2>6. \A kw \in Keyword : posts'[kw] # {} => kw \in DOMAIN keys
      <3>1. NewSet # {} => ActKw \in DOMAIN keys
        <4>1. CASE op.acts[1].sign = "+"
          BY <2>3, <2>4, <4>1 DEF ActKw
        <4>2. CASE op.acts[1].sign # "+"
          BY <1>0, <2>2, <4>2 DEF NewSet, OldSet, Keyed
        <4> QED  BY <4>1, <4>2
      <3> QED  BY <1>0, <2>1, <3>1 DEF Keyed
    <2>7. \A j \in 1 .. Len(op'.todo) : Fitting(op'.todo[j], op'.ns)
      <3>1. \A j \in 1 .. Len(op.todo) : Fitting(op.todo[j], op.ns)
        BY <1>0, <2>2 DEF Keyed
      <3> QED  BY <2>1, <2>3, <3>1
    <2>8. op' \notin Adding
      BY <2>1, Kinds
    <2> QED  BY <2>1, <2>3, <2>4, <2>5, <2>6, <2>7, <2>8 DEF Keyed
  <1>10. ASSUME Applied PROVE Keyed'
    <2>1. op \in Mutating /\ op' \in Mutating /\ op.todo # << >> /\ op'.todo = Tail(op.todo)
          /\ op'.acts = op.acts /\ op'.ns = op.ns /\ UNCHANGED <<index, history>>
      BY <1>0, <1>10, AppliedFacts DEF SameBut
    <2>2. \A j \in 1 .. Len(op'.todo) : j + 1 \in 1 .. Len(op.todo) /\ op'.todo[j] = op.todo[j + 1]
      BY <2>1, Fields, TailFacts
    <2>3. op' \notin Adding
      BY <2>1, Kinds
    <2> QED  BY <1>0, <2>1, <2>2, <2>3 DEF Keyed
  <1>11. ASSUME Allocate PROVE Keyed'
    BY <1>0, <1>11, AllocateFacts, Kinds DEF SameBut, Keyed
  <1>12. ASSUME NewVersion PROVE Keyed'
    BY <1>0, <1>12, NewVersionFacts, Kinds DEF SameBut, Keyed
  <1>13. ASSUME RecordHistory PROVE Keyed'
    BY <1>0, <1>13, RecordFacts, Kinds DEF SameBut, Keyed
  <1>14. ASSUME Touch PROVE Keyed'
    BY <1>0, <1>14, Kinds DEF Touch, Keyed
  <1>15. ASSUME NEW kw \in Keyword, AddKey(kw) PROVE Keyed'
    <2>1. /\ op \in Adding /\ op' \in Adding /\ op'.stage = "key" /\ op'.kws = op.kws
          /\ op'.new = op.new \ {kw} /\ MakeKey(kw) /\ posts' = posts
      BY <1>0, <1>15, AddKeyFacts DEF AddSame
    <2>2. DOMAIN keys' = DOMAIN keys \cup {kw}
      BY <1>0, <2>1, MakeKeyFacts DEF MakeKey
    <2>3. op' \notin Mutating
      BY <2>1, Kinds
    <2> QED  BY <1>0, <2>1, <2>2, <2>3 DEF Keyed
  <1>16. ASSUME NEW kw \in Keyword, AddPost(kw) PROVE Keyed'
    <2>1. /\ op \in Adding /\ op.stage = "add" /\ kw \in op.kws /\ keys' = keys
          /\ \/ op' \in Adding /\ op'.kws = op.kws \ {kw} /\ op'.new = op.new
             \/ op' = Idle
          /\ \A k \in Keyword : k # kw => posts'[k] = posts[k]
      BY <1>0, <1>16, AddPostFacts DEF IsAdded, AddSame
    <2>2. op' \notin Mutating /\ Idle \notin Adding
      BY <2>1, Kinds
    <2> QED  BY <1>0, <2>1, <2>2 DEF Keyed
  <1>17. ASSUME AddKeyFails PROVE Keyed'
    BY <1>0, <1>17, Kinds DEF AddKeyFails, Keyed
  <1>18. ASSUME AddKeysDone PROVE Keyed'
    <2>1. /\ op \in Adding /\ op' \in Adding /\ op'.kws = op.kws /\ op.new \subseteq DOMAIN keys
          /\ UNCHANGED <<index, history>>
      BY <1>0, <1>18, AddKeysDoneFacts DEF AddSame
    <2>2. op' \notin Mutating
      BY <2>1, Kinds
    <2>3. op.kws \subseteq DOMAIN keys
      BY <1>0, <2>1 DEF Keyed
    <2> QED  BY <1>0, <2>1, <2>2, <2>3 DEF Keyed
  <1>19. ASSUME Kill PROVE Keyed'
    <2>1. op' \notin Mutating /\ op' \notin Adding /\ posts' = posts /\ DOMAIN keys \subseteq DOMAIN keys'
      BY <1>0, <1>19, KillFacts, Kinds
    <2> QED  BY <1>0, <2>1 DEF Keyed
  <1> QED
    BY <1>1, <1>2, <1>3, <1>4, <1>5, <1>6, <1>7, <1>8, <1>9, <1>10, <1>11, <1>12, <1>13, <1>14,
       <1>15, <1>16, <1>17, <1>18, <1>19 DEF Next, Requests

\* Every step that is not cut short keeps keys in slots of their own.
LEMMA SlotsStep == ASSUME IInv, Next PROVE SlotsInUse'
  <1> USE DEF index, history
  <1>0. Types /\ Stages /\ Keyed /\ SlotsInUse
    BY DEF IInv
  <1>1. ASSUME NEW b \in Batches, NEW ns \in Spaces \cup {None}, Tag(b, ns, TRUE) PROVE SlotsInUse'
    BY <1>0, <1>1 DEF Tag, SlotsInUse
  <1>2. ASSUME NEW slot \in Slots, NEW id \in 1 .. MaxVersion, NEW undo \in BOOLEAN,
               NEW ns \in Spaces \cup {None}, Undo(slot, id, undo, ns)
        PROVE  SlotsInUse'
    BY <1>0, <1>2 DEF Undo, SlotsInUse
  <1>3. ASSUME NEW kws \in Imports, NEW ids \in Imported, NEW touch \in BOOLEAN,
               AddResults(kws, ids, touch)
        PROVE  SlotsInUse'
    BY <1>0, <1>3 DEF AddResults, SlotsInUse
  <1>4. ASSUME NEW t \in Tags, NEW ns \in Spaces \cup {None}, NEW ids \in Imported,
               DelResults(Kw(t, ns), ids)
        PROVE  SlotsInUse'
    <2>1. /\ UNCHANGED <<l1, stops>>
          /\ keys' = keys \/ keys' = [k \in DOMAIN keys \ {Kw(t, ns)} |-> keys[k]]
      BY <1>0, <1>4 DEF DelResults
    <2> HIDE DEF Kw
    <2> QED  BY <1>0, <2>1 DEF SlotsInUse
  <1>5. ASSUME IndexStar PROVE SlotsInUse'
    BY <1>0, <1>5 DEF IndexStar, SlotsInUse
  <1>6. ASSUME IndexOp PROVE SlotsInUse'
    BY <1>0, <1>6 DEF IndexOp, SlotsInUse
  <1>7. ASSUME IndexNew PROVE SlotsInUse'
    <2>1. /\ MakeKey(TheKw) /\ TheKw \in Keyword /\ stops' = stops
      BY <1>0, <1>7, IndexNewFacts, LookupFacts
    <2>2. HasSlot /\ NeedsSlot(TheKw) /\ keys' = Put(keys, TheKw, l1 + 1) /\ l1' = l1 + 1
      BY <2>1 DEF MakeKey
    <2>3. /\ DOMAIN keys' = DOMAIN keys \cup {TheKw} /\ keys'[TheKw] = l1 + 1
          /\ \A z \in DOMAIN keys : keys'[z] = keys[z]
      BY <1>0, <2>1, <2>2, MakeKeyFacts
    <2>4. l1 \in Nat /\ \A z \in DOMAIN keys : keys[z] \in Nat
      BY <1>0, SizesAssumption DEF Types
    <2>5. stops = 0 => \A z \in DOMAIN keys : keys[z] <= l1 /\ keys[z] # l1 + 1
      BY <1>0, <2>4 DEF SlotsInUse
    <2> QED  BY <1>0, <2>1, <2>2, <2>3, <2>4, <2>5 DEF SlotsInUse
  <1>8. ASSUME Fail PROVE SlotsInUse'
    <2>1. stops' = stops + 1 /\ stops \in Nat
      BY <1>0, <1>8 DEF Fail, Types
    <2> QED  BY <2>1 DEF SlotsInUse
  <1>9. ASSUME Apply PROVE SlotsInUse'
    BY <1>0, <1>9 DEF Apply, SlotsInUse
  <1>10. ASSUME Applied PROVE SlotsInUse'
    BY <1>0, <1>10 DEF Applied, SlotsInUse
  <1>11. ASSUME Allocate PROVE SlotsInUse'
    BY <1>0, <1>11 DEF Allocate, SlotsInUse
  <1>12. ASSUME NewVersion PROVE SlotsInUse'
    BY <1>0, <1>12 DEF NewVersion, SlotsInUse
  <1>13. ASSUME RecordHistory PROVE SlotsInUse'
    BY <1>0, <1>13 DEF RecordHistory, SlotsInUse
  <1>14. ASSUME Touch PROVE SlotsInUse'
    BY <1>0, <1>14 DEF Touch, SlotsInUse
  <1>15. ASSUME NEW kw \in Keyword, AddKey(kw) PROVE SlotsInUse'
    <2>1. /\ MakeKey(kw) /\ kw \in Keyword /\ stops' = stops
      BY <1>0, <1>15, AddKeyFacts
    <2>2. HasSlot /\ NeedsSlot(kw) /\ keys' = Put(keys, kw, l1 + 1) /\ l1' = l1 + 1
      BY <2>1 DEF MakeKey
    <2>3. /\ DOMAIN keys' = DOMAIN keys \cup {kw} /\ keys'[kw] = l1 + 1
          /\ \A z \in DOMAIN keys : keys'[z] = keys[z]
      BY <1>0, <2>1, <2>2, MakeKeyFacts
    <2>4. l1 \in Nat /\ \A z \in DOMAIN keys : keys[z] \in Nat
      BY <1>0, SizesAssumption DEF Types
    <2>5. stops = 0 => \A z \in DOMAIN keys : keys[z] <= l1 /\ keys[z] # l1 + 1
      BY <1>0, <2>4 DEF SlotsInUse
    <2> QED  BY <1>0, <2>1, <2>2, <2>3, <2>4, <2>5 DEF SlotsInUse
  <1>16. ASSUME NEW kw \in Keyword, AddPost(kw) PROVE SlotsInUse'
    BY <1>0, <1>16 DEF AddPost, SlotsInUse
  <1>17. ASSUME AddKeyFails PROVE SlotsInUse'
    <2>1. stops' = stops + 1 /\ stops \in Nat
      BY <1>0, <1>17 DEF AddKeyFails, Types
    <2> QED  BY <2>1 DEF SlotsInUse
  <1>18. ASSUME AddKeysDone PROVE SlotsInUse'
    BY <1>0, <1>18 DEF AddKeysDone, SlotsInUse
  <1>19. ASSUME Kill PROVE SlotsInUse'
    <2>1. stops' = stops + 1 /\ stops \in Nat
      BY <1>0, <1>19 DEF Kill, Types
    <2> QED  BY <2>1 DEF SlotsInUse
  <1> QED
    BY <1>1, <1>2, <1>3, <1>4, <1>5, <1>6, <1>7, <1>8, <1>9, <1>10, <1>11, <1>12, <1>13, <1>14,
       <1>15, <1>16, <1>17, <1>18, <1>19 DEF Next, Requests

\* What is found stays found, and what is awaited is found in the end.
LEMMA FoundKeeps ==
    ASSUME Types, Found, lost \subseteq lost', touched \subseteq touched', ver' \in Nat, ver <= ver',
           op' # Idle => op'.real \subseteq op'.cset,
           op' \in Adding => (op'.stage = "key" \/ ~op'.touch => op'.real = {}),
           \A m \in Msgs : since'[m] = since[m] \/ Awaited(m, op', since'[m], ver'),
           \A m \in Msgs : Awaited(m, op, since[m], ver) /\ since'[m] = since[m] =>
              m \in lost' \/ Reached(since[m], m, ver', touched') \/ Awaited(m, op', since[m], ver')
    PROVE  Found'
  <1>1. \A v, m : Reached(v, m, ver, touched) => Reached(v, m, ver', touched')
    <2>1. \A w \in 1 .. ver : w \in 1 .. ver'
      BY SizesAssumption DEF Types
    <2> QED  BY <2>1 DEF Reached
  <1>2. ASSUME NEW m \in Msgs, since'[m] > 0
        PROVE  m \in lost' \/ Reached(since'[m], m, ver', touched') \/ Awaited(m, op', since'[m], ver')
    <2>1. CASE Awaited(m, op', since'[m], ver')
      BY <2>1
    <2>2. CASE since'[m] = since[m]
      BY <1>1, <1>2, <2>2 DEF Found
    <2> QED  BY <2>1, <2>2
  <1> QED  BY <1>2 DEF Found

\* A step that leaves the messages alone.
LEMMA FoundSame ==
    ASSUME Types, Found, UNCHANGED <<lost, touched, since>>, ver' \in Nat, ver <= ver',
           op' # Idle => op'.real \subseteq op'.cset,
           op' \in Adding => (op'.stage = "key" \/ ~op'.touch => op'.real = {}),
           \/ op = Idle
           \/ op # Idle /\ op' # Idle /\ op'.real = op.real /\ Coming(op', ver') = Coming(op, ver)
    PROVE  Found'
  <1>1. \A m \in Msgs : Awaited(m, op, since[m], ver) => Awaited(m, op', since[m], ver')
    BY DEF Awaited
  <1> QED  BY <1>1, FoundKeeps

\* Every step keeps what changed within reach.
LEMMA FoundStep == ASSUME IInv, Next PROVE Found'
  <1> USE DEF index, history
  <1>0. Types /\ Stages /\ Keyed /\ Found
    BY DEF IInv
  <1>v. ver \in Nat /\ ver > 0
    BY <1>0, SizesAssumption DEF Types
  <1>1. ASSUME NEW b \in Batches, NEW ns \in Spaces \cup {None}, Tag(b, ns, TRUE) PROVE Found'
    <2>1. /\ op = Idle /\ op' \in Mutating /\ op'.real = {} /\ UNCHANGED <<lost, touched, since, ver>>
      BY <1>0, <1>1, TagFacts DEF IsBegun
    <2> QED  BY <1>0, <1>v, <2>1, FoundSame
  <1>2. ASSUME NEW slot \in Slots, NEW id \in 1 .. MaxVersion, NEW undo \in BOOLEAN,
               NEW ns \in Spaces \cup {None}, Undo(slot, id, undo, ns)
        PROVE  Found'
    <2>1. /\ op = Idle /\ op' \in Mutating /\ op'.real = {} /\ UNCHANGED <<lost, touched, since, ver>>
      BY <1>0, <1>2, UndoFacts DEF IsBegun
    <2> QED  BY <1>0, <1>v, <2>1, FoundSame
  <1>3. ASSUME NEW kws \in Imports, NEW ids \in Imported, NEW touch \in BOOLEAN,
               AddResults(kws, ids, touch)
        PROVE  Found'
    <2>1. /\ op = Idle /\ op'.real = {} /\ UNCHANGED <<lost, touched, since>>
          /\ ver' = (IF touch THEN ver + 1 ELSE ver)
      BY <1>0, <1>3, AddResultsFacts DEF IsAdding
    <2> QED  BY <1>0, <1>v, <2>1, FoundSame
  <1>4. ASSUME NEW t \in Tags, NEW ns \in Spaces \cup {None}, NEW ids \in Imported,
               DelResults(Kw(t, ns), ids)
        PROVE  Found'
    <2> DEFINE gone == posts[Kw(t, ns)] \cap ids
    <2>1. /\ op = Idle /\ op' \in Deleting /\ op'.stage = "index" /\ op'.cset = ids /\ op'.real = gone
          /\ since' = [m \in Msgs |-> IF m \in gone THEN ver + 1 ELSE since[m]]
          /\ UNCHANGED <<lost, touched, ver>>
      <3>0. op = Idle /\ op' \in Deleting /\ op'.stage = "index" /\ op'.cset = ids
        BY <1>0, <1>4, DelResultsFacts
      <3>1. op'.real = posts[Kw(t, ns)] \cap ids /\ UNCHANGED <<lost, touched, ver>>
        BY <1>0, <1>4, DelResultsFacts
      <3>2. since' = [m \in Msgs |-> IF m \in posts[Kw(t, ns)] \cap ids THEN ver + 1 ELSE since[m]]
        BY <1>0, <1>4, DelResultsFacts
      <3> QED  BY <3>0, <3>1, <3>2
    <2>2. gone \subseteq ids
      OBVIOUS
    <2> HIDE DEF gone
    <2>3. op' # Idle /\ op' \notin Adding
      BY <2>1, Kinds
    <2>4. \A m \in Msgs : since'[m] = since[m] \/ Awaited(m, op', since'[m], ver')
      BY <2>1, <2>3 DEF Awaited, Coming
    <2>5. \A m : ~Awaited(m, op, since[m], ver)
      BY <2>1 DEF Awaited
    <2> QED  BY <1>0, <1>v, <2>1, <2>2, <2>3, <2>4, <2>5, FoundKeeps
  <1>5. ASSUME IndexStar PROVE Found'
    <2>1. /\ op \in Mutating /\ op' \in Mutating /\ op'.real = op.real /\ op'.cset = op.cset
          /\ op.stage = "index" /\ op'.stage = "index" /\ UNCHANGED <<lost, touched, since>> /\ ver' = ver
      BY <1>0, <1>5, IndexStarFacts, NextFacts DEF IsLooked
    <2>2. op # Idle /\ op' # Idle /\ op' \notin Adding
      BY <2>1, Kinds
    <2>3. Coming(op', ver') = Coming(op, ver)
      BY <2>1 DEF Coming
    <2>4. op'.real \subseteq op'.cset
      BY <1>0, <2>1, <2>2 DEF Found
    <2> QED  BY <1>0, <1>v, <2>1, <2>2, <2>3, <2>4, FoundSame
  <1>6. ASSUME IndexOp PROVE Found'
    <2>1. /\ op \in Mutating /\ op' \in Mutating /\ op'.real = op.real /\ op'.cset = op.cset
          /\ op.stage = "index" /\ op'.stage = "index" /\ UNCHANGED <<lost, touched, since>> /\ ver' = ver
      BY <1>0, <1>6, IndexOpFacts, NextFacts DEF IsLooked
    <2>2. op # Idle /\ op' # Idle /\ op' \notin Adding
      BY <2>1, Kinds
    <2>3. Coming(op', ver') = Coming(op, ver)
      BY <2>1 DEF Coming
    <2>4. op'.real \subseteq op'.cset
      BY <1>0, <2>1, <2>2 DEF Found
    <2> QED  BY <1>0, <1>v, <2>1, <2>2, <2>3, <2>4, FoundSame
  <1>7. ASSUME IndexNew PROVE Found'
    <2>1. /\ op \in Mutating /\ op' \in Mutating /\ op'.real = op.real /\ op'.cset = op.cset
          /\ op.stage = "index" /\ op'.stage = "index" /\ UNCHANGED <<lost, touched, since>> /\ ver' = ver
      BY <1>0, <1>7, IndexNewFacts, NextFacts DEF IsLooked
    <2>2. op # Idle /\ op' # Idle /\ op' \notin Adding
      BY <2>1, Kinds
    <2>3. Coming(op', ver') = Coming(op, ver)
      BY <2>1 DEF Coming
    <2>4. op'.real \subseteq op'.cset
      BY <1>0, <2>1, <2>2 DEF Found
    <2> QED  BY <1>0, <1>v, <2>1, <2>2, <2>3, <2>4, FoundSame
  <1>8. ASSUME Fail PROVE Found'
    <2>1. /\ op' = Idle /\ lost' = lost \cup op.real /\ UNCHANGED <<touched, since, ver>>
      BY <1>0, <1>8 DEF Fail
    <2>2. Idle \notin Adding
      BY Kinds
    <2>3. \A m : Awaited(m, op, since[m], ver) => m \in lost'
      BY <2>1 DEF Awaited
    <2> QED  BY <1>0, <1>v, <2>1, <2>2, <2>3, FoundKeeps
  <1>9. ASSUME Apply PROVE Found'
    <2>1. /\ Applying /\ op' \in Mutating /\ op'.stage = "index" /\ op'.real = op.real \cup Diff
          /\ op'.cset = IF Diff = {} THEN op.cset ELSE op.cset \cup ((OldSet \cup NewSet) \cap OnMsgs)
          /\ since' = [m \in Msgs |-> IF m \in Diff THEN op.base + 1 ELSE since[m]]
          /\ UNCHANGED <<lost, touched, ver>>
      BY <1>0, <1>9, ApplyFacts DEF Apply, IsApplied
    <2>2. op \in Mutating /\ op.stage = "index" /\ Diff \subseteq OnMsgs /\ Diff \subseteq OldSet \cup NewSet
      BY <1>0, <2>1, ApplyingFacts DEF Diff
    <2>3. op # Idle /\ op' # Idle /\ op' \notin Adding
      BY <2>1, <2>2, Kinds
    <2>4. op'.real \subseteq op'.cset
      <3>1. op.real \subseteq op.cset
        BY <1>0, <2>3 DEF Found
      <3>2. CASE Diff = {}
        BY <2>1, <3>1, <3>2
      <3>3. CASE Diff # {}
        BY <2>1, <2>2, <3>1, <3>3
      <3> QED  BY <3>2, <3>3
    <2>5. op.base = ver
      BY <1>0, <2>2 DEF Stages
    <2>6. \A m \in Msgs : since'[m] = since[m] \/ Awaited(m, op', since'[m], ver')
      BY <2>1, <2>3, <2>5 DEF Awaited, Coming
    <2>7. \A m \in Msgs : Awaited(m, op, since[m], ver) => Awaited(m, op', since[m], ver')
      BY <2>1, <2>2, <2>3 DEF Awaited, Coming
    <2> QED  BY <1>0, <1>v, <2>1, <2>3, <2>4, <2>6, <2>7, FoundKeeps
  <1>10. ASSUME Applied PROVE Found'
    <2>1. /\ op \in Mutating /\ op' \in Mutating /\ op'.real = op.real /\ op'.cset = op.cset
          /\ op.stage = "index" /\ op'.stage = "index" /\ UNCHANGED <<lost, touched, since>> /\ ver' = ver
      BY <1>0, <1>10, AppliedFacts DEF SameBut
    <2>2. op # Idle /\ op' # Idle /\ op' \notin Adding
      BY <2>1, Kinds
    <2>3. Coming(op', ver') = Coming(op, ver)
      BY <2>1 DEF Coming
    <2>4. op'.real \subseteq op'.cset
      BY <1>0, <2>1, <2>2 DEF Found
    <2> QED  BY <1>0, <1>v, <2>1, <2>2, <2>3, <2>4, FoundSame
  <1>11. ASSUME Allocate PROVE Found'
    <2>1. /\ op \in Mutating /\ op' \in Mutating /\ op'.real = op.real /\ op'.cset = op.cset
          /\ op.stage = "index" /\ op'.stage = "record" /\ UNCHANGED <<lost, touched, since>> /\ ver' = ver + 1
      BY <1>0, <1>11, AllocateFacts DEF SameBut
    <2>2. op # Idle /\ op' # Idle /\ op' \notin Adding
      BY <2>1, Kinds
    <2>3. Coming(op', ver') = Coming(op, ver)
      BY <2>1 DEF Coming
    <2>4. op'.real \subseteq op'.cset
      BY <1>0, <2>1, <2>2 DEF Found
    <2> QED  BY <1>0, <1>v, <2>1, <2>2, <2>3, <2>4, FoundSame
  <1>12. ASSUME NewVersion PROVE Found'
    <2>1. /\ op \in Mutating \cup Deleting /\ op' \in Mutating \cup Deleting /\ op'.real = op.real /\ op'.cset = op.cset
          /\ op.stage = "index" /\ op'.stage = "touch" /\ UNCHANGED <<lost, touched, since>> /\ ver' = ver + 1
      BY <1>0, <1>12, NewVersionFacts DEF SameBut
    <2>2. op # Idle /\ op' # Idle /\ op' \notin Adding
      BY <2>1, Kinds
    <2>3. Coming(op', ver') = Coming(op, ver)
      BY <2>1 DEF Coming
    <2>4. op'.real \subseteq op'.cset
      BY <1>0, <2>1, <2>2 DEF Found
    <2> QED  BY <1>0, <1>v, <2>1, <2>2, <2>3, <2>4, FoundSame
  <1>13. ASSUME RecordHistory PROVE Found'
    <2>1. /\ op \in Mutating /\ op' \in Mutating /\ op'.real = op.real /\ op'.cset = op.cset
          /\ op.stage = "record" /\ op'.stage = "touch" /\ UNCHANGED <<lost, touched, since>> /\ ver' = ver
      BY <1>0, <1>13, RecordFacts DEF SameBut
    <2>2. op # Idle /\ op' # Idle /\ op' \notin Adding
      BY <2>1, Kinds
    <2>3. Coming(op', ver') = Coming(op, ver)
      BY <2>1 DEF Coming
    <2>4. op'.real \subseteq op'.cset
      BY <1>0, <2>1, <2>2 DEF Found
    <2> QED  BY <1>0, <1>v, <2>1, <2>2, <2>3, <2>4, FoundSame
  <1>14. ASSUME Touch PROVE Found'
    <2>1. /\ op.stage = "touch" /\ op' = Idle /\ touched' = touched \cup Touches(ver, op.cset)
          /\ UNCHANGED <<lost, since, ver>>
      BY <1>0, <1>14 DEF Touch
    <2>2. Idle \notin Adding
      BY Kinds
    <2>3. ASSUME NEW m \in Msgs, Awaited(m, op, since[m], ver) PROVE Reached(since[m], m, ver, touched')
      <3>1. m \in op.cset /\ since[m] = ver
        BY <1>0, <2>1, <2>3 DEF Awaited, Coming, Found
      <3>2. \A x \in VersionKeywords(ver) : <<x[1], x[2], m>> \in touched'
        BY <2>1, <3>1 DEF Touches
      <3> QED  BY <1>v, <3>1, <3>2 DEF Reached
    <2> QED  BY <1>0, <1>v, <2>1, <2>2, <2>3, FoundKeeps
  <1>15. ASSUME NEW kw \in Keyword, AddKey(kw) PROVE Found'
    <2>1. /\ op \in Adding /\ op' \in Adding /\ op'.real = op.real /\ op'.cset = op.cset
          /\ op.stage = "key" /\ op'.stage = "key" /\ UNCHANGED <<lost, touched, since>> /\ ver' = ver
      BY <1>0, <1>15, AddKeyFacts DEF AddSame
    <2>2. op # Idle /\ op' # Idle 
      BY <2>1, Kinds
    <2>3. Coming(op', ver') = Coming(op, ver)
      BY <2>1 DEF Coming
    <2>4. op'.real \subseteq op'.cset
      BY <1>0, <2>1, <2>2 DEF Found
    <2>5. op'.real = {}
      BY <1>0, <2>1 DEF Found
    <2> QED  BY <1>0, <1>v, <2>1, <2>2, <2>3, <2>4, <2>5, FoundSame
  <1>16. ASSUME NEW kw \in Keyword, AddPost(kw) PROVE Found'
    <2>1. /\ op \in Adding /\ op.stage = "add" /\ IsAdded(kw, op') /\ Seen(kw) \subseteq op.cset
          /\ since' = [m \in Msgs |-> IF m \in Seen(kw) THEN op.base + 1 ELSE since[m]]
          /\ UNCHANGED <<lost, touched, ver>>
      BY <1>0, <1>16, AddPostFacts
    <2>2. op # Idle /\ op.touch \in BOOLEAN /\ (op.touch => op.base + 1 = ver)
          /\ (~op.touch => op.real = {} /\ Seen(kw) = {})
      BY <1>0, <2>1, Kinds DEF Adding, Stages, Found, Seen
    <2>3. CASE op' = Idle /\ ~op.touch
      <3>1. op' \notin Adding /\ \A m \in Msgs : since'[m] = since[m] /\ ~Awaited(m, op, since[m], ver)
        BY <2>1, <2>2, <2>3, Kinds DEF Awaited
      <3> QED  BY <1>0, <1>v, <2>1, <2>3, <3>1, FoundKeeps
    <2>4. CASE ~(op' = Idle /\ ~op.touch)
      <3>1. /\ op' \in Adding /\ op'.stage \in {"add", "touch"} /\ (op'.touch <=> op.touch)
            /\ op'.real = op.real \cup Seen(kw) /\ op'.cset = op.cset
        BY <2>1, <2>4 DEF IsAdded, AddSame
      <3>2. op' # Idle /\ op'.real \subseteq op'.cset
        BY <1>0, <2>1, <2>2, <3>1, Kinds DEF Found
      <3>3. \A m \in Msgs : since'[m] = since[m] \/ Awaited(m, op', since'[m], ver')
        BY <2>1, <2>2, <3>1, <3>2 DEF Awaited, Coming
      <3>4. \A m \in Msgs : Awaited(m, op, since[m], ver) => Awaited(m, op', since[m], ver')
        BY <2>1, <2>2, <3>1, <3>2 DEF Awaited, Coming
      <3>5. op'.stage = "key" \/ ~op'.touch => op'.real = {}
        BY <2>2, <3>1
      <3> QED  BY <1>0, <1>v, <2>1, <3>1, <3>2, <3>3, <3>4, <3>5, FoundKeeps
    <2> QED  BY <2>3, <2>4
  <1>17. ASSUME AddKeyFails PROVE Found'
    <2>1. /\ op.stage = "key" /\ op' = Idle /\ UNCHANGED <<lost, touched, since, ver>>
      BY <1>0, <1>17 DEF AddKeyFails
    <2>2. op \in Adding
      BY <1>0, <2>1, Kinds DEF Types
    <2>3. op.real = {} /\ Idle \notin Adding
      BY <1>0, <2>1, <2>2, Kinds DEF Found
    <2>4. \A m : ~Awaited(m, op, since[m], ver)
      BY <2>3 DEF Awaited
    <2> QED  BY <1>0, <1>v, <2>1, <2>3, <2>4, FoundKeeps
  <1>18. ASSUME AddKeysDone PROVE Found'
    <2>1. /\ op \in Adding /\ op' \in Adding /\ op'.real = op.real /\ op'.cset = op.cset
          /\ op.stage = "key" /\ op'.stage = "add" /\ UNCHANGED <<lost, touched, since>> /\ ver' = ver
      BY <1>0, <1>18, AddKeysDoneFacts DEF AddSame
    <2>2. op # Idle /\ op' # Idle 
      BY <2>1, Kinds
    <2>3. Coming(op', ver') = Coming(op, ver)
      BY <2>1 DEF Coming
    <2>4. op'.real \subseteq op'.cset
      BY <1>0, <2>1, <2>2 DEF Found
    <2>5. op'.real = {}
      BY <1>0, <2>1 DEF Found
    <2> QED  BY <1>0, <1>v, <2>1, <2>2, <2>3, <2>4, <2>5, FoundSame
  <1>19. ASSUME Kill PROVE Found'
    <2>1. op' = Idle /\ lost' = lost \cup op.real /\ touched \subseteq touched' /\ UNCHANGED <<since, ver>>
      BY <1>0, <1>19, KillFacts
    <2>2. Idle \notin Adding
      BY Kinds
    <2>3. \A m : Awaited(m, op, since[m], ver) => m \in lost'
      BY <2>1 DEF Awaited
    <2> QED  BY <1>0, <1>v, <2>1, <2>2, <2>3, FoundKeeps
  <1> QED
    BY <1>1, <1>2, <1>3, <1>4, <1>5, <1>6, <1>7, <1>8, <1>9, <1>10, <1>11, <1>12, <1>13, <1>14,
       <1>15, <1>16, <1>17, <1>18, <1>19 DEF Next, Requests

\* Marks and tags on their way, by the elements of the lists.
LEMMA ComesHas ==
    ASSUME NEW o, NEW ns
    PROVE  /\ MarkComes(o, ns) <=> \/ \E e : Has(o.acts, e) /\ ActMark(e, ns)
                                   \/ \E e : Has(o.todo[1].ops, e) /\ IsMark(e, o.ns, ns)
           /\ TagComes(o, ns) <=> \/ \E e : Has(o.acts, e) /\ ActTag(e, ns)
                                  \/ \E e : Has(o.todo[1].ops, e) /\ IsTag(e, o.ns, ns)
  BY DEF MarkComes, TagComes, Has

\* Keywords of namespaces are keywords; a mark is no tag.
LEMMA SpaceKeywords ==
    ASSUME NEW t \in Tags, NEW ns \in Spaces
    PROVE  /\ Kw(t, ns) \in Keyword /\ Kw(All, ns) \in Keyword /\ Kw(t, ns) # Kw(All, ns)
           /\ Kw(t, ns).tag \in Tags /\ Kw(t, ns).ns = ns /\ Kw(All, ns).tag = All /\ Kw(All, ns).ns = ns
  BY NamesAssumption DEF Kw, Keyword

\* Looking up a mark gives the namespace's, and only a tag gives a tag.
LEMMA LookedUpMark ==
    ASSUME NextOp \in Operation, NEW ns \in Spaces, TheAct.sign = NextOp.sign, TheAct.kw = TheKw
    PROVE  /\ IsMark(NextOp, op.ns, ns) => ActMark(TheAct, ns)
           /\ ActTag(TheAct, ns) => IsTag(NextOp, op.ns, ns)
           /\ Sparing(NextOp) => Sparing(TheAct)
  <1>1. NextOp.kw = Kw(NextOp.kw.tag, NextOp.kw.ns)
    BY DEF Operation, Term, Kw
  <1>2. TheKw = Kw(NextOp.kw.tag, IF op.ns = None THEN NextOp.kw.ns ELSE op.ns)
    BY <1>1 DEF TheKw, InSpace
  <1>3. \A a, b : Kw(a, b).tag = a /\ Kw(a, b).ns = b
    BY DEF Kw
  <1> QED  BY <1>2, <1>3 DEF IsMark, ActMark, ActTag, IsTag, Sparing

\* An operation is looked up: nothing is marked or tagged yet.
LEMMA MarksLooked ==
    ASSUME Types, Marks, Indexing, NEW acts \in Seq(Act), NEW star, IsLooked(op, op', acts, star),
           \A e : Has(acts, e) /\ Sparing(NextOp) => Sparing(e),
           \A ns \in Spaces : IsMark(NextOp, op.ns, ns) => \E e : Has(acts, e) /\ ActMark(e, ns),
           \A ns \in Spaces : \A e : Has(acts, e) /\ ActTag(e, ns) => IsTag(NextOp, op.ns, ns),
           UNCHANGED <<posts, lost, loose, undone>>
    PROVE  Marks'
  <1>1. SUFFICES ASSUME ~undone PROVE Held(posts', lost', loose', op') /\ Promised(posts', op')
    BY DEF Marks
  <1>2. Held(posts, lost, loose, op) /\ Promised(posts, op)
    BY <1>1 DEF Marks
  <1>3. /\ op \in Mutating /\ op.todo # << >> /\ op.todo[1].ops \in Seq(Operation)
        /\ op.todo[1].ops # << >> /\ NextOp = op.todo[1].ops[1]
    BY NextFacts
  <1>4. /\ op' \in Mutating /\ op'.ns = op.ns /\ op'.real = op.real /\ op'.todo # << >>
        /\ op'.todo[1].on = op.todo[1].on
    BY DEF IsLooked
  <1>5. ListsLooked(op, op', acts)
    BY <1>3, LookedLists
  <1>6. op \notin Adding /\ op' \notin Adding
    BY <1>3, <1>4, Kinds
  <1>7. /\ \A e : Has(op'.acts, e) <=> Has(op.acts, e) \/ Has(acts, e)
        /\ \A e : Has(op.todo[1].ops, e) <=> e = NextOp \/ Has(op'.todo[1].ops, e)
    BY <1>3, <1>5 DEF ListsLooked
  <1>8. ASSUME NEW ns \in Spaces
        PROVE  /\ MarkComes(op, ns) => MarkComes(op', ns)
               /\ TagComes(op', ns) => TagComes(op, ns)
    <2>1. MarkComes(op, ns) => MarkComes(op', ns)
      BY <1>4, <1>7, ComesHas
    <2>2. TagComes(op', ns) => TagComes(op, ns)
      BY <1>4, <1>7, ComesHas
    <2> QED  BY <2>1, <2>2
  <1>9. Held(posts', lost', loose', op')
    <2>1. \A ns \in Spaces : \A m : Owed(op, ns, m) => Owed(op', ns, m)
      BY <1>4, <1>6, <1>8 DEF Owed
    <2> QED  BY <1>2, <2>1 DEF Held
  <1>10. \A i \in 1 .. Len(op'.acts) : Sparing(op'.acts[i])
    <2>1. \A e : Has(op.acts, e) => Sparing(e)
      BY <1>2, <1>3 DEF Promised, Has
    <2>2. Sparing(NextOp)
      <3>1. SparingJob(op.todo[1])
        BY <1>2, <1>3, <1>5 DEF Promised, ListsLooked
      <3>2. Has(op.todo[1].ops, NextOp)
        BY <1>7
      <3> QED  BY <3>1, <3>2 DEF SparingJob, Has
    <2>3. \A e : Has(op'.acts, e) => Sparing(e)
      BY <1>7, <2>1, <2>2
    <2> QED  BY <2>3 DEF Has
  <1>11. \A j \in 1 .. Len(op'.todo) : SparingJob(op'.todo[j])
    <2>1. \A j \in 1 .. Len(op.todo) : SparingJob(op.todo[j])
      BY <1>2, <1>3 DEF Promised
    <2>2. /\ Len(op.todo) \in Nat /\ Len(op.todo) > 0 /\ Len(op'.todo) = Len(op.todo)
          /\ \A j \in 2 .. Len(op.todo) : op'.todo[j] = op.todo[j]
      BY <1>5 DEF ListsLooked
    <2>3. SparingJob(op'.todo[1])
      <3>1. \A e : Has(op.todo[1].ops, e) => Sparing(e)
        BY <2>1, <2>2 DEF SparingJob, Has
      <3>2. \A e : Has(op'.todo[1].ops, e) => Sparing(e)
        BY <1>7, <3>1
      <3> QED  BY <3>2 DEF SparingJob, Has
    <2>4. \A j \in 1 .. Len(op'.todo) : j = 1 \/ j \in 2 .. Len(op.todo)
      BY <2>2
    <2>5. \A j \in 2 .. Len(op.todo) : j \in 1 .. Len(op.todo)
      BY <2>2
    <2> QED  BY <2>1, <2>2, <2>3, <2>4, <2>5
  <1>12. \A ns \in Spaces : TagComes(op', ns) =>
            MarkComes(op', ns) \/ op'.todo[1].on \subseteq posts'[Kw(All, ns)]
    BY <1>2, <1>3, <1>4, <1>8 DEF Promised
  <1>13. \A ns \in Spaces : \A j \in 2 .. Len(op'.todo) : Paired(op'.todo[j], op'.ns, ns)
    BY <1>2, <1>3, <1>4, <1>5 DEF Promised, ListsLooked
  <1> QED  BY <1>4, <1>6, <1>9, <1>10, <1>11, <1>12, <1>13 DEF Promised

\* A step after which no request is in progress, or one that has nothing
\* more to look up.
LEMMA MarksKept ==
    ASSUME Marks, \A ns \in Spaces, t \in Tags : posts'[Kw(t, ns)] \subseteq posts[Kw(t, ns)],
           \A ns \in Spaces : posts'[Kw(All, ns)] = posts[Kw(All, ns)],
           lost \subseteq lost', \A ns \in Spaces : loose[ns] \subseteq loose'[ns], undone' = undone,
           \A ns \in Spaces : \A m : Owed(op, ns, m) => m \in lost' \/ Owed(op', ns, m),
           ~undone => Promised(posts', op')
    PROVE  Marks'
  <1>1. SUFFICES ASSUME ~undone PROVE Held(posts', lost', loose', op')
    BY DEF Marks
  <1>2. Held(posts, lost, loose, op)
    BY <1>1 DEF Marks
  <1> QED  BY <1>2 DEF Held

\* The jobs that are left when one is done.
LEMMA PromisedRest ==
    ASSUME NEW P, NEW o, NEW p, o \in Mutating, p \in Mutating, Promised(P, o), p.acts = << >>,
           p.ns = o.ns, NEW Q,
           \A j \in 1 .. Len(p.todo) : j + 1 \in 1 .. Len(o.todo) /\ p.todo[j] = o.todo[j + 1]
    PROVE  Promised(Q, p)
  <1>1. p \notin Adding
    BY Kinds
  <1>2. \A j \in 1 .. Len(p.todo) : SparingJob(p.todo[j])
    BY DEF Promised
  <1>3. Len(p.todo) \in Nat /\ Len(o.todo) \in Nat /\ p.todo \in Seq(Job)
    BY Fields
  <1>4. \A ns \in Spaces : \A j \in 1 .. Len(p.todo) : Paired(p.todo[j], o.ns, ns)
    <2>1. \A j \in 1 .. Len(p.todo) : j + 1 \in 2 .. Len(o.todo)
      BY <1>3
    <2> QED  BY <2>1 DEF Promised
  <1>5. \A j \in 2 .. Len(p.todo) : j \in 1 .. Len(p.todo)
    BY <1>3
  <1>6. \A e : ~Has(p.acts, e)
    BY DEF Has
  <1>7. ASSUME NEW ns \in Spaces, p.todo # << >>, TagComes(p, ns) PROVE MarkComes(p, ns)
    <2>1. 1 \in 1 .. Len(p.todo)
      BY <1>3, <1>7, EmptySeq
    <2>2. Paired(p.todo[1], p.ns, ns)
      BY <1>4, <2>1
    <2>3. \E e : Has(p.todo[1].ops, e) /\ IsTag(e, p.ns, ns)
      BY <1>6, <1>7, ComesHas
    <2>4. \E e : Has(p.todo[1].ops, e) /\ IsMark(e, p.ns, ns)
      BY <2>2, <2>3 DEF Paired, Has
    <2> QED  BY <2>4, ComesHas
  <1>8. \A i \in 1 .. Len(p.acts) : Sparing(p.acts[i])
    BY <1>6 DEF Has
  <1> QED  BY <1>1, <1>2, <1>4, <1>5, <1>7, <1>8 DEF Promised

\* An operation is done: what it tags is marked, or will be.
LEMMA MarksApplied == ASSUME Types, Marks, Apply PROVE Marks'
  <1>1. /\ Applying /\ IsApplied(op') /\ posts' \in Postings /\ posts'[ActKw] = NewSet
        /\ \A kw \in Keyword : kw # ActKw => posts'[kw] = posts[kw]
        /\ UNCHANGED <<lost, loose, undone>>
    BY ApplyFacts DEF Apply
  <1>2. SUFFICES ASSUME ~undone PROVE Held(posts', lost', loose', op') /\ Promised(posts', op')
    BY <1>1 DEF Marks
  <1>3. Held(posts, lost, loose, op) /\ Promised(posts, op)
    BY <1>2 DEF Marks
  <1>4. /\ op \in Mutating /\ op.todo # << >> /\ op.todo[1].ops = << >> /\ op.acts # << >>
        /\ op.acts[1] \in Act /\ ActKw \in Keyword /\ OldSet \in SUBSET Msgs
    BY <1>1, ApplyingFacts
  <1>5. /\ op' \in Mutating /\ op'.ns = op.ns /\ op'.real = op.real \cup Diff
    BY <1>1 DEF IsApplied
  <1>6. op \notin Adding /\ op' \notin Adding
    BY <1>4, <1>5, Kinds
  <1>7. /\ \A e : Has(op.acts, e) <=> e = op.acts[1] \/ Has(op'.acts, e)
        /\ \/ op'.todo = op.todo /\ op'.acts # << >>
           \/ /\ op'.acts = << >>
              /\ \A j \in 1 .. Len(op'.todo) : j + 1 \in 1 .. Len(op.todo) /\ op'.todo[j] = op.todo[j + 1]
    BY <1>1, AppliedLists
  <1>8. \A e : ~Has(op.todo[1].ops, e)
    BY <1>4 DEF Has
  <1>9. \A e : Has(op'.acts, e) => op'.todo = op.todo
    <2>1. ASSUME op'.acts = << >> PROVE \A e : ~Has(op'.acts, e)
      BY <2>1 DEF Has
    <2> QED  BY <1>7, <2>1
  <1>10. \A e : Has(op.acts, e) => Sparing(e)
    BY <1>3, <1>4 DEF Promised, Has
  \* Marks are not taken away.
  <1>11. ASSUME NEW ns \in Spaces PROVE posts[Kw(All, ns)] \subseteq posts'[Kw(All, ns)]
    <2>1. Kw(All, ns) \in Keyword /\ Kw(All, ns).tag = All
      BY DEF Kw, Keyword
    <2>2. CASE ActKw = Kw(All, ns)
      <3>1. op.acts[1].sign = "+"
        BY <1>4, <1>7, <1>10, <2>1, <2>2 DEF ActKw, Sparing, Act, Sign
      <3> QED  BY <1>1, <2>2, <3>1 DEF NewSet, OldSet
    <2>3. CASE ActKw # Kw(All, ns)
      BY <1>1, <2>1, <2>3
    <2> QED  BY <2>2, <2>3
  \* The mark comes now, or later.
  <1>12. ASSUME NEW ns \in Spaces, MarkComes(op, ns)
         PROVE  \/ op.todo[1].on \subseteq posts'[Kw(All, ns)]
                \/ op'.todo = op.todo /\ MarkComes(op', ns)
    <2>1. PICK e : Has(op.acts, e) /\ ActMark(e, ns)
      BY <1>8, <1>12, ComesHas
    <2>2. CASE e = op.acts[1]
      <3>1. ActKw = Kw(All, ns) /\ op.acts[1].sign = "+"
        BY <2>1, <2>2 DEF ActMark, ActKw
      <3> QED  BY <1>1, <3>1 DEF NewSet, OnMsgs
    <2>3. CASE Has(op'.acts, e)
      <3>1. MarkComes(op', ns)
        BY <2>1, <2>3, ComesHas
      <3> QED  BY <1>9, <2>3, <3>1
    <2> QED  BY <1>7, <2>1, <2>2, <2>3
  <1>13. Held(posts', lost', loose', op')
    <2>1. SUFFICES ASSUME NEW ns \in Spaces, NEW t \in Tags, NEW m \in posts'[Kw(t, ns)]
                   PROVE  m \in posts'[Kw(All, ns)] \/ m \in lost' \/ m \in loose'[ns] \/ Owed(op', ns, m)
      BY DEF Held
    <2>2. Kw(t, ns) \in Keyword /\ Kw(t, ns) # Kw(All, ns) /\ Kw(t, ns).tag \in Tags /\ Kw(t, ns).ns = ns
      BY SpaceKeywords
    <2>3. ASSUME MarkComes(op, ns), m \in op.todo[1].on, m \in op'.real
          PROVE  m \in posts'[Kw(All, ns)] \/ Owed(op', ns, m)
      BY <1>4, <1>5, <1>12, <2>3 DEF Owed
    <2>4. CASE m \in posts[Kw(t, ns)]
      <3>1. m \in posts[Kw(All, ns)] \/ m \in lost \/ m \in loose[ns] \/ Owed(op, ns, m)
        BY <1>3, <2>4 DEF Held
      <3>2. Owed(op, ns, m) => MarkComes(op, ns) /\ m \in op.todo[1].on /\ m \in op'.real
        BY <1>5, <1>6 DEF Owed
      <3> QED  BY <1>1, <1>11, <2>3, <3>1, <3>2
    <2>5. CASE m \notin posts[Kw(t, ns)]
      <3>1. ActKw = Kw(t, ns)
        BY <1>1, <2>2, <2>5
      <3>2. m \in NewSet /\ m \notin OldSet
        BY <1>1, <2>1, <2>5, <3>1 DEF OldSet
      <3>3. m \in OnMsgs /\ op.acts[1].sign = "+" /\ m \in Diff
        BY <3>2 DEF NewSet, Diff
      <3>4. ActTag(op.acts[1], ns)
        BY <2>2, <3>1, <3>3 DEF ActTag, ActKw
      <3>5. TagComes(op, ns)
        BY <1>7, <3>4, ComesHas
      <3>6. MarkComes(op, ns) \/ op.todo[1].on \subseteq posts[Kw(All, ns)]
        BY <1>3, <1>4, <3>5 DEF Promised
      <3> QED  BY <1>5, <1>11, <2>3, <3>3, <3>6 DEF OnMsgs
    <2> QED  BY <2>4, <2>5
  <1>14. Promised(posts', op')
    <2>1. CASE op'.acts = << >> /\ \A j \in 1 .. Len(op'.todo) :
                                      j + 1 \in 1 .. Len(op.todo) /\ op'.todo[j] = op.todo[j + 1]
      BY <1>3, <1>4, <1>5, <2>1, PromisedRest
    <2>2. CASE op'.todo = op.todo /\ op'.acts # << >>
      <3>1. \A e : Has(op'.acts, e) => Sparing(e)
        BY <1>7, <1>10
      <3>2. \A i \in 1 .. Len(op'.acts) : Sparing(op'.acts[i])
        BY <3>1 DEF Has
      <3>3. \A j \in 1 .. Len(op'.todo) : SparingJob(op'.todo[j])
        BY <1>3, <1>4, <2>2 DEF Promised
      <3>4. ASSUME NEW ns \in Spaces, TagComes(op', ns)
            PROVE  MarkComes(op', ns) \/ op'.todo[1].on \subseteq posts'[Kw(All, ns)]
        <4>1. TagComes(op, ns)
          BY <1>5, <1>7, <2>2, <3>4, ComesHas
        <4>2. MarkComes(op, ns) \/ op.todo[1].on \subseteq posts[Kw(All, ns)]
          BY <1>3, <1>4, <4>1 DEF Promised
        <4>3. op'.todo[1].on = op.todo[1].on
          BY <2>2
        <4> QED  BY <1>11, <1>12, <4>2, <4>3
      <3>5. \A ns \in Spaces : \A j \in 2 .. Len(op'.todo) : Paired(op'.todo[j], op'.ns, ns)
        BY <1>3, <1>4, <1>5, <2>2 DEF Promised
      <3> QED  BY <1>6, <3>2, <3>3, <3>4, <3>5 DEF Promised
    <2> QED  BY <1>7, <2>1, <2>2
  <1> QED  BY <1>13, <1>14

\* A tag is imported: the messages it is new to are known to be.
LEMMA MarksAdded == ASSUME Types, Marks, NEW kw \in Keyword, AddPost(kw) PROVE Marks'
  <1>1. /\ op \in Adding /\ op' \notin Mutating
        /\ posts'[kw] = posts[kw] \cup op.cset
        /\ \A k \in Keyword : k # kw => posts'[k] = posts[k]
        /\ \A ns \in Spaces : /\ loose[ns] \subseteq loose'[ns]
                              /\ ns = kw.ns => op.cset \ posts[kw] \subseteq loose'[ns]
        /\ UNCHANGED <<lost, undone>>
    BY AddPostFacts, Kinds DEF IsAdded, AddSame
  <1>2. SUFFICES ASSUME ~undone PROVE Held(posts', lost', loose', op') /\ Promised(posts', op')
    BY <1>1 DEF Marks
  <1>3. Held(posts, lost, loose, op)
    BY <1>2 DEF Marks
  <1>4. \A ns, m : ~Owed(op, ns, m)
    BY <1>1, Kinds DEF Owed
  <1>5. ASSUME NEW ns \in Spaces PROVE posts[Kw(All, ns)] \subseteq posts'[Kw(All, ns)]
    <2>1. Kw(All, ns) \in Keyword
      BY DEF Kw, Keyword
    <2> QED  BY <1>1, <2>1
  <1>6. Held(posts', lost', loose', op')
    <2>1. SUFFICES ASSUME NEW ns \in Spaces, NEW t \in Tags, NEW m \in posts'[Kw(t, ns)]
                   PROVE  m \in posts'[Kw(All, ns)] \/ m \in lost' \/ m \in loose'[ns]
      BY DEF Held
    <2>2. Kw(t, ns) \in Keyword /\ Kw(t, ns).ns = ns
      BY SpaceKeywords
    <2>3. CASE m \in posts[Kw(t, ns)]
      BY <1>1, <1>3, <1>4, <1>5, <2>3 DEF Held
    <2>4. CASE m \notin posts[Kw(t, ns)]
      <3>1. kw = Kw(t, ns)
        BY <1>1, <2>2, <2>4
      <3> QED  BY <1>1, <2>1, <2>2, <2>4, <3>1
    <2> QED  BY <2>3, <2>4
  <1> QED  BY <1>1, <1>6 DEF Promised

\* Every step keeps what is tagged marked, or its mark on its way.
LEMMA MarksStep == ASSUME IInv, Next PROVE Marks'
  <1> USE DEF index, history
  <1>0. Types /\ Stages /\ Keyed /\ Found /\ Marks
    BY DEF IInv
  <1>1. ASSUME NEW b \in Batches, NEW ns \in Spaces \cup {None}, Tag(b, ns, TRUE) PROVE Marks'
    <2>1. PICK todo \in Seq(Job) :
              /\ IsBegun(op', todo, ns, TRUE)
              /\ \A j \in 1 .. Len(todo) : \E ops \in Seq(Asked) : todo[j].ops = Marked(ops, ns)
              /\ op = Idle /\ UNCHANGED <<index, since, lost, loose, undone, stops, quiet>>
      BY <1>0, <1>1, TagFacts
    <2>2. op' \in Mutating /\ op'.acts = << >> /\ op'.todo = todo /\ op'.ns = ns
      BY <2>1 DEF IsBegun
    <2>3. op \notin Mutating /\ op \notin Adding /\ op' \notin Adding
      BY <2>1, <2>2, Kinds
    <2>4. ASSUME NEW j \in 1 .. Len(todo)
          PROVE  SparingJob(todo[j]) /\ \A sp \in Spaces : Paired(todo[j], ns, sp)
      <3>1. PICK ops \in Seq(Asked) : todo[j].ops = Marked(ops, ns)
        BY <2>1, <2>4
      <3>2. \A x : Has(todo[j].ops, x) => Sparing(x)
        BY <3>1, MarkedFacts DEF Good, Sparing
      <3>3. \A sp \in Spaces : \A x : Has(todo[j].ops, x) /\ IsTag(x, ns, sp) =>
                \E y : Has(todo[j].ops, y) /\ IsMark(y, ns, sp)
        BY <3>1, MarkedFacts
      <3> QED  BY <3>2, <3>3 DEF SparingJob, Paired, Has
    <2>5. \A e : ~Has(op'.acts, e)
      BY <2>2 DEF Has
    <2>6. ASSUME NEW sp \in Spaces, op'.todo # << >>, TagComes(op', sp) PROVE MarkComes(op', sp)
      <3>1. 1 \in 1 .. Len(todo)
        BY <2>2, <2>6, EmptySeq, LenProperties
      <3>2. Paired(op'.todo[1], op'.ns, sp)
        BY <2>2, <2>4, <3>1
      <3>3. \E e : Has(op'.todo[1].ops, e) /\ IsTag(e, op'.ns, sp)
        BY <2>5, <2>6, ComesHas
      <3>4. \E e : Has(op'.todo[1].ops, e) /\ IsMark(e, op'.ns, sp)
        BY <3>2, <3>3 DEF Paired, Has
      <3> QED  BY <3>4, ComesHas
    <2>7. \A j \in 2 .. Len(todo) : j \in 1 .. Len(todo)
      BY LenProperties
    <2>8. \A i \in 1 .. Len(op'.acts) : Sparing(op'.acts[i])
      BY <2>5 DEF Has
    <2>9. Promised(posts', op')
      BY <2>2, <2>3, <2>4, <2>6, <2>7, <2>8 DEF Promised
    <2>10. \A sp, m : ~Owed(op, sp, m)
      BY <2>3 DEF Owed
    <2> QED  BY <1>0, <2>1, <2>9, <2>10, MarksKept
  <1>2. ASSUME NEW slot \in Slots, NEW id \in 1 .. MaxVersion, NEW undo \in BOOLEAN,
               NEW ns \in Spaces \cup {None}, Undo(slot, id, undo, ns)
        PROVE  Marks'
    BY <1>0, <1>2 DEF Undo, Marks
  <1>3. ASSUME NEW kws \in Imports, NEW ids \in Imported, NEW touch \in BOOLEAN,
               AddResults(kws, ids, touch)
        PROVE  Marks'
    <2>1. /\ op = Idle /\ op' \in Adding /\ op'.kws = kws /\ UNCHANGED <<posts, lost, loose, undone>>
      BY <1>0, <1>3, AddResultsFacts DEF IsAdding
    <2>2. op \notin Mutating /\ op \notin Adding /\ op' \notin Mutating
      BY <2>1, Kinds
    <2>3. Promised(posts', op')
      BY <2>2 DEF Promised
    <2>4. \A sp, m : ~Owed(op, sp, m)
      BY <2>2 DEF Owed
    <2> QED  BY <1>0, <2>1, <2>3, <2>4, MarksKept
  <1>4. ASSUME NEW t \in Tags, NEW ns \in Spaces \cup {None}, NEW ids \in Imported,
               DelResults(Kw(t, ns), ids)
        PROVE  Marks'
    <2>1. /\ op = Idle /\ op' \in Deleting /\ UNCHANGED <<lost, loose, undone>>
          /\ posts'[Kw(t, ns)] = posts[Kw(t, ns)] \ ids
          /\ \A kw \in Keyword : kw # Kw(t, ns) => posts'[kw] = posts[kw]
      BY <1>0, <1>4, DelResultsFacts
    <2>2. op \notin Mutating /\ op \notin Adding /\ op' \notin Mutating /\ op' \notin Adding
      BY <2>1, Kinds
    <2>3. Promised(posts', op') /\ \A sp, m : ~Owed(op, sp, m)
      BY <2>2 DEF Promised, Owed
    <2>4. \A sp \in Spaces : Kw(All, sp) \in Keyword /\ Kw(All, sp) # Kw(t, ns)
      BY NamesAssumption DEF Kw, Keyword
    <2>5. \A sp \in Spaces, u \in Tags : posts'[Kw(u, sp)] \subseteq posts[Kw(u, sp)]
      <3>1. \A sp \in Spaces, u \in Tags : Kw(u, sp) \in Keyword
        BY SpaceKeywords
      <3> HIDE DEF Kw
      <3> QED  BY <2>1, <3>1
    <2> QED  BY <1>0, <2>1, <2>3, <2>4, <2>5, MarksKept
  <1>5. ASSUME IndexStar PROVE Marks'
    <2>1. /\ Indexing /\ IsLooked(op, op', StarActs, TRUE) /\ StarActs \in Seq(Act)
          /\ \A i \in 1 .. Len(StarActs) : StarActs[i].sign = "-" /\ StarActs[i].kw.tag \in Tags
          /\ NextOp.kw.tag = Star /\ UNCHANGED <<index, history>>
      BY <1>0, <1>5, IndexStarFacts
    <2>2. \A e : Has(StarActs, e) => e.sign # "+" /\ e.kw.tag # All
      BY <2>1, NamesAssumption DEF Has
    <2>3. \A ns : ~IsMark(NextOp, op.ns, ns)
      BY <2>1, NamesAssumption DEF IsMark
    <2>4. \A e, ns : Has(StarActs, e) => Sparing(e) /\ ~ActTag(e, ns)
      BY <2>2 DEF Sparing, ActTag
    <2> QED  BY <1>0, <2>1, <2>3, <2>4, MarksLooked
  <1>6. ASSUME IndexOp PROVE Marks'
    <2>1. /\ Indexing /\ IsLooked(op, op', <<TheAct>>, FALSE) /\ <<TheAct>> \in Seq(Act)
          /\ TheAct \in Act /\ TheAct.sign = NextOp.sign /\ TheAct.kw = TheKw
          /\ UNCHANGED <<index, history>>
      BY <1>0, <1>6, IndexOpFacts, LookupFacts
    <2>2. \A e : Has(<<TheAct>>, e) <=> e = TheAct
      BY <2>1, OneOrNone
    <2>3. NextOp \in Operation
      BY <1>0, <2>1, NextFacts
    <2>4. \A ns \in Spaces : /\ IsMark(NextOp, op.ns, ns) => ActMark(TheAct, ns)
                             /\ ActTag(TheAct, ns) => IsTag(NextOp, op.ns, ns)
      BY <2>1, <2>3, LookedUpMark
    <2>5. Sparing(NextOp) => Sparing(TheAct)
      BY <2>1 DEF Sparing, TheKw, InSpace, Kw
    <2> QED  BY <1>0, <2>1, <2>2, <2>4, <2>5, MarksLooked
  <1>7. ASSUME IndexNew PROVE Marks'
    <2>1. /\ Indexing /\ IsLooked(op, op', <<TheAct>>, FALSE) /\ <<TheAct>> \in Seq(Act)
          /\ TheAct \in Act /\ TheAct.sign = NextOp.sign /\ TheAct.kw = TheKw
          /\ UNCHANGED <<posts, lost, loose, undone>>
      BY <1>0, <1>7, IndexNewFacts, LookupFacts
    <2>2. \A e : Has(<<TheAct>>, e) <=> e = TheAct
      BY <2>1, OneOrNone
    <2>3. NextOp \in Operation
      BY <1>0, <2>1, NextFacts
    <2>4. \A ns \in Spaces : /\ IsMark(NextOp, op.ns, ns) => ActMark(TheAct, ns)
                             /\ ActTag(TheAct, ns) => IsTag(NextOp, op.ns, ns)
      BY <2>1, <2>3, LookedUpMark
    <2>5. Sparing(NextOp) => Sparing(TheAct)
      BY <2>1 DEF Sparing, TheKw, InSpace, Kw
    <2> QED  BY <1>0, <2>1, <2>2, <2>4, <2>5, MarksLooked
  <1>8. ASSUME Fail PROVE Marks'
    <2>1. op' = Idle /\ lost' = lost \cup op.real /\ UNCHANGED <<posts, loose, undone>>
      BY <1>0, <1>8 DEF Fail
    <2>2. op' \notin Mutating /\ op' \notin Adding
      BY <2>1, Kinds
    <2>3. Promised(posts', op') /\ \A ns, m : Owed(op, ns, m) => m \in lost'
      BY <2>1, <2>2 DEF Promised, Owed
    <2> QED  BY <1>0, <2>1, <2>3, MarksKept
  <1>9. ASSUME Apply PROVE Marks'
    BY <1>0, <1>9, MarksApplied
  <1>10. ASSUME Applied PROVE Marks'
    <2>1. op \in Mutating /\ op' \in Mutating /\ op.todo # << >> /\ op'.todo = Tail(op.todo)
          /\ op.todo[1].ops = << >> /\ op.acts = << >>
          /\ op'.acts = op.acts /\ op'.ns = op.ns /\ UNCHANGED <<index, history>>
      BY <1>0, <1>10, AppliedFacts DEF SameBut
    <2>2. \A j \in 1 .. Len(op'.todo) : j + 1 \in 1 .. Len(op.todo) /\ op'.todo[j] = op.todo[j + 1]
      BY <2>1, Fields, TailFacts
    <2>3. op \notin Adding
      BY <2>1, Kinds
    <2>4. Promised(posts, op) => Promised(posts', op')
      <3>1. op'.acts = << >> /\ op'.ns = op.ns /\ op \in Mutating /\ op' \in Mutating
        BY <2>1
      <3>2. ASSUME Promised(posts, op) PROVE Promised(posts', op')
        BY <2>2, <3>1, <3>2, PromisedRest
      <3> QED  BY <3>2
    <2>5. \A ns : ~MarkComes(op, ns)
      BY <2>1 DEF MarkComes
    <2>6. \A ns, m : ~Owed(op, ns, m)
      BY <2>3, <2>5 DEF Owed
    <2> QED  BY <1>0, <2>1, <2>4, <2>6, MarksKept DEF Marks
  <1>11. ASSUME Allocate PROVE Marks'
    <2>1. op \in Mutating /\ op' \in Mutating /\ UNCHANGED <<posts, lost, loose, undone>> /\ op'.todo = op.todo /\ op'.acts = op.acts /\ op'.real = op.real /\ op'.ns = op.ns
      BY <1>0, <1>11, AllocateFacts DEF SameBut
    <2>2. op \notin Adding /\ op' \notin Adding
      BY <2>1, Kinds
    <2>3. \A ns, m : Owed(op, ns, m) => Owed(op', ns, m)
      BY <2>1, <2>2 DEF Owed, MarkComes
    <2>4. Promised(posts, op) => Promised(posts, op')
      BY <2>1, <2>2 DEF Promised, TagComes, MarkComes
    <2> QED  BY <1>0, <2>1, <2>3, <2>4, MarksKept DEF Marks
  <1>12. ASSUME NewVersion PROVE Marks'
    <2>1. UNCHANGED <<posts, lost, loose, undone>>
      BY <1>0, <1>12, NewVersionFacts
    <2>2. CASE SameBut(op, op') /\ op.todo = << >> /\ op'.todo = << >>
      <3>1. op \in Mutating /\ op' \in Mutating /\ op'.todo = op.todo /\ op'.acts = op.acts
            /\ op'.real = op.real /\ op'.ns = op.ns
        BY <2>2 DEF SameBut
      <3>2. op \notin Adding /\ op' \notin Adding
        BY <3>1, Kinds
      <3>3. \A ns, m : Owed(op, ns, m) => Owed(op', ns, m)
        BY <3>1, <3>2 DEF Owed, MarkComes
      <3>4. Promised(posts, op) => Promised(posts, op')
        BY <3>1, <3>2 DEF Promised, TagComes, MarkComes
      <3> QED  BY <1>0, <2>1, <3>3, <3>4, MarksKept DEF Marks
    <2>3. CASE op \in Deleting /\ op' \in Deleting
      <3>1. op \notin Mutating /\ op \notin Adding /\ op' \notin Mutating /\ op' \notin Adding
        BY <2>3, Kinds
      <3>2. Promised(posts', op') /\ \A ns, m : ~Owed(op, ns, m)
        BY <3>1 DEF Promised, Owed
      <3> QED  BY <1>0, <2>1, <3>2, MarksKept
    <2> QED  BY <1>0, <1>12, <2>2, <2>3, NewVersionFacts
  <1>13. ASSUME RecordHistory PROVE Marks'
    <2>1. op \in Mutating /\ op' \in Mutating /\ UNCHANGED <<posts, lost, loose, undone>> /\ op'.todo = op.todo /\ op'.acts = op.acts /\ op'.real = op.real /\ op'.ns = op.ns
      BY <1>0, <1>13, RecordFacts DEF SameBut
    <2>2. op \notin Adding /\ op' \notin Adding
      BY <2>1, Kinds
    <2>3. \A ns, m : Owed(op, ns, m) => Owed(op', ns, m)
      BY <2>1, <2>2 DEF Owed, MarkComes
    <2>4. Promised(posts, op) => Promised(posts, op')
      BY <2>1, <2>2 DEF Promised, TagComes, MarkComes
    <2> QED  BY <1>0, <2>1, <2>3, <2>4, MarksKept DEF Marks
  <1>14. ASSUME Touch PROVE Marks'
    <2>1. op.stage = "touch" /\ op' = Idle /\ UNCHANGED <<posts, lost, loose, undone>>
      BY <1>0, <1>14 DEF Touch
    <2>2. op' \notin Mutating /\ op' \notin Adding
      BY <2>1, Kinds
    <2>3. Promised(posts', op')
      BY <2>2 DEF Promised
    <2>4. op \in Mutating => op.todo = << >>
      BY <1>0, <2>1 DEF Stages
    <2>5. \A ns, m : ~Owed(op, ns, m)
      BY <2>4 DEF Owed
    <2> QED  BY <1>0, <2>1, <2>3, <2>5, MarksKept
  <1>15. ASSUME NEW kw \in Keyword, AddKey(kw) PROVE Marks'
    <2>1. op \in Adding /\ op' \in Adding /\ UNCHANGED <<posts, lost, loose, undone>> /\ op'.kws = op.kws /\ op'.cset = op.cset /\ op'.real = op.real
      BY <1>0, <1>15, AddKeyFacts DEF AddSame
    <2>2. op \notin Mutating /\ op' \notin Mutating
      BY <2>1, Kinds
    <2>3. \A ns, m : Owed(op, ns, m) => Owed(op', ns, m)
      BY <2>1, <2>2 DEF Owed, MarkComes
    <2>4. Promised(posts, op) => Promised(posts, op')
      BY <2>1, <2>2 DEF Promised, TagComes, MarkComes
    <2> QED  BY <1>0, <2>1, <2>3, <2>4, MarksKept DEF Marks
  <1>16. ASSUME NEW kw \in Keyword, AddPost(kw) PROVE Marks'
    BY <1>0, <1>16, MarksAdded
  <1>17. ASSUME AddKeyFails PROVE Marks'
    <2>1. op.stage = "key" /\ op' = Idle /\ UNCHANGED <<posts, lost, loose, undone>>
      BY <1>0, <1>17 DEF AddKeyFails
    <2>2. op' \notin Mutating /\ op' \notin Adding
      BY <2>1, Kinds
    <2>3. op \in Adding /\ op \notin Mutating
      BY <1>0, <2>1, Kinds DEF Types
    <2>4. Promised(posts', op') /\ \A ns, m : ~Owed(op, ns, m)
      BY <2>2, <2>3 DEF Promised, Owed
    <2> QED  BY <1>0, <2>1, <2>4, MarksKept
  <1>18. ASSUME AddKeysDone PROVE Marks'
    <2>1. op \in Adding /\ op' \in Adding /\ UNCHANGED <<posts, lost, loose, undone>> /\ op'.kws = op.kws /\ op'.cset = op.cset /\ op'.real = op.real
      BY <1>0, <1>18, AddKeysDoneFacts DEF AddSame
    <2>2. op \notin Mutating /\ op' \notin Mutating
      BY <2>1, Kinds
    <2>3. \A ns, m : Owed(op, ns, m) => Owed(op', ns, m)
      BY <2>1, <2>2 DEF Owed, MarkComes
    <2>4. Promised(posts, op) => Promised(posts, op')
      BY <2>1, <2>2 DEF Promised, TagComes, MarkComes
    <2> QED  BY <1>0, <2>1, <2>3, <2>4, MarksKept DEF Marks
  <1>19. ASSUME Kill PROVE Marks'
    <2>1. op' = Idle /\ lost' = lost \cup op.real /\ UNCHANGED <<posts, loose, undone>>
      BY <1>0, <1>19, KillFacts
    <2>2. op' \notin Mutating /\ op' \notin Adding
      BY <2>1, Kinds
    <2>3. Promised(posts', op') /\ \A ns, m : Owed(op, ns, m) => m \in lost'
      BY <2>1, <2>2 DEF Promised, Owed
    <2> QED  BY <1>0, <2>1, <2>3, MarksKept
  <1> QED
    BY <1>1, <1>2, <1>3, <1>4, <1>5, <1>6, <1>7, <1>8, <1>9, <1>10, <1>11, <1>12, <1>13, <1>14,
       <1>15, <1>16, <1>17, <1>18, <1>19 DEF Next, Requests

\* Lists with and without elements.
LEMMA NotEmpty == ASSUME NEW s, Len(s) = 1 PROVE s # << >>
  OBVIOUS
LEMMA NoneLeft == ASSUME NEW S, NEW s \in Seq(S), NEW n \in Int, Len(s) = n - 1, n = 1 PROVE s = << >>
  <1>1. Len(s) = 0
    OBVIOUS
  <1> QED  BY <1>1, EmptySeq

\* A change more.
LEMMA FaithfulAppend ==
    ASSUME NEW ch \in Seq(Change), NEW c \in Change, NEW before, NEW P, NEW Q, Faithful(ch, before, P),
           \A kw \in Keyword, m \in Msgs :
              /\ ~Touched(c, kw, m) => (m \in P[kw] <=> m \in Q[kw])
              /\ Touched(c, kw, m) => (m \in c.iset <=> m \in P[kw]) /\ (m \in c.oset <=> m \in Q[kw])
    PROVE  Faithful(Append(ch, c), before, Q)
  <1> DEFINE d == Append(ch, c)
             n == Len(ch)
  <1>1. n \in Nat /\ Len(d) = n + 1 /\ d[n + 1] = c /\ \A i \in 1 .. n : d[i] = ch[i]
    BY AppendProperties, LenProperties
  <1> HIDE DEF d, n
  <1>2. /\ \A i \in 1 .. Len(d) : i \in 1 .. n \/ i = n + 1
        /\ \A i \in 1 .. n : i \in 1 .. Len(d) /\ i < n + 1 /\ ~(n + 1 < i)
        /\ n + 1 \in 1 .. Len(d) /\ ~(n + 1 < n + 1)
    BY <1>1
  <1>3. ASSUME NEW kw \in Keyword, NEW m \in Msgs
        PROVE  \/ /\ \A i \in 1 .. Len(d) : ~Touched(d[i], kw, m)
                  /\ m \in before[kw] <=> m \in Q[kw]
               \/ /\ FirstAgrees(d, kw, m, m \in before[kw])
                  /\ LastAgrees(d, kw, m, m \in Q[kw])
    <2>1. CASE /\ \A i \in 1 .. n : ~Touched(ch[i], kw, m)
               /\ m \in before[kw] <=> m \in P[kw]
      <3>1. CASE ~Touched(c, kw, m)
        <4>1. m \in before[kw] <=> m \in Q[kw]
          BY <2>1, <3>1
        <4>2. \A i \in 1 .. Len(d) : ~Touched(d[i], kw, m)
          BY <1>1, <1>2, <2>1, <3>1
        <4> QED  BY <4>1, <4>2
      <3>2. CASE Touched(c, kw, m)
        <4>1. (m \in c.iset <=> m \in before[kw]) /\ (m \in c.oset <=> m \in Q[kw])
          BY <2>1, <3>2
        <4>2. \A i \in 1 .. Len(d) : i < n + 1 => ~Touched(d[i], kw, m)
          BY <1>1, <1>2, <2>1
        <4>3. \A i \in 1 .. Len(d) : ~(i > n + 1)
          BY <1>1
        <4>4. FirstAgrees(d, kw, m, m \in before[kw])
          BY <1>1, <1>2, <3>2, <4>1, <4>2 DEF FirstAgrees
        <4>5. LastAgrees(d, kw, m, m \in Q[kw])
          BY <1>1, <1>2, <3>2, <4>1, <4>3 DEF LastAgrees
        <4> QED  BY <4>4, <4>5
      <3> QED  BY <3>1, <3>2
    <2>2. CASE /\ FirstAgrees(ch, kw, m, m \in before[kw])
               /\ LastAgrees(ch, kw, m, m \in P[kw])
      <3>1. FirstAgrees(d, kw, m, m \in before[kw])
        <4>1. PICK i \in 1 .. n : /\ Touched(ch[i], kw, m) /\ (m \in ch[i].iset <=> m \in before[kw])
                                  /\ \A j \in 1 .. n : j < i => ~Touched(ch[j], kw, m)
          BY <2>2 DEF FirstAgrees, n
        <4>2. \A j \in 1 .. Len(d) : j < i => j \in 1 .. n
          BY <1>1
        <4>3. \A j \in 1 .. Len(d) : j < i => ~Touched(d[j], kw, m)
          BY <1>1, <4>1, <4>2
        <4>4. d[i] = ch[i] /\ i \in 1 .. Len(d)
          BY <1>1, <1>2
        <4> QED  BY <4>1, <4>3, <4>4 DEF FirstAgrees
      <3>2. CASE ~Touched(c, kw, m)
        <4>1. PICK i \in 1 .. n : /\ Touched(ch[i], kw, m) /\ (m \in ch[i].oset <=> m \in P[kw])
                                  /\ \A j \in 1 .. n : j > i => ~Touched(ch[j], kw, m)
          BY <2>2 DEF LastAgrees, n
        <4>2. \A j \in 1 .. Len(d) : j > i => ~Touched(d[j], kw, m)
          BY <1>1, <1>2, <3>2, <4>1
        <4>3. d[i] = ch[i] /\ i \in 1 .. Len(d)
          BY <1>1, <1>2
        <4>4. m \in ch[i].oset <=> m \in Q[kw]
          BY <3>2, <4>1
        <4>5. LastAgrees(d, kw, m, m \in Q[kw])
          BY <4>1, <4>2, <4>3, <4>4 DEF LastAgrees
        <4> QED  BY <3>1, <4>5
      <3>3. CASE Touched(c, kw, m)
        <4>1. m \in c.oset <=> m \in Q[kw]
          BY <3>3
        <4>2. \A i \in 1 .. Len(d) : ~(i > n + 1)
          BY <1>1
        <4>3. LastAgrees(d, kw, m, m \in Q[kw])
          BY <1>1, <1>2, <3>3, <4>1, <4>2 DEF LastAgrees
        <4> QED  BY <3>1, <4>3
      <3> QED  BY <3>2, <3>3
    <2>3. \/ /\ \A i \in 1 .. n : ~Touched(ch[i], kw, m)
             /\ m \in before[kw] <=> m \in P[kw]
          \/ /\ FirstAgrees(ch, kw, m, m \in before[kw])
             /\ LastAgrees(ch, kw, m, m \in P[kw])
      BY DEF Faithful, n
    <2> QED  BY <2>1, <2>2, <2>3
  <1>4. Faithful(d, before, Q)
    BY <1>3 DEF Faithful
  <1> QED  BY <1>4 DEF d

\* Nothing changed, from the start.
LEMMA FaithfulNone == ASSUME NEW P PROVE Faithful(<< >>, P, P)
  BY DEF Faithful

\* The change that is recorded is the one that is made.
LEMMA FaithfulApplied ==
    ASSUME Types, Apply, Faithful(op.changes, op.before, posts)
    PROVE  Faithful(op'.changes, op'.before, posts')
  <1>1. /\ Applying /\ posts'[ActKw] = NewSet
        /\ \A kw \in Keyword : kw # ActKw => posts'[kw] = posts[kw]
        /\ op'.before = op.before
        /\ op'.changes = IF Diff = {} THEN op.changes ELSE Append(op.changes, TheChange)
    BY ApplyFacts DEF Apply, IsApplied
  <1>2. /\ op \in Mutating /\ ActKw \in Keyword /\ TheChange \in Change /\ Diff \subseteq OnMsgs
    BY <1>1, ApplyingFacts
  <1>3. op.changes \in Seq(Change)
    BY <1>2, Fields
  <1>4. CASE Diff = {}
    <2>1. \A m : m \in OldSet <=> m \in NewSet
      BY <1>4 DEF Diff
    <2>2. \A kw \in Keyword, m \in Msgs : m \in posts'[kw] <=> m \in posts[kw]
      BY <1>1, <2>1 DEF OldSet
    <2> QED  BY <1>1, <1>4, <2>2 DEF Faithful
  <1>5. CASE Diff # {}
    <2>1. TheChange.kw = ActKw /\ TheChange.iset = OldSet \cap OnMsgs /\ TheChange.oset = NewSet \cap OnMsgs
      BY DEF TheChange
    <2>2. ASSUME NEW kw \in Keyword, NEW m \in Msgs
          PROVE  /\ ~Touched(TheChange, kw, m) => (m \in posts[kw] <=> m \in posts'[kw])
                 /\ Touched(TheChange, kw, m) => /\ m \in TheChange.iset <=> m \in posts[kw]
                                                 /\ m \in TheChange.oset <=> m \in posts'[kw]
      <3>1. CASE kw # ActKw
        <4>1. ~Touched(TheChange, kw, m)
          BY <2>1, <3>1 DEF Touched
        <4> QED  BY <1>1, <3>1, <4>1
      <3>2. CASE kw = ActKw
        <4>1. posts[kw] = OldSet /\ posts'[kw] = NewSet
          BY <1>1, <3>2 DEF OldSet
        <4>2. m \notin OnMsgs => (m \in OldSet <=> m \in NewSet)
          BY <1>2 DEF Diff
        <4>3. m \in OnMsgs => (m \in TheChange.iset <=> m \in OldSet) /\ (m \in TheChange.oset <=> m \in NewSet)
          BY <2>1
        <4>4. m \notin OnMsgs => m \notin TheChange.iset /\ m \notin TheChange.oset
          BY <2>1
        <4>5. Touched(TheChange, kw, m) <=> ~(m \in TheChange.iset <=> m \in TheChange.oset)
          BY <2>1, <3>2 DEF Touched
        <4>6. CASE m \in OnMsgs
          BY <4>1, <4>3, <4>5, <4>6
        <4>7. CASE m \notin OnMsgs
          BY <4>1, <4>2, <4>4, <4>5, <4>7
        <4> QED  BY <4>6, <4>7
      <3> QED  BY <3>1, <3>2
    <2>3. Faithful(Append(op.changes, TheChange), op.before, posts')
      BY <1>2, <1>3, <2>2, FaithfulAppend
    <2> QED  BY <1>1, <1>5, <2>3
  <1> QED  BY <1>4, <1>5

\* Looking its operation up leaves an undo where it was heading.
LEMMA HeadingLooked ==
    ASSUME Types, Indexing, NEW to, Heading(op, posts, to), IsLooked(op, op', <<TheAct>>, FALSE),
           TheAct \in Act, TheAct.sign = NextOp.sign, TheAct.kw = TheKw
    PROVE  Heading(op', posts, to)
  <1>1. /\ op \in Mutating /\ op.todo # << >> /\ Len(op.todo) > 0 /\ op.todo[1].ops \in Seq(Operation)
        /\ op.todo[1].ops # << >> /\ NextOp = op.todo[1].ops[1]
    BY NextFacts
  <1>2. Len(op.todo) \in Nat /\ op.acts \in Seq(Act)
    BY <1>1, Fields
  <1>3. /\ ~op.rec /\ op.ns = None /\ Simple(op)
        /\ \A j \in 1 .. Len(op.todo) : Doing(op, j).kw \in Keyword
        /\ Lands(op, posts, to)
    BY DEF Heading
  <1>4. /\ op.acts = << >> /\ Len(op.todo[1].ops) = 1
        /\ \A j \in 2 .. Len(op.todo) : Len(op.todo[j].ops) = 1
    BY <1>1, <1>3 DEF Simple
  <1>5. /\ op'.ns = op.ns /\ op'.rec = op.rec /\ op'.acts = op.acts \o <<TheAct>>
        /\ Len(op'.todo) = Len(op.todo) /\ op'.todo # << >>
        /\ op'.todo[1].on = op.todo[1].on /\ op'.todo[1].ops = Tail(op.todo[1].ops)
        /\ \A j \in 2 .. Len(op.todo) : op'.todo[j] = op.todo[j]
    BY DEF IsLooked
  <1>6. op'.acts # << >> /\ Len(op'.acts) = 1 /\ op'.acts[1] = TheAct
    <2>1. << >> \in Seq(Act) /\ Len(<< >>) = 0
      BY EmptySeq
    <2>2. op'.acts = << >> \o <<TheAct>>
      BY <1>4, <1>5
    <2>3. Len(op'.acts) = 0 + 1 /\ \A i \in 1 .. Len(op'.acts) : op'.acts[i] = IF i <= 0 THEN << >>[i] ELSE TheAct
      BY <2>1, <2>2, OneMore
    <2>4. Len(op'.acts) = 1
      BY <2>3
    <2>5. op'.acts[1] = TheAct
      BY <2>3
    <2>6. op'.acts # << >>
      BY <2>4, NotEmpty
    <2> QED  BY <2>4, <2>5, <2>6
  <1>7. op'.todo[1].ops = << >>
    <2>1. Tail(op.todo[1].ops) \in Seq(Operation) /\ Len(Tail(op.todo[1].ops)) = Len(op.todo[1].ops) - 1
      BY <1>1, TailFacts
    <2>2. Len(op.todo[1].ops) \in Int
      BY <1>4
    <2>3. Tail(op.todo[1].ops) = << >>
      BY <1>4, <2>1, <2>2, NoneLeft
    <2> QED  BY <1>5, <2>3
  <1>8. Simple(op')
    BY <1>4, <1>5, <1>6, <1>7 DEF Simple
  <1>9. TheAct.kw = NextOp.kw
    BY <1>3 DEF TheKw, InSpace
  <1>10. ASSUME NEW j \in 1 .. Len(op.todo)
         PROVE  /\ Doing(op', j).kw = Doing(op, j).kw /\ Doing(op', j).sign = Doing(op, j).sign
                /\ op'.todo[j].on = op.todo[j].on
    <2>1. CASE j = 1
      BY <1>1, <1>4, <1>5, <1>6, <1>9, <2>1 DEF Doing
    <2>2. CASE j # 1
      <3>1. j \in 2 .. Len(op.todo)
        BY <1>2, <2>2
      <3>2. op'.todo[j] = op.todo[j]
        BY <1>5, <3>1
      <3> QED  BY <2>2, <3>2 DEF Doing
    <2> QED  BY <2>1, <2>2
  <1>11. \A j \in 1 .. Len(op.todo) : \A kw, m : Concerns(op', j, kw, m) <=> Concerns(op, j, kw, m)
    BY <1>10 DEF Concerns
  <1>12. Lands(op', posts, to)
    BY <1>3, <1>5, <1>10, <1>11 DEF Lands
  <1> QED  BY <1>3, <1>5, <1>8, <1>10, <1>12 DEF Heading

\* Doing its operation brings an undo a step closer.
LEMMA HeadingApplied ==
    ASSUME Types, Apply, NEW to, Heading(op, posts, to)
    PROVE  Heading(op', posts', to)
  <1>1. /\ Applying /\ IsApplied(op') /\ posts'[ActKw] = NewSet
        /\ \A kw \in Keyword : kw # ActKw => posts'[kw] = posts[kw]
    BY ApplyFacts DEF Apply
  <1>2. /\ op \in Mutating /\ op.todo # << >> /\ op.todo[1].ops = << >> /\ op.acts # << >>
        /\ ActKw \in Keyword
    BY <1>1, ApplyingFacts
  <1>3. /\ ~op.rec /\ op.ns = None /\ Simple(op)
        /\ \A j \in 1 .. Len(op.todo) : Doing(op, j).kw \in Keyword
        /\ Lands(op, posts, to)
    BY DEF Heading
  <1>4. /\ Len(op.acts) = 1 /\ \A j \in 2 .. Len(op.todo) : Len(op.todo[j].ops) = 1
    BY <1>2, <1>3 DEF Simple
  <1>5. op' \in Mutating /\ op'.rec = op.rec /\ op'.ns = op.ns
    BY <1>1 DEF IsApplied
  <1>6. /\ op'.acts = << >> /\ Len(op'.todo) = Len(op.todo) - 1 /\ Len(op.todo) \in Nat
        /\ \A j \in 1 .. Len(op'.todo) : j + 1 \in 1 .. Len(op.todo) /\ op'.todo[j] = op.todo[j + 1]
    BY <1>1, <1>4, AppliedLists
  <1> DEFINE n == Len(op.todo)
             n2 == Len(op'.todo)
  <1>7. n \in Nat /\ n > 0 /\ n2 \in Nat /\ n2 = n - 1
    BY <1>1, <1>5, <1>6, Fields, AppliedLists
  <1> HIDE DEF n, n2
  <1>8. /\ \A j \in 1 .. n2 : j + 1 \in 1 .. n /\ j + 1 \in 2 .. n /\ j + 1 # 1
        /\ \A j \in 2 .. n : j - 1 \in 1 .. n2 /\ (j - 1) + 1 = j /\ j > 1
        /\ 1 \in 1 .. n /\ \A j \in 1 .. n : j = 1 \/ j \in 2 .. n
    BY <1>7
  <1>9. \A j \in 1 .. n2 : Doing(op', j) = Doing(op, j + 1) /\ op'.todo[j] = op.todo[j + 1]
    BY <1>6, <1>8 DEF Doing, n, n2
  <1>10. Simple(op')
    <2>1. CASE n2 = 0
      <3>1. op'.todo = << >>
        BY <1>5, <2>1, Fields, EmptySeq DEF n2
      <3> QED  BY <1>6, <3>1 DEF Simple
    <2>2. CASE n2 # 0
      <3>1. op'.todo # << >> /\ 1 \in 1 .. n2
        BY <1>7, <2>2, EmptySeq DEF n2
      <3>2. \A j \in 1 .. n2 : Len(op'.todo[j].ops) = 1
        BY <1>4, <1>8, <1>9 DEF n
      <3>3. \A j \in 2 .. n2 : j \in 1 .. n2
        BY <1>7
      <3> QED  BY <1>6, <3>1, <3>2, <3>3 DEF Simple, n2
    <2> QED  BY <2>1, <2>2
  <1>11. \A j \in 1 .. n2 : Doing(op', j).kw \in Keyword
    BY <1>3, <1>8, <1>9 DEF n
  <1>12. \A j \in 1 .. n2 : \A kw, m : Concerns(op', j, kw, m) <=> Concerns(op, j + 1, kw, m)
    BY <1>9 DEF Concerns
  <1>13. Doing(op, 1) = op.acts[1]
    BY <1>2 DEF Doing
  <1>14. Lands(op', posts', to)
    <2>1. ASSUME NEW kw \in Keyword, NEW m \in Msgs
          PROVE  \/ /\ \A j \in 1 .. n2 : ~Concerns(op', j, kw, m)
                    /\ m \in posts'[kw] <=> m \in to[kw]
                 \/ \E j \in 1 .. n2 :
                      /\ Concerns(op', j, kw, m) /\ (Doing(op', j).sign = "+" <=> m \in to[kw])
                      /\ \A l \in 1 .. n2 : l > j => ~Concerns(op', l, kw, m)
      <3>1. Concerns(op, 1, kw, m) <=> kw = ActKw /\ m \in OnMsgs
        BY <1>13 DEF Concerns, ActKw, OnMsgs
      <3>2. CASE /\ \A j \in 1 .. n : ~Concerns(op, j, kw, m)
                 /\ m \in posts[kw] <=> m \in to[kw]
        <4>1. \A j \in 1 .. n2 : ~Concerns(op', j, kw, m)
          BY <1>8, <1>12, <3>2
        <4>2. kw # ActKw \/ m \notin OnMsgs
          BY <1>8, <3>1, <3>2
        <4>3. m \in posts'[kw] <=> m \in posts[kw]
          BY <1>1, <4>2 DEF NewSet, OldSet
        <4> QED  BY <3>2, <4>1, <4>3
      <3>3. ASSUME NEW j \in 1 .. n, Concerns(op, j, kw, m), Doing(op, j).sign = "+" <=> m \in to[kw],
                   \A l \in 1 .. n : l > j => ~Concerns(op, l, kw, m)
            PROVE  \/ /\ \A l \in 1 .. n2 : ~Concerns(op', l, kw, m)
                      /\ m \in posts'[kw] <=> m \in to[kw]
                   \/ \E l \in 1 .. n2 :
                        /\ Concerns(op', l, kw, m) /\ (Doing(op', l).sign = "+" <=> m \in to[kw])
                        /\ \A k \in 1 .. n2 : k > l => ~Concerns(op', k, kw, m)
        <4>1. CASE j = 1
          <5>1. \A l \in 1 .. n2 : ~Concerns(op', l, kw, m)
            BY <1>8, <1>12, <3>3, <4>1
          <5>2. kw = ActKw /\ m \in OnMsgs /\ (op.acts[1].sign = "+" <=> m \in to[kw])
            BY <1>13, <3>1, <3>3, <4>1
          <5>3. m \in posts'[kw] <=> op.acts[1].sign = "+"
            BY <1>1, <5>2 DEF NewSet
          <5> QED  BY <5>1, <5>2, <5>3
        <4>2. CASE j # 1
          <5>1. j \in 2 .. n /\ j - 1 \in 1 .. n2 /\ (j - 1) + 1 = j
            BY <1>8, <4>2
          <5>2. Concerns(op', j - 1, kw, m)
            BY <1>12, <3>3, <5>1
          <5>3. Doing(op', j - 1).sign = "+" <=> m \in to[kw]
            BY <1>9, <3>3, <5>1
          <5>4. \A k \in 1 .. n2 : k > j - 1 => k + 1 > j
            BY <1>7
          <5>5. \A k \in 1 .. n2 : k > j - 1 => ~Concerns(op', k, kw, m)
            BY <1>8, <1>12, <3>3, <5>4
          <5> QED  BY <5>1, <5>2, <5>3, <5>5
        <4> QED  BY <4>1, <4>2
      <3>4. \/ /\ \A j \in 1 .. n : ~Concerns(op, j, kw, m)
               /\ m \in posts[kw] <=> m \in to[kw]
            \/ \E j \in 1 .. n :
                  /\ Concerns(op, j, kw, m) /\ (Doing(op, j).sign = "+" <=> m \in to[kw])
                  /\ \A l \in 1 .. n : l > j => ~Concerns(op, l, kw, m)
        BY <1>3 DEF Lands, n
      <3> QED  BY <3>2, <3>3, <3>4
    <2> QED  BY <2>1 DEF Lands, n2
  <1> QED  BY <1>3, <1>5, <1>10, <1>11, <1>14 DEF Heading, n2

\* With nothing left to do, an undo has landed.
LEMMA Landed ==
    ASSUME NEW o, NEW P \in Postings, NEW to \in Postings, o.todo = << >>, Lands(o, P, to)
    PROVE  P = to
  <1>1. \A j \in 1 .. Len(o.todo) : FALSE
    OBVIOUS
  <1>2. \A kw \in Keyword, m \in Msgs : m \in P[kw] <=> m \in to[kw]
    BY <1>1 DEF Lands
  <1>3. \A kw \in Keyword : P[kw] = to[kw]
    <2>1. ASSUME NEW kw \in Keyword PROVE P[kw] = to[kw]
      <3>1. P[kw] \subseteq Msgs /\ to[kw] \subseteq Msgs
        BY DEF Postings
      <3> QED  BY <1>2, <3>1
    <2> QED  BY <2>1
  <1> QED  BY <1>3 DEF Postings

\* A step that leaves the postings and the changes of a request alone.
LEMMA RecordedKept ==
    ASSUME Recorded(op, posts), posts' = posts, op \in Mutating, op.stage # "touch",
           op'.changes = op.changes, op'.before = op.before
    PROVE  Recorded(op', posts')
  BY DEF Recorded

\* An undo is about to begin.
LEMMA UndoingBegins ==
    ASSUME Types, Undoing, NEW slot \in Slots, NEW id \in 1 .. MaxVersion, NEW undo \in BOOLEAN,
           NEW ns \in Spaces \cup {None}, Undo(slot, id, undo, ns)
    PROVE  Undoing'
  <1> DEFINE todo == Mutations(hist[slot].changes, undo)
             want == IF undo THEN "before" ELSE "after"
  <1>1. /\ hist[slot].changes \in Seq(Change) /\ IsBegun(op', todo, ns, FALSE) /\ op = Idle
        /\ snap' = IF slot = snap.slot /\ ns = None THEN [snap EXCEPT !.want = want] ELSE NoSnap
        /\ UNCHANGED <<index, since, lost, loose, stops, quiet>>
    BY UndoFacts
  <1>2. todo \in Seq(Job) /\ \A j \in 1 .. Len(todo) : Plain(todo[j])
    BY <1>1, MutationsFacts
  <1>3. posts' = posts /\ hist' = hist
    BY <1>1 DEF index
  <1>4. /\ op' \in Mutating /\ op'.stage = "index" /\ op'.ns = ns /\ ~op'.rec /\ op'.before = posts
        /\ op'.todo = todo /\ op'.acts = << >> /\ op'.changes = << >>
    BY <1>1 DEF IsBegun
  <1>5. Recorded(op', posts')
    BY <1>3, <1>4, FaithfulNone DEF Recorded
  <1>6. ASSUME snap' # NoSnap PROVE Restoring(snap', hist', op', posts')
    <2>1. slot = snap.slot /\ ns = None /\ snap' = [snap EXCEPT !.want = want]
      BY <1>1, <1>6
    <2>2. snap \in Snapshot
      <3>1. NoSnap.slot = 0 /\ slot # 0
        BY SizesAssumption DEF NoSnap, Slots
      <3> QED  BY <2>1, <3>1 DEF Types
    <2>3. /\ snap.slot = slot /\ snap.before \in Postings /\ snap.after \in Postings
          /\ snap[snap.want] \in {snap.before, snap.after}
          /\ snap'.slot = slot /\ snap'.before = snap.before /\ snap'.after = snap.after
          /\ snap'[snap'.want] = IF undo THEN snap.before ELSE snap.after
      BY <2>1, <2>2 DEF Snapshot
    <2>4. snap # NoSnap
      BY <2>1, <2>3, SizesAssumption DEF NoSnap, Slots
    <2>5. /\ Faithful(hist[slot].changes, snap.before, snap.after)
          /\ posts = snap[snap.want]
      BY <1>1, <2>3, <2>4 DEF Undoing, Restoring
    <2>6. op' \notin Adding /\ op' \notin Deleting /\ op' # Idle
      BY <1>4, Kinds
    <2> DEFINE to == IF undo THEN snap.before ELSE snap.after
    <2>7. Lands(op', posts, to)
      BY <1>1, <1>4, <2>3, <2>5, MutationsLand
    <2> HIDE DEF todo
    <2>8. Simple(op')
      <3>1. CASE todo = << >>
        BY <1>4, <3>1 DEF Simple
      <3>2. CASE todo # << >>
        <4>1. Len(todo) \in Nat /\ Len(todo) > 0
          BY <1>2, <3>2, EmptySeq, LenProperties
        <4>2. 1 \in 1 .. Len(todo) /\ \A j \in 2 .. Len(todo) : j \in 1 .. Len(todo)
          BY <4>1
        <4>3. \A j \in 1 .. Len(todo) : Len(todo[j].ops) = 1
          BY <1>2 DEF Plain
        <4> QED  BY <1>4, <3>2, <4>2, <4>3 DEF Simple
      <3> QED  BY <3>1, <3>2
    <2>9. \A j \in 1 .. Len(op'.todo) : Doing(op', j).kw \in Keyword
      BY <1>2, <1>4 DEF Doing, Plain
    <2>10. Heading(op', posts, to)
      BY <1>4, <2>1, <2>7, <2>8, <2>9 DEF Heading
    <2> HIDE DEF to
    <2>11. snap'[snap'.want] = to
      BY <2>3 DEF to
    <2> QED  BY <1>3, <1>4, <2>3, <2>5, <2>6, <2>10, <2>11 DEF Restoring
  <1> QED  BY <1>5, <1>6 DEF Undoing

\* Every step keeps undos and redos on their way to what they restore.
LEMMA UndoingStep == ASSUME IInv, Next PROVE Undoing'
  <1> USE DEF index, history
  <1>0. Types /\ Stages /\ Keyed /\ Undoing
    BY DEF IInv
  <1>1. ASSUME NEW b \in Batches, NEW ns \in Spaces \cup {None}, Tag(b, ns, TRUE) PROVE Undoing'
    <2>1. /\ op' \in Mutating /\ op'.changes = << >> /\ op'.before = posts /\ posts' = posts /\ snap' = NoSnap
      BY <1>0, <1>1, TagFacts DEF IsBegun
    <2> QED  BY <2>1, FaithfulNone DEF Undoing, Recorded
  <1>2. ASSUME NEW slot \in Slots, NEW id \in 1 .. MaxVersion, NEW undo \in BOOLEAN,
               NEW ns \in Spaces \cup {None}, Undo(slot, id, undo, ns)
        PROVE  Undoing'
    BY <1>0, <1>2, UndoingBegins
  <1>3. ASSUME NEW kws \in Imports, NEW ids \in Imported, NEW touch \in BOOLEAN,
               AddResults(kws, ids, touch)
        PROVE  Undoing'
    <2>1. snap' = NoSnap /\ op' \notin Mutating
      BY <1>0, <1>3, AddResultsFacts, Kinds DEF IsAdding
    <2> QED  BY <2>1 DEF Undoing, Recorded
  <1>4. ASSUME NEW t \in Tags, NEW ns \in Spaces \cup {None}, NEW ids \in Imported,
               DelResults(Kw(t, ns), ids)
        PROVE  Undoing'
    <2>1. snap' = NoSnap /\ op' \notin Mutating
      BY <1>0, <1>4, DelResultsFacts, Kinds
    <2> QED  BY <2>1 DEF Undoing, Recorded
  <1>5. ASSUME IndexStar PROVE Undoing'
    <2>1. /\ Indexing /\ IsLooked(op, op', StarActs, TRUE) /\ NextOp.kw.tag = Star
          /\ UNCHANGED <<posts, hist, snap>>
      BY <1>0, <1>5, IndexStarFacts
    <2>2. /\ op \in Mutating /\ op.stage = "index" /\ op.todo # << >> /\ Len(op.todo) > 0
          /\ op.todo[1].ops # << >> /\ NextOp = op.todo[1].ops[1]
          /\ op'.changes = op.changes /\ op'.before = op.before
      BY <1>0, <2>1, NextFacts DEF IsLooked
    <2>3. Recorded(op', posts')
      BY <1>0, <2>1, <2>2, RecordedKept DEF Undoing
    <2>4. ASSUME snap # NoSnap PROVE FALSE
      <3>1. Simple(op) /\ \A j \in 1 .. Len(op.todo) : Doing(op, j).kw \in Keyword
        BY <1>0, <2>2, <2>4 DEF Undoing, Restoring, Heading
      <3>2. op.acts = << >>
        BY <2>2, <3>1 DEF Simple
      <3>3. Doing(op, 1) = NextOp /\ 1 \in 1 .. Len(op.todo)
        BY <2>2, <3>2, Fields DEF Doing
      <3> QED  BY <2>1, <3>1, <3>3, KeywordIsTerm
    <2> QED  BY <2>1, <2>3, <2>4 DEF Undoing
  <1>6. ASSUME IndexOp PROVE Undoing'
    <2>1. /\ Indexing /\ IsLooked(op, op', <<TheAct>>, FALSE)
          /\ TheAct \in Act /\ TheAct.sign = NextOp.sign /\ TheAct.kw = TheKw
          /\ UNCHANGED <<posts, hist, snap>>
      BY <1>0, <1>6, IndexOpFacts, LookupFacts
    <2>2. /\ op \in Mutating /\ op.stage = "index" /\ op' \in Mutating /\ op'.stage = "index"
          /\ op'.changes = op.changes /\ op'.before = op.before
      BY <1>0, <2>1, NextFacts DEF IsLooked
    <2>3. Recorded(op', posts')
      BY <1>0, <2>1, <2>2, RecordedKept DEF Undoing
    <2>4. op' \notin Adding /\ op' \notin Deleting /\ op' # Idle
      BY <2>2, Kinds
    <2>5. ASSUME snap # NoSnap PROVE Restoring(snap, hist, op', posts)
      <3>1. /\ Faithful(hist[snap.slot].changes, snap.before, snap.after)
            /\ Heading(op, posts, snap[snap.want])
        BY <1>0, <2>2, <2>5 DEF Undoing, Restoring
      <3>2. Heading(op', posts, snap[snap.want])
        BY <1>0, <2>1, <3>1, HeadingLooked
      <3> QED  BY <2>2, <2>4, <3>1, <3>2 DEF Restoring
    <2> QED  BY <2>1, <2>3, <2>5 DEF Undoing
  <1>7. ASSUME IndexNew PROVE Undoing'
    <2>1. /\ Indexing /\ IsLooked(op, op', <<TheAct>>, FALSE)
          /\ TheAct \in Act /\ TheAct.sign = NextOp.sign /\ TheAct.kw = TheKw
          /\ UNCHANGED <<posts, hist, snap>>
      BY <1>0, <1>7, IndexNewFacts, LookupFacts
    <2>2. /\ op \in Mutating /\ op.stage = "index" /\ op' \in Mutating /\ op'.stage = "index"
          /\ op'.changes = op.changes /\ op'.before = op.before
      BY <1>0, <2>1, NextFacts DEF IsLooked
    <2>3. Recorded(op', posts')
      BY <1>0, <2>1, <2>2, RecordedKept DEF Undoing
    <2>4. op' \notin Adding /\ op' \notin Deleting /\ op' # Idle
      BY <2>2, Kinds
    <2>5. ASSUME snap # NoSnap PROVE Restoring(snap, hist, op', posts)
      <3>1. /\ Faithful(hist[snap.slot].changes, snap.before, snap.after)
            /\ Heading(op, posts, snap[snap.want])
        BY <1>0, <2>2, <2>5 DEF Undoing, Restoring
      <3>2. Heading(op', posts, snap[snap.want])
        BY <1>0, <2>1, <3>1, HeadingLooked
      <3> QED  BY <2>2, <2>4, <3>1, <3>2 DEF Restoring
    <2> QED  BY <2>1, <2>3, <2>5 DEF Undoing
  <1>8. ASSUME Fail PROVE Undoing'
    <2>1. snap' = NoSnap /\ op' \notin Mutating
      BY <1>0, <1>8, Kinds DEF Fail
    <2> QED  BY <2>1 DEF Undoing, Recorded
  <1>9. ASSUME Apply PROVE Undoing'
    <2>1. /\ Applying /\ op' \in Mutating /\ op'.stage = "index" /\ UNCHANGED <<hist, snap>>
      BY <1>0, <1>9, ApplyFacts DEF Apply, IsApplied
    <2>2. op \in Mutating /\ op.stage = "index"
      BY <1>0, <2>1, ApplyingFacts
    <2>3. Faithful(op.changes, op.before, posts)
      BY <1>0, <2>2 DEF Undoing, Recorded
    <2>4. Recorded(op', posts')
      BY <1>0, <1>9, <2>3, FaithfulApplied DEF Recorded
    <2>5. op' \notin Adding /\ op' \notin Deleting /\ op' # Idle
      BY <2>1, Kinds
    <2>6. ASSUME snap # NoSnap PROVE Restoring(snap, hist, op', posts')
      <3>1. /\ Faithful(hist[snap.slot].changes, snap.before, snap.after)
            /\ Heading(op, posts, snap[snap.want])
        BY <1>0, <2>2, <2>6 DEF Undoing, Restoring
      <3>2. Heading(op', posts', snap[snap.want])
        BY <1>0, <1>9, <3>1, HeadingApplied
      <3> QED  BY <2>1, <2>5, <3>1, <3>2 DEF Restoring
    <2> QED  BY <2>1, <2>4, <2>6 DEF Undoing
  <1>10. ASSUME Applied PROVE Undoing'
    <2>1. /\ op \in Mutating /\ op.stage = "index" /\ op.todo # << >> /\ op.todo[1].ops = << >> /\ op.acts = << >>
          /\ op'.changes = op.changes /\ op'.before = op.before /\ UNCHANGED <<posts, hist, snap>>
      BY <1>0, <1>10, AppliedFacts DEF SameBut
    <2>2. Recorded(op', posts')
      BY <1>0, <2>1, RecordedKept DEF Undoing
    <2>3. ASSUME snap # NoSnap PROVE FALSE
      <3>1. Simple(op)
        BY <1>0, <2>1, <2>3 DEF Undoing, Restoring, Heading
      <3> QED  BY <2>1, <3>1, NotEmpty DEF Simple
    <2> QED  BY <2>1, <2>2, <2>3 DEF Undoing
  <1>11. ASSUME Allocate PROVE Undoing'
    <2>1. /\ op \in Mutating /\ op.stage = "index" /\ op.rec /\ op'.changes = op.changes
          /\ op'.before = op.before /\ UNCHANGED <<posts, hist, snap>>
      BY <1>0, <1>11, AllocateFacts DEF SameBut
    <2>2. Recorded(op', posts')
      BY <1>0, <2>1, RecordedKept DEF Undoing
    <2>3. snap = NoSnap
      BY <1>0, <2>1 DEF Undoing, Restoring, Heading
    <2> QED  BY <2>1, <2>2, <2>3 DEF Undoing
  <1>12. ASSUME NewVersion PROVE Undoing'
    <2>1. op.stage = "index" /\ op'.stage = "touch" /\ UNCHANGED <<posts, hist, snap>>
      BY <1>0, <1>12, NewVersionFacts
    <2>2. Recorded(op', posts')
      BY <2>1 DEF Recorded
    <2>3. ASSUME snap # NoSnap PROVE Restoring(snap, hist, op', posts)
      <3>1. op \in Mutating /\ op' \in Mutating /\ op.todo = << >>
        BY <1>0, <1>12, <2>3, NewVersionFacts DEF Undoing, Restoring, SameBut
      <3>2. /\ Faithful(hist[snap.slot].changes, snap.before, snap.after)
            /\ Lands(op, posts, snap[snap.want])
        BY <1>0, <2>1, <2>3, <3>1 DEF Undoing, Restoring, Heading
      <3>3. posts \in Postings /\ snap[snap.want] \in Postings
        BY <1>0, <2>3 DEF Types, Snapshot
      <3>4. posts = snap[snap.want]
        BY <3>1, <3>2, <3>3, Landed
      <3>5. op' \notin Adding /\ op' \notin Deleting
        BY <3>1, Kinds
      <3> QED  BY <2>1, <3>2, <3>4, <3>5 DEF Restoring
    <2> QED  BY <2>1, <2>2, <2>3 DEF Undoing
  <1>13. ASSUME RecordHistory PROVE Undoing'
    <2>1. /\ op \in Mutating /\ op' \in Mutating /\ op.stage = "record" /\ op'.stage = "touch" /\ posts' = posts
          /\ hist' = [hist EXCEPT ![pos] = [id |-> ver, changes |-> op.changes]]
          /\ snap' = [slot |-> pos, before |-> op.before, after |-> posts, want |-> "after"]
      BY <1>0, <1>13, RecordFacts DEF SameBut
    <2>2. Faithful(op.changes, op.before, posts)
      BY <1>0, <2>1 DEF Undoing, Recorded
    <2>3. hist'[pos].changes = op.changes
      BY <1>0, <2>1 DEF Types
    <2>4. snap'.slot = pos /\ snap'.before = op.before /\ snap'.after = posts /\ snap'[snap'.want] = posts
      BY <2>1
    <2>5. op' \notin Adding /\ op' \notin Deleting
      BY <2>1, Kinds
    <2>6. Restoring(snap', hist', op', posts')
      BY <2>1, <2>2, <2>3, <2>4, <2>5 DEF Restoring
    <2>7. Recorded(op', posts')
      BY <2>1 DEF Recorded
    <2> QED  BY <2>6, <2>7 DEF Undoing
  <1>14. ASSUME Touch PROVE Undoing'
    <2>1. op.stage = "touch" /\ op' = Idle /\ UNCHANGED <<posts, hist, snap>>
      BY <1>0, <1>14 DEF Touch
    <2>2. op' \notin Mutating /\ op' \notin Adding /\ op' \notin Deleting
      BY <2>1, Kinds
    <2> QED  BY <1>0, <2>1, <2>2 DEF Undoing, Recorded, Restoring
  <1>15. ASSUME NEW kw \in Keyword, AddKey(kw) PROVE Undoing'
    <2>1. op \in Adding /\ op' \notin Mutating /\ snap' = snap
      BY <1>0, <1>15, AddKeyFacts, Kinds DEF AddSame
    <2>2. snap = NoSnap
      BY <1>0, <2>1 DEF Undoing, Restoring
    <2> QED  BY <2>1, <2>2 DEF Undoing, Recorded
  <1>16. ASSUME NEW kw \in Keyword, AddPost(kw) PROVE Undoing'
    <2>1. op \in Adding /\ op' \notin Mutating /\ snap' = snap
      BY <1>0, <1>16, AddPostFacts, Kinds DEF IsAdded, AddSame
    <2>2. snap = NoSnap
      BY <1>0, <2>1 DEF Undoing, Restoring
    <2> QED  BY <2>1, <2>2 DEF Undoing, Recorded
  <1>17. ASSUME AddKeyFails PROVE Undoing'
    <2>1. op \in Adding /\ op' \notin Mutating /\ snap' = snap
      BY <1>0, <1>17, Kinds DEF AddKeyFails, Types
    <2>2. snap = NoSnap
      BY <1>0, <2>1 DEF Undoing, Restoring
    <2> QED  BY <2>1, <2>2 DEF Undoing, Recorded
  <1>18. ASSUME AddKeysDone PROVE Undoing'
    <2>1. op \in Adding /\ op' \notin Mutating /\ snap' = snap
      BY <1>0, <1>18, AddKeysDoneFacts, Kinds DEF AddSame
    <2>2. snap = NoSnap
      BY <1>0, <2>1 DEF Undoing, Restoring
    <2> QED  BY <2>1, <2>2 DEF Undoing, Recorded
  <1>19. ASSUME Kill PROVE Undoing'
    <2>1. snap' = NoSnap /\ op' \notin Mutating
      BY <1>0, <1>19, Kinds, KillFacts
    <2> QED  BY <2>1 DEF Undoing, Recorded
  <1> QED
    BY <1>1, <1>2, <1>3, <1>4, <1>5, <1>6, <1>7, <1>8, <1>9, <1>10, <1>11, <1>12, <1>13, <1>14,
       <1>15, <1>16, <1>17, <1>18, <1>19 DEF Next, Requests

-----------------------------------------------------------------------------
(* The theorems.                                                           *)

\* The inductive invariant: every step of every request keeps it.
THEOREM Invariance == Spec => []IInv
  <1>1. Init => IInv
    BY Start
  <1>2. IInv /\ [Next]_vars => IInv'
    <2> SUFFICES ASSUME IInv, [Next]_vars PROVE IInv'
      OBVIOUS
    <2>1. CASE Next
      <3>1. Types' /\ Stages' /\ Keyed' /\ SlotsInUse'
        BY <2>1, TypesStep, StagesStep, KeyedStep, SlotsStep
      <3>2. Inside' /\ Found' /\ Marks' /\ Undoing'
        BY <2>1, InsideStep, FoundStep, MarksStep, UndoingStep
      <3> QED  BY <3>1, <3>2 DEF IInv
    <2>2. CASE UNCHANGED vars
      <3> USE <2>2 DEF vars
      <3>1. Types' /\ Stages'
        BY DEF IInv, Types, Stages
      <3>2. Keyed' /\ SlotsInUse' /\ Inside'
        BY DEF IInv, Keyed, SlotsInUse, Inside
      <3>3. Found'
        BY DEF IInv, Found
      <3>4. Marks'
        BY DEF IInv, Marks
      <3>5. Undoing'
        BY DEF IInv, Undoing
      <3> QED  BY <3>1, <3>2, <3>3, <3>4, <3>5 DEF IInv
    <2> QED  BY <2>1, <2>2
  <1> QED  BY <1>1, <1>2, PTL DEF Spec

\* The variables keep their types, and what is found by a tag has a key.
THEOREM TypeCorrect == Spec => []TypeOK
  <1>1. IInv => TypeOK
    <2> SUFFICES ASSUME IInv PROVE TypeOK
      OBVIOUS
    <2>1. Types /\ Keyed
      BY DEF IInv
    <2>2. op.stage \in {"idle", "index", "record", "touch", "key", "add"}
      BY <2>1, Kinds DEF Types
    <2>3. \A s \in Slots : hist[s].id \in 0 .. MaxVersion
      BY <2>1 DEF Types
    <2> QED  BY <2>1, <2>2, <2>3 DEF TypeOK, Types, Keyed, Postings
  <1> QED  BY <1>1, Invariance, PTL

\* Until a request is cut short, no two tags share an L1 slot: a new key
\* leads to a slot above every slot in use.
THEOREM SlotsStayExclusive == Spec => []SlotsAreExclusive
  <1>1. IInv => SlotsAreExclusive
    <2> SUFFICES ASSUME IInv, NEW k1 \in DOMAIN keys, NEW k2 \in DOMAIN keys, keys[k1] = keys[k2]
                 PROVE  k1 = k2 \/ stops > 0
      BY DEF SlotsAreExclusive
    <2>1. stops \in Nat
      BY DEF IInv, Types
    <2>2. stops = 0 \/ stops > 0
      BY <2>1
    <2> QED  BY <2>2 DEF IInv, SlotsInUse
  <1> QED  BY <1>1, Invariance, PTL

\* A request in a namespace changes no posting list outside it, unless it
\* clears in:*.
THEOREM Isolation == Spec => NamespaceIsolation
  <1> DEFINE Isolated == op # Idle /\ op.ns # None =>
                            \/ op.star
                            \/ \A kw \in Keyword : posts'[kw] # posts[kw] => kw.ns = op.ns
  <1>1. ASSUME IInv, Next PROVE Isolated
    <2> SUFFICES ASSUME op # Idle, op.ns # None, ~op.star, NEW kw \in Keyword, posts'[kw] # posts[kw]
                 PROVE  kw.ns = op.ns
      OBVIOUS
    <2>0. Types /\ Inside
      BY <1>1 DEF IInv
    <2>1. \/ Apply
          \/ \E k \in Keyword : AddPost(k)
      <3>1. ASSUME Requests PROVE op = Idle
        BY <3>1 DEF Requests, Tag, Undo, AddResults, DelResults, MayRequest
      <3>2. ASSUME NEW k \in Keyword, AddKey(k) PROVE posts' = posts
        BY <3>2 DEF AddKey
      <3>3. ASSUME IndexStar \/ IndexOp \/ IndexNew \/ Fail \/ Applied PROVE posts' = posts
        BY <3>3 DEF IndexStar, IndexOp, IndexNew, Fail, Applied, index
      <3>4. ASSUME Allocate \/ NewVersion \/ RecordHistory \/ Touch PROVE posts' = posts
        BY <3>4 DEF Allocate, NewVersion, RecordHistory, Touch
      <3>5. ASSUME AddKeyFails \/ AddKeysDone \/ Kill PROVE posts' = posts
        BY <3>5 DEF AddKeyFails, AddKeysDone, Kill, index
      <3> QED  BY <1>1, <3>1, <3>2, <3>3, <3>4, <3>5 DEF Next
    <2>2. CASE Apply
      <3>1. Applying /\ \A k \in Keyword : k # ActKw => posts'[k] = posts[k]
        BY <2>0, <2>2, ApplyFacts DEF Apply
      <3>2. op \in Mutating /\ Len(op.acts) > 0
        BY <2>0, <3>1, ApplyingFacts
      <3>3. 1 \in 1 .. Len(op.acts)
        BY <3>2, Fields
      <3>4. op.acts[1].kw.ns = op.ns
        BY <2>0, <3>2, <3>3 DEF Inside
      <3> QED  BY <3>1, <3>4 DEF ActKw
    <2>3. CASE \E k \in Keyword : AddPost(k)
      <3>1. op \in Adding
        BY <2>0, <2>3, AddPostFacts
      <3> QED  BY <3>1, Kinds
    <2> QED  BY <2>1, <2>2, <2>3
  <1>2. IInv /\ [Next]_vars => [Isolated]_vars
    BY <1>1
  <1> QED  BY <1>2, Invariance, PTL DEF Spec, NamespaceIsolation

\* What clients tag in a namespace is marked as being there once the request
\* is done, unless it was cut short or some change was undone.  Only messages
\* that were imported with a tag of the namespace may be in it unmarked.
THEOREM TagsAreMarked == Spec => []TaggedAreMarked
  <1>1. IInv => TaggedAreMarked
    <2> SUFFICES ASSUME IInv, op = Idle, ~undone, NEW t \in Tags, NEW ns \in Spaces
                 PROVE  posts[Kw(t, ns)] \subseteq posts[Kw(All, ns)] \cup lost \cup loose[ns]
      BY DEF TaggedAreMarked
    <2>1. Held(posts, lost, loose, op)
      BY DEF IInv, Marks
    <2>2. \A m : ~Owed(op, ns, m)
      BY Kinds DEF Owed
    <2> QED  BY <2>1, <2>2 DEF Held
  <1> QED  BY <1>1, Invariance, PTL

\* A search for the versions since any version a client has seen finds every
\* message changed since then by a request that was not cut short and that
\* touches what it changes, as all do but the importer's passes over keywords.
THEOREM Findable == Spec => []ChangesAreFound
  <1>1. IInv => ChangesAreFound
    <2> SUFFICES ASSUME IInv, op = Idle, NEW m \in Msgs \ lost, since[m] > 0, NEW v \in 0 .. since[m]
                 PROVE  m \in VersionSearch(v)
      BY DEF ChangesAreFound
    <2>1. Reached(since[m], m, ver, touched)
      BY DEF IInv, Found, Awaited
    <2>2. PICK w \in 1 .. ver :
             since[m] <= w /\ \A t \in VersionKeywords(w) : <<t[1], t[2], m>> \in touched
      BY <2>1 DEF Reached
    <2>3. since[m] \in Nat /\ ver \in Nat
      BY SizesAssumption DEF IInv, Types
    <2>4. v \in Nat /\ w \in Nat /\ v <= w /\ w <= ver
      BY <2>2, <2>3
    <2>5. PICK x \in Cover(v, ver) : x \in VersionKeywords(w)
      BY <2>3, <2>4, CoverIsComplete
    <2>6. <<x[1], x[2], m>> \in touched
      BY <2>2, <2>5
    <2> QED  BY <2>5, <2>6 DEF VersionSearch
  <1> QED  BY <1>1, Invariance, PTL

\* An undo or redo of the last recorded batch gives back exactly the postings
\* there were before or after it, however its operations overlapped.
THEOREM UndoRestoresAll == Spec => []UndoRestores
  <1>1. IInv => UndoRestores
    BY DEF IInv, Undoing, Restoring, UndoRestores
  <1> QED  BY <1>1, Invariance, PTL
=============================================================================
