---------------------------- MODULE DataLemmas ----------------------------
(***************************************************************************)
(* Lemmas about data that the proofs of several modules need: induction    *)
(* over numbers and finite sets, stated with a set in the place of the     *)
(* predicate; that what is defined by iteration exists; what the folds of  *)
(* the community modules return; and the sorted sequence of a finite set   *)
(* of integers.                                                            *)
(***************************************************************************)
EXTENDS SortedSets, Folds, Functions, FiniteSetsExt, FiniteSetTheorems, WellFoundedInduction, TLAPS

\* Division with remainder by a positive number.
LEMMA DivMod ==
  ASSUME NEW n \in Int, NEW p \in Int, p > 0
  PROVE  /\ n \div p \in Int
         /\ n % p \in 0..(p - 1)
         /\ n = p * (n \div p) + (n % p)
<1>1. n \div p \in Int
  OBVIOUS
<1>2. n % p \in 0..(p - 1)
  OBVIOUS
<1>3. n = p * (n \div p) + (n % p)
  BY SMT
<1> QED
  BY <1>1, <1>2, <1>3

LEMMA DivUnique ==
  ASSUME NEW n \in Int, NEW p \in Int, p > 0,
         NEW q \in Int, NEW m \in Int, n = p * q + m, 0 <= m, m < p
  PROVE  n \div p = q /\ n % p = m
<1>1. n \div p = q
  BY SMT
<1>2. n % p = m
  BY SMT
<1> QED
  BY <1>1, <1>2

\* What has a quotient and a remainder written out.
LEMMA DivisionIs ==
  ASSUME NEW p \in Int, p > 0, NEW q \in Int, NEW r \in 0..(p - 1)
  PROVE  (p * q + r) \div p = q /\ (p * q + r) % p = r
<1> DEFINE n == p * q + r
<1>1. n \in Int /\ n = p * q + r /\ 0 <= r /\ r < p /\ r \in Int
  OBVIOUS
<1> HIDE DEF n
<1>2. n \div p = q /\ n % p = r
  BY <1>1, DivUnique
<1> QED
  BY <1>2 DEF n

\* A product divided by one of its factors is the other one.
LEMMA DivExact ==
  ASSUME NEW n \in Int, NEW p \in Int, p > 0
  PROVE  (p * n) \div p = n /\ (p * n) % p = 0
<1> DEFINE z == p * n
<1>1. z \in Int /\ z = p * n + 0
  OBVIOUS
<1> HIDE DEF z
<1>2. z \div p = n /\ z % p = 0
  BY <1>1, DivUnique
<1> QED
  BY <1>2 DEF z

\* Dividing twice is dividing by the product.
LEMMA DivTwice ==
  ASSUME NEW n \in Nat, NEW a \in Nat, a > 0, NEW b \in Nat, b > 0
  PROVE  (n \div a) \div b = n \div (a * b)
<1> DEFINE q == n \div a
           m == n % a
           u == q \div b
           w == q % b
           au == a * u
<1>1. q \in Int /\ m \in 0..(a - 1) /\ n = a * q + m
  BY DivMod
<1> HIDE DEF q, m
<1>2. u \in Int /\ w \in 0..(b - 1) /\ q = b * u + w
  BY <1>1, DivMod
<1> HIDE DEF u, w
<1>3. a * q = (a * b) * u + a * w
  BY <1>2
<1>4. a * w + m \in 0..(a * b - 1)
  <2>1. a * w \in Nat /\ a * ((b - 1) - w) \in Nat
    BY <1>2
  <2>2. a * ((b - 1) - w) = a * b - a - a * w
    BY <1>2
  <2>3. a * b \in Nat
    OBVIOUS
  <2> DEFINE aw == a * w
             ab == a * b
  <2> HIDE DEF aw, ab
  <2>4. aw \in Nat /\ ab \in Nat /\ ab - a - aw >= 0
    BY <2>1, <2>2, <2>3 DEF aw, ab
  <2>5. aw + m \in 0..(ab - 1)
    BY <1>1, <2>4
  <2> QED
    BY <2>5 DEF aw, ab
<1> DEFINE p == a * b
           e == a * w + m
<1>5. p \in Int /\ p > 0 /\ e \in 0..(p - 1)
  BY <1>4
<1>6. n = p * u + e
  <2> DEFINE pu == p * u
             aw == a * w
  <2>1. pu \in Int /\ aw \in Int /\ a * q = pu + aw
    BY <1>2, <1>3
  <2> HIDE DEF pu, aw
  <2>2. n = pu + aw + m
    BY <1>1, <2>1
  <2>3. n = pu + (aw + m)
    BY <1>1, <2>1, <2>2
  <2> QED
    BY <2>3 DEF pu, aw
<1> HIDE DEF p, e
<1>7. n \div p = u
  BY <1>2, <1>5, <1>6, DivisionIs
<1> QED
  BY <1>7 DEF p, q, u

\* The least and the greatest number of a set, out of their CHOOSE.
LEMMA MinIs ==
  ASSUME NEW S, S \subseteq Int, NEW m \in S, \A y \in S : m <= y
  PROVE  Min(S) = m
<1> DEFINE P(x) == x \in S /\ \A y \in S : x <= y
<1>1. P(m)
  OBVIOUS
<1>2. P(CHOOSE x : P(x))
  BY <1>1, Zenon
<1>3. Min(S) = CHOOSE x : P(x)
  BY Zenon DEF Min
<1>4. Min(S) \in S /\ \A y \in S : Min(S) <= y
  BY <1>2, <1>3
<1>5. \A a \in S, b \in S : a <= b /\ b <= a => a = b
  OBVIOUS
<1> QED
  BY <1>4, <1>5, Zenon

LEMMA MaxIs ==
  ASSUME NEW S, S \subseteq Int, NEW m \in S, \A y \in S : m >= y
  PROVE  Max(S) = m
<1> DEFINE P(x) == x \in S /\ \A y \in S : x >= y
<1>1. P(m)
  OBVIOUS
<1>2. P(CHOOSE x : P(x))
  BY <1>1, Zenon
<1>3. Max(S) = CHOOSE x : P(x)
  BY Zenon DEF Max
<1>4. Max(S) \in S /\ \A y \in S : Max(S) >= y
  BY <1>2, <1>3
<1>5. \A a \in S, b \in S : a >= b /\ b >= a => a = b
  OBVIOUS
<1> QED
  BY <1>4, <1>5, Zenon
-----------------------------------------------------------------------------
\* Induction: a set that holds 0, and with n also n + 1, holds every number.
LEMMA NatsAreIn ==
  ASSUME NEW W, 0 \in W, \A n \in Nat : n \in W => n + 1 \in W
  PROVE  Nat \subseteq W
<1> DEFINE T == Nat \ W
<1>1. SUFFICES ASSUME T # {} PROVE FALSE
  OBVIOUS
<1>2. PICK x \in T : \A y \in T : ~(<<y, x>> \in OpToRel(<, Nat))
  <2>1. IsWellFoundedOn(OpToRel(<, Nat), Nat) /\ T \subseteq Nat
    BY NatLessThanWellFounded
  <2> QED
    BY <1>1, <2>1, WFMin
<1>3. \A y \in T : ~(y < x)
  BY <1>2 DEF OpToRel
<1>4. x # 0 /\ x - 1 \in Nat /\ x - 1 < x /\ (x - 1) + 1 = x
  OBVIOUS
<1> QED
  BY <1>3, <1>4

\* Whether g is the iteration of step from base up to n.
IsIteration(g, n, V, base, step) ==
  /\ g \in [0..n -> V]
  /\ g[0] = base
  /\ \A k \in 0..(n - 1) : g[k + 1] = step[g[k]]

Iterates(g, V, base, step) ==
  g \in [Nat -> V] /\ g[0] = base /\ \A n \in Nat : g[n + 1] = step[g[n]]

\* What is defined by iteration exists.
LEMMA IterationExists ==
  ASSUME NEW V, NEW base \in V, NEW step \in [V -> V]
  PROVE  \E g : Iterates(g, V, base, step)
<1> DEFINE W == {n \in Nat : \E g : IsIteration(g, n, V, base, step)}
<1>1. 0 \in W
  <2>1. IsIteration([k \in 0..0 |-> base], 0, V, base, step)
    BY DEF IsIteration
  <2> QED
    BY <2>1
<1>2. ASSUME NEW n \in Nat, n \in W PROVE n + 1 \in W
  <2>1. PICK g : IsIteration(g, n, V, base, step)
    BY <1>2
  <2> DEFINE h == [k \in 0..(n + 1) |-> IF k = n + 1 THEN step[g[n]] ELSE g[k]]
  <2>2. \A k \in 0..n : k \in 0..(n + 1) /\ k # n + 1 /\ g[k] \in V /\ h[k] = g[k]
    BY <2>1 DEF IsIteration
  <2>3. \A k \in 0..(n + 1) : k = n + 1 \/ k \in 0..n
    OBVIOUS
  <2>4. n \in 0..n /\ 0 \in 0..n /\ n + 1 \in 0..(n + 1)
    OBVIOUS
  <2>5. h[n + 1] = step[g[n]] /\ step[g[n]] \in V
    BY <2>2, <2>4
  <2>6. h \in [0..(n + 1) -> V]
    BY <2>2, <2>3, <2>5
  <2>7. h[0] = base
    BY <2>1, <2>2, <2>4 DEF IsIteration
  <2>8. ASSUME NEW k \in 0..n PROVE h[k + 1] = step[h[k]]
    <3>1. CASE k = n
      BY <2>2, <2>4, <2>5, <3>1
    <3>2. CASE k # n
      <4>1. k \in 0..(n - 1) /\ k + 1 \in 0..n
        BY <3>2
      <4> QED
        BY <2>1, <2>2, <4>1 DEF IsIteration
    <3> QED
      BY <3>1, <3>2
  <2> HIDE DEF h
  <2>9. IsIteration(h, n + 1, V, base, step)
    <3>1. (n + 1) - 1 = n
      OBVIOUS
    <3> QED
      BY <2>6, <2>7, <2>8, <3>1 DEF IsIteration
  <2> QED
    BY <2>9
<1>3. \A n \in Nat : \E g : IsIteration(g, n, V, base, step)
  <2> HIDE DEF W
  <2>1. Nat \subseteq W
    BY <1>1, <1>2, NatsAreIn
  <2> QED
    BY <2>1 DEF W
<1>4. ASSUME NEW m \in Nat, NEW n \in Nat, NEW g, NEW h,
             IsIteration(g, m, V, base, step), IsIteration(h, n, V, base, step)
      PROVE  \A k \in Nat : k <= m /\ k <= n => g[k] = h[k]
  <2> DEFINE X == {k \in Nat : k <= m /\ k <= n => g[k] = h[k]}
  <2>1. 0 \in X
    BY <1>4 DEF IsIteration
  <2>2. ASSUME NEW k \in Nat, k \in X PROVE k + 1 \in X
    <3> SUFFICES ASSUME k + 1 <= m, k + 1 <= n PROVE g[k + 1] = h[k + 1]
      OBVIOUS
    <3>1. k \in 0..(m - 1) /\ k \in 0..(n - 1) /\ k <= m /\ k <= n
      OBVIOUS
    <3>2. g[k] = h[k]
      BY <2>2, <3>1
    <3> QED
      BY <1>4, <3>1, <3>2 DEF IsIteration
  <2> HIDE DEF X
  <2>3. Nat \subseteq X
    BY <2>1, <2>2, NatsAreIn
  <2> QED
    BY <2>3 DEF X
<1> DEFINE of(n) == CHOOSE g : IsIteration(g, n, V, base, step)
           f == [n \in Nat |-> of(n)[n]]
<1>5. \A n \in Nat : IsIteration(of(n), n, V, base, step)
  BY <1>3
<1> HIDE DEF of
<1>6. f \in [Nat -> V]
  <2>1. \A n \in Nat : n \in 0..n
    OBVIOUS
  <2> QED
    BY <1>5, <2>1 DEF IsIteration
<1>7. f[0] = base
  BY <1>5 DEF IsIteration
<1>8. ASSUME NEW n \in Nat PROVE f[n + 1] = step[f[n]]
  <2>1. n + 1 \in Nat /\ n \in 0..((n + 1) - 1) /\ n <= n + 1 /\ n <= n
    OBVIOUS
  <2>2. of(n + 1)[n + 1] = step[of(n + 1)[n]]
    BY <1>5, <2>1 DEF IsIteration
  <2>3. of(n + 1)[n] = of(n)[n]
    BY <1>4, <1>5, <2>1
  <2> QED
    BY <2>1, <2>2, <2>3
<1> QED
  BY <1>6, <1>7, <1>8 DEF Iterates

\* Induction over finite sets: what holds of a set when it holds of all its
\* proper subsets holds of every subset of a finite set.
LEMMA SubsetsAreIn ==
  ASSUME NEW S, IsFiniteSet(S), NEW W,
         \A T \in SUBSET S : (\A U \in SUBSET T : U # T => U \in W) => T \in W
  PROVE  SUBSET S \subseteq W
<1> DEFINE Bad == (SUBSET S) \ W
<1>1. SUFFICES ASSUME Bad # {} PROVE FALSE
  OBVIOUS
<1>2. IsWellFoundedOn(StrictSubsetOrdering(S), SUBSET S)
  BY FS_StrictSubsetOrderingWellFounded, FS_FiniteSubsetsOfFinite
<1>3. PICK x \in Bad : \A y \in Bad : ~(<<y, x>> \in StrictSubsetOrdering(S))
  <2>1. Bad \subseteq SUBSET S
    OBVIOUS
  <2> HIDE DEF Bad
  <2> QED
    BY <1>1, <1>2, <2>1, WFMin
<1>4. \A y \in Bad : ~(y \subseteq x /\ y # x)
  BY <1>3 DEF StrictSubsetOrdering
<1> QED
  BY <1>4
-----------------------------------------------------------------------------
\* Whether g is defined as a fold over the subsets of T: from the element that
\* pick takes of a set and the value of the rest, step makes the set's value.
IsFold(g, T, V, base, pick, step) ==
  /\ g \in [SUBSET T -> V]
  /\ \A U \in SUBSET T : g[U] = IF U = {} THEN base ELSE step[U][g[U \ {pick[U]}]]

LEMMA FoldsAgree ==
  ASSUME NEW S, IsFiniteSet(S), NEW V, NEW base, NEW step,
         NEW pick, \A T \in (SUBSET S) \ {{}} : pick[T] \in T,
         NEW A \in SUBSET S, NEW B \in SUBSET S, NEW g, NEW h,
         IsFold(g, A, V, base, pick, step), IsFold(h, B, V, base, pick, step),
         NEW X \in SUBSET (A \cap B)
  PROVE  g[X] = h[X]
<1> DEFINE W == {T \in SUBSET S : T \subseteq A /\ T \subseteq B => g[T] = h[T]}
<1>1. ASSUME NEW T \in SUBSET S, \A U \in SUBSET T : U # T => U \in W PROVE T \in W
  <2>1. SUFFICES ASSUME T \subseteq A, T \subseteq B PROVE g[T] = h[T]
    OBVIOUS
  <2>2. CASE T = {}
    BY <2>1, <2>2 DEF IsFold
  <2>3. CASE T # {}
    <3> DEFINE U == T \ {pick[T]}
    <3>1. U \in SUBSET T /\ U # T /\ U \subseteq A /\ U \subseteq B
      BY <2>1, <2>3
    <3>2. g[U] = h[U]
      BY <1>1, <3>1
    <3>3. g[T] = step[T][g[U]] /\ h[T] = step[T][h[U]]
      BY <2>1, <2>3 DEF IsFold
    <3> QED
      BY <3>2, <3>3
  <2> QED
    BY <2>2, <2>3
<1> HIDE DEF W
<1>2. SUBSET S \subseteq W
  BY <1>1, SubsetsAreIn
<1> QED
  BY <1>2 DEF W

LEMMA FoldExists ==
  ASSUME NEW S, IsFiniteSet(S), NEW V, NEW base \in V,
         NEW pick \in [(SUBSET S) \ {{}} -> S], \A T \in (SUBSET S) \ {{}} : pick[T] \in T,
         NEW step \in [SUBSET S -> [V -> V]]
  PROVE  \E g : IsFold(g, S, V, base, pick, step)
<1> DEFINE W == {T \in SUBSET S : \E g : IsFold(g, T, V, base, pick, step)}
<1>1. ASSUME NEW T \in SUBSET S, \A U \in SUBSET T : U # T => U \in W PROVE T \in W
  <2> DEFINE of(U) == CHOOSE g : IsFold(g, U, V, base, pick, step)
             rest(U) == of(U \ {pick[U]})[U \ {pick[U]}]
             g == [U \in SUBSET T |-> IF U = {} THEN base ELSE step[U][rest(U)]]
  <2>1. \A U \in SUBSET T : U # T => IsFold(of(U), U, V, base, pick, step)
    BY <1>1
  <2> HIDE DEF of
  <2>2. ASSUME NEW U \in SUBSET T, U # {}
        PROVE  /\ U \ {pick[U]} \in SUBSET T /\ U \ {pick[U]} # T
               /\ rest(U) \in V
    <3>1. U \ {pick[U]} \in SUBSET T /\ U \ {pick[U]} # T
      BY <2>2
    <3>2. IsFold(of(U \ {pick[U]}), U \ {pick[U]}, V, base, pick, step)
      BY <2>1, <3>1
    <3> QED
      BY <3>1, <3>2 DEF IsFold
  <2>3. \A U \in SUBSET T : g[U] \in V
    BY <2>2
  <2>4. ASSUME NEW U \in SUBSET T, U # {} PROVE g[U \ {pick[U]}] = rest(U)
    <3> DEFINE X == U \ {pick[U]}
    <3>1. X \in SUBSET T /\ X # T
      BY <2>2, <2>4
    <3>2. IsFold(of(X), X, V, base, pick, step)
      BY <2>1, <3>1
    <3>3. CASE X = {}
      BY <3>1, <3>2, <3>3 DEF IsFold
    <3>4. CASE X # {}
      <4> DEFINE Y == X \ {pick[X]}
      <4>1. Y \in SUBSET T /\ Y # T /\ Y \subseteq X
        BY <2>2, <3>1, <3>4
      <4>2. IsFold(of(Y), Y, V, base, pick, step)
        BY <2>1, <4>1
      <4>3. of(X)[Y] = of(Y)[Y]
        <5> HIDE DEF X, Y
        <5>1. X \in SUBSET S /\ Y \in SUBSET S
          BY <3>1, <4>1
        <5>2. ASSUME NEW k, NEW h,
                     IsFold(k, X, V, base, pick, step), IsFold(h, Y, V, base, pick, step)
              PROVE  k[Y] = h[Y]
          <6>1. Y \in SUBSET (X \cap Y)
            BY <4>1
          <6> QED
            BY <5>1, <5>2, <6>1, FoldsAgree
        <5> QED
          BY <3>2, <4>2, <5>2
      <4>4. of(X)[X] = step[X][of(X)[Y]]
        BY <3>2, <3>4 DEF IsFold
      <4>5. g[X] = step[X][of(Y)[Y]]
        BY <3>1, <3>4
      <4> QED
        BY <4>3, <4>4, <4>5
    <3> QED
      BY <3>3, <3>4
  <2>5. \A U \in SUBSET T : g[U] = IF U = {} THEN base ELSE step[U][g[U \ {pick[U]}]]
    BY <2>4
  <2>6. IsFold(g, T, V, base, pick, step)
    BY <2>3, <2>5 DEF IsFold
  <2> QED
    BY <2>6
<1> HIDE DEF W
<1>2. SUBSET S \subseteq W
  BY <1>1, SubsetsAreIn
<1> QED
  BY <1>2 DEF W
-----------------------------------------------------------------------------
\* The sorted sequence of a finite set has each of its numbers once, in order.
LEMMA AscendingIs ==
  ASSUME NEW S \in SUBSET Int, IsFiniteSet(S)
  PROVE  /\ Cardinality(S) \in Nat
         /\ Ascending(S) \in [1..Cardinality(S) -> S]
         /\ \A n \in S : \E i \in 1..Cardinality(S) : Ascending(S)[i] = n
         /\ \A i, j \in 1..Cardinality(S) : i < j => Ascending(S)[i] < Ascending(S)[j]
<1> DEFINE N == Cardinality(S)
           Upto(n) == {m \in S : m <= n}
           rank == [n \in S |-> Cardinality(Upto(n))]
           s == Ascending(S)
<1>1. N \in Nat
  BY FS_CardinalityType
<1>2. IsFiniteSet(1..N) /\ Cardinality(1..N) = N
  BY <1>1, FS_Interval
<1>3. ASSUME NEW n \in S
      PROVE  /\ IsFiniteSet(Upto(n)) /\ Cardinality(Upto(n)) \in 1..N
  <2>1. Upto(n) \in SUBSET S /\ n \in Upto(n)
    OBVIOUS
  <2> HIDE DEF Upto
  <2>2. IsFiniteSet(Upto(n)) /\ Cardinality(Upto(n)) <= N
    BY <2>1, FS_Subset
  <2>3. Cardinality(Upto(n)) \in Nat /\ Cardinality(Upto(n)) # 0
    BY <2>1, <2>2, FS_CardinalityType, FS_EmptySet
  <2> QED
    BY <1>1, <2>2, <2>3
<1>4. ASSUME NEW m \in S, NEW n \in S, m < n PROVE rank[m] < rank[n]
  <2>1. Upto(m) \in SUBSET Upto(n) /\ Upto(m) # Upto(n)
    <3>1. n \in Upto(n) /\ n \notin Upto(m)
      BY <1>4
    <3>2. \A k \in S : k <= m => k <= n
      BY <1>4
    <3> QED
      BY <3>1, <3>2
  <2> HIDE DEF Upto
  <2>2. Cardinality(Upto(m)) <= Cardinality(Upto(n)) /\ Cardinality(Upto(m)) # Cardinality(Upto(n))
    BY <1>3, <2>1, FS_Subset
  <2>3. Cardinality(Upto(m)) \in Int /\ Cardinality(Upto(n)) \in Int
    BY <1>1, <1>3
  <2> QED
    BY <2>2, <2>3
<1>5. rank \in [S -> 1..N] /\ \A n \in S : rank[n] = Cardinality({m \in S : m <= n})
  BY <1>3
<1> HIDE DEF rank
<1>6. rank \in Injection(S, 1..N)
  <2>1. \A m, n \in S : rank[m] = rank[n] => m = n
    <3> SUFFICES ASSUME NEW m \in S, NEW n \in S, rank[m] = rank[n], m # n PROVE FALSE
      OBVIOUS
    <3>1. m < n \/ n < m
      OBVIOUS
    <3>2. rank[m] \in Int /\ rank[n] \in Int
      BY <1>1, <1>5
    <3> QED
      BY <1>4, <3>1, <3>2
  <2> QED
    BY <1>5, <2>1 DEF Injection, IsInjective
<1>7. \A i \in 1..N : \E n \in S : rank[n] = i
  <2>1. rank \in Surjection(S, 1..N)
    BY <1>2, <1>6, FS_Injection
  <2> QED
    BY <2>1 DEF Surjection
<1>8. ASSUME NEW i \in 1..N PROVE s[i] \in S /\ rank[s[i]] = i
  <2> DEFINE P(n) == n \in S /\ Cardinality({m \in S : m <= n}) = i
  <2>1. \E n : P(n)
    BY <1>5, <1>7
  <2>2. P(CHOOSE n : P(n))
    BY <2>1, Zenon
  <2>3. s[i] = CHOOSE n : P(n)
    BY Zenon DEF Ascending
  <2> HIDE DEF s
  <2> QED
    BY <1>5, <2>2, <2>3
<1>9. s \in [1..N -> S]
  <2> DEFINE f(i) == CHOOSE n \in S : Cardinality({m \in S : m <= n}) = i
  <2>1. s = [i \in 1..N |-> f(i)]
    BY Zenon DEF Ascending
  <2> HIDE DEF s, N, f
  <2> QED
    BY <1>8, <2>1
<1> HIDE DEF s
<1>10. \A i, j \in 1..N : i < j => s[i] < s[j]
  <2>1. ASSUME NEW a \in S, NEW b \in S, rank[a] < rank[b] PROVE a < b
    <3>1. rank[a] \in Int /\ rank[b] \in Int /\ a \in Int /\ b \in Int
      BY <1>1, <1>5
    <3>2. ~(b < a) /\ a # b
      BY <1>4, <2>1, <3>1
    <3> QED
      BY <3>1, <3>2
  <2> QED
    BY <1>8, <2>1
<1>11. \A n \in S : s[rank[n]] = n /\ rank[n] \in 1..N
  <2>1. \A n \in S : rank[n] \in 1..N /\ rank[s[rank[n]]] = rank[n] /\ s[rank[n]] \in S
    BY <1>5, <1>8
  <2> QED
    BY <1>6, <2>1 DEF Injection, IsInjective
<1> QED
  BY <1>1, <1>9, <1>10, <1>11 DEF s

\* A finite set of numbers that is not empty has a least and a greatest one.
LEMMA ExtremesExist ==
  ASSUME NEW S \in SUBSET Int, IsFiniteSet(S), S # {}
  PROVE  /\ Min(S) \in S /\ \A y \in S : Min(S) <= y
         /\ Max(S) \in S /\ \A y \in S : Max(S) >= y
<1> DEFINE N == Cardinality(S)
           s == Ascending(S)
<1>1. /\ N \in Nat /\ s \in [1..N -> S]
      /\ \A n \in S : \E i \in 1..N : s[i] = n
      /\ \A i, j \in 1..N : i < j => s[i] < s[j]
  BY AscendingIs
<1>2. N \in Nat \ {0}
  BY <1>1, FS_EmptySet
<1> HIDE DEF N, s
<1>3. s[1] \in S /\ s[N] \in S /\ S \subseteq Int
  BY <1>1, <1>2
<1>4. \A y \in S : s[1] <= y /\ s[N] >= y
  <2> SUFFICES ASSUME NEW i \in 1..N PROVE s[1] <= s[i] /\ s[N] >= s[i]
    BY <1>1
  <2>1. (i = 1 \/ 1 < i) /\ (i = N \/ i < N) /\ 1 \in 1..N /\ N \in 1..N
    BY <1>2
  <2>2. (1 < i => s[1] < s[i]) /\ (i < N => s[i] < s[N])
    BY <1>1, <2>1
  <2>3. s[1] \in Int /\ s[i] \in Int /\ s[N] \in Int
    BY <1>1, <2>1
  <2> QED
    BY <2>1, <2>2, <2>3
<1>5. Min(S) = s[1]
  BY <1>3, <1>4, MinIs
<1>6. Max(S) = s[N]
  BY <1>3, <1>4, MaxIs
<1> QED
  BY <1>3, <1>4, <1>5, <1>6

\* The folds of sequences go through the indices from the first one up: an initial
\* segment is the one before it with its greatest index.
LEMMA InitialSegment ==
  ASSUME NEW n \in Nat, NEW k \in 0..(n - 1)
  PROVE  /\ 1..(k + 1) \in SUBSET (1..n) /\ 1..(k + 1) # {} /\ k + 1 \in 1..n
         /\ Max(1..(k + 1)) = k + 1 /\ (1..(k + 1)) \ {k + 1} = 1..k
<1>1. Max(1..(k + 1)) = k + 1
  <2>1. 1..(k + 1) \subseteq Int /\ k + 1 \in 1..(k + 1) /\ \A y \in 1..(k + 1) : k + 1 >= y
    OBVIOUS
  <2> QED
    BY <2>1, MaxIs
<1>2. (1..(k + 1)) \ {k + 1} = 1..k
  <2>1. \A i \in Int : i \in 1..(k + 1) /\ i # k + 1 <=> i \in 1..k
    OBVIOUS
  <2>2. 1..(k + 1) \subseteq Int /\ 1..k \subseteq Int
    OBVIOUS
  <2> QED
    BY <2>1, <2>2
<1>3. \A i \in 1..(k + 1) : i \in 1..n
  OBVIOUS
<1>4. k + 1 \in 1..(k + 1) /\ k + 1 \in 1..n
  OBVIOUS
<1> QED
  BY <1>1, <1>2, <1>3, <1>4

\* Whether g folds the indices of a set, its greatest one last.
IsLeftFold(g, n, V, base, step) ==
  /\ g \in [SUBSET (1..n) -> V]
  /\ \A T \in SUBSET (1..n) :
       g[T] = IF T = {} THEN base ELSE step[Max(T)][g[T \ {Max(T)}]]

LEMMA LeftFoldExists ==
  ASSUME NEW n \in Nat, NEW V, NEW base \in V, NEW step \in [1..n -> [V -> V]]
  PROVE  \E g : IsLeftFold(g, n, V, base, step)
<1> DEFINE S == 1..n
           pick == [T \in (SUBSET S) \ {{}} |-> Max(T)]
           all == [T \in SUBSET S |-> [v \in V |-> IF T = {} THEN v ELSE step[Max(T)][v]]]
<1>1. IsFiniteSet(S)
  BY FS_Interval
<1>2. ASSUME NEW T \in (SUBSET S) \ {{}} PROVE Max(T) \in T /\ Max(T) \in S
  <2>1. T \in SUBSET Int /\ T # {}
    OBVIOUS
  <2>2. IsFiniteSet(T)
    BY <1>1, FS_Subset
  <2> HIDE DEF S
  <2> QED
    BY <2>1, <2>2, ExtremesExist
<1> HIDE DEF S
<1>3. pick \in [(SUBSET S) \ {{}} -> S] /\ \A T \in (SUBSET S) \ {{}} : pick[T] \in T
  BY <1>2
<1>4. all \in [SUBSET S -> [V -> V]]
  <2>1. ASSUME NEW T \in SUBSET S, NEW v \in V
        PROVE  (IF T = {} THEN v ELSE step[Max(T)][v]) \in V
    <3>1. CASE T = {}
      BY <3>1
    <3>2. CASE T # {}
      <4>1. Max(T) \in 1..n
        BY <1>2, <3>2 DEF S
      <4>2. step[Max(T)] \in [V -> V]
        BY <4>1
      <4>3. step[Max(T)][v] \in V
        BY <4>2
      <4> QED
        BY <3>2, <4>3
    <3> QED
      BY <3>1, <3>2
  <2> QED
    BY <2>1
<1> HIDE DEF pick, all
<1>5. PICK g : IsFold(g, S, V, base, pick, all)
  BY <1>1, <1>3, <1>4, FoldExists
<1>6. g \in [SUBSET S -> V]
  BY <1>5 DEF IsFold
<1>7. ASSUME NEW T \in SUBSET S, T # {} PROVE g[T] = step[Max(T)][g[T \ {Max(T)}]]
  <2>1. g[T] = all[T][g[T \ {pick[T]}]] /\ pick[T] = Max(T)
    BY <1>5, <1>7 DEF IsFold, pick
  <2>2. g[T \ {Max(T)}] \in V
    BY <1>6
  <2> QED
    BY <1>7, <2>1, <2>2 DEF all
<1>8. g[{}] = base
  BY <1>5 DEF IsFold
<1> QED
  BY <1>6, <1>7, <1>8 DEF S, IsLeftFold

LEMMA GreatestIndex ==
  ASSUME NEW n \in Nat, NEW T \in SUBSET (1..n), T # {}
  PROVE  Max(T) \in T
<1> DEFINE S == 1..n
<1>1. IsFiniteSet(S) /\ T \in SUBSET S /\ T \in SUBSET Int
  BY FS_Interval
<1> HIDE DEF S
<1>2. IsFiniteSet(T)
  BY <1>1, FS_Subset
<1> QED
  BY <1>1, <1>2, ExtremesExist

\* A sum over a finite set of numbers is a number.
LEMMA SumIsNat ==
  ASSUME NEW S, IsFiniteSet(S), NEW gap, \A m \in S : gap[m] \in Nat
  PROVE  SumFunctionOnSet(gap, S) \in Nat
<1> DEFINE pick == [T \in (SUBSET S) \ {{}} |-> CHOOSE m \in T : TRUE]
           step == [T \in SUBSET S |->
                      [v \in Nat |-> IF T = {} THEN v ELSE gap[CHOOSE m \in T : TRUE] + v]]
           sum == CHOOSE g : g = [T \in SUBSET S |->
                    IF T = {} THEN 0 ELSE gap[CHOOSE m \in T : TRUE] + g[T \ {CHOOSE m \in T : TRUE}]]
<1>1. ASSUME NEW T \in (SUBSET S) \ {{}}
      PROVE  /\ (CHOOSE m \in T : TRUE) \in T
             /\ (CHOOSE m \in T : TRUE) \in S
             /\ gap[CHOOSE m \in T : TRUE] \in Nat
  <2>1. (CHOOSE m \in T : TRUE) \in T
    BY Zenon
  <2> QED
    BY <2>1
<1>2. pick \in [(SUBSET S) \ {{}} -> S] /\ \A T \in (SUBSET S) \ {{}} : pick[T] \in T
  BY <1>1
<1>3. step \in [SUBSET S -> [Nat -> Nat]]
  <2>1. ASSUME NEW T \in SUBSET S, NEW v \in Nat
        PROVE  (IF T = {} THEN v ELSE gap[CHOOSE m \in T : TRUE] + v) \in Nat
    <3>1. CASE T = {}
      BY <3>1
    <3>2. CASE T # {}
      <4> DEFINE d == gap[CHOOSE m \in T : TRUE]
      <4>1. d \in Nat /\ v \in Nat
        BY <1>1, <3>2
      <4> HIDE DEF d
      <4>2. d + v \in Nat
        BY <4>1
      <4> QED
        BY <3>2, <4>2 DEF d
    <3> QED
      BY <3>1, <3>2
  <2> QED
    BY <2>1
<1>4. PICK g : IsFold(g, S, Nat, 0, pick, step)
  <2> HIDE DEF pick, step
  <2>1. 0 \in Nat
    OBVIOUS
  <2>2. \E g : IsFold(g, S, Nat, 0, pick, step)
    BY <1>2, <1>3, <2>1, FoldExists
  <2> QED
    BY <2>2
<1>5. g \in [SUBSET S -> Nat]
  BY <1>4 DEF IsFold
<1>6. g = [T \in SUBSET S |->
            IF T = {} THEN 0 ELSE gap[CHOOSE m \in T : TRUE] + g[T \ {CHOOSE m \in T : TRUE}]]
  <2>1. ASSUME NEW T \in SUBSET S, T # {}
        PROVE  g[T] = gap[CHOOSE m \in T : TRUE] + g[T \ {CHOOSE m \in T : TRUE}]
    <3>1. g[T] = step[T][g[T \ {pick[T]}]] /\ pick[T] = CHOOSE m \in T : TRUE
      BY <1>4, <2>1 DEF IsFold
    <3>2. g[T \ {CHOOSE m \in T : TRUE}] \in Nat
      BY <1>5
    <3> QED
      BY <2>1, <3>1, <3>2
  <2>2. g[{}] = 0
    BY <1>4 DEF IsFold
  <2> QED
    BY <1>5, <2>1, <2>2
<1>7. sum = [T \in SUBSET S |->
            IF T = {} THEN 0 ELSE gap[CHOOSE m \in T : TRUE] + sum[T \ {CHOOSE m \in T : TRUE}]]
  BY <1>6, Zenon
<1>8. SumFunctionOnSet(gap, S) = sum[S]
  BY Zenon DEF SumFunctionOnSet, FoldFunctionOnSet, MapThenFoldSet
<1> DEFINE W == {T \in SUBSET S : sum[T] \in Nat}
<1>9. ASSUME NEW T \in SUBSET S, \A U \in SUBSET T : U # T => U \in W PROVE T \in W
  <2> DEFINE m == CHOOSE m \in T : TRUE
  <2>1. CASE T = {}
    <3>1. sum[{}] = 0
      BY <1>7
    <3> HIDE DEF sum
    <3> QED
      BY <2>1, <3>1
  <2>2. CASE T # {}
    <3>1. m \in T /\ gap[m] \in Nat
      BY <1>1, <2>2
    <3>2. sum[T] = gap[m] + sum[T \ {m}]
      BY <1>7, <2>2
    <3> HIDE DEF sum, m
    <3>3. sum[T \ {m}] \in Nat
      BY <1>9, <3>1
    <3> QED
      BY <3>1, <3>2, <3>3
  <2> QED
    BY <2>1, <2>2
<1> HIDE DEF W
<1>10. S \in W
  BY <1>9, SubsetsAreIn
<1> QED
  BY <1>8, <1>10 DEF W
=============================================================================
