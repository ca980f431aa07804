----------------------------- MODULE NatRecursion -----------------------------
(***************************************************************************)
(* Induction and recursion over the numbers, and division.  The theorems   *)
(* of the library take an operator as a parameter; these take sets and     *)
(* functions, so that they can be cited by name.  They rest on the         *)
(* well-foundedness of <.                                                  *)
(***************************************************************************)
EXTENDS Integers, WellFoundedInduction, TLAPS

LEMMA NatOrder == \E R : IsWellFoundedOn(R, Nat) /\ \A m, n \in Nat : m < n => <<m, n>> \in R
<1>1. \A m, n \in Nat : m < n => <<m, n>> \in OpToRel(<, Nat)
  BY DEF OpToRel
<1>2. QED
  BY <1>1, NatLessThanWellFounded

LEMMA Least ==
    ASSUME NEW T, T \subseteq Nat, T # {} PROVE \E n \in T : \A m \in T : n <= m
<1>1. PICK R : IsWellFoundedOn(R, Nat) /\ \A m, n \in Nat : m < n => <<m, n>> \in R
  BY NatOrder
<1>2. IsWellFoundedOn(R, Nat)
  BY <1>1
<1>3. \E n \in T : \A m \in T : ~(<<m, n>> \in R)
  BY <1>2, WFMin
<1>4. PICK n \in T : \A m \in T : ~(<<m, n>> \in R)
  BY <1>3
<1>5. ASSUME NEW m \in T PROVE n <= m
  <2>1. n \in Nat /\ m \in Nat /\ ~(<<m, n>> \in R)
    BY <1>4
  <2>2. ~(m < n)
    BY <1>1, <2>1
  <2>3. QED
    BY <2>1, <2>2
<1>6. QED
  BY <1>5

LEMMA Induct ==
    ASSUME NEW T \in SUBSET Nat, 0 \in T, \A n \in T : n + 1 \in T
    PROVE  T = Nat
<1>1. ASSUME Nat \ T # {} PROVE FALSE
  <2>1. PICK n \in Nat \ T : \A m \in Nat \ T : n <= m
    BY <1>1, Least
  <2>2. n # 0 /\ n - 1 \in Nat /\ n = (n - 1) + 1
    BY <2>1
  <2>3. n - 1 \in T
    BY <2>1, <2>2
  <2>4. QED
    BY <2>1, <2>2, <2>3
<1>2. QED
  BY <1>1

\* Induction up to a bound.
LEMMA InductTo ==
    ASSUME NEW N \in Nat, NEW T, 0 \in T, \A n \in 0 .. N - 1 : n \in T => n + 1 \in T
    PROVE  \A n \in 0 .. N : n \in T
<1> DEFINE U == {n \in Nat : n <= N => n \in T}
<1>1. U \in SUBSET Nat /\ 0 \in U
  OBVIOUS
<1>2. ASSUME NEW n \in U PROVE n + 1 \in U
  OBVIOUS
<1>3. U = Nat
  <2> HIDE DEF U
  <2>1. QED
    BY <1>1, <1>2, Induct
<1>4. QED
  BY <1>3

\* The first n values of the function that starts at base and goes on by D.
Approx(V, base, D, n) ==
    {f \in [0 .. n -> V] : f[0] = base /\ \A m \in 0 .. n - 1 : f[m + 1] = D[<<m, f[m]>>]}

LEMMA ApproxAgree ==
    ASSUME NEW V, NEW base, NEW D, NEW n \in Nat, NEW k \in Nat,
           NEW f \in Approx(V, base, D, n), NEW g \in Approx(V, base, D, k)
    PROVE  \A m \in Nat : m <= n /\ m <= k => f[m] = g[m]
<1> DEFINE T == {m \in Nat : m <= n /\ m <= k => f[m] = g[m]}
<1>1. T \in SUBSET Nat /\ 0 \in T
  BY DEF Approx
<1>2. ASSUME NEW m \in T PROVE m + 1 \in T
  <2>1. ASSUME m + 1 <= n, m + 1 <= k PROVE f[m + 1] = g[m + 1]
    <3>1. m \in 0 .. n - 1 /\ m \in 0 .. k - 1 /\ f[m] = g[m]
      BY <2>1
    <3>2. QED
      BY <3>1 DEF Approx
  <2>2. QED
    BY <2>1
<1>3. T = Nat
  <2> HIDE DEF T
  <2>1. QED
    BY <1>1, <1>2, Induct
<1>4. QED
  BY <1>3

LEMMA ApproxExists ==
    ASSUME NEW V, NEW base \in V, NEW D \in [Nat \X V -> V], NEW n \in Nat
    PROVE  Approx(V, base, D, n) # {}
<1> DEFINE T == {m \in Nat : Approx(V, base, D, m) # {}}
<1>1. T \in SUBSET Nat
  OBVIOUS
<1>2. 0 \in T
  <2>1. [m \in 0 .. 0 |-> base] \in Approx(V, base, D, 0)
    BY DEF Approx
  <2>2. QED
    BY <2>1
<1>3. ASSUME NEW m \in T PROVE m + 1 \in T
  <2>1. PICK f \in Approx(V, base, D, m) : TRUE
    OBVIOUS
  <2> DEFINE g == [k \in 0 .. m + 1 |-> IF k <= m THEN f[k] ELSE D[<<m, f[m]>>]]
  <2>2. f \in [0 .. m -> V] /\ f[0] = base /\ \A k \in 0 .. m - 1 : f[k + 1] = D[<<k, f[k]>>]
    BY <2>1 DEF Approx
  <2>3. m \in Nat /\ m \in 0 .. m /\ f[m] \in V /\ D[<<m, f[m]>>] \in V
    BY <2>2
  <2>4. g \in [0 .. m + 1 -> V] /\ g[0] = base
    BY <2>2, <2>3
  <2>5. ASSUME NEW k \in 0 .. (m + 1) - 1 PROVE g[k + 1] = D[<<k, g[k]>>]
    <3>1. k \in 0 .. m /\ g[k] = f[k] /\ k + 1 \in 0 .. m + 1
      BY <2>3
    <3>2. CASE k = m
      <4>1. m + 1 \in 0 .. m + 1 /\ ~(m + 1 <= m) /\ g[m] = f[m]
        BY <2>3, <3>1, <3>2
      <4>2. g[m + 1] = D[<<m, f[m]>>]
        BY <4>1
      <4> HIDE DEF g
      <4>3. QED
        BY <3>2, <4>1, <4>2
    <3>3. CASE k # m
      <4>1. k \in 0 .. m - 1 /\ k + 1 <= m
        BY <2>3, <3>1, <3>3
      <4>2. QED
        BY <2>2, <3>1, <4>1
    <3>4. QED
      BY <3>2, <3>3
  <2>6. g \in Approx(V, base, D, m + 1)
    <3> HIDE DEF g
    <3>1. QED
      BY <2>4, <2>5 DEF Approx
  <2>7. QED
    BY <2>3, <2>6
<1>4. T = Nat
  <2> HIDE DEF T
  <2>1. QED
    BY <1>1, <1>2, <1>3, Induct
<1>5. QED
  BY <1>4

\* f starts at base, and D gives each next value from the number and the value.
Unfolds(f, base, D) == f[0] = base /\ \A n \in Nat : f[n + 1] = D[<<n, f[n]>>]

LEMMA Recursion ==
    ASSUME NEW V, NEW base \in V, NEW D \in [Nat \X V -> V]
    PROVE  \E f \in [Nat -> V] : Unfolds(f, base, D)
<1> DEFINE A(n) == CHOOSE f \in Approx(V, base, D, n) : TRUE
           F == [n \in Nat |-> A(n)[n]]
<1>1. ASSUME NEW n \in Nat PROVE A(n) \in Approx(V, base, D, n)
  BY ApproxExists
<1> HIDE DEF A
<1>2. F \in [Nat -> V]
  BY <1>1 DEF Approx
<1>3. F[0] = base
  BY <1>1 DEF Approx
<1>4. ASSUME NEW n \in Nat PROVE F[n + 1] = D[<<n, F[n]>>]
  <2>1. A(n + 1)[n] = A(n)[n]
    BY <1>1, ApproxAgree
  <2>2. A(n + 1)[n + 1] = D[<<n, A(n + 1)[n]>>]
    BY <1>1 DEF Approx
  <2>3. QED
    BY <2>1, <2>2
<1>5. QED
  BY <1>2, <1>3, <1>4 DEF Unfolds

LEMMA Division ==
    ASSUME NEW a \in Nat, NEW b \in Nat \ {0}
    PROVE  a \div b \in Nat /\ a % b \in 0 .. b - 1 /\ a = b * (a \div b) + (a % b)
  OBVIOUS

LEMMA DivisionUnique ==
    ASSUME NEW b \in Nat \ {0}, NEW q \in Nat, NEW r \in 0 .. b - 1
    PROVE  (b * q + r) \div b = q /\ (b * q + r) % b = r
<1> DEFINE a == b * q + r
           p == a \div b
           m == a % b
<1>1. a \in Nat /\ p \in Nat /\ m \in 0 .. b - 1 /\ a = b * p + m
  OBVIOUS
<1>2. b * p + m = b * q + r
  BY <1>1
<1> HIDE DEF p, m
<1>3. ASSUME p < q PROVE FALSE
  <2>1. PICK d \in Nat : q = p + 1 + d
    <3>1. q - p - 1 \in Nat /\ q = p + 1 + (q - p - 1)
      BY <1>1, <1>3
    <3>2. QED
      BY <3>1
  <2>2. b * q = b * p + b + b * d /\ b * d \in Nat
    BY <1>1, <2>1
  <2>3. QED
    BY <1>1, <1>2, <2>2
<1>4. ASSUME q < p PROVE FALSE
  <2>1. PICK d \in Nat : p = q + 1 + d
    <3>1. p - q - 1 \in Nat /\ p = q + 1 + (p - q - 1)
      BY <1>1, <1>4
    <3>2. QED
      BY <3>1
  <2>2. b * p = b * q + b + b * d /\ b * d \in Nat
    BY <1>1, <2>1
  <2>3. QED
    BY <1>1, <1>2, <2>2
<1>5. p = q
  BY <1>1, <1>3, <1>4
<1>6. m = r
  BY <1>1, <1>2, <1>5
<1>7. QED
  BY <1>5, <1>6 DEF p, m

=============================================================================
