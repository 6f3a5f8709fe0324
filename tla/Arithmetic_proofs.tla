-------------------------- MODULE Arithmetic_proofs --------------------------
(***************************************************************************)
(* The arithmetic that the other proofs rest on.  What the vesting curves  *)
(* guarantee for every schedule: a curve stays between zero and the        *)
(* deposit, never falls as time passes and is its reference.  How close    *)
(* the balance display and the legs of a split are to it.  What sums of    *)
(* amounts do when an amount is added, changed or left out.                *)
(***************************************************************************)
EXTENDS SdkAmounts, FiniteSetTheorems, TLAPS

\* Multiplication by a natural number keeps an order.
LEMMA ProductMonotone ==
  ASSUME NEW k \in Nat, NEW a \in Int, NEW b \in Int, a <= b
  PROVE  k * a <= k * b
<1>1. k * (b - a) >= 0
  BY SMT
<1>2. k * (b - a) = k * b - k * a
  BY SMT
<1> QED BY <1>1, <1>2, SMT

\* Euclid: what div and mod mean, in the form the next lemmas use.
LEMMA DivMod ==
  ASSUME NEW n \in Nat, NEW d \in Nat \ {0}
  PROVE  /\ n \div d \in Nat
         /\ n % d \in 0..(d - 1)
         /\ n = d * (n \div d) + (n % d)
BY SMT

\* A larger dividend has no smaller quotient and, for the same quotient, no
\* smaller remainder.
LEMMA DivModMonotone ==
  ASSUME NEW m \in Nat, NEW n \in Nat, NEW d \in Nat \ {0}, m <= n
  PROVE  /\ m \div d <= n \div d
         /\ m \div d = n \div d => m % d <= n % d
<1> DEFINE p == m \div d
           q == n \div d
           r == m % d
           s == n % d
<1>1. /\ p \in Nat /\ r \in 0..(d - 1) /\ m = d * p + r
      /\ q \in Nat /\ s \in 0..(d - 1) /\ n = d * q + s
  BY DivMod
<1> HIDE DEF p, q, r, s
<1>2. p <= q
  <2> SUFFICES ASSUME q + 1 <= p PROVE FALSE
    BY <1>1, SMT
  <2>1. d * (q + 1) <= d * p
    BY <1>1, ProductMonotone
  <2>2. d * (q + 1) = d * q + d
    BY <1>1, SMT
  <2> QED BY <1>1, <2>1, <2>2, SMT
<1>3. p = q => r <= s
  BY <1>1, SMT
<1> QED BY <1>2, <1>3 DEF p, q, r, s

\* Half-even division yields a natural number.
LEMMA HalfEvenDivType ==
  ASSUME NEW n \in Nat, NEW d \in Nat \ {0}
  PROVE  HalfEvenDiv(n, d) \in Nat
<1>1. n \div d \in Nat
  BY DivMod
<1> QED BY <1>1 DEF HalfEvenDiv

\* Rounding half to even keeps the order of the dividends.
LEMMA HalfEvenDivMonotone ==
  ASSUME NEW m \in Nat, NEW n \in Nat, NEW d \in Nat \ {0}, m <= n
  PROVE  HalfEvenDiv(m, d) <= HalfEvenDiv(n, d)
<1> DEFINE p == m \div d
           q == n \div d
           r == m % d
           s == n % d
<1>1. /\ p \in Nat /\ r \in 0..(d - 1)
      /\ q \in Nat /\ s \in 0..(d - 1)
      /\ p <= q /\ (p = q => r <= s)
  BY DivMod, DivModMonotone
<1>2. /\ HalfEvenDiv(m, d) = IF RoundsUp(p, r, d) THEN p + 1 ELSE p
      /\ HalfEvenDiv(n, d) = IF RoundsUp(q, s, d) THEN q + 1 ELSE q
  BY DEF HalfEvenDiv
<1> HIDE DEF p, q, r, s
<1>3. CASE p < q
  BY <1>1, <1>2, <1>3, SMT
<1>4. CASE p = q
  <2>1. RoundsUp(p, r, d) => RoundsUp(q, s, d)
    BY <1>1, <1>4, SMT DEF RoundsUp
  <2> QED BY <1>1, <1>2, <1>4, <2>1, SMT
<1> QED BY <1>1, <1>3, <1>4, SMT

----------------------------------------------------------------------------
\* The linear curve stays between zero and the deposit.
LEMMA LinearRange ==
  ASSUME NEW D \in Nat, NEW s \in Int, NEW e \in Int, NEW t \in Int
  PROVE  linearAccrual(D, s, e, t) \in 0..D
<1>1. CASE t <= s \/ t >= e
  BY <1>1 DEF linearAccrual
<1>2. CASE s < t /\ t < e
  <2>1. D * (t - s) \in Nat /\ e - s \in Nat \ {0}
    BY <1>2, SMT
  <2>2. HalfEvenDiv(D * (t - s), e - s) \in Nat
    BY <2>1, HalfEvenDivType
  <2> QED BY <1>2, <2>2 DEF linearAccrual, MinOf, MaxOf
<1> QED BY <1>1, <1>2

\* The linear curve never falls.
LEMMA LinearMonotone ==
  ASSUME NEW D \in Nat, NEW s \in Int, NEW e \in Int, s < e,
         NEW t \in Int, NEW u \in Int, t <= u
  PROVE  linearAccrual(D, s, e, t) <= linearAccrual(D, s, e, u)
<1>1. linearAccrual(D, s, e, t) \in 0..D /\ linearAccrual(D, s, e, u) \in 0..D
  BY LinearRange
<1>2. CASE t <= s \/ u >= e
  BY <1>1, <1>2 DEF linearAccrual
<1>3. CASE s < t /\ u < e
  <2> DEFINE m == D * (t - s)
             n == D * (u - s)
             d == e - s
  <2>1. m \in Nat /\ n \in Nat /\ d \in Nat \ {0}
    BY <1>3, SMT
  <2>2. m <= n
    BY ProductMonotone, t - s <= u - s
  <2>3. HalfEvenDiv(m, d) \in Nat /\ HalfEvenDiv(n, d) \in Nat
    BY <2>1, HalfEvenDivType
  <2>4. HalfEvenDiv(m, d) <= HalfEvenDiv(n, d)
    BY <2>1, <2>2, HalfEvenDivMonotone
  <2>5. /\ linearAccrual(D, s, e, t) = MinOf(D, MaxOf(0, HalfEvenDiv(m, d)))
        /\ linearAccrual(D, s, e, u) = MinOf(D, MaxOf(0, HalfEvenDiv(n, d)))
    BY <1>3 DEF linearAccrual
  <2> HIDE DEF m, n, d
  <2> QED BY <2>3, <2>4, <2>5, SMT DEF MinOf, MaxOf
<1> QED BY <1>2, <1>3

\* The stepped curve stays between zero and the deposit.
LEMMA SteppedRange ==
  ASSUME NEW D \in Nat, NEW s \in Int, NEW i \in Int, NEW a \in Int,
         NEW t \in Int
  PROVE  steppedAccrual(D, s, i, a, t) \in 0..D
<1>1. CASE t <= s \/ i <= 0
  BY <1>1 DEF steppedAccrual
<1>2. CASE s < t /\ 0 < i
  <2>1. t - s \in Nat /\ i \in Nat \ {0}
    BY <1>2, SMT
  <2>2. (t - s) \div i \in Nat
    BY <2>1, DivMod
  <2>3. ((t - s) \div i) * a \in Int
    BY <2>2, SMT
  <2> QED BY <1>2, <2>3 DEF steppedAccrual, MinOf, MaxOf
<1> QED BY <1>1, <1>2

\* The stepped curve never falls; with a negative step amount it stays at zero.
LEMMA SteppedMonotone ==
  ASSUME NEW D \in Nat, NEW s \in Int, NEW i \in Int, NEW a \in Int,
         NEW t \in Int, NEW u \in Int, t <= u
  PROVE  steppedAccrual(D, s, i, a, t) <= steppedAccrual(D, s, i, a, u)
<1>1. steppedAccrual(D, s, i, a, t) \in 0..D /\ steppedAccrual(D, s, i, a, u) \in 0..D
  BY SteppedRange
<1>2. CASE t <= s \/ i <= 0
  BY <1>1, <1>2 DEF steppedAccrual
<1>3. CASE s < t /\ 0 < i
  <2> DEFINE p == (t - s) \div i
             q == (u - s) \div i
  <2>1. t - s \in Nat /\ u - s \in Nat /\ i \in Nat \ {0} /\ t - s <= u - s
    BY <1>3, SMT
  <2>2. p \in Nat /\ q \in Nat /\ p <= q
    BY <2>1, DivMod, DivModMonotone
  <2>3. /\ steppedAccrual(D, s, i, a, t) = MinOf(D, MaxOf(0, p * a))
        /\ steppedAccrual(D, s, i, a, u) = MinOf(D, MaxOf(0, q * a))
    BY <1>3 DEF steppedAccrual
  <2> HIDE DEF p, q
  <2>4. p * a \in Int /\ q * a \in Int
    BY <2>2, SMT
  <2>5. CASE a \in Nat
    <3>1. a * p <= a * q
      BY <2>2, <2>5, ProductMonotone
    <3>2. p * a <= q * a
      BY <2>2, <2>5, <3>1, SMT
    <3> QED BY <2>3, <2>4, <3>2, SMT DEF MinOf, MaxOf
  <2>6. CASE a \notin Nat
    <3>1. p * a <= 0 /\ q * a <= 0
      BY <2>2, <2>6, SMT
    <3> QED BY <2>3, <2>4, <3>1, SMT DEF MinOf, MaxOf
  <2> QED BY <2>5, <2>6
<1> QED BY <1>2, <1>3

----------------------------------------------------------------------------
\* Every curve stays between zero and the deposit, so what is withdrawable and
\* what is refundable always add up to what has not been withdrawn yet.
THEOREM AccrualRange ==
  ASSUME NEW vm \in VestingMode, NEW D \in Nat,
         NEW s \in Int, NEW e \in Int, NEW t \in Int
  PROVE  accruedAt(vm, D, s, e, t) \in 0..D
<1>1. CASE vm.kind \in {"Linear", "RenewableTerm"}
  BY <1>1, LinearRange DEF accruedAt
<1>2. CASE vm.kind = "CliffLinear"
  <2>1. vm.cliffTime \in Int
    BY <1>2 DEF VestingMode
  <2>2. accruedAt(vm, D, s, e, t) = cliffLinearAccrual(D, s, e, vm.cliffTime, t)
    BY <1>2 DEF accruedAt
  <2> QED BY <2>1, <2>2, LinearRange DEF cliffLinearAccrual
<1>3. CASE vm.kind = "Stepped"
  <2>1. vm.stepInterval \in Int /\ vm.amountPerStep \in Int
    BY <1>3 DEF VestingMode
  <2>2. accruedAt(vm, D, s, e, t)
          = steppedAccrual(D, s, vm.stepInterval, vm.amountPerStep, t)
    BY <1>3 DEF accruedAt
  <2> QED BY <2>1, <2>2, SteppedRange
<1> QED BY <1>1, <1>2, <1>3 DEF VestingMode

\* The recipient's entitlement never falls as time passes, rounding included,
\* whether or not the schedule is a well-formed one.
THEOREM AccrualMonotone ==
  ASSUME NEW vm \in VestingMode, NEW D \in Nat,
         NEW s \in Int, NEW e \in Int, s < e,
         NEW t \in Int, NEW u \in Int, t <= u
  PROVE  accruedAt(vm, D, s, e, t) <= accruedAt(vm, D, s, e, u)
<1>1. CASE vm.kind \in {"Linear", "RenewableTerm"}
  BY <1>1, LinearMonotone DEF accruedAt
<1>2. CASE vm.kind = "CliffLinear"
  <2>1. vm.cliffTime \in Int
    BY <1>2 DEF VestingMode
  <2>2. /\ accruedAt(vm, D, s, e, t) = cliffLinearAccrual(D, s, e, vm.cliffTime, t)
        /\ accruedAt(vm, D, s, e, u) = cliffLinearAccrual(D, s, e, vm.cliffTime, u)
    BY <1>2 DEF accruedAt
  <2>3. /\ linearAccrual(D, s, e, t) \in 0..D
        /\ linearAccrual(D, s, e, u) \in 0..D
        /\ linearAccrual(D, s, e, t) <= linearAccrual(D, s, e, u)
    BY LinearRange, LinearMonotone
  <2> QED BY <2>1, <2>2, <2>3, SMT DEF cliffLinearAccrual
<1>3. CASE vm.kind = "Stepped"
  <2>1. vm.stepInterval \in Int /\ vm.amountPerStep \in Int
    BY <1>3 DEF VestingMode
  <2>2. /\ accruedAt(vm, D, s, e, t)
             = steppedAccrual(D, s, vm.stepInterval, vm.amountPerStep, t)
        /\ accruedAt(vm, D, s, e, u)
             = steppedAccrual(D, s, vm.stepInterval, vm.amountPerStep, u)
    BY <1>3 DEF accruedAt
  <2> QED BY <2>1, <2>2, SteppedMonotone
<1> QED BY <1>1, <1>2, <1>3 DEF VestingMode

\* The assertion every cancellation makes holds whenever the recipient has not
\* been paid more than has accrued: it can block nothing else.
THEOREM CheckInvariantHolds ==
  ASSUME NEW D \in Nat, NEW accrued \in 0..D, NEW tw \in 0..accrued
  PROVE  checkInvariant(D, accrued, tw)
BY SMT DEF checkInvariant, withdrawable, refundable, MaxOf

----------------------------------------------------------------------------
\* Of the products a linear curve forms, the one just before the end is the largest.
LEMMA ProductsFit ==
  ASSUME NEW D \in Nat, NEW s \in Int, NEW e \in Int, s < e, NEW from \in Int, from < e
  PROVE  (\A t \in Int : s < t /\ t < e /\ from <= t => D * (t - s) <= MaxDecimal)
           <=> D * ((e - 1) - s) <= MaxDecimal
<1> DEFINE last == (e - 1) - s
<1>1. last \in Nat /\ D * last \in Nat
  BY SMT
<1>2. ASSUME D * last <= MaxDecimal, NEW t \in Int, s < t, t < e
      PROVE  D * (t - s) <= MaxDecimal
  <2>1. t - s \in Nat /\ t - s <= last
    BY <1>2, SMT
  <2>2. D * (t - s) <= D * last
    BY <1>1, <2>1, ProductMonotone
  <2>3. D * (t - s) \in Int
    BY <2>1, SMT
  <2> HIDE DEF last
  <2> QED BY <1>1, <1>2, <2>2, <2>3, MaxDecimalAssumption
<1>3. ASSUME \A t \in Int : s < t /\ t < e /\ from <= t => D * (t - s) <= MaxDecimal
      PROVE  D * last <= MaxDecimal
  <2>1. CASE last = 0
    <3>1. D * last = 0
      BY <2>1
    <3> QED BY <3>1, MaxDecimalAssumption
  <2>2. CASE last # 0
    <3>1. e - 1 \in Int /\ s < e - 1 /\ e - 1 < e /\ from <= e - 1
      BY <1>1, <2>2, SMT
    <3> QED BY <1>3, <3>1
  <2> QED BY <2>1, <2>2
<1> QED BY <1>2, <1>3

\* A curve can be evaluated at every instant of its term exactly when its largest
\* product fits a Decimal (Accrual.daml:36 multiplies before it divides); a stepped one
\* (:81) has no end, and once it cannot be evaluated it never can be again.
THEOREM WhenComputable ==
  ASSUME NEW vm \in VestingMode, validVestingMode(vm),
         NEW D \in Nat, NEW s \in Int, NEW e \in Int, s < e
  PROVE  /\ vm.kind \in {"Linear", "RenewableTerm"} =>
              ((\A t \in Int : Computable(vm, D, s, e, t))
                 <=> D * ((e - 1) - s) <= MaxDecimal)
         /\ vm.kind = "CliffLinear" =>
              ((\A t \in Int : Computable(vm, D, s, e, t))
                 <=> (vm.cliffTime < e => D * ((e - 1) - s) <= MaxDecimal))
         /\ vm.kind = "Stepped" =>
              \A u \in Int : Computable(vm, D, s, e, u) =>
                \A t \in Int : t <= u => Computable(vm, D, s, e, t)
<1>1. ASSUME vm.kind \in {"Linear", "RenewableTerm"}
      PROVE  (\A t \in Int : Computable(vm, D, s, e, t))
               <=> D * ((e - 1) - s) <= MaxDecimal
  <2>1. \A t \in Int : s < t /\ t < e /\ s <= t <=> s < t /\ t < e
    BY SMT
  <2>2. \A t \in Int : Computable(vm, D, s, e, t)
                         <=> (s < t /\ t < e /\ s <= t => D * (t - s) <= MaxDecimal)
    BY <1>1, <2>1 DEF Computable
  <2> QED BY <2>2, ProductsFit
<1>2. ASSUME vm.kind = "CliffLinear"
      PROVE  (\A t \in Int : Computable(vm, D, s, e, t))
               <=> (vm.cliffTime < e => D * ((e - 1) - s) <= MaxDecimal)
  <2>1. vm.cliffTime \in Int
    BY <1>2 DEF VestingMode
  <2>2. \A t \in Int : Computable(vm, D, s, e, t)
                         <=> (s < t /\ t < e /\ vm.cliffTime <= t => D * (t - s) <= MaxDecimal)
    BY <1>2 DEF Computable
  <2>3. CASE vm.cliffTime < e
    BY <2>1, <2>2, <2>3, ProductsFit
  <2>4. CASE ~(vm.cliffTime < e)
    <3>1. \A t \in Int : ~(t < e /\ vm.cliffTime <= t)
      BY <2>1, <2>4
    <3> QED BY <2>2, <2>4, <3>1
  <2> QED BY <2>3, <2>4
<1>3. ASSUME vm.kind = "Stepped", NEW u \in Int, Computable(vm, D, s, e, u),
             NEW t \in Int, t <= u
      PROVE  Computable(vm, D, s, e, t)
  <2> DEFINE i == vm.stepInterval
             a == vm.amountPerStep
             p == (t - s) \div i
             q == (u - s) \div i
  <2>1. i \in Nat \ {0} /\ a \in Nat
    BY <1>3 DEF VestingMode, validVestingMode
  <2> HIDE DEF i, a
  <2>2. SUFFICES ASSUME s < t PROVE p * a <= MaxDecimal
    BY <1>3, <2>1 DEF Computable, i, a
  <2>3. t - s \in Nat /\ u - s \in Nat /\ t - s <= u - s
    BY <1>3, <2>2, SMT
  <2>4. p \in Nat /\ q \in Nat /\ p <= q
    BY <2>1, <2>3, DivMod, DivModMonotone
  <2>5. q * a <= MaxDecimal
    BY <1>3, <2>1, <2>2 DEF Computable, i, a
  <2> HIDE DEF p, q
  <2>6. a * p <= a * q
    BY <2>1, <2>4, ProductMonotone
  <2>7. p * a = a * p /\ q * a = a * q /\ p * a \in Int /\ q * a \in Int
    BY <2>1, <2>4, SMT
  <2> QED BY <2>5, <2>6, <2>7, MaxDecimalAssumption
<1> QED BY <1>1, <1>2, <1>3

----------------------------------------------------------------------------
\* A quotient rounded half to even is nearest to the exact one, whatever the range it
\* is picked from.
LEMMA HalfEvenIsNearest ==
  ASSUME NEW n \in Nat, NEW d \in Nat \ {0}, NEW most \in Nat
  PROVE  IsNearest(HalfEvenDiv(n, d), n, d, most)
<1> DEFINE q == n \div d
           r == n % d
           a == HalfEvenDiv(n, d)
<1>1. q \in Nat /\ r \in 0..(d - 1) /\ n = d * q + r
  BY DivMod
<1>2. a = IF RoundsUp(q, r, d) THEN q + 1 ELSE q
  BY DEF HalfEvenDiv
<1>3. a % 2 = 0 \/ a % 2 = 1
  BY <1>1, <1>2, SMT
<1> HIDE DEF q, r, a
<1> SUFFICES ASSUME NEW k \in 0..most
             PROVE  \/ Distance(a * d, n) < Distance(k * d, n)
                    \/ Distance(a * d, n) = Distance(k * d, n) /\ (k = a \/ a % 2 = 0)
  BY DEF IsNearest, a
<1> DEFINE x == d * (k - q)
           ad == a * d
           kd == k * d
<1>4. x \in Int /\ kd \in Int /\ kd = d * q + x /\ d * q \in Nat
  BY <1>1, SMT
<1>5. ad = IF RoundsUp(q, r, d) THEN d * q + d ELSE d * q
  BY <1>1, <1>2, SMT
<1>6. /\ k < q => x <= -d
      /\ k = q => x = 0
      /\ k = q + 1 => x = d
      /\ k > q + 1 => x >= 2 * d
  <2>1. CASE k < q
    <3>1. d * (k - q) <= d * (-1)
      BY <1>1, <2>1, ProductMonotone, k - q <= -1
    <3>2. d * (-1) = -d
      BY SMT
    <3>3. x <= -d
      BY <3>1, <3>2
    <3> HIDE DEF x
    <3> QED BY <1>1, <2>1, <3>3
  <2>2. CASE k > q + 1
    <3>1. d * 2 <= d * (k - q)
      BY <1>1, <2>2, ProductMonotone, 2 <= k - q
    <3>2. d * 2 = 2 * d
      BY SMT
    <3>3. x >= 2 * d
      BY <3>1, <3>2, <1>4
    <3> HIDE DEF x
    <3> QED BY <1>1, <2>2, <3>3
  <2>3. CASE k = q \/ k = q + 1
    BY <1>1, <2>3, SMT
  <2> QED BY <1>1, <2>1, <2>2, <2>3
<1>7. a % 2 = 0 \/ (a = q /\ q % 2 = 1) \/ (a = q + 1 /\ q % 2 = 0)
  BY <1>1, <1>2, SMT
<1> HIDE DEF x, ad, kd
<1> DEFINE z == d * q
<1>8. z \in Nat /\ n = z + r /\ kd = z + x /\ ad = IF RoundsUp(q, r, d) THEN z + d ELSE z
  BY <1>1, <1>4, <1>5
<1> HIDE DEF z
<1>9. CASE RoundsUp(q, r, d)
  <2>1. a = q + 1 /\ Distance(ad, n) = d - r /\ (2 * r > d \/ (2 * r = d /\ q % 2 = 1))
    BY <1>1, <1>2, <1>8, <1>9 DEF Distance, RoundsUp
  <2>2. 2 * r = d => a % 2 = 0
    BY <1>1, <1>7, <2>1, SMT
  <2>3. CASE k <= q
    <3>1. x <= 0 /\ Distance(kd, n) = r - x
      BY <1>1, <1>4, <1>6, <1>8, <2>3 DEF Distance
    <3> QED BY <1>1, <1>4, <2>1, <2>2, <3>1 DEF ad, kd
  <2>4. CASE k = q + 1
    BY <2>1, <2>4 DEF ad, kd
  <2>5. CASE k > q + 1
    <3>1. Distance(kd, n) = x - r
      BY <1>1, <1>4, <1>6, <1>8, <2>5 DEF Distance
    <3> QED BY <1>1, <1>4, <1>6, <2>1, <2>5, <3>1 DEF ad, kd
  <2> QED BY <1>1, <2>3, <2>4, <2>5
<1>10. CASE ~RoundsUp(q, r, d)
  <2>1. a = q /\ Distance(ad, n) = r /\ ~(2 * r > d) /\ ~(2 * r = d /\ q % 2 = 1)
    BY <1>1, <1>2, <1>8, <1>10 DEF Distance, RoundsUp
  <2>2. 2 * r = d => a % 2 = 0
    BY <1>1, <1>3, <2>1
  <2>3. CASE k < q
    <3>1. x <= -d /\ Distance(kd, n) = r - x
      BY <1>1, <1>4, <1>6, <1>8, <2>3 DEF Distance
    <3> QED BY <1>1, <1>4, <2>1, <3>1 DEF ad, kd
  <2>4. CASE k = q
    BY <2>1, <2>4 DEF ad, kd
  <2>5. CASE k > q
    <3>1. x >= d /\ Distance(kd, n) = x - r
      BY <1>1, <1>4, <1>6, <1>8, <2>5 DEF Distance
    <3> QED BY <1>1, <1>4, <2>1, <2>2, <3>1 DEF ad, kd
  <2> QED BY <1>1, <2>3, <2>4, <2>5
<1> QED BY <1>9, <1>10

\* Before the end, the clamps of the linear curve have nothing to do.
LEMMA LinearIsNearest ==
  ASSUME NEW D \in Nat, NEW s \in Int, NEW e \in Int, NEW t \in Int, s < t, t < e
  PROVE  IsNearest(linearAccrual(D, s, e, t), D * (t - s), e - s, D)
<1> DEFINE n == D * (t - s)
           d == e - s
           q == n \div d
           r == n % d
<1>1. n \in Nat /\ d \in Nat \ {0}
  BY SMT
<1>2. n <= D * d
  <2>1. D * (t - s) <= D * (e - s)
    BY ProductMonotone, t - s <= e - s
  <2> QED BY <2>1
<1>3. q \in Nat /\ r \in 0..(d - 1) /\ n = d * q + r
  BY <1>1, DivMod
<1>4. linearAccrual(D, s, e, t) = MinOf(D, MaxOf(0, HalfEvenDiv(n, d)))
  BY DEF linearAccrual
<1>5. HalfEvenDiv(n, d) = IF RoundsUp(q, r, d) THEN q + 1 ELSE q
  BY DEF HalfEvenDiv
<1>6. d \in Nat /\ e - s = d /\ D * (t - s) = n
  BY <1>1
<1> HIDE DEF n, d, q, r
<1>7. q <= D /\ (r > 0 => q < D)
  <2>1. q <= D
    <3> SUFFICES ASSUME D + 1 <= q PROVE FALSE
      BY <1>3
    <3>1. d * (D + 1) <= d * q
      BY <1>3, <1>6, ProductMonotone
    <3>2. d * (D + 1) = D * d + d
      BY <1>6, SMT
    <3> QED BY <1>1, <1>2, <1>3, <3>1, <3>2, SMT
  <2>2. q = D => r = 0
    <3>1. d * D = D * d
      BY <1>6, SMT
    <3> QED BY <1>1, <1>2, <1>3, <3>1, SMT
  <2> QED BY <1>3, <2>1, <2>2
<1>8. HalfEvenDiv(n, d) \in 0..D
  <2>1. RoundsUp(q, r, d) => r > 0
    BY <1>1, <1>3 DEF RoundsUp
  <2> QED BY <1>3, <1>5, <1>7, <2>1
<1>9. linearAccrual(D, s, e, t) = HalfEvenDiv(n, d)
  BY <1>4, <1>8 DEF MinOf, MaxOf
<1> QED BY <1>1, <1>6, <1>9, HalfEvenIsNearest

\* Counting whole intervals pays the steps that have passed, and no other.
LEMMA SteppedPaysSteps ==
  ASSUME NEW D \in Nat, NEW s \in Int, NEW i \in Nat \ {0}, NEW a \in Nat, NEW t \in Int
  PROVE  PaysEveryStep(steppedAccrual(D, s, i, a, t), D, s, i, a, t)
<1> DEFINE passed == { k \in 1..(t - s) : s + k * i <= t }
           due == { n \in 0..D : \A k \in passed : n >= MinOf(D, k * a) }
           A == steppedAccrual(D, s, i, a, t)
<1> SUFFICES A \in due /\ \A n \in due : A <= n
  BY DEF PaysEveryStep
<1>1. A \in 0..D
  BY SteppedRange
<1>2. CASE t <= s
  <2>1. passed = {}
    BY <1>2
  <2>2. A = 0
    BY <1>2 DEF steppedAccrual
  <2> HIDE DEF A, passed
  <2>3. A \in due
    BY <1>1, <2>1
  <2>4. \A n \in due : A <= n
    BY <2>2
  <2> QED BY <2>3, <2>4
<1>3. CASE s < t
  <2> DEFINE q == (t - s) \div i
             r == (t - s) % i
  <2>1. t - s \in Nat
    BY <1>3
  <2>2. q \in Nat /\ r \in 0..(i - 1) /\ t - s = i * q + r
    BY <2>1, DivMod
  <2>3. A = MinOf(D, MaxOf(0, q * a))
    BY <1>3 DEF steppedAccrual
  <2> HIDE DEF q, r, A
  <2>4. q * a \in Nat
    BY <2>2, SMT
  <2>5. A = MinOf(D, q * a)
    BY <2>3, <2>4 DEF MaxOf
  <2>6. ASSUME NEW k \in passed PROVE k \in Nat /\ k <= q
    <3>1. k \in Nat /\ s + k * i <= t
      BY <2>1
    <3>2. i * k <= t - s
      BY <3>1, SMT
    <3> SUFFICES ASSUME q + 1 <= k PROVE FALSE
      BY <2>2, <3>1
    <3>3. i * (q + 1) <= i * k
      BY <2>2, <3>1, ProductMonotone
    <3>4. i * (q + 1) = i * q + i
      BY <2>2, SMT
    <3>5. i * k \in Int /\ i * q \in Int
      BY <2>2, <3>1, SMT
    <3> QED BY <2>1, <2>2, <3>2, <3>3, <3>4, <3>5
  <2>7. ASSUME NEW k \in passed PROVE A >= MinOf(D, k * a)
    <3>1. k \in Nat /\ k <= q
      BY <2>6
    <3>2. a * k <= a * q
      BY <2>2, <3>1, ProductMonotone
    <3>3. k * a <= q * a /\ k * a \in Nat
      BY <2>2, <3>1, <3>2, SMT
    <3> QED BY <2>4, <2>5, <3>3 DEF MinOf
  <2>8. A \in due
    BY <1>1, <2>7
  <2>9. ASSUME NEW n \in due PROVE A <= n
    <3>1. CASE q = 0
      <4>1. q * a = 0
        BY <3>1
      <4> QED BY <2>5, <2>9, <4>1 DEF MinOf
    <3>2. CASE q # 0
      <4>1. q <= i * q /\ i * q \in Nat /\ q * i = i * q
        <5>1. q * 1 <= q * i
          BY <2>2, ProductMonotone
        <5> QED BY <2>2, <5>1, SMT
      <4>2. q \in 1..(t - s) /\ s + q * i <= t
        BY <2>1, <2>2, <3>2, <4>1
      <4>3. n >= MinOf(D, q * a)
        BY <2>9, <4>2
      <4> QED BY <2>5, <4>3
    <3> QED BY <3>1, <3>2
  <2> QED BY <2>8, <2>9
<1> QED BY <1>2, <1>3

\* For every deposit, schedule and instant a curve is what it is meant to be: the
\* exact share rounded once, half to even (Accrual.daml:33, :57), or the steps that have
\* passed (Accrual.daml:66).
THEOREM CurvesAreExact ==
  ASSUME NEW vm \in VestingMode, validVestingMode(vm), NEW D \in Nat,
         NEW s \in Int, NEW e \in Int, s < e, NEW t \in Int
  PROVE  ExactAt(vm, D, s, e, t)
<1> DEFINE A == accruedAt(vm, D, s, e, t)
<1>1. CASE vm.kind \in {"Linear", "RenewableTerm"}
  <2>1. A = linearAccrual(D, s, e, t)
    BY <1>1 DEF accruedAt
  <2>2. s < t /\ t < e => IsNearest(A, D * (t - s), e - s, D)
    BY <2>1, LinearIsNearest
  <2> HIDE DEF A
  <2> QED BY <1>1, <2>2 DEF ExactAt, A
<1>2. CASE vm.kind = "CliffLinear"
  <2>1. vm.cliffTime \in Int
    BY <1>2 DEF VestingMode
  <2>2. A = cliffLinearAccrual(D, s, e, vm.cliffTime, t)
    BY <1>2 DEF accruedAt
  <2>3. t < vm.cliffTime => A = 0
    BY <2>2 DEF cliffLinearAccrual
  <2>4. s < t /\ t < e /\ ~(t < vm.cliffTime) => IsNearest(A, D * (t - s), e - s, D)
    <3>1. t < e /\ ~(t < vm.cliffTime) => A = linearAccrual(D, s, e, t)
      BY <2>2 DEF cliffLinearAccrual
    <3> QED BY <3>1, LinearIsNearest
  <2> HIDE DEF A
  <2> QED BY <1>2, <2>3, <2>4 DEF ExactAt, A
<1>3. CASE vm.kind = "Stepped"
  <2>1. vm.stepInterval \in Nat \ {0} /\ vm.amountPerStep \in Nat
    BY <1>3 DEF VestingMode, validVestingMode
  <2>2. A = steppedAccrual(D, s, vm.stepInterval, vm.amountPerStep, t)
    BY <1>3 DEF accruedAt
  <2>3. PaysEveryStep(A, D, s, vm.stepInterval, vm.amountPerStep, t)
    BY <2>1, <2>2, SteppedPaysSteps
  <2> HIDE DEF A
  <2> QED BY <1>3, <2>3 DEF ExactAt, A
<1> QED BY <1>1, <1>2, <1>3 DEF VestingMode

----------------------------------------------------------------------------
\* A quotient and a remainder are the only ones.
LEMMA QuotientIsOne ==
  ASSUME NEW d \in Nat \ {0}, NEW q \in Nat, NEW r \in 0..(d - 1)
  PROVE  (d * q + r) \div d = q /\ (d * q + r) % d = r
<1> DEFINE n == d * q + r
           p == n \div d
           o == n % d
<1>1. n \in Nat
  BY SMT
<1>2. p \in Nat /\ o \in 0..(d - 1) /\ n = d * p + o
  BY <1>1, DivMod
<1>3. n = d * q + r
  OBVIOUS
<1>4. d * q \in Nat
  BY SMT
<1> HIDE DEF n, p, o
<1>5. d * p \in Nat
  BY <1>2, SMT
<1>6. ~ p >= q + 1
  <2> SUFFICES ASSUME q + 1 <= p PROVE FALSE
    BY <1>2
  <2>1. d * (q + 1) <= d * p
    BY <1>2, ProductMonotone
  <2>2. d * (q + 1) = d * q + d
    BY SMT
  <2> QED BY <1>2, <1>3, <1>4, <1>5, <2>1, <2>2
<1>7. ~ q >= p + 1
  <2> SUFFICES ASSUME p + 1 <= q PROVE FALSE
    BY <1>2
  <2>1. d * (p + 1) <= d * q
    BY <1>2, ProductMonotone
  <2>2. d * (p + 1) = d * p + d
    BY <1>2, SMT
  <2> QED BY <1>2, <1>3, <1>4, <1>5, <2>1, <2>2
<1>8. p = q
  BY <1>2, <1>6, <1>7
<1>9. o = r
  BY <1>2, <1>3, <1>4, <1>8
<1> QED BY <1>8, <1>9 DEF n, p, o

\* A fraction and its multiple round alike.
LEMMA HalfEvenDivScales ==
  ASSUME NEW n \in Nat, NEW d \in Nat \ {0}, NEW k \in Nat \ {0}
  PROVE  HalfEvenDiv(n * k, d * k) = HalfEvenDiv(n, d)
<1> DEFINE q == n \div d
           r == n % d
           dk == d * k
           rk == r * k
<1>1. q \in Nat /\ r \in 0..(d - 1) /\ n = d * q + r
  BY DivMod
<1>2. HalfEvenDiv(n, d) = IF RoundsUp(q, r, d) THEN q + 1 ELSE q
  BY DEF HalfEvenDiv
<1> HIDE DEF q, r
<1>3. dk \in Nat \ {0}
  BY SMT
<1>4. rk \in 0..(dk - 1)
  <2>1. k * r <= k * (d - 1) /\ k * 0 <= k * r
    BY <1>1, ProductMonotone
  <2>2. k * (d - 1) = d * k - k /\ k * r = r * k
    BY <1>1, SMT
  <2>3. k * r \in Int /\ k * 0 = 0
    BY <1>1, SMT
  <2> QED BY <2>1, <2>2, <2>3, <1>3
<1>5. n * k = dk * q + rk
  BY <1>1, SMT
<1>6. (n * k) \div dk = q /\ (n * k) % dk = rk
  <2> HIDE DEF dk, rk
  <2> QED BY <1>1, <1>3, <1>4, <1>5, QuotientIsOne
<1>7. RoundsUp(q, rk, dk) <=> RoundsUp(q, r, d)
  <2> DEFINE g == 2 * r - d
  <2>1. g \in Int
    BY <1>1
  <2>2. 2 * rk - dk = k * g
    BY <1>1, SMT
  <2>3. (k * g > 0 <=> g > 0) /\ (k * g = 0 <=> g = 0)
    <3> HIDE DEF g
    <3>1. CASE g >= 1
      BY <2>1, <3>1, ProductMonotone, k * 1 <= k * g, k * 1 = k
    <3>2. CASE g = 0
      BY <3>2
    <3>3. CASE g <= -1
      <4>1. k * g <= k * (-1)
        BY <2>1, <3>3, ProductMonotone
      <4>2. k * (-1) = -k /\ k * g \in Int
        BY <2>1, SMT
      <4> QED BY <3>3, <4>1, <4>2, <2>1
    <3> QED BY <2>1, <3>1, <3>2, <3>3
  <2>4. (2 * rk > dk <=> 2 * r > d) /\ (2 * rk = dk <=> 2 * r = d)
    <3> DEFINE kg == k * g
    <3>1. kg \in Int
      BY <2>1, SMT
    <3> HIDE DEF kg, rk, dk
    <3> QED BY <1>1, <1>3, <1>4, <2>2, <2>3, <3>1 DEF kg
  <2> QED BY <2>4 DEF RoundsUp
<1> QED BY <1>2, <1>6, <1>7 DEF HalfEvenDiv

\* The larger fraction rounds to no less.
LEMMA HalfEvenDivOrders ==
  ASSUME NEW m \in Nat, NEW c \in Nat \ {0}, NEW n \in Nat, NEW d \in Nat \ {0},
         m * d <= n * c
  PROVE  HalfEvenDiv(m, c) <= HalfEvenDiv(n, d)
<1>1. m * d \in Nat /\ n * c \in Nat /\ c * d \in Nat \ {0} /\ c * d = d * c
  BY SMT
<1>2. HalfEvenDiv(m * d, c * d) <= HalfEvenDiv(n * c, c * d)
  BY <1>1, HalfEvenDivMonotone
<1> QED BY <1>1, <1>2, HalfEvenDivScales

\* Two linear curves of one deposit compare as the shares of their terms that have passed.
LEMMA LinearCompares ==
  ASSUME NEW D \in Nat, NEW s \in Int, NEW e \in Int, NEW t \in Int,
         NEW b \in Int, NEW f \in Int, NEW u \in Int,
         s < t => b < u,
         s < t /\ t >= e => u >= f,
         s < t /\ t < e /\ u < f => (t - s) * (f - b) <= (u - b) * (e - s)
  PROVE  linearAccrual(D, s, e, t) <= linearAccrual(D, b, f, u)
<1>1. linearAccrual(D, b, f, u) \in 0..D /\ linearAccrual(D, s, e, t) \in 0..D
  BY LinearRange
<1>2. CASE t <= s
  BY <1>1, <1>2 DEF linearAccrual
<1>3. CASE s < t /\ u >= f
  <2>1. linearAccrual(D, b, f, u) = D
    BY <1>3 DEF linearAccrual
  <2> QED BY <1>1, <2>1
<1>4. CASE s < t /\ u < f
  <2> DEFINE m == D * (t - s)
             c == e - s
             n == D * (u - b)
             d == f - b
  <2>1. t < e /\ b < u
    BY <1>4
  <2>2. m \in Nat /\ n \in Nat /\ c \in Nat \ {0} /\ d \in Nat \ {0}
    BY <1>4, <2>1, SMT
  <2>3. m * d <= n * c
    <3>1. (t - s) * d \in Int /\ (u - b) * c \in Int
      BY SMT
    <3>2. D * ((t - s) * d) <= D * ((u - b) * c)
      BY <1>4, <2>1, <3>1, ProductMonotone
    <3>3. m * d = D * ((t - s) * d) /\ n * c = D * ((u - b) * c)
      BY SMT
    <3> QED BY <3>2, <3>3
  <2>4. HalfEvenDiv(m, c) <= HalfEvenDiv(n, d)
    BY <2>2, <2>3, HalfEvenDivOrders
  <2>5. HalfEvenDiv(m, c) \in Nat /\ HalfEvenDiv(n, d) \in Nat
    BY <2>2, HalfEvenDivType
  <2>6. /\ linearAccrual(D, s, e, t) = MinOf(D, MaxOf(0, HalfEvenDiv(m, c)))
        /\ linearAccrual(D, b, f, u) = MinOf(D, MaxOf(0, HalfEvenDiv(n, d)))
    BY <1>4, <2>1 DEF linearAccrual
  <2> QED BY <2>4, <2>5, <2>6 DEF MinOf, MaxOf
<1> QED BY <1>2, <1>3, <1>4

\* A Date is the instant, less than a millisecond early.
LEMMA DateIsClose ==
  ASSUME NEW t \in Int
  PROVE  /\ AsDate(t) \in Int /\ Millisecond \in Nat \ {0}
         /\ AsDate(t) <= t /\ t < AsDate(t) + Millisecond
<1>1. Millisecond \in Nat \ {0}
  BY DisplayAssumption
<1> QED BY <1>1, SMT DEF AsDate

\* The schedule in Dates accrues what the schedule does, a millisecond early or late.
LEMMA LinearDisplay ==
  ASSUME NEW D \in Nat, NEW s \in Int, NEW e \in Int, s < e, NEW t \in Int
  PROVE  LET shown == linearAccrual(D, AsDate(s), AsDate(e), AsDate(t))
         IN  /\ shown <= linearAccrual(D, s, e, t + Millisecond)
             /\ linearAccrual(D, s, e, t - Millisecond) <= shown
<1> DEFINE b == AsDate(s)
           f == AsDate(e)
           u == AsDate(t)
           ms == Millisecond
<1>1. /\ b \in Int /\ f \in Int /\ u \in Int /\ ms \in Nat \ {0}
      /\ b <= s /\ s < b + ms /\ f <= e /\ e < f + ms /\ u <= t /\ t < u + ms
  BY DateIsClose
<1> HIDE DEF b, f, u, ms
<1> DEFINE x == u - b
           y == f - b
<1>2. linearAccrual(D, b, f, u) <= linearAccrual(D, s, e, t + ms)
  <2> DEFINE later == t + ms
  <2>1. ASSUME b < u, u < f
        PROVE  (u - b) * (e - s) <= (later - s) * (f - b)
    <3> DEFINE g == (e - f) - (s - b)
               h == (t - u) + ms - (s - b)
    <3>1. x \in Nat /\ y \in Nat /\ x <= y /\ g \in Int /\ h \in Nat /\ g <= h
      BY <1>1, <2>1
    <3>2. e - s = y + g /\ later - s = x + h /\ u - b = x /\ f - b = y
      BY <1>1
    <3> HIDE DEF x, y, g, h
    <3>3. x * g <= x * h /\ h * x <= h * y
      BY <3>1, ProductMonotone
    <3>4. x * g \in Int /\ x * h = h * x /\ h * x \in Int /\ h * y \in Int /\ x * y \in Int
      BY <3>1, SMT
    <3>5. x * (y + g) = x * y + x * g /\ (x + h) * y = x * y + h * y
      BY <3>1, SMT
    <3>6. x * (y + g) <= (x + h) * y
      BY <3>3, <3>4, <3>5
    <3> QED BY <3>2, <3>6
  <2>2. later \in Int /\ (b < u => s < later) /\ (b < u /\ u >= f => later >= e)
    BY <1>1
  <2>3. b < u /\ u < f /\ later < e => (u - b) * (e - s) <= (later - s) * (f - b)
    BY <2>1
  <2> HIDE DEF later
  <2>4. linearAccrual(D, b, f, u) <= linearAccrual(D, s, e, later)
    BY <1>1, <2>2, <2>3, LinearCompares
  <2> QED BY <2>4 DEF later
<1>3. linearAccrual(D, s, e, t - ms) <= linearAccrual(D, b, f, u)
  <2>1. ASSUME s < t - ms, u < f
        PROVE  (t - ms - s) * (f - b) <= (u - b) * (e - s)
    <3> DEFINE g == (s - b) - (e - f)
               h == ms + (s - b) - (t - u)
    <3>1. x \in Nat /\ y \in Nat /\ x <= y /\ g \in Int /\ h \in Nat /\ g <= h
      BY <1>1, <2>1
    <3>2. e - s = y - g /\ t - ms - s = x - h /\ u - b = x /\ f - b = y
      BY <1>1
    <3> HIDE DEF x, y, g, h
    <3>3. x * g <= x * h /\ h * x <= h * y
      BY <3>1, ProductMonotone
    <3>4. x * g \in Int /\ x * h = h * x /\ h * x \in Int /\ h * y \in Int /\ x * y \in Int
      BY <3>1, SMT
    <3>5. x * (y - g) = x * y - x * g /\ (x - h) * y = x * y - h * y
      BY <3>1, SMT
    <3>6. (x - h) * y <= x * (y - g)
      BY <3>3, <3>4, <3>5
    <3> QED BY <3>2, <3>6
  <2> DEFINE earlier == t - ms
  <2>2. earlier \in Int /\ (s < earlier => b < u) /\ (s < earlier /\ earlier >= e => u >= f)
    BY <1>1
  <2>3. s < earlier /\ earlier < e /\ u < f => (earlier - s) * (f - b) <= (u - b) * (e - s)
    BY <2>1
  <2> HIDE DEF earlier
  <2>4. linearAccrual(D, s, e, earlier) <= linearAccrual(D, b, f, u)
    BY <1>1, <2>2, <2>3, LinearCompares
  <2> QED BY <2>4 DEF earlier
<1> QED BY <1>2, <1>3 DEF b, f, u, ms

\* The same for the curve with a cliff, whose instant is a Date as well.
LEMMA CliffDisplay ==
  ASSUME NEW D \in Nat, NEW s \in Int, NEW e \in Int, s < e, NEW c \in Int, NEW t \in Int
  PROVE  LET shown == cliffLinearAccrual(D, AsDate(s), AsDate(e), AsDate(c), AsDate(t))
         IN  /\ shown <= cliffLinearAccrual(D, s, e, c, t + Millisecond)
             /\ cliffLinearAccrual(D, s, e, c, t - Millisecond) <= shown
<1> DEFINE b == AsDate(s)
           f == AsDate(e)
           g == AsDate(c)
           u == AsDate(t)
           ms == Millisecond
           shown == cliffLinearAccrual(D, b, f, g, u)
<1>1. /\ b \in Int /\ f \in Int /\ u \in Int /\ g \in Int /\ ms \in Nat \ {0}
      /\ f <= e /\ e < f + ms /\ g <= c /\ c < g + ms /\ u <= t /\ t < u + ms
  BY DateIsClose
<1>2. /\ linearAccrual(D, b, f, u) <= linearAccrual(D, s, e, t + ms)
      /\ linearAccrual(D, s, e, t - ms) <= linearAccrual(D, b, f, u)
  BY LinearDisplay
<1>3. /\ linearAccrual(D, s, e, t + ms) \in 0..D /\ linearAccrual(D, s, e, t - ms) \in 0..D
      /\ linearAccrual(D, b, f, u) \in 0..D
  <2>1. t + ms \in Int /\ t - ms \in Int
    BY <1>1
  <2> QED BY <1>1, <2>1, LinearRange
<1> HIDE DEF b, f, g, u, ms
<1>4. shown <= cliffLinearAccrual(D, s, e, c, t + ms)
  <2>1. CASE u < g
    BY <1>1, <1>3, <2>1 DEF cliffLinearAccrual
  <2>2. CASE u >= g /\ u >= f
    BY <1>1, <2>2 DEF cliffLinearAccrual
  <2>3. CASE u >= g /\ u < f
    BY <1>1, <1>2, <1>3, <2>3 DEF cliffLinearAccrual
  <2> QED BY <1>1, <2>1, <2>2, <2>3
<1>5. cliffLinearAccrual(D, s, e, c, t - ms) <= shown
  <2>1. CASE t - ms < c
    BY <1>1, <1>3, <2>1 DEF cliffLinearAccrual
  <2>2. CASE t - ms >= c /\ t - ms >= e
    BY <1>1, <2>2 DEF cliffLinearAccrual
  <2>3. CASE t - ms >= c /\ t - ms < e
    BY <1>1, <1>2, <1>3, <2>3 DEF cliffLinearAccrual
  <2> QED BY <1>1, <2>1, <2>2, <2>3
<1> QED BY <1>4, <1>5 DEF b, f, g, u, ms

\* An interval is not cut to Dates: a stepped curve shifts as a whole.
LEMMA SteppedDisplay ==
  ASSUME NEW D \in Nat, NEW s \in Int, NEW i \in Int, NEW a \in Int, NEW t \in Int
  PROVE  LET shown == steppedAccrual(D, AsDate(s), i, a, AsDate(t))
         IN  /\ shown <= steppedAccrual(D, s, i, a, t + Millisecond)
             /\ steppedAccrual(D, s, i, a, t - Millisecond) <= shown
<1> DEFINE b == AsDate(s)
           u == AsDate(t)
           ms == Millisecond
<1>1. /\ b \in Int /\ u \in Int /\ ms \in Nat \ {0}
      /\ b <= s /\ s < b + ms /\ u <= t /\ t < u + ms
  BY DateIsClose
<1> HIDE DEF b, u, ms
<1>2. ASSUME NEW z \in Int, NEW v \in Int
      PROVE  steppedAccrual(D, z, i, a, v) = steppedAccrual(D, 0, i, a, v - z)
  BY DEF steppedAccrual
<1> DEFINE early == t - ms - s
           mid == u - b
           late == (t + ms) - s
<1>3. /\ early \in Int /\ mid \in Int /\ late \in Int /\ 0 \in Int
      /\ early <= mid /\ mid <= late
      /\ t - ms \in Int /\ t + ms \in Int
  BY <1>1
<1>4. /\ steppedAccrual(D, s, i, a, t - ms) = steppedAccrual(D, 0, i, a, early)
      /\ steppedAccrual(D, b, i, a, u) = steppedAccrual(D, 0, i, a, mid)
      /\ steppedAccrual(D, s, i, a, t + ms) = steppedAccrual(D, 0, i, a, late)
  <2>1. steppedAccrual(D, s, i, a, t - ms) = steppedAccrual(D, 0, i, a, t - ms - s)
    BY <1>2, <1>3
  <2>2. steppedAccrual(D, b, i, a, u) = steppedAccrual(D, 0, i, a, u - b)
    BY <1>1, <1>2
  <2>3. steppedAccrual(D, s, i, a, t + ms) = steppedAccrual(D, 0, i, a, (t + ms) - s)
    BY <1>2, <1>3
  <2> QED BY <2>1, <2>2, <2>3
<1> HIDE DEF early, mid, late
<1>5. /\ steppedAccrual(D, 0, i, a, early) <= steppedAccrual(D, 0, i, a, mid)
      /\ steppedAccrual(D, 0, i, a, mid) <= steppedAccrual(D, 0, i, a, late)
  BY <1>3, SteppedMonotone
<1> QED BY <1>4, <1>5 DEF b, u, ms

\* The balance display (sdk/src/accrual/calculator.ts) never drifts from the ledger's
\* curves by more than a millisecond, for every schedule, instant and amount withdrawn,
\* although it computes with instants that a Date has cut; and it throws for no
\* schedule that a stream can have.
THEOREM DisplayKeepsUp ==
  ASSUME NEW vm \in VestingMode, NEW D \in Nat, NEW s \in Int, NEW e \in Int, s < e,
         NEW w \in Nat, NEW t \in Int
  PROVE  ShownAt(vm, D, s, e, w, t)
<1> DEFINE shown == accruedAt(DateMode(vm), D, AsDate(s), AsDate(e), AsDate(t))
           balances == getBalances("Active", vm, D, s, e, w, t)
           before == accruedAt(vm, D, s, e, t - Millisecond)
           after == accruedAt(vm, D, s, e, t + Millisecond)
<1>1. before <= shown /\ shown <= after
  <2>1. CASE vm.kind \in {"Linear", "RenewableTerm"}
    BY <2>1, LinearDisplay DEF DateMode, accruedAt
  <2>2. CASE vm.kind = "CliffLinear"
    <3>1. vm.cliffTime \in Int
      BY <2>2 DEF VestingMode
    <3> QED BY <2>2, <3>1, CliffDisplay DEF DateMode, accruedAt, CliffLinear
  <2>3. CASE vm.kind = "Stepped"
    <3>1. vm.stepInterval \in Int /\ vm.amountPerStep \in Int
      BY <2>3 DEF VestingMode
    <3> QED BY <2>3, <3>1, SteppedDisplay DEF DateMode, accruedAt
  <2> QED BY <2>1, <2>2, <2>3 DEF VestingMode
<1>2. before \in 0..D /\ after \in 0..D
  <2>1. t - Millisecond \in Int /\ t + Millisecond \in Int
    BY DateIsClose
  <2> QED BY <2>1, AccrualRange
<1>3. shown \in 0..D
  <2>1. DateMode(vm) \in VestingMode
    BY DateIsClose DEF DateMode, VestingMode, CliffLinear
  <2> QED BY <2>1, AccrualRange, DateIsClose
<1>4. CASE ThrowsError(vm)
  <2>1. balances.withdrawable = Thrown
    BY <1>4 DEF getBalances, ActiveBalances, computeAccrual, NoBalances
  <2>2. ~validVestingMode(vm)
    <3>1. vm.kind = "Stepped" /\ vm.stepInterval \in Int /\ vm.stepInterval <= 0
      BY <1>4 DEF ThrowsError, VestingMode
    <3> QED BY <3>1 DEF validVestingMode
  <2> HIDE DEF balances
  <2>3. (balances.withdrawable = Thrown) => ShownAt(vm, D, s, e, w, t)
    BY <2>2 DEF ShownAt, balances
  <2> QED BY <2>1, <2>3
<1>5. CASE ~ThrowsError(vm)
  <2>1. computeAccrual(vm, D, s, e, t) = shown
    BY <1>5 DEF computeAccrual
  <2> HIDE DEF shown, before, after
  <2>2. shown # Thrown
    BY <1>3 DEF Thrown
  <2>3. balances.withdrawable = withdrawable(shown, w)
    BY <2>1, <2>2 DEF getBalances, ActiveBalances
  <2>4. withdrawable(shown, w) \in Nat
    BY <1>3 DEF withdrawable, MaxOf
  <2>5. balances.withdrawable # Thrown
    BY <2>3, <2>4 DEF Thrown
  <2>6. withdrawable(before, w) <= withdrawable(shown, w) /\ withdrawable(shown, w) <= withdrawable(after, w)
    BY <1>1, <1>2, <1>3 DEF withdrawable, MaxOf
  <2> QED BY <2>3, <2>5, <2>6 DEF ShownAt, before, after
<1> QED BY <1>4, <1>5

----------------------------------------------------------------------------
(* Sums *)

\* A finite family of amounts, and the part of it over a set.
Summable(f) == IsFiniteSet(DOMAIN f) /\ \A x \in DOMAIN f : f[x] \in Nat
Part(f, S) == [x \in S |-> f[x]]

LEMMA UnitsAre ==
  ASSUME NEW f, NEW u
  PROVE  u \in Units(f) <=> \E x \in DOMAIN f : \E k \in 1 .. f[x] : u = <<x, k>>
BY DEF Units

\* The units of one member.
LEMMA UnitsOfOne ==
  ASSUME NEW x, NEW n \in Nat
  PROVE  IsFiniteSet({x} \X (1 .. n)) /\ Cardinality({x} \X (1 .. n)) = n
<1>1. IsFiniteSet({x}) /\ Cardinality({x}) = 1
  BY FS_Singleton
<1>2. IsFiniteSet(1 .. n) /\ Cardinality(1 .. n) = n
  BY FS_Interval
<1>3. /\ IsFiniteSet({x} \X (1 .. n))
      /\ Cardinality({x} \X (1 .. n)) = Cardinality({x}) * Cardinality(1 .. n)
  BY <1>1, <1>2, FS_Product
<1> QED
  BY <1>1, <1>2, <1>3

LEMMA UnitsFinite ==
  ASSUME NEW f, Summable(f)
  PROVE  IsFiniteSet(Units(f)) /\ Total(f) \in Nat
<1> DEFINE of == [x \in DOMAIN f |-> {x} \X (1 .. f[x])]
           S == { {x} \X (1 .. f[x]) : x \in DOMAIN f }
<1>1. of \in Surjection(DOMAIN f, S)
  BY DEF Surjection
<1>2. IsFiniteSet(S)
  BY <1>1, FS_Surjection DEF Summable
<1>3. ASSUME NEW T \in S PROVE IsFiniteSet(T)
  <2>1. PICK x \in DOMAIN f : T = {x} \X (1 .. f[x])
    OBVIOUS
  <2>2. f[x] \in Nat
    BY DEF Summable
  <2> QED BY <2>1, <2>2, UnitsOfOne
<1>4. IsFiniteSet(Units(f))
  BY <1>2, <1>3, FS_UNION DEF Units
<1> QED
  BY <1>4, FS_CardinalityType DEF Total

LEMMA PartFacts ==
  ASSUME NEW f, Summable(f), NEW S \in SUBSET DOMAIN f
  PROVE  Summable(Part(f, S)) /\ DOMAIN Part(f, S) = S /\ Total(Part(f, S)) \in Nat
<1>1. Summable(Part(f, S)) /\ DOMAIN Part(f, S) = S
  BY FS_Subset DEF Summable, Part
<1> QED
  BY <1>1, UnitsFinite

LEMMA TotalOfNothing ==
  ASSUME NEW f, DOMAIN f = {}
  PROVE  Total(f) = 0
<1>1. Units(f) = {}
  BY UnitsAre
<1> QED
  BY <1>1, FS_EmptySet DEF Total

LEMMA TotalOfOne ==
  ASSUME NEW f, NEW x, DOMAIN f = {x}, f[x] \in Nat
  PROVE  Total(f) = f[x]
<1>1. Units(f) = {x} \X (1 .. f[x])
  BY DEF Units
<1> QED
  BY <1>1, UnitsOfOne DEF Total

\* A sum splits along any division of its family.
LEMMA TotalSplits ==
  ASSUME NEW f, Summable(f), NEW S \in SUBSET DOMAIN f
  PROVE  Total(f) = Total(Part(f, S)) + Total(Part(f, DOMAIN f \ S))
<1> DEFINE g == Part(f, S)
           h == Part(f, DOMAIN f \ S)
<1>1. Summable(g) /\ Summable(h) /\ DOMAIN g = S /\ DOMAIN h = DOMAIN f \ S
  BY PartFacts
<1>2. (\A x \in S : g[x] = f[x]) /\ (\A x \in DOMAIN f \ S : h[x] = f[x])
  BY DEF Part
<1> HIDE DEF g, h
<1>3. ASSUME NEW u PROVE u \in Units(f) <=> u \in Units(g) \cup Units(h)
  BY <1>1, <1>2, UnitsAre
<1>4. Units(f) = Units(g) \cup Units(h)
  BY <1>3
<1>5. Units(g) \cap Units(h) = {}
  <2> SUFFICES ASSUME NEW u \in Units(g), u \in Units(h) PROVE FALSE
    OBVIOUS
  <2>1. PICK x \in S : \E k \in 1 .. g[x] : u = <<x, k>>
    BY <1>1, UnitsAre
  <2>2. PICK y \in DOMAIN f \ S : \E k \in 1 .. h[y] : u = <<y, k>>
    BY <1>1, UnitsAre
  <2> QED BY <2>1, <2>2
<1>6. IsFiniteSet(Units(g)) /\ IsFiniteSet(Units(h)) /\ Total(g) \in Nat /\ Total(h) \in Nat
  BY <1>1, UnitsFinite
<1>7. Total(f) = Total(g) + Total(h)
  <2>1. Cardinality(Units(g) \cup Units(h))
          = Cardinality(Units(g)) + Cardinality(Units(h)) - Cardinality(Units(g) \cap Units(h))
    BY <1>6, FS_Union
  <2>2. Cardinality(Units(g) \cap Units(h)) = 0
    BY <1>5, FS_EmptySet
  <2> QED BY <1>4, <1>6, <2>1, <2>2 DEF Total
<1> QED
  BY <1>7 DEF g, h

\* One more member adds its amount.
LEMMA TotalExtends ==
  ASSUME NEW f, NEW g, NEW x, Summable(f), x \notin DOMAIN f, DOMAIN g = DOMAIN f \cup {x},
         \A y \in DOMAIN f : g[y] = f[y], g[x] \in Nat, f = [y \in DOMAIN f |-> f[y]]
  PROVE  Summable(g) /\ Total(g) = Total(f) + g[x]
<1>1. Summable(g)
  BY FS_AddElement DEF Summable
<1>2. DOMAIN g \ {x} = DOMAIN f /\ {x} \in SUBSET DOMAIN g
  OBVIOUS
<1>3. Part(g, DOMAIN f) = f
  BY DEF Part
<1>4. Total(Part(g, {x})) = g[x]
  BY TotalOfOne DEF Part
<1>5. Total(g) = Total(Part(g, {x})) + Total(Part(g, DOMAIN f))
  BY <1>1, <1>2, TotalSplits
<1>6. Total(f) \in Nat
  BY UnitsFinite
<1> QED
  BY <1>1, <1>3, <1>4, <1>5, <1>6

\* Taking a member out.
LEMMA TotalWithout ==
  ASSUME NEW f, Summable(f), NEW x \in DOMAIN f
  PROVE  /\ Total(f) = Total(Part(f, DOMAIN f \ {x})) + f[x]
         /\ Total(Part(f, DOMAIN f \ {x})) \in Nat
         /\ f[x] <= Total(f)
<1>1. {x} \in SUBSET DOMAIN f /\ DOMAIN f \ {x} \in SUBSET DOMAIN f
  OBVIOUS
<1>2. Total(Part(f, {x})) = f[x]
  BY TotalOfOne DEF Part, Summable
<1>3. Total(f) = Total(Part(f, {x})) + Total(Part(f, DOMAIN f \ {x}))
  BY <1>1, TotalSplits
<1>4. Total(Part(f, DOMAIN f \ {x})) \in Nat /\ f[x] \in Nat
  BY <1>1, PartFacts DEF Summable
<1> QED
  BY <1>2, <1>3, <1>4

\* A family whose members have distinct counterparts of at least their amounts sums
\* up to no more.
LEMMA TotalInjects ==
  ASSUME NEW f, NEW g, Summable(f), Summable(g), NEW h \in [DOMAIN f -> DOMAIN g],
         \A x, y \in DOMAIN f : h[x] = h[y] => x = y,
         \A x \in DOMAIN f : f[x] <= g[h[x]]
  PROVE  Total(f) <= Total(g)
<1> DEFINE into == [u \in Units(f) |-> <<h[u[1]], u[2]>>]
<1>1. \A u \in Units(f) : u[1] \in DOMAIN f /\ u[2] \in 1 .. f[u[1]] /\ u = <<u[1], u[2]>>
  BY UnitsAre
<1>2. ASSUME NEW u \in Units(f) PROVE into[u] \in Units(g)
  <2>1. h[u[1]] \in DOMAIN g /\ f[u[1]] \in Nat /\ g[h[u[1]]] \in Nat /\ f[u[1]] <= g[h[u[1]]]
    BY <1>1 DEF Summable
  <2>2. u[2] \in 1 .. g[h[u[1]]]
    BY <1>1, <2>1
  <2>3. into[u] = <<h[u[1]], u[2]>>
    OBVIOUS
  <2> HIDE DEF into
  <2> QED BY <2>1, <2>2, <2>3, UnitsAre
<1>3. ASSUME NEW u \in Units(f), NEW v \in Units(f), into[u] = into[v] PROVE u = v
  <2>1. h[u[1]] = h[v[1]] /\ u[2] = v[2]
    BY <1>3
  <2> QED BY <2>1, <1>1
<1>4. into \in Injection(Units(f), Units(g))
  <2>1. into \in [Units(f) -> Units(g)]  BY <1>2
  <2> HIDE DEF into
  <2> QED BY <2>1, <1>3 DEF Injection, IsInjective
<1>5. IsFiniteSet(Units(g))
  BY UnitsFinite
<1> QED
  BY <1>4, <1>5, FS_Injection DEF Total

LEMMA TotalMonotone ==
  ASSUME NEW f, NEW g, Summable(f), Summable(g), DOMAIN f \subseteq DOMAIN g,
         \A x \in DOMAIN f : f[x] <= g[x]
  PROVE  Total(f) <= Total(g)
<1> DEFINE h == [x \in DOMAIN f |-> x]
<1>1. h \in [DOMAIN f -> DOMAIN g] /\ \A x \in DOMAIN f : h[x] = x
  OBVIOUS
<1> HIDE DEF h
<1> QED
  BY <1>1, TotalInjects

\* Changing one member changes the sum by as much.
LEMMA TotalChanges ==
  ASSUME NEW f, NEW g, Summable(f), DOMAIN g = DOMAIN f, NEW x \in DOMAIN f, g[x] \in Nat,
         \A y \in DOMAIN f \ {x} : g[y] = f[y]
  PROVE  Summable(g) /\ Total(g) = Total(f) - f[x] + g[x]
<1>1. Summable(g)
  BY DEF Summable
<1>2. Part(g, DOMAIN f \ {x}) = Part(f, DOMAIN f \ {x})
  BY DEF Part
<1>3. /\ Total(f) = Total(Part(f, DOMAIN f \ {x})) + f[x]
      /\ Total(Part(f, DOMAIN f \ {x})) \in Nat
  BY TotalWithout
<1>4. Total(g) = Total(Part(g, DOMAIN f \ {x})) + g[x]
  BY <1>1, TotalWithout
<1>5. f[x] \in Nat
  BY DEF Summable
<1> QED
  BY <1>1, <1>2, <1>3, <1>4, <1>5

\* A family of equal amounts.
LEMMA TotalOfEqual ==
  ASSUME NEW S, IsFiniteSet(S), NEW c \in Nat
  PROVE  LET f == [x \in S |-> c] IN Summable(f) /\ Total(f) = c * Cardinality(S)
<1> DEFINE f == [x \in S |-> c]
<1>1. Units(f) = S \X (1 .. c)
  BY DEF Units
<1>2. IsFiniteSet(1 .. c) /\ Cardinality(1 .. c) = c
  BY FS_Interval
<1>3. Cardinality(S \X (1 .. c)) = Cardinality(S) * c /\ Cardinality(S) \in Nat
  BY <1>2, FS_Product, FS_CardinalityType
<1>4. Summable(f)
  BY DEF Summable
<1>5. Total(f) = Cardinality(S) * c
  BY <1>1, <1>3 DEF Total
<1> HIDE DEF f
<1>6. Total(f) = c * Cardinality(S)
  BY <1>3, <1>5, SMT
<1> QED BY <1>4, <1>6 DEF f

\* Each amount multiplied alike multiplies the sum: a unit becomes k of them.
LEMMA TotalScales ==
  ASSUME NEW f, Summable(f), NEW k \in Nat \ {0}
  PROVE  LET g == [x \in DOMAIN f |-> k * f[x]]
         IN  Summable(g) /\ Total(g) = k * Total(f)
<1> DEFINE g == [x \in DOMAIN f |-> k * f[x]]
           S == Units(f) \X (1 .. k)
           to == [p \in S |-> <<p[1][1], k * (p[1][2] - 1) + p[2]>>]
<1>1. \A x \in DOMAIN f : f[x] \in Nat /\ g[x] = k * f[x] /\ g[x] \in Nat
  <2> SUFFICES ASSUME NEW x \in DOMAIN f PROVE f[x] \in Nat /\ k * f[x] \in Nat
    OBVIOUS
  <2>1. f[x] \in Nat
    BY DEF Summable
  <2> QED BY <2>1, SMT
<1>2. Summable(g) /\ DOMAIN g = DOMAIN f
  BY <1>1 DEF Summable
<1>3. \A p \in S : /\ p[1][1] \in DOMAIN f /\ p[1][2] \in 1 .. f[p[1][1]] /\ p[2] \in 1 .. k
                   /\ p = <<<<p[1][1], p[1][2]>>, p[2]>>
  <2> SUFFICES ASSUME NEW p \in S
               PROVE  /\ p[1][1] \in DOMAIN f /\ p[1][2] \in 1 .. f[p[1][1]] /\ p[2] \in 1 .. k
                      /\ p = <<<<p[1][1], p[1][2]>>, p[2]>>
    OBVIOUS
  <2>1. p[1] \in Units(f) /\ p[2] \in 1 .. k /\ p = <<p[1], p[2]>>
    OBVIOUS
  <2>2. PICK x \in DOMAIN f : \E j \in 1 .. f[x] : p[1] = <<x, j>>
    BY <2>1, UnitsAre
  <2> QED BY <2>1, <2>2
<1> HIDE DEF g
<1>4. ASSUME NEW p \in S PROVE to[p] \in Units(g)
  <2> DEFINE x == p[1][1]
             j == p[1][2]
             m == p[2]
             n == k * (j - 1) + m
  <2>1. x \in DOMAIN g /\ f[x] \in Nat /\ j \in 1 .. f[x] /\ m \in 1 .. k /\ g[x] = k * f[x]
    BY <1>1, <1>2, <1>3
  <2>2. to[p] = <<x, n>>
    OBVIOUS
  <2> HIDE DEF x, j, m
  <2>3. n \in 1 .. g[x]
    <3>1. k * 0 <= k * (j - 1) /\ k * j <= k * f[x]
      BY <2>1, ProductMonotone
    <3>2. k * (j - 1) = k * j - k /\ k * 0 = 0 /\ k * j \in Int /\ k * f[x] \in Int
      BY <2>1, SMT
    <3> QED BY <2>1, <3>1, <3>2
  <2> HIDE DEF n, to
  <2> QED BY <1>1, <1>2, <2>1, <2>2, <2>3, UnitsAre
<1>5. ASSUME NEW p \in S, NEW q \in S, to[p] = to[q] PROVE p = q
  <2>1. /\ p[1][1] = q[1][1]
        /\ k * (p[1][2] - 1) + p[2] = k * (q[1][2] - 1) + q[2]
    BY <1>5
  <2> DEFINE i == p[1][2] - 1
             j == q[1][2] - 1
             m == p[2] - 1
             n == q[2] - 1
  <2>2. i \in Nat /\ j \in Nat /\ m \in 0 .. (k - 1) /\ n \in 0 .. (k - 1)
    BY <1>1, <1>3
  <2>3. k * i + m = k * j + n
    <3>1. k * i \in Int /\ k * j \in Int
      BY <2>2, SMT
    <3>2. p[2] \in Int /\ q[2] \in Int /\ k * i + p[2] = k * j + q[2]
      BY <1>3, <2>1
    <3> QED BY <3>1, <3>2
  <2> HIDE DEF i, j, m, n
  <2>4. i = j /\ m = n
    <3>1. (k * i + m) \div k = i /\ (k * i + m) % k = m
      BY <2>2, QuotientIsOne
    <3>2. (k * j + n) \div k = j /\ (k * j + n) % k = n
      BY <2>2, QuotientIsOne
    <3> QED BY <2>3, <3>1, <3>2, Zenon
  <2>5. p[1][2] = q[1][2] /\ p[2] = q[2]
    <3>1. p[1][2] \in Int /\ q[1][2] \in Int /\ p[2] \in Int /\ q[2] \in Int
      BY <1>1, <1>3
    <3> QED BY <2>4, <3>1 DEF i, j, m, n
  <2>6. p = <<<<p[1][1], p[1][2]>>, p[2]>> /\ q = <<<<q[1][1], q[1][2]>>, q[2]>>
    BY <1>3
  <2> QED BY <2>1, <2>5, <2>6
<1>6. ASSUME NEW u \in Units(g) PROVE \E p \in S : to[p] = u
  <2>1. PICK x \in DOMAIN f : \E n \in 1 .. g[x] : u = <<x, n>>
    BY <1>2, UnitsAre
  <2>2. PICK n \in 1 .. g[x] : u = <<x, n>>
    BY <2>1
  <2> DEFINE i == (n - 1) \div k
             m == (n - 1) % k
             p == <<<<x, i + 1>>, m + 1>>
  <2>3. f[x] \in Nat /\ g[x] = k * f[x]
    BY <1>1
  <2>4. i \in Nat /\ m \in 0 .. (k - 1) /\ n - 1 = k * i + m
    BY <2>2, <2>3, DivMod, n - 1 \in Nat
  <2> HIDE DEF i, m
  <2>5. i + 1 <= f[x]
    <3> SUFFICES ASSUME f[x] <= i PROVE FALSE
      BY <2>3, <2>4
    <3>1. k * f[x] <= k * i
      BY <2>3, <2>4, ProductMonotone
    <3>2. k * f[x] \in Int /\ k * i \in Int
      BY <2>3, <2>4, SMT
    <3> QED BY <2>2, <2>3, <2>4, <3>1, <3>2
  <2>6. <<x, i + 1>> \in Units(f)
    BY <2>3, <2>4, <2>5, UnitsAre
  <2>7. p \in S
    BY <2>4, <2>6
  <2>8. k * ((i + 1) - 1) + (m + 1) = n
    <3>1. (i + 1) - 1 = i /\ k * i \in Int
      BY <2>4, SMT
    <3> QED BY <2>2, <2>4, <3>1
  <2> QED BY <2>2, <2>7, <2>8
<1>7. to \in Surjection(S, Units(g)) /\ to \in Injection(S, Units(g))
  <2>1. to \in [S -> Units(g)]
    BY <1>4
  <2> HIDE DEF to, S
  <2> QED BY <2>1, <1>5, <1>6 DEF Surjection, Injection, IsInjective
<1>8. IsFiniteSet(S) /\ Cardinality(S) = Total(f) * k /\ Total(f) \in Nat
  <2>1. IsFiniteSet(1 .. k) /\ Cardinality(1 .. k) = k
    BY FS_Interval
  <2>2. IsFiniteSet(Units(f)) /\ Total(f) \in Nat
    BY UnitsFinite
  <2> QED BY <2>1, <2>2, FS_Product DEF Total
<1> HIDE DEF S, to
<1>9. Total(g) = k * Total(f)
  BY <1>7, <1>8, FS_Surjection DEF Total
<1> QED BY <1>2, <1>9 DEF g

\* Two families of the same members add up member by member.
LEMMA TotalAdds ==
  ASSUME NEW f, NEW g, Summable(f), Summable(g), DOMAIN f = DOMAIN g
  PROVE  LET h == [x \in DOMAIN f |-> f[x] + g[x]]
         IN  Summable(h) /\ Total(h) = Total(f) + Total(g)
<1> DEFINE h == [x \in DOMAIN f |-> f[x] + g[x]]
           to == [u \in Units(g) |-> <<u[1], f[u[1]] + u[2]>>]
           W == { to[u] : u \in Units(g) }
<1>1. \A x \in DOMAIN f : f[x] \in Nat /\ g[x] \in Nat /\ h[x] = f[x] + g[x] /\ h[x] \in Nat
  BY DEF Summable
<1>2. Summable(h) /\ DOMAIN h = DOMAIN f
  BY <1>1 DEF Summable
<1> HIDE DEF h
<1>3. \A u \in Units(g) : /\ u[1] \in DOMAIN f /\ u[2] \in 1 .. g[u[1]]
                          /\ u = <<u[1], u[2]>>
  BY UnitsAre
<1>4. to \in Surjection(Units(g), W) /\ to \in Injection(Units(g), W)
  <2>1. ASSUME NEW u \in Units(g), NEW v \in Units(g), to[u] = to[v] PROVE u = v
    <3>1. u[1] = v[1] /\ f[u[1]] + u[2] = f[v[1]] + v[2]
      BY <2>1
    <3> DEFINE a == f[u[1]]
               m == u[2]
               n == v[2]
    <3>2. a \in Nat /\ m \in Int /\ n \in Int
      BY <1>1, <1>3
    <3>3. a + m = a + n
      BY <3>1
    <3>4. m = n
      <4> HIDE DEF a, m, n
      <4> QED BY <3>2, <3>3
    <3> QED BY <1>3, <3>1, <3>4
  <2>2. to \in [Units(g) -> W]
    OBVIOUS
  <2>3. \A w \in W : \E u \in Units(g) : to[u] = w
    OBVIOUS
  <2> HIDE DEF to, W
  <2> QED BY <2>1, <2>2, <2>3 DEF Surjection, Injection, IsInjective
<1>5. ASSUME NEW w
      PROVE  w \in W <=> \E x \in DOMAIN f : \E n \in (f[x] + 1) .. h[x] : w = <<x, n>>
  <2>1. ASSUME w \in W
        PROVE  \E x \in DOMAIN f : \E n \in (f[x] + 1) .. h[x] : w = <<x, n>>
    <3>1. PICK u \in Units(g) : w = to[u]
      BY <2>1
    <3>2. w = <<u[1], f[u[1]] + u[2]>>
      BY <3>1
    <3>3. u[1] \in DOMAIN f /\ f[u[1]] + u[2] \in (f[u[1]] + 1) .. h[u[1]]
      BY <1>1, <1>3
    <3> QED BY <3>2, <3>3
  <2>2. ASSUME NEW x \in DOMAIN f, NEW n \in (f[x] + 1) .. h[x], w = <<x, n>>
        PROVE  w \in W
    <3>1. n - f[x] \in 1 .. g[x] /\ f[x] + (n - f[x]) = n
      BY <1>1, <2>2
    <3>2. <<x, n - f[x]>> \in Units(g)
      BY <3>1, UnitsAre
    <3> QED BY <2>2, <3>1, <3>2
  <2> QED BY <2>1, <2>2
<1> HIDE DEF to, W
<1>6. Units(h) = Units(f) \cup W
  <2>1. ASSUME NEW u PROVE u \in Units(h) <=> u \in Units(f) \/ u \in W
    <3>1. u \in Units(h) <=> \E x \in DOMAIN f : \E n \in 1 .. h[x] : u = <<x, n>>
      BY <1>2, UnitsAre
    <3>2. u \in Units(f) <=> \E x \in DOMAIN f : \E n \in 1 .. f[x] : u = <<x, n>>
      BY UnitsAre
    <3>3. \A x \in DOMAIN f : \A n : n \in 1 .. h[x] <=> n \in 1 .. f[x] \/ n \in (f[x] + 1) .. h[x]
      BY <1>1
    <3> QED BY <1>5, <3>1, <3>2, <3>3, Zenon
  <2> QED BY <2>1
<1>7. Units(f) \cap W = {}
  <2> SUFFICES ASSUME NEW u \in Units(f), u \in W PROVE FALSE
    OBVIOUS
  <2>1. PICK x \in DOMAIN f : \E n \in 1 .. f[x] : u = <<x, n>>
    BY UnitsAre
  <2>2. PICK y \in DOMAIN f : \E n \in (f[y] + 1) .. h[y] : u = <<y, n>>
    BY <1>5
  <2> QED BY <1>1, <2>1, <2>2
<1>8. /\ IsFiniteSet(Units(f)) /\ Total(f) \in Nat
      /\ IsFiniteSet(Units(g)) /\ Total(g) \in Nat
  BY UnitsFinite
<1>9. IsFiniteSet(W) /\ Cardinality(W) = Total(g)
  BY <1>4, <1>8, FS_Surjection DEF Total
<1>10. Total(h) = Total(f) + Total(g)
  BY <1>6, <1>7, <1>8, <1>9, FS_Union, FS_EmptySet DEF Total
<1> QED BY <1>2, <1>10 DEF h

----------------------------------------------------------------------------
\* Rounding half to even is off by half a unit at most.
LEMMA HalfEvenDivError ==
  ASSUME NEW n \in Nat, NEW d \in Nat \ {0}
  PROVE  LET off == d * HalfEvenDiv(n, d) - n IN -d <= 2 * off /\ 2 * off <= d
<1> DEFINE q == n \div d
           r == n % d
           a == HalfEvenDiv(n, d)
<1>1. q \in Nat /\ r \in 0..(d - 1) /\ n = d * q + r
  BY DivMod
<1>2. a = IF RoundsUp(q, r, d) THEN q + 1 ELSE q
  BY DEF HalfEvenDiv
<1> HIDE DEF q, r, a
<1>3. d * q \in Nat /\ d * (q + 1) = d * q + d
  BY <1>1, SMT
<1>4. CASE RoundsUp(q, r, d)
  <2>1. d * a = d * q + d /\ 2 * r >= d
    BY <1>1, <1>2, <1>3, <1>4 DEF RoundsUp
  <2>2. d * a - n = d - r
    BY <1>1, <1>3, <2>1
  <2> QED BY <1>1, <2>1, <2>2 DEF a
<1>5. CASE ~RoundsUp(q, r, d)
  <2>1. d * a = d * q /\ 2 * r <= d
    BY <1>1, <1>2, <1>5 DEF RoundsUp
  <2>2. d * a - n = -r
    BY <1>1, <1>3, <2>1
  <2> QED BY <1>1, <2>1, <2>2 DEF a
<1> QED BY <1>4, <1>5

\* The legs of a distribution, as a family of amounts.
LEMMA LegsFacts ==
  ASSUME NEW legs \in Seq(Nat), legs # <<>>
  PROVE  /\ Summable(legs) /\ Len(legs) \in Nat \ {0} /\ DOMAIN legs = 1..Len(legs)
         /\ SumOfLegs(legs) \in Nat
         /\ \A i \in DOMAIN legs : legs[i] \in Nat /\ legs[i] <= SumOfLegs(legs)
<1>1. Len(legs) \in Nat \ {0} /\ DOMAIN legs = 1..Len(legs) /\ \A i \in DOMAIN legs : legs[i] \in Nat
  OBVIOUS
<1>2. Summable(legs)
  BY <1>1, FS_Interval DEF Summable
<1> QED BY <1>1, <1>2, TotalWithout, UnitsFinite DEF SumOfLegs

\* Below twenty digits decimal.js loses none, so the client's legs are the contract's.
LEMMA SplitsAlwaysAgree ==
  ASSUME NEW rule \in {"percentage", "fixed"}, NEW gross \in Nat,
         NEW legs \in Seq(Nat), legs # <<>>,
         rule = "percentage" => SumOfLegs(legs) = Whole
  PROVE  SplitsAgree(rule, gross, legs)
<1> DEFINE perPeriod == SumOfLegs(legs)
           L == Len(legs)
           amounts == distributionAmounts(rule, gross, perPeriod, legs)
           sent == calculateDistributionAmounts(rule, gross, perPeriod, legs)
           theirs == [ i \in 1..L - 1 |-> decimal10Amount(rule, gross, perPeriod, legs[i]) ]
           ours == [ i \in 1..L - 1 |-> ruleAmount(rule, gross, perPeriod, legs[i]) ]
           last == gross - Total(ours)
<1>1. /\ L \in Nat \ {0} /\ DOMAIN legs = 1..L /\ perPeriod \in Nat
      /\ \A i \in DOMAIN legs : legs[i] \in Nat /\ legs[i] <= perPeriod
  BY LegsFacts
<1>2. Precise \in Nat
  BY SplitAssumption
<1> SUFFICES ASSUME gross * Whole < Precise, gross * perPeriod < Precise
             PROVE  IF sent = <<>> THEN amounts[L] < 0 ELSE sent = amounts
  BY DEF SplitsAgree
<1>3. ASSUME NEW i \in DOMAIN legs
      PROVE  decimal10Amount(rule, gross, perPeriod, legs[i])
               = ruleAmount(rule, gross, perPeriod, legs[i])
  <2>1. gross * legs[i] <= gross * perPeriod
    BY <1>1, ProductMonotone
  <2>2. gross * legs[i] \in Int /\ gross * perPeriod \in Int
    BY <1>1, SMT
  <2>3. kept(gross * legs[i]) = gross * legs[i]
    BY <1>2, <2>1, <2>2 DEF kept
  <2> QED BY <2>3 DEF decimal10Amount, ruleAmount
<1>4. theirs = ours
  BY <1>1, <1>3
<1>5. amounts = [ i \in DOMAIN legs |->
                    IF i < L THEN ruleAmount(rule, gross, perPeriod, legs[i]) ELSE last ]
  BY DEF distributionAmounts
<1>6. sent = IF gross - Total(theirs) < 0 THEN <<>>
             ELSE [ i \in DOMAIN legs |->
                      IF i < L THEN decimal10Amount(rule, gross, perPeriod, legs[i])
                               ELSE gross - Total(theirs) ]
  BY DEF calculateDistributionAmounts
<1>7. amounts[L] = last
  BY <1>1, <1>5
<1> HIDE DEF amounts, sent, ours, theirs
<1>8. CASE last < 0
  BY <1>4, <1>6, <1>7, <1>8
<1>9. CASE ~(last < 0)
  <2>1. sent = [ i \in DOMAIN legs |->
                   IF i < L THEN decimal10Amount(rule, gross, perPeriod, legs[i]) ELSE last ]
    BY <1>4, <1>6, <1>9
  <2>2. sent = amounts
    BY <1>1, <1>3, <1>5, <2>1
  <2>3. sent # <<>>
    BY <1>1, <2>1
  <2> QED BY <2>2, <2>3
<1> QED BY <1>8, <1>9

\* The last leg takes what the others leave, so it is off by what they are, together:
\* by half a unit for each at most.
LEMMA SharesAlwaysHonoured ==
  ASSUME NEW gross \in Nat, NEW legs \in Seq(Nat), legs # <<>>, SumOfLegs(legs) = Whole
  PROVE  SharesHonoured(gross, legs)
<1> DEFINE L == Len(legs)
           O == 1..L - 1
           share == [ i \in O |-> HalfEvenDiv(gross * legs[i], Whole) ]
           exact == [ i \in O |-> legs[i] ]
           amounts == distributionAmounts("percentage", gross, SumOfLegs(legs), legs)
           T == Total(share)
           E == Total(exact)
           n == L - 1
<1>1. /\ Summable(legs) /\ L \in Nat \ {0} /\ DOMAIN legs = 1..L
      /\ \A i \in DOMAIN legs : legs[i] \in Nat
  BY LegsFacts
<1>2. Whole \in Nat \ {0}
  BY SplitAssumption
<1>3. \A i \in O : legs[i] \in Nat /\ gross * legs[i] \in Nat /\ share[i] \in Nat
  <2> SUFFICES ASSUME NEW i \in O
               PROVE  legs[i] \in Nat /\ gross * legs[i] \in Nat
                      /\ HalfEvenDiv(gross * legs[i], Whole) \in Nat
    OBVIOUS
  <2>1. legs[i] \in Nat
    BY <1>1
  <2>2. gross * legs[i] \in Nat
    BY <2>1, SMT
  <2> QED BY <1>2, <2>1, <2>2, HalfEvenDivType
<1>4. \A i \in O : -Whole <= 2 * (Whole * share[i] - gross * exact[i])
                   /\ 2 * (Whole * share[i] - gross * exact[i]) <= Whole
  BY <1>2, <1>3, HalfEvenDivError
<1>5. IsFiniteSet(O) /\ Cardinality(O) = n /\ n \in Nat
  <2>1. n \in Nat /\ 1 \in Int /\ n \in Int /\ O = 1..n
    BY <1>1
  <2> HIDE DEF n, O
  <2>2. IsFiniteSet(1..n) /\ Cardinality(1..n) = IF 1 > n THEN 0 ELSE n - 1 + 1
    BY <2>1, FS_Interval
  <2> QED BY <2>1, <2>2
<1>6. Summable(share) /\ Summable(exact) /\ DOMAIN share = O /\ DOMAIN exact = O
      /\ T \in Nat /\ E \in Nat
  <2>1. Summable(share) /\ Summable(exact)
    BY <1>3, <1>5 DEF Summable
  <2> QED BY <2>1, UnitsFinite
<1>7. Whole = E + legs[L]
  <2>1. Part(legs, DOMAIN legs \ {L}) = exact
    BY <1>1 DEF Part
  <2> QED BY <1>1, <2>1, TotalWithout DEF SumOfLegs
<1>8. \A i \in DOMAIN legs : amounts[i] = IF i < L THEN share[i] ELSE gross - T
  BY <1>1 DEF distributionAmounts, ruleAmount
<1> HIDE DEF O, share, exact, amounts, n
<1> DEFINE paid == [ i \in DOMAIN share |-> (2 * Whole) * share[i] ]
           owed == [ i \in DOMAIN exact |-> (2 * gross) * exact[i] ]
           half == [ i \in O |-> Whole ]
<1>9. /\ Summable(paid) /\ Total(paid) = (2 * Whole) * T /\ Total(paid) \in Nat
      /\ DOMAIN paid = O
  <2>1. 2 * Whole \in Nat \ {0}
    BY <1>2
  <2> QED BY <1>6, <2>1, TotalScales, UnitsFinite
<1>10. /\ Summable(owed) /\ Total(owed) = (2 * gross) * E /\ Total(owed) \in Nat
       /\ DOMAIN owed = O
  <2>1. CASE gross = 0
    <3>1. \A i \in DOMAIN exact : owed[i] = 0
      BY <1>6, <2>1 DEF Summable
    <3>2. owed = [ i \in O |-> 0 ]
      BY <1>6, <3>1
    <3>3. Summable(owed) /\ Total(owed) = 0 * Cardinality(O)
      BY <1>5, <3>2, TotalOfEqual
    <3> QED BY <1>5, <1>6, <2>1, <3>2, <3>3
  <2>2. CASE gross # 0
    <3>1. 2 * gross \in Nat \ {0}
      BY <2>2
    <3> QED BY <1>6, <3>1, TotalScales, UnitsFinite
  <2> QED BY <2>1, <2>2
<1>11. Summable(half) /\ Total(half) = Whole * n /\ DOMAIN half = O /\ Total(half) \in Nat
  <2>1. Summable(half) /\ Total(half) = Whole * n
    BY <1>2, <1>5, TotalOfEqual
  <2> QED BY <2>1, UnitsFinite
<1>12. \A i \in O : /\ paid[i] \in Nat /\ owed[i] \in Nat /\ half[i] = Whole
                    /\ paid[i] <= owed[i] + half[i] /\ owed[i] <= paid[i] + half[i]
  <2> SUFFICES ASSUME NEW i \in O
               PROVE  /\ paid[i] \in Nat /\ owed[i] \in Nat /\ half[i] = Whole
                      /\ paid[i] <= owed[i] + half[i] /\ owed[i] <= paid[i] + half[i]
    OBVIOUS
  <2>1. paid[i] \in Nat /\ owed[i] \in Nat /\ half[i] = Whole
    BY <1>9, <1>10 DEF Summable
  <2>2. share[i] \in Nat /\ exact[i] \in Nat
    BY <1>6 DEF Summable
  <2>3. /\ paid[i] = 2 * (Whole * share[i]) /\ owed[i] = 2 * (gross * exact[i])
        /\ Whole * share[i] \in Int /\ gross * exact[i] \in Int
    <3>1. paid[i] = (2 * Whole) * share[i] /\ owed[i] = (2 * gross) * exact[i]
      BY <1>6
    <3>2. /\ (2 * Whole) * share[i] = 2 * (Whole * share[i]) /\ Whole * share[i] \in Int
      BY <1>2, <2>2, SMT
    <3>3. /\ (2 * gross) * exact[i] = 2 * (gross * exact[i]) /\ gross * exact[i] \in Int
      BY <2>2, SMT
    <3> HIDE DEF paid, owed
    <3> QED BY <3>1, <3>2, <3>3
  <2> DEFINE a == Whole * share[i]
             c == gross * exact[i]
             h == Whole
  <2>4. -h <= 2 * (a - c) /\ 2 * (a - c) <= h
    BY <1>4
  <2>5. /\ paid[i] = 2 * a /\ owed[i] = 2 * c /\ a \in Int /\ c \in Int
        /\ half[i] = h /\ h \in Nat
    BY <1>2, <2>1, <2>3
  <2> HIDE DEF paid, owed, half, a, c, h
  <2>6. paid[i] <= owed[i] + half[i] /\ owed[i] <= paid[i] + half[i]
    BY <2>4, <2>5
  <2> QED BY <2>1, <2>6
<1> HIDE DEF paid, owed, half
<1>13. Total(paid) <= Total(owed) + Total(half)
  <2> DEFINE h == [ i \in DOMAIN owed |-> owed[i] + half[i] ]
  <2>1. Summable(h) /\ Total(h) = Total(owed) + Total(half)
    BY <1>10, <1>11, TotalAdds
  <2>2. DOMAIN paid \subseteq DOMAIN h /\ \A i \in DOMAIN paid : paid[i] <= h[i]
    BY <1>9, <1>10, <1>12
  <2> HIDE DEF h
  <2>3. Total(paid) <= Total(h)
    BY <1>9, <2>1, <2>2, TotalMonotone
  <2> QED BY <2>1, <2>3
<1>14. Total(owed) <= Total(paid) + Total(half)
  <2> DEFINE h == [ i \in DOMAIN paid |-> paid[i] + half[i] ]
  <2>1. Summable(h) /\ Total(h) = Total(paid) + Total(half)
    BY <1>9, <1>11, TotalAdds
  <2>2. DOMAIN owed \subseteq DOMAIN h /\ \A i \in DOMAIN owed : owed[i] <= h[i]
    BY <1>9, <1>10, <1>12
  <2> HIDE DEF h
  <2>3. Total(owed) <= Total(h)
    BY <1>10, <2>1, <2>2, TotalMonotone
  <2> QED BY <2>1, <2>3
<1>15. 2 * ((gross - T) * Whole - gross * legs[L]) = Total(owed) - Total(paid)
  <2>1. legs[L] = Whole - E /\ legs[L] \in Nat
    BY <1>1, <1>2, <1>6, <1>7
  <2>2. (gross - T) * Whole - gross * (Whole - E) = gross * E - Whole * T
    BY <1>2, <1>6, SMT
  <2>3. 2 * (gross * E - Whole * T) = (2 * gross) * E - (2 * Whole) * T
    BY <1>2, <1>6, SMT
  <2> QED BY <1>9, <1>10, <2>1, <2>2, <2>3
<1> SUFFICES ASSUME NEW i \in DOMAIN legs
             PROVE  LET off == amounts[i] * Whole - gross * legs[i]
                        slack == IF i < L THEN Whole ELSE n * Whole
                    IN  -slack <= 2 * off /\ 2 * off <= slack
  BY DEF SharesHonoured, amounts, n
<1>16. CASE i < L
  <2>1. i \in O
    BY <1>1, <1>16 DEF O
  <2>2. amounts[i] = share[i] /\ exact[i] = legs[i] /\ share[i] \in Nat
    BY <1>3, <1>8, <1>16, <2>1 DEF exact
  <2>3. share[i] * Whole = Whole * share[i]
    BY <1>2, <2>2, SMT
  <2> QED BY <1>4, <1>16, <2>1, <2>2, <2>3
<1>17. CASE ~(i < L)
  <2>1. i = L /\ amounts[i] = gross - T
    BY <1>1, <1>8, <1>17
  <2>2. n * Whole = Whole * n /\ n * Whole \in Nat
    BY <1>2, <1>5, SMT
  <2> DEFINE off == (gross - T) * Whole - gross * legs[L]
             slack == n * Whole
  <2>3. -slack <= 2 * off /\ 2 * off <= slack
    <3>1. 2 * off = Total(owed) - Total(paid) /\ Total(half) = slack
      BY <1>11, <1>15, <2>2
    <3> HIDE DEF off, slack
    <3> QED BY <1>9, <1>10, <1>11, <1>13, <1>14, <3>1
  <2> QED BY <1>17, <2>1, <2>3
<1> QED BY <1>16, <1>17

\* Every distribution is split fairly, whatever its rule, its legs and the gross amount:
\* the legs the client sends (sdk/src/commands/distribution.ts:290) are those the
\* contract computes (DistributionStream.daml:69), and each is its own rounded share.
THEOREM SplitsAreAlwaysFair ==
  ASSUME NEW rule \in {"percentage", "fixed"}, NEW gross \in Nat, NEW legs \in Seq(Nat),
         validDistributionLegs(rule, SumOfLegs(legs), legs)
  PROVE  /\ SplitsAgree(rule, gross, legs)
         /\ rule = "percentage" => SharesHonoured(gross, legs)
<1>1. legs # <<>> /\ (rule = "percentage" => SumOfLegs(legs) = Whole)
  BY DEF validDistributionLegs
<1> QED BY <1>1, SplitsAlwaysAgree, SharesAlwaysHonoured
=============================================================================
