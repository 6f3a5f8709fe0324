------------------------------ MODULE Accrual ------------------------------
(***************************************************************************)
(* The vesting curves of CantonStreams.Stream.Accrual: pure functions from *)
(* a schedule and an instant to the amount the recipient has earned.       *)
(*                                                                         *)
(* Amounts are counted in minimal units of the ledger's Decimal (10^-10    *)
(* token), so an amount is an integer; instants are microseconds.          *)
(* Decimal division rounds half to even.  Decimal arithmetic that leaves   *)
(* the representable range aborts the transaction: Computable says when a  *)
(* curve can be evaluated, and the choices that evaluate one require it.   *)
(***************************************************************************)
EXTENDS Integers

CONSTANT MaxDecimal     \* largest Decimal, in minimal units

ASSUME MaxDecimalAssumption == MaxDecimal \in Nat \ {0}

----------------------------------------------------------------------------

Linear == [kind |-> "Linear"]
CliffLinear(cliff) == [kind |-> "CliffLinear", cliffTime |-> cliff]
Stepped(interval, amount) ==
  [kind |-> "Stepped", stepInterval |-> interval, amountPerStep |-> amount]
RenewableTerm(duration) ==
  [kind |-> "RenewableTerm", termDuration |-> duration]

VestingMode ==
       [kind : {"Linear"}]
  \cup [kind : {"CliffLinear"}, cliffTime : Int]
  \cup [kind : {"Stepped"}, stepInterval : Int, amountPerStep : Int]
  \cup [kind : {"RenewableTerm"}, termDuration : Int]

validVestingMode(vm) ==
  /\ vm.kind = "Stepped" => vm.stepInterval > 0 /\ vm.amountPerStep > 0
  /\ vm.kind = "RenewableTerm" => vm.termDuration > 0

isRenewable(vm) == vm.kind = "RenewableTerm"

----------------------------------------------------------------------------
MinOf(a, b) == IF a <= b THEN a ELSE b
MaxOf(a, b) == IF a >= b THEN a ELSE b

\* Decimal division of a non-negative n by a positive d: nearest, ties to even.
RoundsUp(q, r, d) == 2 * r > d \/ (2 * r = d /\ q % 2 = 1)
HalfEvenDiv(n, d) ==
  IF RoundsUp(n \div d, n % d, d) THEN (n \div d) + 1 ELSE n \div d

linearAccrual(deposit, start, end, t) ==
  IF t <= start THEN 0
  ELSE IF t >= end THEN deposit
  ELSE MinOf(deposit, MaxOf(0, HalfEvenDiv(deposit * (t - start), end - start)))

cliffLinearAccrual(deposit, start, end, cliff, t) ==
  IF t < cliff THEN 0
  ELSE IF t >= end THEN deposit
  ELSE linearAccrual(deposit, start, end, t)

SteppedLate(deposit, start, interval, amount, t) ==
  IF t <= start \/ interval <= 0 THEN 0
  ELSE MinOf(deposit, ((t - start - 1) \div interval) * amount)
steppedAccrual(deposit, start, interval, amount, t) ==
  IF t <= start \/ interval <= 0 THEN 0
  ELSE MinOf(deposit, MaxOf(0, ((t - start) \div interval) * amount))

accruedAt(vm, deposit, start, end, t) ==
  CASE vm.kind \in {"Linear", "RenewableTerm"} ->
         linearAccrual(deposit, start, end, t)
    [] vm.kind = "CliffLinear" ->
         cliffLinearAccrual(deposit, start, end, vm.cliffTime, t)
    [] vm.kind = "Stepped" ->
         steppedAccrual(deposit, start, vm.stepInterval, vm.amountPerStep, t)

\* The product is formed before it is divided or clamped, so it is the product
\* that must fit a Decimal.
Computable(vm, deposit, start, end, t) ==
  CASE vm.kind \in {"Linear", "RenewableTerm"} ->
         start < t /\ t < end => deposit * (t - start) <= MaxDecimal
    [] vm.kind = "CliffLinear" ->
         start < t /\ t < end /\ vm.cliffTime <= t
           => deposit * (t - start) <= MaxDecimal
    [] vm.kind = "Stepped" ->
         start < t /\ vm.stepInterval > 0
           => ((t - start) \div vm.stepInterval) * vm.amountPerStep <= MaxDecimal

withdrawable(accrued, totalWithdrawn) == MaxOf(0, accrued - totalWithdrawn)

refundable(deposit, accrued) == MaxOf(0, deposit - accrued)

checkInvariant(deposit, accrued, totalWithdrawn) ==
  LET w == withdrawable(accrued, totalWithdrawn)
      r == refundable(deposit, accrued)
  IN  /\ r + w + totalWithdrawn <= deposit
      /\ w >= 0 /\ r >= 0 /\ totalWithdrawn >= 0
      /\ accrued >= 0 /\ accrued <= deposit

----------------------------------------------------------------------------
(* What the curves are meant to be *)

Distance(a, b) == IF a <= b THEN b - a ELSE a - b

\* Of 0..most, a is the integer nearest to n / d, and of two the even one.
IsNearest(a, n, d, most) ==
  \A k \in 0..most :
    \/ Distance(a * d, n) < Distance(k * d, n)
    \/ Distance(a * d, n) = Distance(k * d, n) /\ (k = a \/ a % 2 = 0)

\* The least part of the deposit that pays every step whose instant has passed.
PaysEveryStep(a, deposit, start, interval, amount, t) ==
  LET passed == { k \in 1..(t - start) : start + k * interval <= t }
      due == { n \in 0..deposit : \A k \in passed : n >= MinOf(deposit, k * amount) }
  IN  a \in due /\ \A n \in due : a <= n

\* Between start and end the linear curves are the exact share, rounded once; a
\* stepped curve pays whole steps.
ExactAt(vm, deposit, start, end, t) ==
  LET accrued == accruedAt(vm, deposit, start, end, t)
  IN  /\ start < t /\ t < end =>
           CASE vm.kind \in {"Linear", "RenewableTerm"} ->
                  IsNearest(accrued, deposit * (t - start), end - start, deposit)
             [] vm.kind = "CliffLinear" ->
                  IF t < vm.cliffTime THEN accrued = 0
                  ELSE IsNearest(accrued, deposit * (t - start), end - start, deposit)
             [] vm.kind = "Stepped" -> TRUE
      /\ vm.kind = "Stepped" /\ vm.stepInterval > 0 =>
           PaysEveryStep(accrued, deposit, start, vm.stepInterval, vm.amountPerStep, t)
============================================================================
