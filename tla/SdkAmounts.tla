----------------------------- MODULE SdkAmounts -----------------------------
(***************************************************************************)
(* The amounts that are computed twice, by the contracts and by the SDK:   *)
(* what a stream has accrued, and the legs of a distribution.              *)
(*                                                                         *)
(* Amounts count minimal units of Decimal.                                 *)
(***************************************************************************)
EXTENDS Accrual, Sums, Sequences

----------------------------------------------------------------------------
(* The balances a client shows between ledger round trips                  *)
(* (sdk/src/accrual/calculator.ts): the ledger's curves, computed from     *)
(* instants that a JavaScript Date has cut to milliseconds.                *)

CONSTANT Millisecond      \* ledger instants in a millisecond

ASSUME DisplayAssumption == Millisecond \in Nat \ {0}

\* A ledger instant as a Date, on the ledger's scale.
AsDate(t) == (t \div Millisecond) * Millisecond

IntervalInMillis(vm) ==
  IF vm.kind = "Stepped" THEN Stepped(vm.stepInterval * Millisecond, vm.amountPerStep) ELSE vm
\* Every instant of a schedule passes through a Date; an interval does not.
DateMode(vm) ==
  IF vm.kind = "CliffLinear" THEN CliffLinear(AsDate(vm.cliffTime)) ELSE vm

\* No amount: the calculator throws an InvariantViolationError where the ledger's
\* curve is 0.
Thrown == -1
ThrowsError(vm) == vm.kind = "Stepped" /\ vm.stepInterval <= 0

computeAccrual(vm, deposit, start, end, t) ==
  IF ThrowsError(vm) THEN Thrown
  ELSE accruedAt(DateMode(vm), deposit, AsDate(start), AsDate(end), AsDate(t))

\* A completed stream shows its deposit, a cancelled one what was withdrawn,
\* and neither shows anything that accrues.
NoBalances == [ accrued |-> Thrown, withdrawable |-> Thrown, refundable |-> Thrown ]
ActiveBalances(vm, deposit, start, end, withdrawn, t) ==
  LET accrued == computeAccrual(vm, deposit, start, end, t)
  IN  IF accrued = Thrown THEN NoBalances
      ELSE [ accrued |-> accrued, withdrawable |-> withdrawable(accrued, withdrawn),
             refundable |-> refundable(deposit, accrued) ]
completedBalances(deposit, withdrawn) ==
  [ accrued |-> deposit, withdrawable |-> withdrawable(deposit, withdrawn), refundable |-> 0 ]
cancelledBalances(withdrawn) ==
  [ accrued |-> withdrawn, withdrawable |-> 0, refundable |-> 0 ]

getBalances(status, vm, deposit, start, end, withdrawn, t) ==
  IF status = "Completed" THEN completedBalances(deposit, withdrawn)
  ELSE IF status = "Cancelled" THEN cancelledBalances(withdrawn)
  ELSE ActiveBalances(vm, deposit, start, end, withdrawn, t)

\* What a client shows as withdrawable from an active stream is what the ledger will
\* pay a millisecond later, at most, and what it paid a millisecond ago, at least.
\* It fails to show anything only for a mode that no contract can have.
ShownAt(vm, deposit, start, end, withdrawn, t) ==
  LET shown == getBalances("Active", vm, deposit, start, end, withdrawn, t).withdrawable
      payable(u) == withdrawable(accruedAt(vm, deposit, start, end, u), withdrawn)
  IN  IF shown = Thrown THEN ~validVestingMode(vm)
      ELSE payable(t - Millisecond) <= shown /\ shown <= payable(t + Millisecond)

----------------------------------------------------------------------------
(* How a distribution splits one gross amount between its legs: by the     *)
(* contract (distributionAmounts, DistributionStream.daml) and by the SDK  *)
(* (calculateDistributionAmounts, sdk/src/commands/distribution.ts).  The  *)
(* contract refuses a settlement whose legs are not the ones it computes   *)
(* itself, so the two must agree.  A leg is the number of its rule: basis  *)
(* points of Whole, or its fixed amount per period.                        *)

CONSTANTS
  Whole,      \* 10000 basis points
  Unit,       \* minimal units of one token
  Precise     \* decimal.js keeps 20 digits: integers below this are exact

ASSUME SplitAssumption ==
  /\ Whole \in Nat \ {0} /\ Unit \in Nat \ {0} /\ Precise \in Nat \ {0}

SumOfLegs(legs) == Total(legs)

\* All rules are percentages or all are fixed; they add up to the whole.
validDistributionLegs(rule, perPeriod, legs) ==
  /\ legs # <<>>
  /\ \A i \in DOMAIN legs : legs[i] > 0
  /\ SumOfLegs(legs) = IF rule = "percentage" THEN Whole ELSE perPeriod

Truncated(rule, gross, perPeriod, leg) == (gross * leg) \div Whole
\* Decimal products and quotients round half to even, each by itself.
ruleAmount(rule, gross, perPeriod, leg) ==
  IF rule = "percentage" THEN HalfEvenDiv(gross * leg, Whole)
  ELSE HalfEvenDiv(HalfEvenDiv(gross * leg, Unit) * Unit, perPeriod)

\* The last leg takes what the others leave.
distributionAmounts(rule, gross, perPeriod, legs) ==
  LET share(i) == ruleAmount(rule, gross, perPeriod, legs[i])
      others == [ i \in 1..Len(legs) - 1 |-> share(i) ]
  IN  [ i \in DOMAIN legs |-> IF i < Len(legs) THEN share(i) ELSE gross - Total(others) ]

----------------------------------------------------------------------------
\* A product of more digits than decimal.js keeps loses its last ones.
kept(n) == IF n < Precise THEN n ELSE ((n + 5) \div 10) * 10

decimal10Amount(rule, gross, perPeriod, leg) ==
  IF rule = "percentage" THEN HalfEvenDiv(kept(gross * leg), Whole)
  ELSE HalfEvenDiv(HalfEvenDiv(kept(gross * leg), Unit) * Unit, perPeriod)

\* No amounts when a leg would be negative: calculateDistributionAmounts throws.
calculateDistributionAmounts(rule, gross, perPeriod, legs) ==
  LET share(i) == decimal10Amount(rule, gross, perPeriod, legs[i])
      others == [ i \in 1..Len(legs) - 1 |-> share(i) ]
      last == gross - Total(others)
  IN  IF last < 0 THEN <<>>
      ELSE [ i \in DOMAIN legs |-> IF i < Len(legs) THEN share(i) ELSE last ]

----------------------------------------------------------------------------
\* Where decimal.js is exact, the SDK sends the legs the contract computes, and
\* throws only when the contract would take a negative one.
SplitsAgree(rule, gross, legs) ==
  LET perPeriod == SumOfLegs(legs)
      amounts == distributionAmounts(rule, gross, perPeriod, legs)
      sent == calculateDistributionAmounts(rule, gross, perPeriod, legs)
  IN  gross * Whole < Precise /\ gross * perPeriod < Precise =>
        IF sent = <<>> THEN amounts[Len(legs)] < 0 ELSE sent = amounts

\* Every leg of a percentage split is paid its exact share rounded, and the last
\* one is off by the others' roundings only.
SharesHonoured(gross, legs) ==
  LET amounts == distributionAmounts("percentage", gross, SumOfLegs(legs), legs)
      off(i) == amounts[i] * Whole - gross * legs[i]
      slack(i) == IF i < Len(legs) THEN Whole ELSE (Len(legs) - 1) * Whole
  IN  \A i \in DOMAIN legs : -slack(i) <= 2 * off(i) /\ 2 * off(i) <= slack(i)
============================================================================
