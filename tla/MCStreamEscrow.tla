--------------------------- MODULE MCStreamEscrow ---------------------------
(* Small instances of StreamEscrow for TLC. *)
EXTENDS StreamEscrow

Terms(deposit, start, end, vm) ==
  { [ totalDeposited |-> deposit, startTime |-> start, endTime |-> end,
      vestingMode |-> vm, cancellable |-> c ] : c \in BOOLEAN }

\* One stream per vesting mode; deposits that do not divide by the duration, so
\* that every instant rounds, and a cliff and a step that fall inside the term.
MCConfigs ==
       Terms(5, 1, 4, Linear)
  \cup Terms(5, 0, 4, CliffLinear(2))
  \cup Terms(5, 1, 4, Stepped(2, 2))
  \cup Terms(5, 1, 4, RenewableTerm(3))
  \cup Terms(3, 2, 4, RenewableTerm(1))
  \cup Terms(4, 1, 3, Stepped(0, 2))

\* Deposits so large that a product of the curve leaves the Decimal range.
MCLargeConfigs ==
       Terms(30, 1, 4, Linear)
  \cup Terms(30, 0, 4, Stepped(1, 15))

\* "A wedged stream can never be created" (validVestingMode): the curve of an active
\* stream can be evaluated at ledger time, without which none of its choices can run.
NeverUncomputable == Active => CanCompute(config, now)
============================================================================
