------------------------------ MODULE StreamTime ------------------------------
\* Stream/Time.daml: the two checks every time-bound choice makes. Both read
\* getTime, the ledger's clock, which transactions never see run backwards.
EXTENDS Integers

VARIABLE now         \* what getTime returns, in units of the module that uses it

\* A choice aborts where the check it makes is false.
assertNotExpired(deadline) == now < deadline
assertNotInFuture(t) == t <= now

CONSTANT MaxTime     \* bound: no run lasts longer

ASSUME MaxTimeAssumption == MaxTime \in Nat

\* Between two transactions the clock may pass one unit.
Tick ==
  /\ now < MaxTime
  /\ now' = now + 1
===============================================================================
