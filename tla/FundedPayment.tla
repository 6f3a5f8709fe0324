--------------------------- MODULE FundedPayment ---------------------------
(***************************************************************************)
(* What every prefunded payment stream promises, whatever its accrual      *)
(* curve: a payer puts money in, the recipient is paid out of it, and one  *)
(* closing step splits what is left between the two.  The stream contracts *)
(* of this project are shown to implement this specification.              *)
(***************************************************************************)
EXTENDS Integers

VARIABLES
  deposited,   \* everything the payer has put in
  paid,        \* everything the recipient has received
  refunded,    \* everything the payer has got back
  closed       \* the final settlement has happened

funds == <<deposited, paid, refunded, closed>>

Init ==
  /\ deposited = 0
  /\ paid = 0
  /\ refunded = 0
  /\ closed = FALSE

Fund ==
  /\ ~closed
  /\ deposited' > deposited
  /\ UNCHANGED <<paid, refunded, closed>>

\* The recipient is paid from the deposits, never from a refund.
Pay ==
  /\ ~closed
  /\ paid' > paid
  /\ paid' <= deposited
  /\ UNCHANGED <<deposited, refunded, closed>>

\* The closing settlement accounts for every unit ever deposited.
Close ==
  /\ ~closed
  /\ closed' = TRUE
  /\ paid' >= paid
  /\ refunded' >= refunded
  /\ paid' + refunded' = deposited
  /\ UNCHANGED deposited

Next == Fund \/ Pay \/ Close

Spec == Init /\ [][Next]_funds
============================================================================
