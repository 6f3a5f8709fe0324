---------------------------- MODULE StreamRecord ----------------------------
(***************************************************************************)
(* The StreamRecord contract (Stream/StreamRecord.daml): the application's *)
(* own count of the cycles a stream paid.  It holds nothing and moves      *)
(* nothing.  Both choices consume the contract and create its successor.   *)
(***************************************************************************)
EXTENDS Integers

CONSTANT RatePerPeriod     \* of each stream

VARIABLE record     \* the payload of each stream's one active contract

NoTransfer == 0

createStreamRecord ==
  [ totalPaid |-> 0, cyclesSettled |-> 0, lastTransferId |-> NoTransfer, status |-> "Active" ]

\* Each cycle is bounded by the rate, and only a repeat of the preceding
\* transfer is refused.
CanRecordCycle(s, amount, transferId) ==
  /\ record[s].status = "Active"
  /\ amount > 0
  /\ amount <= RatePerPeriod[s]
  /\ transferId # record[s].lastTransferId

RecordCycle(s, amount, transferId) ==
  /\ CanRecordCycle(s, amount, transferId)
  /\ record' = [ record EXCEPT ![s].totalPaid = @ + amount,
                               ![s].cyclesSettled = @ + 1,
                               ![s].lastTransferId = transferId ]

MarkStopped(s) ==
  /\ record[s].status = "Active"
  /\ record' = [record EXCEPT ![s].status = "Cancelled"]

CycleRecord ==
  [ totalPaid : Nat, cyclesSettled : Nat, lastTransferId : Int,
    status : {"Active", "Cancelled"} ]
============================================================================
