---------------------------- MODULE StreamAdmin ----------------------------
(***************************************************************************)
(* The StreamAdmin contract (Stream/StreamAdmin.daml): an index, kept by   *)
(* the operator, over settlements that happen elsewhere.  It only records  *)
(* them, after the fact, and caps what can be recorded by the vesting      *)
(* curve at ledger time.                                                   *)
(***************************************************************************)
EXTENDS StreamTime, Accrual

CONSTANTS
  Streams,
  Terms         \* of each stream: vestingMode, totalDeposited, startTime, endTime

ASSUME StreamAdminAssumption ==
  \A s \in Streams :
    /\ Terms[s].vestingMode \in VestingMode
    /\ Terms[s].totalDeposited \in Nat \ {0}
    /\ Terms[s].startTime \in Nat /\ Terms[s].endTime \in Nat
    /\ Terms[s].startTime < Terms[s].endTime

VARIABLE admin     \* the index of each stream: the payload of its one contract

NoCid == 0   \* the absent allocation contract id

mkStreamAdmin ==
  [ totalWithdrawn |-> 0, numIterations |-> 0, status |-> "Active",
    currentAllocationCid |-> NoCid, originalAllocationId |-> NoCid ]

accrued(s, t) ==
  accruedAt(Terms[s].vestingMode, Terms[s].totalDeposited,
            Terms[s].startTime, Terms[s].endTime, t)

\* The ensure clause of the template: a successor that breaks it is refused.
Ensured(s, a) ==
  /\ a.totalWithdrawn >= 0 /\ a.totalWithdrawn <= Terms[s].totalDeposited
  /\ a.numIterations >= 0

\* The choice evaluates the curve at ledger time, and aborts where that overflows.
Priced(s) ==
  Computable(Terms[s].vestingMode, Terms[s].totalDeposited,
             Terms[s].startTime, Terms[s].endTime, now)

\* expected = 0: the caller opts out of the replay guard.
IgnoresExpected(s, amount, expected) ==
  /\ admin[s].status = "Active"
  /\ amount > 0
  /\ Priced(s)
  /\ admin[s].totalWithdrawn + amount <= accrued(s, now)
CanSync(s, amount, expected) ==
  /\ admin[s].status = "Active"
  /\ amount > 0
  /\ admin[s].totalWithdrawn + amount <= Terms[s].totalDeposited
  /\ expected # 0 => expected = admin[s].numIterations + 1
  /\ Priced(s)
  /\ admin[s].totalWithdrawn + amount <= accrued(s, now)

Synced(s, amount, cid) ==
  LET total == admin[s].totalWithdrawn + amount
  IN  [ totalWithdrawn |-> total,
        numIterations |-> admin[s].numIterations + 1,
        status |-> IF total = Terms[s].totalDeposited THEN "Completed" ELSE "Active",
        currentAllocationCid |-> cid,
        originalAllocationId |-> IF admin[s].originalAllocationId = NoCid THEN cid
                                 ELSE admin[s].originalAllocationId ]

Sync_Iteration(s, amount, expected, cid) ==
  /\ CanSync(s, amount, expected)
  /\ Ensured(s, Synced(s, amount, cid))
  /\ admin' = [admin EXCEPT ![s] = Synced(s, amount, cid)]

Mark_Cancelled(s, finalWithdrawn, cancelTime) ==
  /\ admin[s].status = "Active"
  /\ finalWithdrawn <= Terms[s].totalDeposited
  /\ finalWithdrawn >= admin[s].totalWithdrawn
  /\ assertNotInFuture(cancelTime)
  /\ admin' = [admin EXCEPT ![s].totalWithdrawn = finalWithdrawn,
                            ![s].status = "Cancelled",
                            ![s].currentAllocationCid = NoCid]

Mark_Completed(s) ==
  /\ admin[s].status \in {"Active", "Completed"}
  /\ admin[s].totalWithdrawn = Terms[s].totalDeposited
  /\ admin' = IF admin[s].status = "Completed" THEN admin
              ELSE [admin EXCEPT ![s].status = "Completed",
                                 ![s].currentAllocationCid = NoCid]

----------------------------------------------------------------------------
Index ==
  [ totalWithdrawn : Nat, numIterations : Nat,
    status : {"Active", "Completed", "Cancelled"},
    currentAllocationCid : Int, originalAllocationId : Int ]

\* An index that was not cancelled never runs ahead of the vesting curve, and it
\* is completed exactly when it holds the whole deposit.
AdminOnSchedule ==
  \A s \in Streams : admin[s].status # "Cancelled" =>
    /\ admin[s].totalWithdrawn <= accrued(s, now)
    /\ admin[s].status = "Completed" <=> admin[s].totalWithdrawn = Terms[s].totalDeposited
============================================================================
