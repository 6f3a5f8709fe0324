------------------------- MODULE DistributionStream -------------------------
(***************************************************************************)
(* The DistributionStreamRecord contract (Stream/DistributionStream.daml): *)
(* the operator's on-ledger schedule of a recurring payment to several     *)
(* receivers.  It holds no tokens; every choice is exercised by the        *)
(* operator, consumes the contract and creates its successor, so a choice  *)
(* made on an outdated contract id aborts.                                 *)
(*                                                                         *)
(* Amounts count whole periods: every funding and every settlement the     *)
(* proxy makes is a multiple of grossAmountPerPeriod.  How one period is   *)
(* split between the legs is module SdkAmounts.                            *)
(***************************************************************************)
EXTENDS Integers, FiniteSets

CONSTANTS
  Receivers,     \* the receiver accounts of the legs
  NoCid,         \* the absent contract id
  PeriodSeconds,
  StartTime,
  EndTime,       \* 0 when there is none
  MaxTime        \* bound: the clock stops here

ASSUME DistributionAssumption ==
  /\ PeriodSeconds \in Nat \ {0} /\ StartTime \in Nat /\ MaxTime \in Nat
  /\ EndTime = 0 \/ (EndTime \in Nat /\ StartTime < EndTime)

VARIABLES
  now,
  rec     \* the record: the payload of its one active contract

NewRecord ==
  [ status |-> "AwaitingFunding", totalFunded |-> 0, totalGrossSettled |-> 0,
    currentAllocationCid |-> NoCid, currentSettlementDeadline |-> 0,
    lastFundingId |-> 0, fundingIds |-> {}, settlementIds |-> {},
    recipientAuthorizations |-> {}, recipientAuthorizationIds |-> {} ]

fundingCount == Cardinality(rec.fundingIds)
settlementCount == Cardinality(rec.settlementIds)
authorizationCount == Cardinality(rec.recipientAuthorizations)

Closed == rec.status \in {"DistributionCompleted", "DistributionCancelled"}

IgnoresEndTime(at) == IF at <= StartTime THEN 0 ELSE (at - StartTime) \div PeriodSeconds
\* Whole periods elapsed, none after the end.
accruedDistributionGross(at) ==
  LET effectiveAt == IF EndTime # 0 /\ EndTime < at THEN EndTime ELSE at
  IN  IF effectiveAt <= StartTime THEN 0 ELSE (effectiveAt - StartTime) \div PeriodSeconds

allReceiversAuthorized ==
  Receivers \subseteq { a.receiver : a \in rec.recipientAuthorizations }

SameAllocations(new) == new = rec.recipientAuthorizations
\* The successors keep every receiver and every authorization id.
sameAuthorizationShape(new) ==
  /\ Cardinality(new) = authorizationCount
  /\ \A a \in rec.recipientAuthorizations :
       \E b \in new : b.receiver = a.receiver /\ b.id = a.id

----------------------------------------------------------------------------
Exhausted ==
  rec.currentAllocationCid = NoCid /\ rec.totalGrossSettled = rec.totalFunded

RecordDistributionFunding(amount, fundingId, cid, deadline, expectedSequence) ==
  /\ rec.status = "AwaitingFunding"
  /\ amount > 0
  /\ Exhausted
  /\ deadline > now
  /\ expectedSequence = fundingCount + 1
  /\ fundingId \notin rec.fundingIds
  /\ rec' = [ rec EXCEPT !.totalFunded = @ + amount, !.currentAllocationCid = cid,
                         !.lastFundingId = fundingId, !.fundingIds = @ \cup {fundingId},
                         !.recipientAuthorizations = {},
                         !.currentSettlementDeadline = deadline,
                         !.status = "AwaitingRecipients" ]

IdsWith(id) == rec.recipientAuthorizationIds \cup {id}

UnusedId(id) == id \notin rec.recipientAuthorizationIds

\* The authorization a names the receiver, its id and its allocation.
RecordDistributionRecipientAuthorization(a, expectedCount) ==
  /\ rec.status = "AwaitingRecipients"
  /\ a.receiver \in Receivers
  /\ \A b \in rec.recipientAuthorizations : b.receiver # a.receiver
  /\ expectedCount = authorizationCount + 1
  /\ UnusedId(a.id)
  /\ rec' = [ rec EXCEPT !.recipientAuthorizations = @ \cup {a},
                         !.recipientAuthorizationIds = IdsWith(a.id) ]

ActivateDistribution ==
  /\ rec.status = "AwaitingRecipients"
  /\ rec.totalFunded > 0 /\ rec.currentAllocationCid # NoCid
  /\ allReceiversAuthorized
  /\ rec' = [rec EXCEPT !.status = "DistributionActive"]

AnySettlement(settlementId) == TRUE
Unrecorded(settlementId) == settlementId \notin rec.settlementIds

RecordDistributionSettlement(gross, settlementId, settledAt, newCid, newAuths, expectedSequence) ==
  LET settled == rec.totalGrossSettled + gross
      more == settled < rec.totalFunded
  IN  /\ rec.status = "DistributionActive"
      /\ gross > 0
      /\ expectedSequence = settlementCount + 1
      /\ Unrecorded(settlementId)
      /\ settled <= rec.totalFunded
      /\ more <=> newCid # NoCid
      /\ IF more THEN sameAuthorizationShape(newAuths) ELSE newAuths = {}
      /\ settledAt <= now
      /\ settled <= accruedDistributionGross(settledAt)
      /\ rec' = [ rec EXCEPT !.totalGrossSettled = settled,
                             !.settlementIds = @ \cup {settlementId},
                             !.currentAllocationCid = newCid,
                             !.recipientAuthorizations = newAuths,
                             !.currentSettlementDeadline = IF more THEN @ ELSE 0,
                             !.status = IF more THEN "DistributionActive" ELSE "AwaitingFunding" ]

PauseDistribution ==
  /\ rec.status = "DistributionActive"
  /\ rec' = [rec EXCEPT !.status = "DistributionPaused"]

ResumeDistribution ==
  /\ rec.status = "DistributionPaused"
  /\ rec' = [rec EXCEPT !.status = "DistributionActive"]

ClosedAs(status) ==
  [ rec EXCEPT !.status = status, !.currentAllocationCid = NoCid,
               !.recipientAuthorizations = {}, !.currentSettlementDeadline = 0 ]

CompleteDistribution ==
  /\ rec.status \in {"DistributionActive", "DistributionPaused"}
  /\ rec' = ClosedAs("DistributionCompleted")

CancelDistribution ==
  /\ ~Closed
  /\ rec' = ClosedAs("DistributionCancelled")
============================================================================
