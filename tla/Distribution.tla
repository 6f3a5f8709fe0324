---------------------------- MODULE Distribution ----------------------------
(***************************************************************************)
(* The distribution service: the proxy's routes (proxy/src/index.ts, the   *)
(* /api/distributions handlers, with proxy/src/distribution.ts) over the   *)
(* DistributionStreamRecord contract, the wallets that sign what a route   *)
(* prepared, and the token registry's allocations.                         *)
(*                                                                         *)
(* A prepare route only reads: what it returns is signed later, after any  *)
(* number of other requests.  A record route reads the record and          *)
(* exercises a choice on the contract it read, which aborts if another     *)
(* choice came between, so it is one step.  The operator reports what      *)
(* happened on chain, late, more than once, or never; it does not invent.  *)
(***************************************************************************)
EXTENDS DistributionStream, Sequences

CONSTANTS
  Deadlines,     \* settlement deadlines a payer may choose
  Fundings,      \* committed amounts a payer may choose, in periods
  OwnIds,        \* funding ids a payer may choose besides the default
  MaxDrafts      \* bound: fundings prepared

ASSUME ServiceAssumption ==
  /\ Deadlines \subseteq Nat /\ Fundings \subseteq Nat /\ OwnIds \subseteq Nat \ {0}
  /\ MaxDrafts \in Nat /\ NoCid = 0

VARIABLES
  drafts,        \* fundings prepared and not yet signed
  alloc,         \* the payer's allocations on chain, in order
  consents,      \* the receivers' live allocations on chain
  plans          \* settlements prepared, of allocations not yet settled

vars == <<now, rec, drafts, alloc, consents, plans>>

Draft == [id : Nat, amount : Nat, deadline : Nat]
Allocation ==
  [ id : Nat, amount : Nat, deadline : Nat, root : BOOLEAN,
    state : {"live", "settled", "withdrawn"}, settledAt : Nat, next : Nat ]
Consent == [receiver : Receivers, id : Nat \X Nat, rolls : Nat]
Plan ==
  [cid : Nat, auths : SUBSET Consent, rolled : BOOLEAN, next : Nat, settledAt : Nat]

Init ==
  /\ now = 0
  /\ rec = NewRecord
  /\ drafts = {} /\ alloc = <<>> /\ consents = {} /\ plans = {}

outstanding == rec.totalFunded - rec.totalGrossSettled

----------------------------------------------------------------------------
(* Funding *)

scheduledPeriods == (EndTime - StartTime) \div PeriodSeconds
FitsSchedule(amount) == EndTime # 0 => rec.totalFunded + amount <= scheduledPeriods

lastFundedDueAt(amount) == StartTime + (rec.totalFunded + amount) * PeriodSeconds

\* POST prepare-funding: it asks for an exhausted runway, not for a status.
PrepareFunding(id, amount, deadline) ==
  /\ Exhausted
  /\ amount > 0
  /\ deadline > now
  /\ FitsSchedule(amount)
  /\ lastFundedDueAt(amount) > now => deadline >= lastFundedDueAt(amount)
  /\ id \in OwnIds \cup {fundingCount + 1}
  /\ Cardinality(drafts) + Len(SelectSeq(alloc, LAMBDA a : a.root)) < MaxDrafts
  /\ drafts' = drafts \cup {[id |-> id, amount |-> amount, deadline |-> deadline]}
  /\ UNCHANGED <<now, rec, alloc, consents, plans>>

\* The payer's wallet signs AllocationFactory_Allocate.
Allocate(d) ==
  /\ d \in drafts
  /\ now < d.deadline
  /\ drafts' = drafts \ {d}
  /\ alloc' = Append(alloc, [ id |-> d.id, amount |-> d.amount, deadline |-> d.deadline,
                              root |-> TRUE, state |-> "live", settledAt |-> 0, next |-> NoCid ])
  /\ UNCHANGED <<now, rec, consents, plans>>

committedAmount(i) == alloc[i].amount

\* POST record-funding, of an allocation the operator saw on chain.
RecordFunding(i) ==
  /\ Exhausted
  /\ alloc[i].root
  /\ RecordDistributionFunding(committedAmount(i), alloc[i].id, i, alloc[i].deadline, fundingCount + 1)
  /\ UNCHANGED <<now, drafts, alloc, consents, plans>>

\* The payer takes a committed allocation back after its deadline.
PayerWithdraw(i) ==
  /\ alloc[i].state = "live"
  /\ now >= alloc[i].deadline
  /\ alloc' = [alloc EXCEPT ![i].state = "withdrawn"]
  /\ UNCHANGED <<now, rec, drafts, consents, plans>>

----------------------------------------------------------------------------
(* Recipient authorization *)

NumbersOnly(n) == <<0, n>>
\* The default authorizationId: the funding's id and the next number.
defaultAuthorizationId(n) == <<rec.lastFundingId, n>>

\* POST prepare-recipient-authorization, signed by the receiver's wallet.
Authorize(r) ==
  /\ rec.status = "AwaitingRecipients"
  /\ \A a \in rec.recipientAuthorizations : a.receiver # r
  /\ rec.currentSettlementDeadline > now
  /\ consents' = consents \cup
       {[receiver |-> r, id |-> defaultAuthorizationId(authorizationCount + 1), rolls |-> 0]}
  /\ UNCHANGED <<now, rec, drafts, alloc, plans>>

\* POST record-recipient-authorization
RecordAuthorization(a) ==
  /\ RecordDistributionRecipientAuthorization(a, authorizationCount + 1)
  /\ UNCHANGED <<now, drafts, alloc, consents, plans>>

\* POST activate
Activate ==
  /\ ActivateDistribution
  /\ UNCHANGED <<now, drafts, alloc, consents, plans>>

----------------------------------------------------------------------------
(* Settlement of one period *)

DueFromFunding == outstanding > 0
SettledBefore == settlementCount > 0
PeriodDue == accruedDistributionGross(now) - rec.totalGrossSettled >= 1

\* POST prepare-settlement
PrepareSettlement ==
  /\ rec.status = "DistributionActive"
  /\ rec.currentAllocationCid # NoCid
  /\ allReceiversAuthorized
  /\ PeriodDue
  /\ outstanding >= 1
  /\ plans' = plans \cup
       {[ cid |-> rec.currentAllocationCid, auths |-> rec.recipientAuthorizations,
          rolled |-> SettledBefore, next |-> outstanding - 1, settledAt |-> now ]}
  /\ plans' # plans
  /\ UNCHANGED <<now, rec, drafts, alloc, consents>>

Roll(auths) == {[a EXCEPT !.rolls = @ + 1] : a \in auths}

\* SettlementFactory_SettleBatch: pay every leg, consume the allocations, and
\* roll what is left of the runway into new ones.
SettleBatch(p) ==
  /\ alloc[p.cid].state = "live"
  /\ now < alloc[p.cid].deadline
  /\ p.auths \subseteq consents
  /\ p.next < alloc[p.cid].amount
  /\ LET next == IF p.next > 0 THEN Len(alloc) + 1 ELSE NoCid
         spent == [alloc EXCEPT ![p.cid].state = "settled", ![p.cid].settledAt = p.settledAt,
                                ![p.cid].next = next]
     IN  alloc' = IF p.next = 0 THEN spent
                  ELSE Append(spent, [alloc[p.cid] EXCEPT !.amount = p.next, !.root = FALSE])
  /\ consents' = (consents \ p.auths) \cup (IF p.next > 0 THEN Roll(p.auths) ELSE {})
  /\ plans' = { q \in plans : q.cid # p.cid }
  /\ UNCHANGED <<now, rec, drafts>>

\* POST record-settlement, of a settlement the operator saw on chain.
RecordSettlement(i) ==
  /\ alloc[i].state = "settled"
  /\ outstanding - 1 > 0 <=> alloc[i].next # NoCid
  /\ RecordDistributionSettlement(1, i, alloc[i].settledAt, alloc[i].next,
       IF outstanding - 1 > 0 THEN Roll(rec.recipientAuthorizations) ELSE {},
       settlementCount + 1)
  /\ UNCHANGED <<now, drafts, alloc, consents, plans>>

\* POST state
ChangeState ==
  /\ PauseDistribution \/ ResumeDistribution \/ CompleteDistribution \/ CancelDistribution
  /\ UNCHANGED <<now, drafts, alloc, consents, plans>>

Tick ==
  /\ now < MaxTime
  /\ now' = now + 1
  /\ UNCHANGED <<rec, drafts, alloc, consents, plans>>

Funding ==
  \/ \E amount \in Fundings, deadline \in Deadlines, id \in OwnIds \cup {fundingCount + 1} :
       PrepareFunding(id, amount, deadline)
  \/ \E d \in drafts : Allocate(d)
  \/ \E i \in DOMAIN alloc : RecordFunding(i) \/ PayerWithdraw(i)

Authorization ==
  \/ \E r \in Receivers : Authorize(r)
  \/ \E a \in consents : RecordAuthorization(a)
  \/ Activate

Settlement ==
  \/ PrepareSettlement
  \/ \E p \in plans : SettleBatch(p)
  \/ \E i \in DOMAIN alloc : RecordSettlement(i)

Next == Tick \/ Funding \/ Authorization \/ Settlement \/ ChangeState

Spec == Init /\ [][Next]_vars

\* Receivers sign what they are asked to, and the operator keeps reporting.
Fairness ==
  /\ \A r \in Receivers : SF_vars(Authorize(r) /\ consents' # consents)
  /\ \A r \in Receivers : SF_vars(\E a \in consents : a.receiver = r /\ RecordAuthorization(a))
  /\ WF_vars(Activate)
  /\ WF_vars(\E i \in DOMAIN alloc : RecordSettlement(i))

FairSpec == Spec /\ Fairness

----------------------------------------------------------------------------
(* Properties *)

\* Types, and the record's own ensure clause.
TypeOK ==
  /\ now \in 0 .. MaxTime
  /\ rec.totalFunded \in Nat /\ rec.totalGrossSettled \in 0 .. rec.totalFunded
  /\ rec.currentAllocationCid \in {NoCid} \cup DOMAIN alloc
  /\ rec.recipientAuthorizations \subseteq Consent
  /\ { a.id : a \in rec.recipientAuthorizations } \subseteq rec.recipientAuthorizationIds
  /\ \A a, b \in rec.recipientAuthorizations : a.receiver = b.receiver => a = b
  /\ drafts \subseteq Draft /\ consents \subseteq Consent /\ plans \subseteq Plan
  /\ alloc \in Seq(Allocation)

paid == Cardinality({i \in DOMAIN alloc : alloc[i].state = "settled"})

\* The receivers are never paid for a period that has not elapsed, however old
\* the prepared settlement that is executed and however late it is recorded.
NeverPaidAhead == paid <= accruedDistributionGross(now)

\* The record is behind the chain by one settlement at most, and never ahead of
\* it, whatever is recorded late, twice or out of order.
RecordMatchesChain == paid - rec.totalGrossSettled \in {0, 1}

\* The allocation the record names holds exactly what it says is funded and not
\* settled, under the id of its latest funding.
FundingIsBacked ==
  LET cid == rec.currentAllocationCid IN
  cid # NoCid =>
    /\ alloc[cid].amount = rec.totalFunded - rec.totalGrossSettled
    /\ alloc[cid].id = rec.lastFundingId

\* With the default ids a payer is never committed beyond the schedule, though
\* fundings may be prepared before the one they would exceed it with is recorded.
WithinSchedule ==
  OwnIds \cap rec.fundingIds = {} /\ EndTime # 0 => rec.totalFunded <= scheduledPeriods

\* A recorded authorization is one the receiver gave for the current funding:
\* one given for an earlier funding is never recorded for a later one.
AuthorizedForThisFunding ==
  \A a \in rec.recipientAuthorizations : a.id[1] = rec.lastFundingId

\* The record is what the chain did and holds: settled behind by one at most, funded
\* by an allocation of just the rest; the payer is committed as far as it agreed to
\* be, and the receivers to the funding they signed for.
RecordIsBacked ==
  /\ TypeOK
  /\ RecordMatchesChain /\ FundingIsBacked
  /\ WithinSchedule /\ AuthorizedForThisFunding

\* While receivers keep signing they all get authorized before the deadline,
\* though two that prepare at the same time are given the same id.
RecipientsActivate ==
  rec.status = "AwaitingRecipients"
    ~> (rec.status # "AwaitingRecipients" \/ now >= rec.currentSettlementDeadline)

\* A settlement that happened is recorded, unless the operator pauses or closes
\* the distribution first.
SettlementsAreRecorded ==
  \A i \in 1 .. MaxTime * MaxDrafts :
    (i \in DOMAIN alloc /\ alloc[i].state = "settled")
      ~> (i \in rec.settlementIds \/ Closed \/ rec.status = "DistributionPaused")

\* "each rolled recipient allocation is given its own receiver legs for the next
\* period": a receiver's allocation brings its legs itself, as long as it is
\* fresh, or is given them by the settlement, once it has rolled; never both.
LegsNamedOnce == \A p \in plans : \A a \in p.auths : p.rolled <=> a.rolls > 0
============================================================================
