----------------------------- MODULE EscrowLane -----------------------------
(***************************************************************************)
(* The proxy's operator-custodial escrow lane (proxy/src/escrow.ts): rows  *)
(* of a JSON store, the pooled custody balance of one asset that backs     *)
(* them all, and the transfers on chain.                                   *)
(*                                                                         *)
(* A mutation holds the store lock from loading the store to saving it, so *)
(* one operation runs at a time; but its transfer commits on chain before  *)
(* the row is saved, the process may die in between, and receivers and the *)
(* clock act in every gap.  A transfer to a party without a preapproval is *)
(* only an offer: its funds are locked until the receiver accepts it, or   *)
(* they return to custody.                                                 *)
(***************************************************************************)
EXTENDS Integers, Sequences, FiniteSets, Sums

CONSTANTS
  Escrows,
  Deposit,         \* the deposit of each escrow
  Rate,            \* ratePerCycle
  Cadence,         \* cadenceSeconds
  Window,          \* executeBeforeSeconds: how long an offer can be accepted
  DedupWindow,     \* how long the participant refuses a used command id
  Cap,             \* escrowMaxTotalCC, 0 when there is none
  MaxStalls,       \* MAX_DELIVERY_STALLS
  Deliveries,      \* how transfers to the parties of an escrow may land
  DepositLands,    \* how a deposit submitted here may land
  DepositsBy,      \* "wallet": paid in and verified; "proxy": submitted here
  AutoSweep,       \* expired offers return by themselves (CC)
  ReceiverRejects, \* receivers may reject an offer
  Unreliable,      \* the process may die, or lose an answer, mid-operation
  MaxTime,         \* bound: the clock stops here
  MaxTransfers     \* bound: transfers of one escrow

ASSUME LaneAssumption ==
  /\ IsFiniteSet(Escrows)
  /\ Deposit \in [Escrows -> Nat \ {0}]
  /\ Rate \in Nat \ {0} /\ Cadence \in Nat \ {0} /\ Window \in Nat \ {0}
  /\ DedupWindow \in Nat /\ Cap \in Nat /\ MaxStalls \in Nat
  /\ Deliveries \in [Escrows -> SUBSET {"direct", "offer"}]
  /\ DepositLands \subseteq {"direct", "offer"}
  /\ DepositsBy \subseteq {"wallet", "proxy"}
  /\ AutoSweep \in BOOLEAN /\ ReceiverRejects \in BOOLEAN /\ Unreliable \in BOOLEAN
  /\ MaxTime \in Nat /\ MaxTransfers \in Nat

VARIABLES
  now,
  xfer,     \* on chain: the transfers of each escrow, in order
  record,   \* on chain: the OperatorEscrow contract of each escrow
  row,      \* the store's row of each escrow
  op        \* the operation that holds the store lock

vars == <<now, xfer, record, row, op>>

Kinds == {"deposit", "release", "refund"}
Transfer ==
  [ kind : Kinds, cycle : Nat, amount : Nat, deadline : Nat,
    fate : {"delivered", "open", "accepted", "reverted"} ]
Leg ==
  [ cid : Nat, status : {"direct", "active", "accepted", "expired", "withdrawn"} ]
Row ==
  [ status : {"none", "active", "completed", "refunded"}, released : Int,
    nextDueAt : Nat, stalls : Nat, legs : Seq(Leg) ]
Idle == [kind |-> "idle"]

NoRow == [status |-> "none", released |-> 0, nextDueAt |-> 0, stalls |-> 0, legs |-> <<>>]
NoRecord == [status |-> "none", released |-> 0]

Init ==
  /\ now = 0
  /\ xfer = [e \in Escrows |-> <<>>]
  /\ record = [e \in Escrows |-> NoRecord]
  /\ row = [e \in Escrows |-> NoRow]
  /\ op = Idle

----------------------------------------------------------------------------
(* The chain *)

\* What the transfers of e at the positions in S add up to.
SumOf(e, S) == Total([i \in S |-> xfer[e][i].amount])

Arrived(t) == t.fate \in {"delivered", "accepted"}
LeftCustody(t) == t.kind # "deposit" /\ t.fate # "reverted"

arrived(e, kind) ==
  SumOf(e, { i \in DOMAIN xfer[e] : xfer[e][i].kind = kind /\ Arrived(xfer[e][i]) })
paid(e) == arrived(e, "release")
sentOut(e) == SumOf(e, { i \in DOMAIN xfer[e] : LeftCustody(xfer[e][i]) })

\* poolFreeBalance: unlocked holdings of the custody party.
poolFreeBalance ==
  Total([e \in Escrows |-> arrived(e, "deposit")]) - Total([e \in Escrows |-> sentOut(e)])

NeverRefuses(e, kind, cycle) == FALSE
\* The participant refuses a command id it has recently committed.
Deduplicated(e, kind, cycle) ==
  \E i \in DOMAIN xfer[e] :
    /\ xfer[e][i].kind = kind /\ xfer[e][i].cycle = cycle
    /\ now < (xfer[e][i].deadline - Window) + DedupWindow

SetFate(e, i, fate) == xfer' = [xfer EXCEPT ![e][i].fate = fate]

\* The receiver accepts before executeBefore; the funds are delivered.
AcceptOffer(e, i) ==
  /\ xfer[e][i].fate = "open"
  /\ now < xfer[e][i].deadline
  /\ SetFate(e, i, "accepted")
  /\ UNCHANGED <<now, record, row, op>>

\* The receiver declines; the funds return to the sender at once.
RejectOffer(e, i) ==
  /\ ReceiverRejects
  /\ xfer[e][i].fate = "open"
  /\ now < xfer[e][i].deadline
  /\ SetFate(e, i, "reverted")
  /\ UNCHANGED <<now, record, row, op>>

\* The registry sweeps an expired offer.
SweepOffer(e, i) ==
  /\ AutoSweep
  /\ xfer[e][i].fate = "open"
  /\ now >= xfer[e][i].deadline
  /\ SetFate(e, i, "reverted")
  /\ UNCHANGED <<now, record, row, op>>

Tick ==
  /\ now < MaxTime
  /\ now' = now + 1
  /\ UNCHANGED <<xfer, record, row, op>>

----------------------------------------------------------------------------
(* The store's arithmetic *)

remainingOf(r, e) == IF Deposit[e] > r.released THEN Deposit[e] - r.released ELSE 0

LegsOf(r, e, kind) == { n \in DOMAIN r.legs : xfer[e][r.legs[n].cid].kind = kind }

hasPendingRelease(r, e) ==
  \E n \in LegsOf(r, e, "release") : r.legs[n].status = "active"

IgnoresPending(r, e) == IF remainingOf(r, e) = 0 THEN [r EXCEPT !.status = "completed"] ELSE r
\* Complete a row that owes nothing and waits for no offer.
CompleteIfDone(r, e) ==
  IF remainingOf(r, e) = 0 /\ ~hasPendingRelease(r, e)
  THEN [r EXCEPT !.status = "completed"] ELSE r

ActiveRows == { e \in Escrows : row[e].status = "active" }
OwesWholeDeposits == Total([e \in ActiveRows |-> Deposit[e]])
owedByAsset == Total([e \in ActiveRows |-> remainingOf(row[e], e)])

NoInterlock == TRUE
assertPoolSolvent == poolFreeBalance >= owedByAsset

cycleNo(e) == Cardinality(LegsOf(row[e], e, "release")) + 1

\* What counts as released once some release legs have come back to custody.
Unreleased(r, e, legs) ==
  LET left == r.released - Total([n \in legs |-> xfer[e][r.legs[n].cid].amount])
  IN  IF left < 0 THEN 0 ELSE left

SaveRow(e, r) == row' = [row EXCEPT ![e] = r]

NewLeg(i, delivery) ==
  [cid |-> i, status |-> IF delivery = "direct" THEN "direct" ELSE "active"]

At(kind, e, stage) == op.kind = kind /\ op.escrow = e /\ op.stage = stage

----------------------------------------------------------------------------
(* settleCycle: the transfer of the operation under way *)

\* Commit it: the receiver's preapproval decides whether it is delivered.
Commit(kind, e, cycle, amount, delivery) ==
  /\ Len(xfer[e]) < MaxTransfers
  /\ ~Deduplicated(e, kind, cycle)
  /\ kind # "deposit" => poolFreeBalance >= amount
  /\ xfer' = [xfer EXCEPT ![e] = Append(@,
       [ kind |-> kind, cycle |-> cycle, amount |-> amount, deadline |-> now + Window,
         fate |-> IF delivery = "direct" THEN "delivered" ELSE "open" ])]
  /\ op' = [op EXCEPT !.stage = "committed", !.delivery = delivery]

\* The operation ends without saving: an answer lost, a step failed, or the
\* process died.  What was committed stays committed.
GiveUp ==
  /\ op # Idle
  /\ op.stage # "begun" => Unreliable
  /\ op' = Idle
  /\ UNCHANGED <<now, xfer, record, row>>

Begin(kind, e, stage, delivery) ==
  /\ op = Idle
  /\ op' = [kind |-> kind, escrow |-> e, stage |-> stage, delivery |-> delivery]

\* The ledger's own record has been written, or could not be.
Recording(kind, e) ==
  /\ At(kind, e, "committed")
  /\ op' = [op EXCEPT !.stage = "recorded"]
  /\ UNCHANGED <<now, xfer, row>>

\* The row is saved and the lock released.
Finish(kind, e, r) ==
  /\ At(kind, e, "recorded")
  /\ SaveRow(e, r)
  /\ op' = Idle
  /\ UNCHANGED <<now, xfer, record>>

----------------------------------------------------------------------------
(* createEscrow *)

\* A deposit submitted here goes through the cap first.
CapAllows(e) == Cap = 0 \/ owedByAsset + Deposit[e] <= Cap

BeginCreate(e) ==
  /\ "proxy" \in DepositsBy
  /\ row[e].status = "none"
  /\ CapAllows(e)
  /\ Begin("create", e, "begun", "direct")
  /\ UNCHANGED <<now, xfer, record, row>>

CommitDeposit(e) ==
  /\ At("create", e, "begun")
  /\ \E d \in DepositLands : Commit("deposit", e, 0, Deposit[e], d)
  /\ UNCHANGED <<now, record, row>>

\* A wallet pays the deposit in by itself and then asks for an escrow.
WalletDeposit(e) ==
  /\ "wallet" \in DepositsBy
  /\ xfer[e] = <<>>
  /\ op # Idle => op.escrow # e
  /\ xfer' = [xfer EXCEPT ![e] = <<[ kind |-> "deposit", cycle |-> 0,
                 amount |-> Deposit[e], deadline |-> now + Window, fate |-> "delivered" ]>>]
  /\ UNCHANGED <<now, record, row, op>>

\* verifyHoldingDeliveryOnScan: the holding was delivered.
BeginVerified(e) ==
  /\ row[e].status = "none"
  /\ xfer[e] # <<>> /\ Arrived(xfer[e][1])
  /\ CapAllows(e)
  /\ Begin("create", e, "committed", "direct")
  /\ UNCHANGED <<now, xfer, record, row>>

createOperatorEscrow(e) ==
  /\ Recording("create", e)
  /\ record' = [record EXCEPT ![e] = [status |-> "Active", released |-> 0]]

FinishCreate(e) ==
  Finish("create", e,
    [ status |-> "active", released |-> 0, nextDueAt |-> now, stalls |-> 0,
      legs |-> <<NewLeg(Len(xfer[e]), op.delivery)>> ])

----------------------------------------------------------------------------
(* releaseEscrowOnce *)

amountDue(e) == LET left == remainingOf(row[e], e) IN IF Rate < left THEN Rate ELSE left

Due(e) == row[e].nextDueAt <= now

BeginRelease(e) ==
  /\ row[e].status = "active"
  /\ Due(e)
  /\ remainingOf(row[e], e) > 0
  /\ assertPoolSolvent
  /\ Begin("release", e, "begun", "direct")
  /\ UNCHANGED <<now, xfer, record, row>>

\* Nothing left: complete the row, or look again one cadence later.
CloseOrWait(e) ==
  /\ op = Idle
  /\ row[e].status = "active"
  /\ Due(e)
  /\ remainingOf(row[e], e) = 0
  /\ SaveRow(e, LET r == CompleteIfDone(row[e], e) IN
                IF r.status = "completed" THEN r ELSE [r EXCEPT !.nextDueAt = now + Cadence])
  /\ UNCHANGED <<now, xfer, record, op>>

CommitRelease(e) ==
  /\ At("release", e, "begun")
  /\ \E d \in Deliveries[e] : Commit("release", e, cycleNo(e), amountDue(e), d)
  /\ UNCHANGED <<now, record, row>>

RecordedAmount(e) == xfer[e][Len(xfer[e])].amount
\* The RecordRelease choice on the ledger's own record, best effort.
recordEscrowRelease(e) ==
  /\ Recording("release", e)
  /\ \/ /\ record[e].status = "Active"
        /\ record[e].released + xfer[e][Len(xfer[e])].amount <= Deposit[e]
        /\ record' = [record EXCEPT ![e].released = @ + RecordedAmount(e)]
     \/ UNCHANGED record

FinishRelease(e) ==
  LET i == Len(xfer[e]) IN
  Finish("release", e,
    CompleteIfDone([row[e] EXCEPT !.released = @ + xfer[e][i].amount,
                                  !.nextDueAt = now + Cadence,
                                  !.legs = Append(@, NewLeg(i, op.delivery))], e))

----------------------------------------------------------------------------
(* refundEscrow *)

\* With nothing left to return the row is closed without a transfer.
BeginRefund(e) ==
  /\ row[e].status = "active"
  /\ IF remainingOf(row[e], e) > 0
     THEN assertPoolSolvent /\ Begin("refund", e, "begun", "direct")
     ELSE Begin("refund", e, "committed", "none")
  /\ UNCHANGED <<now, xfer, record, row>>

RefundAmount(e) == remainingOf(row[e], e)

CommitRefund(e) ==
  /\ At("refund", e, "begun")
  /\ \E d \in Deliveries[e] : Commit("refund", e, 0, RefundAmount(e), d)
  /\ UNCHANGED <<now, record, row>>

\* The Refund choice on the ledger's own record, best effort.
recordEscrowRefund(e) ==
  /\ Recording("refund", e)
  /\ \/ /\ record[e].status = "Active"
        /\ record' = [record EXCEPT ![e].status = "Cancelled"]
     \/ UNCHANGED record

FinishRefund(e) ==
  LET closed == [row[e] EXCEPT !.status = "refunded", !.nextDueAt = 0] IN
  Finish("refund", e,
    IF op.delivery = "none" THEN closed
    ELSE [closed EXCEPT !.released = Deposit[e],
                        !.legs = Append(@, NewLeg(Len(xfer[e]), op.delivery))])

----------------------------------------------------------------------------
(* reconcile: read the chain's open offers, infer what became of the others *)

Gone(e, l) == xfer[e][l.cid].fate # "open"
PastDeadline(e, l) == xfer[e][l.cid].deadline <= now
Outgoing(e, l) == xfer[e][l.cid].kind # "deposit"

LeavesWhenGone(e, l) == IF Gone(e, l) THEN "accepted" ELSE "active"
InferredStatus(e, l) ==
  IF l.status # "active" \/ ~Gone(e, l) THEN l.status
  ELSE IF PastDeadline(e, l) THEN "expired"
  ELSE IF Outgoing(e, l) THEN "accepted"
  ELSE "active"

reconcile(e) ==
  LET r == row[e]
      next(n) == InferredStatus(e, r.legs[n])
      changed == { n \in LegsOf(r, e, "release") : next(n) # r.legs[n].status }
      expired == { n \in changed : next(n) = "expired" }
      after ==
        [ r EXCEPT
            !.legs = [n \in DOMAIN r.legs |-> [r.legs[n] EXCEPT !.status = next(n)]],
            !.released = Unreleased(r, e, expired),
            !.status = IF expired # {} /\ @ = "completed" THEN "active" ELSE @,
            !.stalls = IF \E n \in changed : next(n) = "accepted" THEN 0 ELSE @ ]
  IN  /\ op = Idle
      /\ r.status # "none"
      /\ row[e] # IF after.status = "active" THEN CompleteIfDone(after, e) ELSE after
      /\ SaveRow(e, IF after.status = "active" THEN CompleteIfDone(after, e) ELSE after)
      /\ UNCHANGED <<now, xfer, record, op>>

----------------------------------------------------------------------------
(* reclaimExpiredReleases: withdraw offers that nothing sweeps *)

StuckWhileOwing(e) ==
  { n \in LegsOf(row[e], e, "release") :
      /\ remainingOf(row[e], e) > 0
      /\ row[e].legs[n].status = "active"
      /\ PastDeadline(e, row[e].legs[n])
      /\ ~Gone(e, row[e].legs[n]) }
Stuck(e) ==
  { n \in LegsOf(row[e], e, "release") :
      /\ row[e].legs[n].status = "active"
      /\ PastDeadline(e, row[e].legs[n])
      /\ ~Gone(e, row[e].legs[n]) }

BeginReclaim(e) ==
  /\ op = Idle
  /\ ~AutoSweep
  /\ row[e].status \in {"active", "completed"}
  /\ Stuck(e) # {}
  /\ op' = [kind |-> "reclaim", escrow |-> e, stage |-> "begun", todo |-> Stuck(e), done |-> {}]
  /\ UNCHANGED <<now, xfer, record, row>>

\* One withdrawal on chain; one that fails is skipped.
WithdrawOffer(e) ==
  /\ op.kind = "reclaim" /\ op.escrow = e
  /\ \E n \in op.todo :
       \/ /\ xfer[e][row[e].legs[n].cid].fate = "open"
          /\ SetFate(e, row[e].legs[n].cid, "reverted")
          /\ op' = [op EXCEPT !.todo = @ \ {n}, !.done = @ \cup {n}, !.stage = "committed"]
       \/ /\ op' = [op EXCEPT !.todo = @ \ {n}]
          /\ UNCHANGED xfer
  /\ UNCHANGED <<now, record, row>>

FinishReclaim(e) ==
  /\ op.kind = "reclaim" /\ op.escrow = e /\ op.todo = {}
  /\ SaveRow(e,
       IF op.done = {} THEN row[e]
       ELSE [row[e] EXCEPT
               !.legs = [n \in DOMAIN @ |->
                           IF n \in op.done THEN [@[n] EXCEPT !.status = "withdrawn"] ELSE @[n]],
               !.released = Unreleased(row[e], e, op.done),
               !.status = "active",
               !.stalls = @ + Cardinality(op.done)])
  /\ op' = Idle
  /\ UNCHANGED <<now, xfer, record>>

----------------------------------------------------------------------------
\* What the streamer asks for on every tick: it leaves out a row whose
\* deliveries keep stalling.
StreamerReleases(e) == row[e].stalls < MaxStalls /\ BeginRelease(e)
StreamerDue(e) == row[e].stalls < MaxStalls /\ Due(e)

OnChain ==
  \E e \in Escrows : \E i \in DOMAIN xfer[e] :
    AcceptOffer(e, i) \/ RejectOffer(e, i) \/ SweepOffer(e, i)

Create(e) == BeginCreate(e) \/ CommitDeposit(e) \/ WalletDeposit(e) \/ BeginVerified(e)
             \/ createOperatorEscrow(e) \/ FinishCreate(e)
Release(e) == BeginRelease(e) \/ CloseOrWait(e) \/ CommitRelease(e) \/ recordEscrowRelease(e) \/ FinishRelease(e)
Refund(e) == BeginRefund(e) \/ CommitRefund(e) \/ recordEscrowRefund(e) \/ FinishRefund(e)
Reclaim(e) == BeginReclaim(e) \/ WithdrawOffer(e) \/ FinishReclaim(e)

Next ==
  \/ OnChain \/ Tick \/ GiveUp
  \/ \E e \in Escrows : Create(e) \/ Release(e) \/ Refund(e) \/ reconcile(e) \/ Reclaim(e)

Spec == Init /\ [][Next]_vars

----------------------------------------------------------------------------
(* Properties *)

Running == [ kind : {"create", "release", "refund"}, escrow : Escrows,
             stage : {"begun", "committed", "recorded"}, delivery : {"direct", "offer", "none"} ]
Reclaiming == [ kind : {"reclaim"}, escrow : Escrows, stage : {"begun", "committed"},
                todo : SUBSET Nat, done : SUBSET Nat ]

\* Types: an escrow's legs point at its own transfers.
TypeOK ==
  /\ now \in 0 .. MaxTime
  /\ xfer \in [Escrows -> Seq(Transfer)]
  /\ record \in [Escrows -> [status : {"none", "Active", "Cancelled"}, released : Nat]]
  /\ row \in [Escrows -> Row]
  /\ op = Idle \/ op \in Running \/ op \in Reclaiming
  /\ \A e \in Escrows : \A n \in DOMAIN row[e].legs : row[e].legs[n].cid \in DOMAIN xfer[e]

\* No release or refund leaves in custody less than the other active escrows
\* are owed (assertPoolSolvent), even after a transfer whose row was never
\* saved and while offers lapse.
OthersCovered ==
  [][ \A e \in Escrows :
        /\ Len(xfer'[e]) > Len(xfer[e])
        /\ xfer'[e][Len(xfer'[e])].kind # "deposit"
        => poolFreeBalance' >=
             Total([f \in ActiveRows \ {e} |-> remainingOf(row[f], f)]) ]_vars

CommittedAt(t) == t.deadline - Window
ReleaseLegs(e) == LegsOf(row[e], e, "release")

\* The releases a row records are Cadence apart on chain, whoever asked for
\* them and however long each took (releaseEscrowOnce).
CadenceRespected ==
  \A e \in Escrows : \A m, n \in ReleaseLegs(e) :
    m < n => CommittedAt(xfer[e][row[e].legs[n].cid])
               >= CommittedAt(xfer[e][row[e].legs[m].cid]) + Cadence

\* An escrow is completed only when the payee has received the whole deposit:
\* offers still open, or lapsed, do not count (hasPendingRelease, reconcile).
CompletedMeansDelivered ==
  \A e \in Escrows : row[e].status = "completed" => paid(e) >= Deposit[e]

Undone(l) == l.status \in {"expired", "withdrawn"}

\* What an open or completed row counts as released is what its release legs
\* add up to, the reverted ones left out (reconcile's valueConservation check).
ReleasedMatchesLegs ==
  \A e \in Escrows : row[e].status \in {"active", "completed"} =>
    row[e].released =
      Total([ n \in { m \in ReleaseLegs(e) : ~Undone(row[e].legs[m]) } |->
                xfer[e][row[e].legs[n].cid].amount ])

\* The contract on chain never claims more released than was transferred
\* (RecordRelease is exercised after the transfer, with its amount).
RecordNeverAhead ==
  \A e \in Escrows :
    record[e].released <= SumOf(e, { i \in DOMAIN xfer[e] : xfer[e][i].kind = "release" })

Recorded(e, i) == \E n \in DOMAIN row[e].legs : row[e].legs[n].cid = i

\* Every transfer is in the row, or about to be, and none it calls reverted
\* has reached anyone.
Faithful(e) ==
  /\ \A i \in DOMAIN xfer[e] :
       LeftCustody(xfer[e][i]) =>
         Recorded(e, i) \/ (i = Len(xfer[e]) /\ op # Idle /\ op.escrow = e)
  /\ \A n \in DOMAIN row[e].legs :
       Undone(row[e].legs[n]) => xfer[e][row[e].legs[n].cid].fate = "reverted"

\* As long as its row is faithful to the chain, an escrow never sends out more
\* than its own deposit, releases and refund together.
NoOverpayment == \A e \in Escrows : Faithful(e) => sentOut(e) <= Deposit[e]

\* A cycle is never transferred twice, whatever died in between (the
\* deterministic command id of settleCycle).
OneTransferPerCycle ==
  \A e \in Escrows : \A i, j \in DOMAIN xfer[e] :
    /\ xfer[e][i].kind = "release" /\ xfer[e][j].kind = "release"
    /\ xfer[e][i].cycle = xfer[e][j].cycle
    => i = j

\* The payee is paid once per cycle, at the agreed pace and out of the escrow's own
\* deposit, whoever released, whatever died in between and however often it was tried.
PayoutsBounded == NoOverpayment /\ OneTransferPerCycle /\ CadenceRespected

\* What the rows and the on-ledger records say was released has really left custody,
\* and what they call finished has arrived.
RowsMatchChain ==
  TypeOK /\ ReleasedMatchesLegs /\ CompletedMeansDelivered /\ RecordNeverAhead
============================================================================
