---------------------------- MODULE MCEscrowLane ----------------------------
(***************************************************************************)
(* EscrowLane for TLC: the deposits of its two escrows, the statements of  *)
(* comments and docs that the code does not keep, and its liveness.        *)
(***************************************************************************)
EXTENDS EscrowLane

CONSTANTS e1, e2   \* escrows

Uneven == [e \in Escrows |-> IF e = e1 THEN 3 ELSE 2]

AnyDelivery == [e \in Escrows |-> {"direct", "offer"}]
\* The payee of e1 has a preapproval, the payee of e2 has none.
ByPreapproval == [e \in Escrows |-> IF e = e1 THEN {"direct"} ELSE {"offer"}]

----------------------------------------------------------------------------
(* What comments and docs say, and the code does not keep *)

\* "Past executeBefore, an accept can no longer succeed": a leg called expired
\* has come back to custody.
ExpiredMeansReverted ==
  \A e \in Escrows : \A n \in DOMAIN row[e].legs :
    row[e].legs[n].status = "expired" => xfer[e][row[e].legs[n].cid].fate = "reverted"

\* "Can only have been accepted": an outgoing offer called accepted has reached
\* its receiver.
AcceptedMeansDelivered ==
  \A e \in Escrows : \A n \in DOMAIN row[e].legs :
    row[e].legs[n].status = "accepted" => xfer[e][row[e].legs[n].cid].fate = "accepted"

\* "reopens the escrow so the payer's refund can still recover the funds": when
\* a release came back and the escrow's deposit is not used up, it is open.
RevertedReleaseReopens ==
  \A e \in Escrows :
    /\ op = Idle
    /\ \E n \in ReleaseLegs(e) : row[e].legs[n].status = "expired"
    /\ sentOut(e) < Deposit[e]
    => row[e].status = "active"

----------------------------------------------------------------------------
(* Liveness, when the process stays up *)

\* The operation that holds the lock ends, whatever it was.
EndOfOperation ==
  \/ GiveUp
  \/ \E e \in Escrows :
       \/ createOperatorEscrow(e) \/ FinishCreate(e)
       \/ recordEscrowRelease(e) \/ FinishRelease(e)
       \/ recordEscrowRefund(e) \/ FinishRefund(e)
       \/ FinishReclaim(e)

PreapprovedPayees == { e \in Escrows : Deliveries[e] = {"direct"} }

\* Every tick of the streamer asks for the release of each active row that is due, and
\* then for the reclaim of each active row, in turn; other operations may take the lock
\* in between.  What is tried on every tick, a transfer or a withdrawal, is not refused
\* for ever.  Time passes.  Nobody is obliged to reconcile, and of the releases only
\* those to payees with a preapproval are counted on.
Fairness ==
  /\ WF_vars(Tick) /\ WF_vars(EndOfOperation)
  /\ \A e \in PreapprovedPayees :
       SF_vars(StreamerReleases(e)) /\ SF_vars(CommitRelease(e))
  /\ \A e \in Escrows \ PreapprovedPayees :
       /\ SF_vars(row[e].status = "active" /\ BeginReclaim(e))
       /\ SF_vars(WithdrawOffer(e) /\ xfer' # xfer)

LiveSpec == Spec /\ Fairness

\* An acceptance was read after the deadline of its offer and taken for a lapse: from
\* then on a row claims money that has left custody.
AcceptanceMisread == ~ExpiredMeansReverted

\* A cycle of an escrow whose payee has a preapproval is released once it is due, or the
\* escrow is refunded or done: however late the streamer comes, neither the interlock nor
\* the lock nor the offers of another escrow, which lapse, are rejected or are sent anew,
\* hold it up for ever (tick, assertPoolSolvent).  The exception is a pool that lacks
\* what an acceptance read too late has been credited back.
DueCyclesAreReleased ==
  \A e \in PreapprovedPayees : \A cycles \in 0 .. Deposit[e] \div Rate :
    (row[e].status = "active" /\ row[e].released = cycles * Rate /\ row[e].nextDueAt <= MaxTime)
      ~> (row[e].status # "active" \/ row[e].released > cycles * Rate \/ AcceptanceMisread)

LockedPast(e, i) ==
  /\ i \in DOMAIN xfer[e]
  /\ xfer[e][i].kind = "release" /\ xfer[e][i].fate = "open"
  /\ now >= xfer[e][i].deadline

\* A release that lapses unaccepted does not stay locked: its funds come back
\* to custody, unless its escrow has been refunded meanwhile
\* (reclaimExpiredReleases).  The first transfer of an escrow is its deposit.
LapsedFundsComeBack ==
  \A e \in Escrows \ PreapprovedPayees : \A i \in 2 .. MaxTransfers :
    (LockedPast(e, i) /\ Recorded(e, i)) ~> (~LockedPast(e, i) \/ row[e].status = "refunded")
============================================================================
