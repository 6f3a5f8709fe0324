-------------------------- MODULE EscrowLane_proofs --------------------------
(***************************************************************************)
(* The escrow lane keeps its promises for any escrows, deposits, rates and *)
(* cadences, whoever asks for releases, refunds and reclaims, whenever the *)
(* process dies and however receivers and the clock act in between: its    *)
(* rows say what the chain did, no escrow sends out more than its own      *)
(* deposit, and the pool covers the others.                                *)
(***************************************************************************)
EXTENDS EscrowLane, SequenceTheorems, Arithmetic_proofs

Transfers(e) == DOMAIN xfer[e]
last(e) == xfer[e][Len(xfer[e])]
legXfer(e, n) == xfer[e][row[e].legs[n].cid]
Open(e) == row[e].status \in {"active", "completed"}
Busy(e) == op # Idle /\ op.escrow = e

\* A transfer of e is committed, and its row not yet saved.
Pays(e, kinds) ==
  Busy(e) /\ op.kind \in kinds /\ op.stage \in {"committed", "recorded"} /\ op.delivery # "none"

Typed ==
  /\ now \in Nat /\ now <= MaxTime
  /\ xfer \in [Escrows -> Seq(Transfer)]
  /\ record \in [Escrows -> [status : {"none", "Active", "Cancelled"}, released : Nat]]
  /\ row \in [Escrows -> Row] /\ \A e \in Escrows : row[e].released \in Nat
  /\ op = Idle \/ op \in Running \/ op \in Reclaiming

\* Offers keep to their deadlines.
Dated ==
  \A e \in Escrows : \A i \in Transfers(e) :
    /\ Window <= xfer[e][i].deadline /\ xfer[e][i].deadline <= now + Window
    /\ xfer[e][i].fate = "reverted" /\ ~ReceiverRejects => xfer[e][i].deadline <= now

\* Each leg stands for a transfer of its own, and says of it what is so.
LegsFit(e) ==
  /\ \A n \in DOMAIN row[e].legs : row[e].legs[n].cid \in Transfers(e)
  /\ \A m, n \in DOMAIN row[e].legs : row[e].legs[m].cid = row[e].legs[n].cid => m = n
  /\ \A n \in DOMAIN row[e].legs : Outgoing(e, row[e].legs[n]) =>
       /\ row[e].legs[n].status = "direct" => Arrived(legXfer(e, n))
       /\ row[e].legs[n].status = "accepted" /\ ~ReceiverRejects => Arrived(legXfer(e, n))

\* What the status of a row says of its legs.
StatusFits(e) ==
  /\ row[e].status = "none" =>
       row[e].legs = <<>> /\ \A i \in Transfers(e) : xfer[e][i].kind = "deposit"
  /\ Open(e) => \A n \in DOMAIN row[e].legs : legXfer(e, n).kind # "refund"
  /\ row[e].status = "completed" => remainingOf(row[e], e) = 0 /\ ~hasPendingRelease(row[e], e)

\* The legs that moved funds out of custody, and what they add up to.
Kept(e) == { n \in DOMAIN row[e].legs : Outgoing(e, row[e].legs[n]) /\ ~Undone(row[e].legs[n]) }
counted(e) == Total([n \in Kept(e) |-> legXfer(e, n).amount])

\* The legs fit into the deposit, and so does the last transfer on top of them if no
\* leg stands for it; an open row counts them as released.
WithinDeposit(e) ==
  /\ counted(e) <= Deposit[e]
  /\ Open(e) => row[e].released = counted(e)
  /\ Transfers(e) # {} /\ LeftCustody(last(e)) /\ ~Recorded(e, Len(xfer[e]))
       => last(e).amount + counted(e) <= Deposit[e]

\* The next release is due a cadence after each release the row records.
DueLater(e) ==
  Open(e) => \A n \in ReleaseLegs(e) : CommittedAt(legXfer(e, n)) + Cadence <= row[e].nextDueAt

\* The releases it records are a cadence apart.
Paced(e) ==
  \A m, n \in ReleaseLegs(e) :
    m < n => CommittedAt(legXfer(e, n)) >= CommittedAt(legXfer(e, m)) + Cadence

\* Where the operation under way is: its row has not changed since it began, its
\* transfer is the last one, and no leg stands for it yet.
OpFits(e) ==
  /\ Busy(e) /\ op.kind = "create" =>
       row[e].status = "none" /\ (op.stage # "begun" => Transfers(e) # {})
  /\ Busy(e) /\ op.kind = "release" =>
       row[e].status = "active" /\ row[e].nextDueAt <= now /\ op.delivery # "none"
  /\ Busy(e) /\ op.kind = "refund" =>
       /\ row[e].status = "active" /\ (op.stage = "begun" => op.delivery # "none")
  /\ Busy(e) /\ op.kind = "reclaim" =>
       /\ Open(e)
       /\ \A n \in op.todo \cup op.done : n \in ReleaseLegs(e) /\ row[e].legs[n].status = "active"
       /\ \A n \in op.todo : PastDeadline(e, row[e].legs[n])
  /\ Pays(e, {"release", "refund"}) =>
       /\ Transfers(e) # {} /\ ~Recorded(e, Len(xfer[e]))
       /\ last(e).kind = op.kind
       /\ last(e).amount <= remainingOf(row[e], e)
       /\ op.kind = "refund" => last(e).amount = remainingOf(row[e], e)
       /\ op.delivery = "direct" => last(e).fate = "delivered"
  /\ Pays(e, {"release"}) => row[e].nextDueAt <= CommittedAt(last(e))

\* The record is behind the chain by the release that is under way, at least.
released(e) == SumOf(e, { i \in Transfers(e) : xfer[e][i].kind = "release" })
RecordBehind(e) ==
  record[e].released
    + (IF Pays(e, {"release"}) /\ op.stage = "committed" THEN last(e).amount ELSE 0)
    <= released(e)

\* No cycle after the current one was transferred, and the ones the row records lie
\* before it.
CyclesFit(e) ==
  /\ \A i \in Transfers(e) : xfer[e][i].kind = "release" => xfer[e][i].cycle <= cycleNo(e)
  /\ \A n \in ReleaseLegs(e) : legXfer(e, n).cycle < cycleNo(e)

\* The pool covers every active row from the interlock to the transfer.
Interlocked ==
  op # Idle /\ op.kind \in {"release", "refund"} /\ op.stage = "begun" => assertPoolSolvent

\* What does not depend on the operation under way, and what does.
Store(e) ==
  /\ LegsFit(e) /\ StatusFits(e) /\ WithinDeposit(e)
  /\ DueLater(e) /\ Paced(e)
Course(e) == OpFits(e) /\ RecordBehind(e) /\ CyclesFit(e)

Inv ==
  /\ Typed /\ Dated /\ Interlocked
  /\ \A e \in Escrows : Store(e) /\ Course(e)

----------------------------------------------------------------------------
(* Types, sums, and escrows that a step leaves alone *)

LEMMA TypeFacts ==
  ASSUME Typed, NEW e \in Escrows
  PROVE  /\ Len(xfer[e]) \in Nat /\ Transfers(e) = 1 .. Len(xfer[e])
         /\ \A i \in Transfers(e) : xfer[e][i] \in Transfer
         /\ Len(row[e].legs) \in Nat /\ DOMAIN row[e].legs = 1 .. Len(row[e].legs)
         /\ \A n \in DOMAIN row[e].legs : row[e].legs[n] \in Leg
         /\ row[e] \in Row /\ row[e].released \in Nat /\ row[e].nextDueAt \in Nat
         /\ row[e].stalls \in Nat /\ row[e].legs \in Seq(Leg)
         /\ record[e].released \in Nat /\ Deposit[e] \in Nat
<1>1. xfer[e] \in Seq(Transfer) /\ row[e] \in Row /\ row[e].released \in Nat
      /\ record[e] \in [status : {"none", "Active", "Cancelled"}, released : Nat]
  BY DEF Typed
<1>2. row[e].legs \in Seq(Leg) /\ row[e].nextDueAt \in Nat /\ row[e].stalls \in Nat
  BY <1>1 DEF Row
<1>3. Deposit[e] \in Nat
  BY LaneAssumption
<1> QED
  BY <1>1, <1>2, <1>3 DEF Transfers

\* A set of transfers adds up to a natural number.
LEMMA SumFacts ==
  ASSUME Typed, NEW e \in Escrows, NEW S \in SUBSET Transfers(e)
  PROVE  /\ IsFiniteSet(S)
         /\ Summable([i \in S |-> xfer[e][i].amount])
         /\ SumOf(e, S) \in Nat
<1>1. IsFiniteSet(S)
  <2>1. IsFiniteSet(Transfers(e))
    BY TypeFacts, FS_Interval
  <2> QED BY <2>1, FS_Subset
<1>2. \A i \in S : xfer[e][i].amount \in Nat
  BY TypeFacts DEF Transfer
<1>3. Summable([i \in S |-> xfer[e][i].amount])
  BY <1>1, <1>2 DEF Summable
<1> QED
  BY <1>1, <1>3, UnitsFinite DEF SumOf

\* So does a set of legs.
LEMMA LegFacts ==
  ASSUME Typed, NEW e \in Escrows, LegsFit(e), NEW S \in SUBSET DOMAIN row[e].legs
  PROVE  /\ IsFiniteSet(S) /\ Cardinality(S) \in Nat
         /\ \A n \in S : legXfer(e, n) \in Transfer
         /\ Summable([n \in S |-> legXfer(e, n).amount])
         /\ Total([n \in S |-> legXfer(e, n).amount]) \in Nat
<1>1. IsFiniteSet(S)
  <2>1. IsFiniteSet(DOMAIN row[e].legs)
    BY TypeFacts, FS_Interval
  <2> QED BY <2>1, FS_Subset
<1>2. \A n \in S : legXfer(e, n) \in Transfer
  BY TypeFacts DEF LegsFit, legXfer
<1>3. \A n \in S : legXfer(e, n).amount \in Nat
  BY <1>2 DEF Transfer
<1>4. Summable([n \in S |-> legXfer(e, n).amount])
  BY <1>1, <1>3 DEF Summable
<1> QED
  BY <1>1, <1>2, <1>4, UnitsFinite, FS_CardinalityType

\* What undoing legs leaves of the released amount.
LEMMA UnreleasedIs ==
  ASSUME Typed, NEW e \in Escrows, LegsFit(e), NEW S \in SUBSET DOMAIN row[e].legs
  PROVE  LET t == Total([n \in S |-> legXfer(e, n).amount]) IN
         /\ Unreleased(row[e], e, S) \in Nat
         /\ t \in Nat /\ row[e].released \in Nat
         /\ t <= row[e].released => Unreleased(row[e], e, S) = row[e].released - t
<1> DEFINE t == Total([n \in S |-> legXfer(e, n).amount])
<1>1. t \in Nat /\ row[e].released \in Nat
  BY LegFacts, TypeFacts
<1>2. t = Total([n \in S |-> xfer[e][row[e].legs[n].cid].amount])
  BY DEF legXfer
<1>3. Unreleased(row[e], e, S) = IF row[e].released - t < 0 THEN 0 ELSE row[e].released - t
  BY <1>2 DEF Unreleased
<1> HIDE DEF t
<1>4. /\ Unreleased(row[e], e, S) \in Nat
      /\ t <= row[e].released => Unreleased(row[e], e, S) = row[e].released - t
  BY <1>1, <1>3
<1> QED BY <1>1, <1>4 DEF t

LEMMA CountedNat ==
  ASSUME Typed, NEW e \in Escrows, LegsFit(e)
  PROVE  /\ Kept(e) \in SUBSET DOMAIN row[e].legs /\ counted(e) \in Nat
         /\ ReleaseLegs(e) \in SUBSET DOMAIN row[e].legs
         /\ Cardinality(ReleaseLegs(e)) \in Nat /\ cycleNo(e) = Cardinality(ReleaseLegs(e)) + 1
<1>1. Kept(e) \in SUBSET DOMAIN row[e].legs /\ ReleaseLegs(e) \in SUBSET DOMAIN row[e].legs
  BY DEF Kept, ReleaseLegs, LegsOf
<1> QED
  BY <1>1, LegFacts DEF counted, cycleNo, ReleaseLegs

LEMMA LegCommitted ==
  ASSUME Typed, NEW e \in Escrows, LegsFit(e)
  PROVE  \A n \in DOMAIN row[e].legs : CommittedAt(legXfer(e, n)) \in Int
<1>1. \A n \in DOMAIN row[e].legs : legXfer(e, n) \in Transfer
  BY LegFacts
<1>2. Window \in Nat
  BY LaneAssumption
<1> QED
  BY <1>1, <1>2 DEF CommittedAt, Transfer

LEMMA SameStore ==
  ASSUME NEW e \in Escrows, Store(e), xfer'[e] = xfer[e], row'[e] = row[e]
  PROVE  Store(e)'
<1>1. /\ Transfers(e)' = Transfers(e) /\ last(e)' = last(e) /\ Kept(e)' = Kept(e)
      /\ ReleaseLegs(e)' = ReleaseLegs(e) /\ (Open(e)' <=> Open(e))
  BY DEF Transfers, last, Kept, ReleaseLegs, LegsOf, Open, Outgoing
<1>2. \A n : legXfer(e, n)' = legXfer(e, n)
  BY DEF legXfer
<1>3. counted(e)' = counted(e)
  BY <1>1, <1>2 DEF counted
<1>4. \A i : Recorded(e, i)' <=> Recorded(e, i)
  BY DEF Recorded
<1>5. LegsFit(e)'
  BY <1>1, <1>2 DEF Store, LegsFit, Outgoing
<1>6. remainingOf(row[e], e)' = remainingOf(row[e], e)
      /\ (hasPendingRelease(row[e], e)' <=> hasPendingRelease(row[e], e))
  BY DEF remainingOf, hasPendingRelease, LegsOf
<1>7. StatusFits(e)'
  BY <1>1, <1>2, <1>6 DEF Store, StatusFits
<1>8. WithinDeposit(e)'
  BY <1>1, <1>3, <1>4 DEF Store, WithinDeposit
<1>9. DueLater(e)' /\ Paced(e)'
  BY <1>1, <1>2 DEF Store, DueLater, Paced
<1> QED
  BY <1>5, <1>7, <1>8, <1>9 DEF Store

\* The operation goes on, or e has none any more.
LEMMA SameCourse ==
  ASSUME Typed, NEW e \in Escrows, Store(e), Course(e), xfer'[e] = xfer[e], row'[e] = row[e],
         record'[e] = record[e], now \in Nat, now' \in Nat, now <= now',
         op' = op \/ ~Busy(e)'
  PROVE  Course(e)'
<1>1. /\ Transfers(e)' = Transfers(e) /\ last(e)' = last(e) /\ released(e)' = released(e)
      /\ ReleaseLegs(e)' = ReleaseLegs(e) /\ cycleNo(e)' = cycleNo(e) /\ (Open(e)' <=> Open(e))
      /\ \A n : legXfer(e, n)' = legXfer(e, n)
  BY DEF Transfers, last, released, SumOf, ReleaseLegs, LegsOf, cycleNo, Open, legXfer
<1>2. \A i : Recorded(e, i)' <=> Recorded(e, i)
  BY DEF Recorded
<1>7. CyclesFit(e)'
  BY <1>1 DEF Course, CyclesFit
<1>3. remainingOf(row[e], e)' = remainingOf(row[e], e)
  BY DEF remainingOf
<1>4. /\ released(e) \in Nat /\ record[e].released \in Nat
      /\ Transfers(e) # {} => last(e).amount \in Nat
      /\ \A n \in ReleaseLegs(e) : legXfer(e, n).deadline \in Nat
      /\ row[e].nextDueAt \in Nat
  <2>1. released(e) \in Nat
    BY SumFacts DEF released
  <2>2. Transfers(e) # {} => last(e) \in Transfer
    BY TypeFacts DEF last
  <2>3. \A n \in ReleaseLegs(e) : legXfer(e, n).deadline \in Nat
    BY LegFacts DEF Transfer, Store, ReleaseLegs, LegsOf
  <2> QED BY <2>1, <2>2, <2>3, TypeFacts DEF Transfer
<1>5. CASE op' = op
  <2>1. \A K : Pays(e, K)' <=> Pays(e, K)
    BY <1>5 DEF Pays, Busy
  <2>2. Busy(e)' <=> Busy(e)
    BY <1>5 DEF Busy
  <2>3. \A n \in ReleaseLegs(e) :
          PastDeadline(e, row[e].legs[n]) => PastDeadline(e, row[e].legs[n])'
    <3> SUFFICES ASSUME NEW n \in ReleaseLegs(e), legXfer(e, n).deadline <= now
                 PROVE  legXfer(e, n).deadline <= now'
      BY DEF PastDeadline, legXfer
    <3>1. legXfer(e, n).deadline \in Nat
      BY <1>4
    <3> QED BY <3>1
  <2>4. row[e].nextDueAt <= now => row'[e].nextDueAt <= now'
    BY <1>4
  <2>5. OpFits(e)'
    BY <1>1, <1>2, <1>3, <1>5, <2>1, <2>2, <2>3, <2>4 DEF Course, OpFits
  <2>6. RecordBehind(e)'
    BY <1>1, <1>5, <2>1 DEF Course, RecordBehind
  <2> QED BY <1>7, <2>5, <2>6 DEF Course
<1>6. CASE ~Busy(e)'
  <2>1. \A K : ~Pays(e, K)'
    BY <1>6 DEF Pays
  <2>2. OpFits(e)'
    BY <1>6, <2>1 DEF OpFits
  <2>3. RecordBehind(e)'
    <3>1. Pays(e, {"release"}) => Transfers(e) # {}
      BY DEF Course, OpFits, Pays
    <3> QED BY <1>1, <1>4, <2>1, <3>1 DEF Course, RecordBehind
  <2> QED BY <1>7, <2>2, <2>3 DEF Course
<1> QED
  BY <1>5, <1>6

----------------------------------------------------------------------------
(* A transfer changes its fate *)

LEMMA FateFacts ==
  ASSUME Typed, NEW e \in Escrows, NEW i \in Transfers(e), NEW fate \in {"accepted", "reverted"},
         xfer[e][i].fate = "open", SetFate(e, i, fate)
  PROVE  /\ xfer' \in [Escrows -> Seq(Transfer)]
         /\ \A f \in Escrows \ {e} : xfer'[f] = xfer[f]
         /\ Transfers(e)' = Transfers(e) /\ Len(xfer'[e]) = Len(xfer[e])
         /\ \A j \in Transfers(e) :
              /\ xfer'[e][j].kind = xfer[e][j].kind /\ xfer'[e][j].amount = xfer[e][j].amount
              /\ xfer'[e][j].cycle = xfer[e][j].cycle
              /\ xfer'[e][j].deadline = xfer[e][j].deadline
              /\ xfer'[e][j].fate = IF j = i THEN fate ELSE xfer[e][j].fate
<1> DEFINE t == [xfer[e][i] EXCEPT !.fate = fate]
<1>1. xfer[e] \in Seq(Transfer) /\ i \in 1 .. Len(xfer[e]) /\ xfer[e][i] \in Transfer
  BY TypeFacts DEF Typed
<1>2. /\ t \in Transfer /\ t.fate = fate /\ t.kind = xfer[e][i].kind
      /\ t.amount = xfer[e][i].amount /\ t.cycle = xfer[e][i].cycle
      /\ t.deadline = xfer[e][i].deadline
  BY <1>1 DEF Transfer
<1>3. xfer' = [xfer EXCEPT ![e] = [xfer[e] EXCEPT ![i] = t]]
  BY DEF SetFate, Typed
<1> HIDE DEF t
<1>4. /\ xfer'[e] = [xfer[e] EXCEPT ![i] = t]
      /\ \A f \in Escrows \ {e} : xfer'[f] = xfer[f]
      /\ DOMAIN xfer' = Escrows
  BY <1>3 DEF Typed
<1>5. /\ xfer'[e] \in Seq(Transfer) /\ Len(xfer'[e]) = Len(xfer[e])
      /\ DOMAIN xfer'[e] = 1 .. Len(xfer[e])
      /\ \A j \in 1 .. Len(xfer[e]) : xfer'[e][j] = IF j = i THEN t ELSE xfer[e][j]
  BY <1>1, <1>2, <1>4
<1>6. xfer' \in [Escrows -> Seq(Transfer)]
  BY <1>3, <1>4, <1>5 DEF Typed
<1>7. Transfers(e)' = Transfers(e) /\ Transfers(e) = 1 .. Len(xfer[e])
  BY <1>5, TypeFacts DEF Transfers
<1> QED
  BY <1>2, <1>4, <1>5, <1>6, <1>7

LEMMA FateKeepsStore ==
  ASSUME Typed, NEW e \in Escrows, Store(e), NEW i \in Transfers(e),
         NEW fate \in {"accepted", "reverted"}, xfer[e][i].fate = "open", SetFate(e, i, fate),
         row'[e] = row[e]
  PROVE  /\ Store(e)' /\ released(e)' = released(e)
         /\ Kept(e)' = Kept(e) /\ ReleaseLegs(e)' = ReleaseLegs(e) /\ cycleNo(e)' = cycleNo(e)
         /\ CyclesFit(e) => CyclesFit(e)'
<1>1. /\ Transfers(e)' = Transfers(e) /\ Len(xfer'[e]) = Len(xfer[e])
      /\ \A j \in Transfers(e) :
           /\ xfer'[e][j].kind = xfer[e][j].kind /\ xfer'[e][j].amount = xfer[e][j].amount
           /\ xfer'[e][j].cycle = xfer[e][j].cycle
           /\ xfer'[e][j].deadline = xfer[e][j].deadline
           /\ xfer'[e][j].fate = IF j = i THEN fate ELSE xfer[e][j].fate
  BY FateFacts
<1>2. \A n \in DOMAIN row[e].legs : row[e].legs[n].cid \in Transfers(e)
  BY DEF Store, LegsFit
<1>3. \A n \in DOMAIN row[e].legs :
        /\ legXfer(e, n)'.kind = legXfer(e, n).kind /\ legXfer(e, n)'.amount = legXfer(e, n).amount
        /\ legXfer(e, n)'.deadline = legXfer(e, n).deadline
        /\ legXfer(e, n)'.cycle = legXfer(e, n).cycle
        /\ Arrived(legXfer(e, n)) => Arrived(legXfer(e, n)')
        /\ Outgoing(e, row[e].legs[n])' <=> Outgoing(e, row[e].legs[n])
  <2> SUFFICES ASSUME NEW n \in DOMAIN row[e].legs, NEW j \in Transfers(e),
                      row[e].legs[n].cid = j
               PROVE  /\ xfer'[e][j].kind = xfer[e][j].kind /\ xfer'[e][j].amount = xfer[e][j].amount
                      /\ xfer'[e][j].deadline = xfer[e][j].deadline
                      /\ xfer'[e][j].cycle = xfer[e][j].cycle
                      /\ Arrived(xfer[e][j]) => Arrived(xfer'[e][j])
    BY <1>2 DEF legXfer, Outgoing
  <2> QED BY <1>1 DEF Arrived
<1>4. /\ Kept(e)' = Kept(e) /\ ReleaseLegs(e)' = ReleaseLegs(e) /\ (Open(e)' <=> Open(e))
      /\ Kept(e) \in SUBSET DOMAIN row[e].legs /\ ReleaseLegs(e) \in SUBSET DOMAIN row[e].legs
  <2>1. Kept(e)' = Kept(e) /\ Kept(e) \in SUBSET DOMAIN row[e].legs
    BY <1>3 DEF Kept
  <2>2. ReleaseLegs(e)' = ReleaseLegs(e) /\ ReleaseLegs(e) \in SUBSET DOMAIN row[e].legs
    BY <1>3 DEF ReleaseLegs, LegsOf, legXfer
  <2> QED BY <2>1, <2>2 DEF Open
<1>5. counted(e)' = counted(e)
  BY <1>3, <1>4 DEF counted
<1>6. \A j : Recorded(e, j)' <=> Recorded(e, j)
  BY DEF Recorded
<1>7. LegsFit(e)'
  BY <1>1, <1>3 DEF Store, LegsFit
<1>8. remainingOf(row[e], e)' = remainingOf(row[e], e)
      /\ (hasPendingRelease(row[e], e)' <=> hasPendingRelease(row[e], e))
  BY <1>4 DEF remainingOf, hasPendingRelease, ReleaseLegs
<1>9. StatusFits(e)'
  BY <1>1, <1>3, <1>4, <1>8 DEF Store, StatusFits
<1>10. WithinDeposit(e)'
  <2>1. Transfers(e) # {} => Len(xfer[e]) \in Transfers(e)
    BY TypeFacts
  <2>2. Transfers(e) # {} /\ LeftCustody(last(e))' =>
          LeftCustody(last(e)) /\ last(e)'.amount = last(e).amount
    BY <1>1, <2>1 DEF last, LeftCustody
  <2> QED BY <1>1, <1>4, <1>5, <1>6, <2>2 DEF Store, WithinDeposit
<1>11. DueLater(e)' /\ Paced(e)'
  <2>1. \A n \in ReleaseLegs(e) : CommittedAt(legXfer(e, n)') = CommittedAt(legXfer(e, n))
    BY <1>3, <1>4 DEF CommittedAt
  <2>2. DueLater(e)'
    BY <1>4, <2>1 DEF Store, DueLater, CommittedAt
  <2>3. Paced(e)'
    BY <1>4, <2>1 DEF Store, Paced, CommittedAt
  <2> QED BY <2>2, <2>3
<1>12. released(e)' = released(e)
  <2>1. { j \in Transfers(e)' : xfer'[e][j].kind = "release" } =
          { j \in Transfers(e) : xfer[e][j].kind = "release" }
    BY <1>1
  <2> QED BY <1>1, <2>1 DEF released, SumOf
<1>13. cycleNo(e)' = cycleNo(e)
  BY <1>4 DEF cycleNo, ReleaseLegs
<1>14. CyclesFit(e) => CyclesFit(e)'
  BY <1>1, <1>3, <1>4, <1>13 DEF CyclesFit
<1> QED
  BY <1>4, <1>7, <1>9, <1>10, <1>11, <1>12, <1>13, <1>14 DEF Store

LEMMA FateKeepsCourse ==
  ASSUME Typed, NEW e \in Escrows, Store(e), Course(e), NEW i \in Transfers(e),
         NEW fate \in {"accepted", "reverted"}, xfer[e][i].fate = "open", SetFate(e, i, fate),
         row'[e] = row[e], record'[e] = record[e], now' = now, op' = op
  PROVE  Course(e)'
<1>1. /\ Transfers(e)' = Transfers(e) /\ Len(xfer'[e]) = Len(xfer[e])
      /\ \A j \in Transfers(e) :
           /\ xfer'[e][j].kind = xfer[e][j].kind /\ xfer'[e][j].amount = xfer[e][j].amount
           /\ xfer'[e][j].cycle = xfer[e][j].cycle
           /\ xfer'[e][j].deadline = xfer[e][j].deadline
           /\ xfer'[e][j].fate = IF j = i THEN fate ELSE xfer[e][j].fate
  BY FateFacts
<1>2. released(e)' = released(e) /\ ReleaseLegs(e)' = ReleaseLegs(e) /\ cycleNo(e)' = cycleNo(e)
  BY FateKeepsStore
<1>3. \A K : Pays(e, K)' <=> Pays(e, K)
  BY DEF Pays, Busy
<1>4. (Busy(e)' <=> Busy(e)) /\ (Open(e)' <=> Open(e))
      /\ \A j : Recorded(e, j)' <=> Recorded(e, j)
  BY DEF Busy, Open, Recorded
<1>5. Transfers(e) # {} =>
        /\ last(e)'.kind = last(e).kind /\ last(e)'.amount = last(e).amount
        /\ last(e)'.deadline = last(e).deadline
        /\ last(e).fate = "delivered" => last(e)'.fate = "delivered"
  BY <1>1, TypeFacts DEF last
<1>6. \A n \in ReleaseLegs(e) : PastDeadline(e, row[e].legs[n])' <=> PastDeadline(e, row[e].legs[n])
  BY <1>1 DEF PastDeadline, ReleaseLegs, LegsOf, Store, LegsFit
<1>7. remainingOf(row[e], e)' = remainingOf(row[e], e)
  BY DEF remainingOf
<1>8. OpFits(e)'
  BY <1>1, <1>2, <1>3, <1>4, <1>5, <1>6, <1>7 DEF Course, OpFits, CommittedAt
<1>9. Pays(e, {"release"}) => Transfers(e) # {}
  BY DEF Course, OpFits, Pays
<1>10. RecordBehind(e)'
  BY <1>2, <1>3, <1>5, <1>9 DEF Course, RecordBehind
<1>11. CyclesFit(e)'
  BY FateKeepsStore DEF Course
<1> QED
  BY <1>8, <1>10, <1>11 DEF Course

----------------------------------------------------------------------------
(* The pool *)

LEMMA ArrivedFacts ==
  ASSUME Typed, NEW e \in Escrows
  PROVE  arrived(e, "deposit") \in Nat /\ sentOut(e) \in Nat
BY SumFacts DEF arrived, sentOut, Transfers

LEMMA PoolFacts ==
  ASSUME Typed
  PROVE  /\ Summable([e \in Escrows |-> arrived(e, "deposit")])
         /\ Summable([e \in Escrows |-> sentOut(e)])
         /\ Summable([e \in ActiveRows |-> remainingOf(row[e], e)])
         /\ poolFreeBalance \in Int /\ owedByAsset \in Nat
<1>1. IsFiniteSet(Escrows) /\ ActiveRows \in SUBSET Escrows
  BY LaneAssumption DEF ActiveRows
<1>2. IsFiniteSet(ActiveRows)
  BY <1>1, FS_Subset
<1>3. \A e \in Escrows : remainingOf(row[e], e) \in Nat
  BY TypeFacts DEF remainingOf
<1>4. /\ Summable([e \in Escrows |-> arrived(e, "deposit")])
      /\ Summable([e \in Escrows |-> sentOut(e)])
  BY <1>1, ArrivedFacts DEF Summable
<1>5. Summable([e \in ActiveRows |-> remainingOf(row[e], e)])
  BY <1>1, <1>2, <1>3 DEF Summable
<1> QED
  BY <1>4, <1>5, UnitsFinite DEF poolFreeBalance, owedByAsset

LEMMA PoolFactsNext ==
  ASSUME Typed'
  PROVE  (poolFreeBalance \in Int /\ owedByAsset \in Nat)'
BY PoolFacts, PTL

LEMMA PoolGrows ==
  ASSUME Typed, Typed',
         \A e \in Escrows : /\ arrived(e, "deposit") <= arrived(e, "deposit")'
                            /\ sentOut(e)' <= sentOut(e)
  PROVE  poolFreeBalance <= poolFreeBalance'
<1> DEFINE A == [e \in Escrows |-> arrived(e, "deposit")]
           B == [e \in Escrows |-> sentOut(e)]
<1>1. Summable(A) /\ Summable(A)' /\ Summable(B) /\ Summable(B)'
  BY PoolFacts, PTL
<1>2. Total(A) <= Total(A)'
  BY <1>1, TotalMonotone
<1>3. Total(B)' <= Total(B)
  BY <1>1, TotalMonotone
<1>4. Total(A) \in Nat /\ Total(A)' \in Nat /\ Total(B) \in Nat /\ Total(B)' \in Nat
  BY <1>1, UnitsFinite
<1> QED
  BY <1>2, <1>3, <1>4 DEF poolFreeBalance

\* The balance and the debts of the rows depend on nothing else.
LEMMA SameArrived ==
  ASSUME NEW e \in Escrows, xfer'[e] = xfer[e]
  PROVE  arrived(e, "deposit")' = arrived(e, "deposit") /\ sentOut(e)' = sentOut(e)
BY DEF arrived, sentOut, SumOf

LEMMA SameOwed ==
  ASSUME row' = row
  PROVE  owedByAsset' = owedByAsset /\ ActiveRows' = ActiveRows
BY DEF owedByAsset, ActiveRows, remainingOf

LEMMA FateMovesPool ==
  ASSUME Typed, NEW e \in Escrows, NEW i \in Transfers(e), NEW fate \in {"accepted", "reverted"},
         xfer[e][i].fate = "open", SetFate(e, i, fate)
  PROVE  /\ arrived(e, "deposit") <= arrived(e, "deposit")' /\ sentOut(e)' <= sentOut(e)
<1>1. /\ xfer' \in [Escrows -> Seq(Transfer)]
      /\ Transfers(e)' = Transfers(e)
      /\ \A j \in Transfers(e) :
           /\ xfer'[e][j].kind = xfer[e][j].kind /\ xfer'[e][j].amount = xfer[e][j].amount
           /\ xfer'[e][j].fate = IF j = i THEN fate ELSE xfer[e][j].fate
  BY FateFacts
<1> DEFINE D == { j \in Transfers(e) : xfer[e][j].kind = "deposit" /\ Arrived(xfer[e][j]) }
           G == { j \in Transfers(e) : xfer'[e][j].kind = "deposit" /\ Arrived(xfer'[e][j]) }
           L == { j \in Transfers(e) : LeftCustody(xfer[e][j]) }
           R == { j \in Transfers(e) : LeftCustody(xfer'[e][j]) }
           amount(S) == [j \in S |-> xfer[e][j].amount]
<1>2. D \subseteq G /\ R \subseteq L
  BY <1>1 DEF Arrived, LeftCustody
<1>3. /\ G \in SUBSET Transfers(e) /\ D \in SUBSET Transfers(e)
      /\ L \in SUBSET Transfers(e) /\ R \in SUBSET Transfers(e)
  OBVIOUS
<1>4. /\ arrived(e, "deposit") = Total(amount(D)) /\ sentOut(e) = Total(amount(L))
  BY DEF arrived, sentOut, SumOf, Transfers
<1>5. /\ arrived(e, "deposit")' = Total(amount(G)) /\ sentOut(e)' = Total(amount(R))
  <2>1. /\ arrived(e, "deposit")' = Total([j \in G |-> xfer'[e][j].amount])
        /\ sentOut(e)' = Total([j \in R |-> xfer'[e][j].amount])
    BY <1>1 DEF arrived, sentOut, SumOf, Transfers
  <2>2. /\ [j \in G |-> xfer'[e][j].amount] = amount(G)
        /\ [j \in R |-> xfer'[e][j].amount] = amount(R)
    BY <1>1
  <2> QED BY <2>1, <2>2
<1> HIDE DEF D, G, L, R
<1>6. /\ Summable(amount(D)) /\ Summable(amount(G)) /\ Summable(amount(L)) /\ Summable(amount(R))
  BY <1>3, SumFacts
<1>7. /\ \A j \in D : amount(D)[j] <= amount(G)[j]
      /\ \A k \in R : amount(R)[k] <= amount(L)[k]
  BY <1>2, <1>6 DEF Summable
<1>8. DOMAIN amount(D) = D /\ DOMAIN amount(G) = G /\ DOMAIN amount(R) = R /\ DOMAIN amount(L) = L
  OBVIOUS
<1> HIDE DEF amount
<1>9. Total(amount(D)) <= Total(amount(G))
  BY <1>2, <1>6, <1>7, <1>8, TotalMonotone
<1>10. Total(amount(R)) <= Total(amount(L))
  BY <1>2, <1>6, <1>7, <1>8, TotalMonotone
<1> QED
  BY <1>4, <1>5, <1>9, <1>10

----------------------------------------------------------------------------
(* The other escrows of a step *)

LEMMA OthersKeep ==
  ASSUME Inv, NEW e \in Escrows, NEW f \in Escrows \ {e},
         xfer'[f] = xfer[f], row'[f] = row[f], record'[f] = record[f], now' = now,
         \/ op' = op
         \/ (op = Idle \/ op.escrow = e) /\ (op' = Idle \/ op'.escrow = e)
  PROVE  Store(f)' /\ Course(f)'
<1>1. Typed /\ Store(f) /\ Course(f) /\ now \in Nat
  BY DEF Inv, Typed
<1>2. Store(f)'
  BY <1>1, SameStore
<1>3. op' = op \/ ~Busy(f)'
  BY DEF Busy
<1> QED
  BY <1>1, <1>2, <1>3, SameCourse

LEMMA ChainStep ==
  ASSUME Inv, NEW e \in Escrows, NEW i \in Transfers(e), NEW fate \in {"accepted", "reverted"},
         xfer[e][i].fate = "open", SetFate(e, i, fate),
         fate = "reverted" /\ ~ReceiverRejects => xfer[e][i].deadline <= now,
         UNCHANGED <<now, record, row, op>>
  PROVE  Inv'
<1>1. Typed /\ Store(e) /\ Course(e)
  BY DEF Inv
<1>2. /\ xfer' \in [Escrows -> Seq(Transfer)]
      /\ \A f \in Escrows \ {e} : xfer'[f] = xfer[f]
      /\ Transfers(e)' = Transfers(e)
      /\ \A j \in Transfers(e) :
           /\ xfer'[e][j].deadline = xfer[e][j].deadline
           /\ xfer'[e][j].fate = IF j = i THEN fate ELSE xfer[e][j].fate
  BY <1>1, FateFacts
<1>3. Typed'
  BY <1>1, <1>2 DEF Typed
<1>4. Dated'
  BY <1>2 DEF Inv, Dated, Transfers
<1>5. \A f \in Escrows : Store(f)' /\ Course(f)'
  <2> TAKE f \in Escrows
  <2>1. CASE f = e
    BY <2>1, <1>1, FateKeepsStore, FateKeepsCourse
  <2>2. CASE f # e
    BY <2>2, <1>2, OthersKeep
  <2> QED BY <2>1, <2>2
<1>6. poolFreeBalance <= poolFreeBalance'
  <2>1. \A f \in Escrows : arrived(f, "deposit") <= arrived(f, "deposit")' /\ sentOut(f)' <= sentOut(f)
    <3> TAKE f \in Escrows
    <3>1. CASE f = e
      BY <3>1, <1>1, FateMovesPool
    <3>2. CASE f # e
      BY <3>2, <1>1, <1>2, SameArrived, ArrivedFacts
    <3> QED BY <3>1, <3>2
  <2> QED BY <2>1, <1>1, <1>3, PoolGrows
<1>7. Interlocked'
  <2>1. poolFreeBalance \in Int /\ poolFreeBalance' \in Int /\ owedByAsset \in Nat
    BY <1>1, <1>3, PoolFacts, PoolFactsNext
  <2>2. owedByAsset' = owedByAsset
    BY SameOwed
  <2> QED BY <1>6, <2>1, <2>2 DEF Inv, Interlocked, assertPoolSolvent
<1> QED
  BY <1>3, <1>4, <1>5, <1>7 DEF Inv

----------------------------------------------------------------------------
(* Time, and operations that begin or are given up *)

LEMMA TickStep ==
  ASSUME Inv, Tick
  PROVE  Inv'
<1>1. Typed /\ now' = now + 1 /\ now' <= MaxTime /\ UNCHANGED <<xfer, record, row, op>>
  BY LaneAssumption DEF Inv, Tick, Typed
<1>2. Typed'
  BY <1>1 DEF Typed
<1>3. Dated'
  <2>1. \A e \in Escrows : \A i \in Transfers(e) : xfer[e][i].deadline \in Nat
    BY <1>1, TypeFacts DEF Transfer
  <2> QED BY <1>1, <2>1, LaneAssumption DEF Inv, Dated, Transfers, Typed
<1>4. \A e \in Escrows : Store(e)' /\ Course(e)'
  <2> TAKE e \in Escrows
  <2>1. Store(e) /\ Course(e) /\ now \in Nat /\ now' \in Nat /\ now <= now'
    BY <1>1 DEF Inv, Typed
  <2>2. xfer'[e] = xfer[e] /\ row'[e] = row[e] /\ record'[e] = record[e]
    BY <1>1
  <2>3. Store(e)'
    BY <2>1, <2>2, SameStore
  <2>4. Course(e)'
    BY <1>1, <2>1, <2>2, SameCourse
  <2> QED BY <2>3, <2>4
<1>5. Interlocked'
  <2>1. poolFreeBalance' = poolFreeBalance
    BY <1>1 DEF poolFreeBalance, arrived, sentOut, SumOf
  <2> QED BY <1>1, <2>1, SameOwed DEF Inv, Interlocked, assertPoolSolvent
<1> QED
  BY <1>2, <1>3, <1>4, <1>5 DEF Inv

\* The chain, the record and the rows stay as they are.
LEMMA OperationStep ==
  ASSUME Inv, UNCHANGED <<now, xfer, record, row>>, NEW e \in Escrows,
         op = Idle \/ op.escrow = e, op' = Idle \/ op'.escrow = e,
         op' = Idle \/ op' \in Running \/ op' \in Reclaiming,
         OpFits(e)', ~Pays(e, {"release"})',
         op' # Idle /\ op'.kind \in {"release", "refund"} /\ op'.stage = "begun" => assertPoolSolvent
  PROVE  Inv'
<1>1. Typed /\ Store(e) /\ Course(e)
  BY DEF Inv
<1>2. Typed'
  BY <1>1 DEF Typed
<1>3. Dated'
  BY DEF Inv, Dated, Transfers
<1>4. Interlocked'
  <2>1. poolFreeBalance' = poolFreeBalance
    BY DEF poolFreeBalance, arrived, sentOut, SumOf
  <2> QED BY <2>1, SameOwed DEF Interlocked, assertPoolSolvent
<1>5. \A f \in Escrows : Store(f)'
  BY SameStore DEF Inv
<1>6. Course(e)'
  <2>1. /\ released(e)' = released(e) /\ cycleNo(e)' = cycleNo(e) /\ Transfers(e)' = Transfers(e)
    BY DEF released, SumOf, cycleNo, LegsOf, Transfers
  <2>2. /\ released(e) \in Nat /\ record[e].released \in Nat
        /\ Transfers(e) # {} => last(e).amount \in Nat
    <3>1. released(e) \in Nat
      BY <1>1, SumFacts DEF released
    <3>2. Transfers(e) # {} => last(e) \in Transfer
      BY <1>1, TypeFacts DEF last
    <3> QED BY <1>1, <3>1, <3>2, TypeFacts DEF Transfer
  <2>3. Pays(e, {"release"}) => Transfers(e) # {}
    BY <1>1 DEF Course, OpFits, Pays
  <2>4. RecordBehind(e)'
    BY <1>1, <2>1, <2>2, <2>3 DEF Course, RecordBehind
  <2>5. CyclesFit(e)'
    <3>1. ReleaseLegs(e)' = ReleaseLegs(e) /\ \A n : legXfer(e, n)' = legXfer(e, n)
      BY DEF ReleaseLegs, LegsOf, legXfer
    <3> QED BY <1>1, <2>1, <3>1 DEF Course, CyclesFit
  <2> QED BY <2>4, <2>5 DEF Course
<1>7. \A f \in Escrows \ {e} : Store(f)' /\ Course(f)'
  BY OthersKeep
<1> QED
  BY <1>2, <1>3, <1>4, <1>5, <1>6, <1>7 DEF Inv

LEMMA GiveUpStep ==
  ASSUME Inv, GiveUp
  PROVE  Inv'
<1>1. op \in Running \/ op \in Reclaiming
  BY DEF Inv, Typed, GiveUp
<1>2. PICK e \in Escrows : e = op.escrow
  BY <1>1 DEF Running, Reclaiming
<1>4. op' = Idle /\ UNCHANGED <<now, xfer, record, row>> /\ ~Busy(e)' /\ \A K : ~Pays(e, K)'
  BY DEF GiveUp, Busy, Pays
<1>5. OpFits(e)'
  BY <1>4 DEF OpFits
<1>6. ~Pays(e, {"release"})'
  BY <1>4
<1> QED
  BY <1>2, <1>4, <1>5, <1>6, OperationStep

LEMMA BeginStep ==
  ASSUME Inv, NEW e \in Escrows, NEW kind \in {"create", "release", "refund"},
         NEW stage \in {"begun", "committed"}, NEW delivery \in {"direct", "none"},
         Begin(kind, e, stage, delivery), UNCHANGED <<now, xfer, record, row>>,
         kind = "create" =>
           /\ row[e].status = "none" /\ (stage # "begun" => Transfers(e) # {}),
         kind = "release" =>
           /\ row[e].status = "active" /\ row[e].nextDueAt <= now
           /\ stage = "begun" /\ delivery = "direct" /\ assertPoolSolvent,
         kind = "refund" =>
           /\ row[e].status = "active"
           /\ \/ stage = "begun" /\ delivery = "direct" /\ assertPoolSolvent
              \/ stage = "committed" /\ delivery = "none"
  PROVE  Inv'
<1>1. /\ op = Idle /\ op' = [kind |-> kind, escrow |-> e, stage |-> stage, delivery |-> delivery]
  BY DEF Begin
<1>2. op' \in Running /\ op'.escrow = e /\ op'.kind = kind /\ op'.stage = stage
      /\ op'.delivery = delivery
  BY <1>1 DEF Running
<1>3. ~Pays(e, {"release"})' /\ ~Pays(e, {"release", "refund"})'
  BY <1>1, <1>2 DEF Pays, Busy
<1>4. OpFits(e)'
  BY <1>2, <1>3 DEF OpFits, Transfers
<1> QED
  BY <1>1, <1>2, <1>3, <1>4, OperationStep

LEMMA BeginReclaimStep ==
  ASSUME Inv, NEW e \in Escrows, BeginReclaim(e)
  PROVE  Inv'
<1>1. /\ op = Idle /\ UNCHANGED <<now, xfer, record, row>>
      /\ op' = [kind |-> "reclaim", escrow |-> e, stage |-> "begun", todo |-> Stuck(e), done |-> {}]
      /\ Open(e) /\ Typed
  BY DEF BeginReclaim, Open, Inv
<1>2. Stuck(e) \subseteq ReleaseLegs(e) /\ ReleaseLegs(e) \in SUBSET Nat
  <2>1. DOMAIN row[e].legs \subseteq Nat
    BY <1>1, TypeFacts
  <2>2. Stuck(e) \subseteq ReleaseLegs(e)
    BY DEF Stuck, ReleaseLegs
  <2>3. ReleaseLegs(e) \subseteq DOMAIN row[e].legs
    BY DEF ReleaseLegs, LegsOf
  <2> QED BY <2>1, <2>2, <2>3
<1>3. op' \in Reclaiming /\ op'.escrow = e /\ op'.kind = "reclaim" /\ op'.todo = Stuck(e)
      /\ op'.done = {}
  BY <1>1, <1>2 DEF Reclaiming
<1>4. \A K \in SUBSET {"release", "refund"} : ~Pays(e, K)'
  BY <1>1, <1>3 DEF Pays, Busy
<1>5. ReleaseLegs(e)' = ReleaseLegs(e) /\ Open(e)' /\ \A n : PastDeadline(e, row[e].legs[n])'
        <=> PastDeadline(e, row[e].legs[n])
  BY <1>1 DEF ReleaseLegs, LegsOf, Open, PastDeadline
<1>6. OpFits(e)'
  BY <1>1, <1>2, <1>3, <1>4, <1>5 DEF OpFits, Stuck
<1> QED
  BY <1>1, <1>3, <1>4, <1>6, OperationStep

----------------------------------------------------------------------------
(* A transfer is committed *)

Appends(e, t) == xfer' = [xfer EXCEPT ![e] = Append(xfer[e], t)]

LEMMA AppendFacts ==
  ASSUME Typed, NEW e \in Escrows, NEW t \in Transfer, Appends(e, t)
  PROVE  /\ xfer' \in [Escrows -> Seq(Transfer)]
         /\ \A f \in Escrows \ {e} : xfer'[f] = xfer[f]
         /\ Len(xfer'[e]) = Len(xfer[e]) + 1
         /\ Transfers(e)' = Transfers(e) \cup {Len(xfer'[e])} /\ Len(xfer'[e]) \notin Transfers(e)
         /\ \A i \in Transfers(e) : xfer'[e][i] = xfer[e][i]
         /\ last(e)' = t /\ xfer'[e][Len(xfer'[e])] = t
<1>1. xfer[e] \in Seq(Transfer) /\ Len(xfer[e]) \in Nat
  BY TypeFacts DEF Typed
<1>2. xfer'[e] = Append(xfer[e], t) /\ \A f \in Escrows \ {e} : xfer'[f] = xfer[f]
  BY DEF Appends, Typed
<1>3. /\ xfer'[e] \in Seq(Transfer) /\ Len(xfer'[e]) = Len(xfer[e]) + 1
      /\ \A i \in 1 .. Len(xfer[e]) : xfer'[e][i] = xfer[e][i]
      /\ xfer'[e][Len(xfer'[e])] = t
  BY <1>1, <1>2
<1>4. xfer' \in [Escrows -> Seq(Transfer)]
  BY <1>2, <1>3 DEF Appends, Typed
<1>5. DOMAIN xfer'[e] = 1 .. Len(xfer'[e]) /\ DOMAIN xfer[e] = 1 .. Len(xfer[e])
  BY <1>1, <1>3
<1>6. Transfers(e)' = Transfers(e) \cup {Len(xfer'[e])} /\ Len(xfer'[e]) \notin Transfers(e)
  BY <1>1, <1>3, <1>5 DEF Transfers
<1> QED
  BY <1>2, <1>3, <1>4, <1>5, <1>6 DEF last, Transfers

\* What it does to the sum over a set of transfers.
LEMMA AppendSums ==
  ASSUME Typed, NEW e \in Escrows, NEW t \in Transfer, Appends(e, t), NEW S \in SUBSET Transfers(e)
  PROVE  /\ SumOf(e, S)' = SumOf(e, S)
         /\ Total([i \in S \cup {Len(xfer'[e])} |-> xfer'[e][i].amount]) = SumOf(e, S) + t.amount
<1> DEFINE new == Len(xfer'[e])
           f == [i \in S |-> xfer[e][i].amount]
           g == [i \in S \cup {new} |-> xfer'[e][i].amount]
<1>1. /\ new \notin Transfers(e) /\ xfer'[e][new] = t
      /\ \A i \in Transfers(e) : xfer'[e][i] = xfer[e][i]
  BY AppendFacts
<1>2. SumOf(e, S)' = SumOf(e, S)
  <2>1. [i \in S |-> xfer'[e][i].amount] = f
    BY <1>1
  <2> QED BY <2>1 DEF SumOf
<1>3. /\ DOMAIN f = S /\ DOMAIN g = S \cup {new} /\ f = [i \in DOMAIN f |-> f[i]]
      /\ g[new] = t.amount /\ \A i \in S : g[i] = f[i]
  BY <1>1
<1>4. Summable(f) /\ SumOf(e, S) = Total(f) /\ t.amount \in Nat
  BY SumFacts DEF SumOf, Transfer
<1> HIDE DEF f, g, new
<1>5. new \notin DOMAIN f
  BY <1>1, <1>3
<1>6. Total(g) = Total(f) + g[new]
  BY <1>3, <1>4, <1>5, TotalExtends
<1> QED
  BY <1>2, <1>3, <1>4, <1>6 DEF g, new

LEMMA AppendMovesSums ==
  ASSUME Typed, NEW e \in Escrows, NEW t \in Transfer, Appends(e, t)
  PROVE  /\ released(e)' = released(e) + (IF t.kind = "release" THEN t.amount ELSE 0)
         /\ t.kind = "deposit" =>
              arrived(e, "deposit") <= arrived(e, "deposit")' /\ sentOut(e)' = sentOut(e)
         /\ t.kind # "deposit" /\ t.fate # "reverted" =>
              /\ arrived(e, "deposit")' = arrived(e, "deposit")
              /\ sentOut(e)' = sentOut(e) + t.amount
<1> DEFINE new == Len(xfer'[e])
           R == { i \in Transfers(e) : xfer[e][i].kind = "release" }
           D == { i \in Transfers(e) : xfer[e][i].kind = "deposit" /\ Arrived(xfer[e][i]) }
           L == { i \in Transfers(e) : LeftCustody(xfer[e][i]) }
           sum(S) == Total([i \in S |-> xfer'[e][i].amount])
<1>1. /\ Transfers(e)' = Transfers(e) \cup {new} /\ xfer'[e][new] = t /\ new \notin Transfers(e)
      /\ \A i \in Transfers(e) : xfer'[e][i] = xfer[e][i]
  BY AppendFacts
<1>2. /\ R \in SUBSET Transfers(e) /\ D \in SUBSET Transfers(e) /\ L \in SUBSET Transfers(e)
  OBVIOUS
<1>3. /\ released(e) = SumOf(e, R) /\ arrived(e, "deposit") = SumOf(e, D)
      /\ sentOut(e) = SumOf(e, L)
  BY DEF released, arrived, sentOut, Transfers
<1>4. /\ released(e)' = sum(IF t.kind = "release" THEN R \cup {new} ELSE R)
      /\ arrived(e, "deposit")' = sum(IF t.kind = "deposit" /\ Arrived(t) THEN D \cup {new} ELSE D)
      /\ sentOut(e)' = sum(IF LeftCustody(t) THEN L \cup {new} ELSE L)
  <2>1. { i \in Transfers(e)' : xfer'[e][i].kind = "release" }
          = IF t.kind = "release" THEN R \cup {new} ELSE R
    BY <1>1
  <2>2. { i \in Transfers(e)' : xfer'[e][i].kind = "deposit" /\ Arrived(xfer'[e][i]) }
          = IF t.kind = "deposit" /\ Arrived(t) THEN D \cup {new} ELSE D
    BY <1>1
  <2>3. { i \in Transfers(e)' : LeftCustody(xfer'[e][i]) }
          = IF LeftCustody(t) THEN L \cup {new} ELSE L
    BY <1>1
  <2>4. /\ released(e)' = sum({ i \in Transfers(e)' : xfer'[e][i].kind = "release" })
        /\ arrived(e, "deposit")'
             = sum({ i \in Transfers(e)' : xfer'[e][i].kind = "deposit" /\ Arrived(xfer'[e][i]) })
        /\ sentOut(e)' = sum({ i \in Transfers(e)' : LeftCustody(xfer'[e][i]) })
    BY DEF released, arrived, sentOut, Transfers, SumOf
  <2> HIDE DEF sum, R, D, L, new
  <2> QED BY <2>1, <2>2, <2>3, <2>4
<1>5. ASSUME NEW S \in SUBSET Transfers(e)
      PROVE  /\ sum(S) = SumOf(e, S) /\ sum(S \cup {new}) = SumOf(e, S) + t.amount
             /\ SumOf(e, S) \in Nat
  <2>1. SumOf(e, S)' = sum(S)
    BY DEF SumOf
  <2> QED BY <2>1, AppendSums, SumFacts
<1>6. t.amount \in Nat
  BY DEF Transfer
<1> HIDE DEF sum, R, D, L, new
<1>7. released(e)' = released(e) + (IF t.kind = "release" THEN t.amount ELSE 0)
  <2>1. /\ sum(R) = SumOf(e, R) /\ sum(R \cup {new}) = SumOf(e, R) + t.amount
        /\ SumOf(e, R) \in Nat
    BY <1>2, <1>5
  <2> QED BY <2>1, <1>3, <1>4
<1>8. arrived(e, "deposit")' =
        arrived(e, "deposit") + (IF t.kind = "deposit" /\ Arrived(t) THEN t.amount ELSE 0)
  <2>1. /\ sum(D) = SumOf(e, D) /\ sum(D \cup {new}) = SumOf(e, D) + t.amount
        /\ SumOf(e, D) \in Nat
    BY <1>2, <1>5
  <2> QED BY <2>1, <1>3, <1>4
<1>9. sentOut(e)' = sentOut(e) + (IF LeftCustody(t) THEN t.amount ELSE 0)
  <2>1. /\ sum(L) = SumOf(e, L) /\ sum(L \cup {new}) = SumOf(e, L) + t.amount
        /\ SumOf(e, L) \in Nat
    BY <1>2, <1>5
  <2> QED BY <2>1, <1>3, <1>4
<1>10. arrived(e, "deposit") \in Nat /\ sentOut(e) \in Nat
  BY ArrivedFacts
<1> QED
  BY <1>6, <1>7, <1>8, <1>9, <1>10 DEF LeftCustody

LEMMA AppendKeepsStore ==
  ASSUME Typed, NEW e \in Escrows, Store(e), NEW t \in Transfer, Appends(e, t),
         row'[e] = row[e],
         t.kind # "deposit" =>
           row[e].status = "active" /\ t.amount + counted(e) <= Deposit[e]
  PROVE  /\ Store(e)' /\ ~Recorded(e, Len(xfer[e]))' /\ ReleaseLegs(e)' = ReleaseLegs(e)
         /\ cycleNo(e)' = cycleNo(e)
         /\ \A n \in DOMAIN row[e].legs : legXfer(e, n)' = legXfer(e, n)
<1>1. /\ Transfers(e)' = Transfers(e) \cup {Len(xfer'[e])} /\ Len(xfer'[e]) \notin Transfers(e)
      /\ \A i \in Transfers(e) : xfer'[e][i] = xfer[e][i]
      /\ last(e)' = t /\ xfer'[e][Len(xfer'[e])] = t
  BY AppendFacts
<1>2. \A n \in DOMAIN row[e].legs : row[e].legs[n].cid \in Transfers(e)
  BY DEF Store, LegsFit
<1>3. \A n \in DOMAIN row[e].legs :
        /\ legXfer(e, n)' = legXfer(e, n)
        /\ Outgoing(e, row[e].legs[n])' <=> Outgoing(e, row[e].legs[n])
  BY <1>1, <1>2 DEF legXfer, Outgoing
<1>4. /\ Kept(e)' = Kept(e) /\ ReleaseLegs(e)' = ReleaseLegs(e) /\ (Open(e)' <=> Open(e))
      /\ Kept(e) \in SUBSET DOMAIN row[e].legs /\ ReleaseLegs(e) \in SUBSET DOMAIN row[e].legs
  <2>1. Kept(e)' = Kept(e) /\ Kept(e) \in SUBSET DOMAIN row[e].legs
    BY <1>3 DEF Kept
  <2>2. ReleaseLegs(e)' = ReleaseLegs(e) /\ ReleaseLegs(e) \in SUBSET DOMAIN row[e].legs
    BY <1>3 DEF ReleaseLegs, LegsOf, legXfer
  <2> QED BY <2>1, <2>2 DEF Open
<1>5. counted(e)' = counted(e)
  BY <1>3, <1>4 DEF counted
<1>6. ~Recorded(e, Len(xfer[e]))'
  BY <1>1, <1>2 DEF Recorded
<1>7. LegsFit(e)'
  BY <1>1, <1>2, <1>3 DEF Store, LegsFit
<1>8. remainingOf(row[e], e)' = remainingOf(row[e], e)
      /\ (hasPendingRelease(row[e], e)' <=> hasPendingRelease(row[e], e))
  BY <1>4 DEF remainingOf, hasPendingRelease, ReleaseLegs
<1>9. StatusFits(e)'
  BY <1>1, <1>3, <1>4, <1>8 DEF Store, StatusFits
<1>10. WithinDeposit(e)'
  BY <1>1, <1>4, <1>5 DEF Store, WithinDeposit, LeftCustody
<1>11. DueLater(e)' /\ Paced(e)'
  BY <1>3, <1>4 DEF Store, DueLater, Paced
<1>12. cycleNo(e)' = cycleNo(e)
  BY <1>4 DEF cycleNo, ReleaseLegs
<1> QED
  BY <1>3, <1>4, <1>6, <1>7, <1>9, <1>10, <1>11, <1>12 DEF Store

\* The transfer that Commit appends.
NewTransfer(kind, cycle, amount, d) ==
  [ kind |-> kind, cycle |-> cycle, amount |-> amount, deadline |-> now + Window,
    fate |-> IF d = "direct" THEN "delivered" ELSE "open" ]

LEMMA NewTransferFacts ==
  ASSUME Typed, NEW kind \in Kinds, NEW cycle \in Nat, NEW amount \in Nat, NEW d
  PROVE  LET t == NewTransfer(kind, cycle, amount, d) IN
         /\ t \in Transfer /\ t.kind = kind /\ t.cycle = cycle /\ t.amount = amount
         /\ t.fate # "reverted" /\ (d = "direct" => t.fate = "delivered")
         /\ Window <= t.deadline /\ t.deadline = now + Window /\ CommittedAt(t) = now
<1>1. now \in Nat /\ Window \in Nat
  BY LaneAssumption DEF Typed
<1> QED
  BY <1>1 DEF NewTransfer, Transfer, CommittedAt

LEMMA AppendTypes ==
  ASSUME Typed, Dated, NEW e \in Escrows, NEW t \in Transfer, Appends(e, t),
         Window <= t.deadline, t.deadline = now + Window, t.fate # "reverted",
         UNCHANGED <<now, record, row>>, op' = op \/ op' \in Running
  PROVE  Typed' /\ Dated'
<1>1. /\ xfer' \in [Escrows -> Seq(Transfer)]
      /\ \A f \in Escrows \ {e} : xfer'[f] = xfer[f]
      /\ Transfers(e)' = Transfers(e) \cup {Len(xfer'[e])}
      /\ \A i \in Transfers(e) : xfer'[e][i] = xfer[e][i]
      /\ xfer'[e][Len(xfer'[e])] = t
  BY AppendFacts
<1>2. Typed'
  BY <1>1 DEF Typed
<1>3. Dated'
  <2> SUFFICES ASSUME NEW f \in Escrows, NEW i \in Transfers(f)'
               PROVE  /\ Window <= xfer'[f][i].deadline /\ xfer'[f][i].deadline <= now + Window
                      /\ xfer'[f][i].fate = "reverted" /\ ~ReceiverRejects
                           => xfer'[f][i].deadline <= now
    BY DEF Dated
  <2>1. CASE f = e /\ i = Len(xfer'[e])
    <3>1. now + Window \in Nat
      BY LaneAssumption DEF Typed
    <3> QED BY <2>1, <3>1, <1>1
  <2>2. CASE f = e /\ i \in Transfers(e)
    BY <2>2, <1>1 DEF Dated
  <2>3. CASE f # e
    BY <2>3, <1>1 DEF Dated, Transfers
  <2> QED BY <2>1, <2>2, <2>3, <1>1
<1> QED
  BY <1>2, <1>3

LEMMA CommitStep ==
  ASSUME Inv, NEW e \in Escrows, NEW kind \in {"release", "refund"}, At(kind, e, "begun"),
         NEW cycle \in Nat, NEW amount \in Nat, NEW d \in {"direct", "offer"},
         Commit(kind, e, cycle, amount, d), amount <= remainingOf(row[e], e),
         kind = "refund" => amount = remainingOf(row[e], e),
         kind = "release" => cycle = cycleNo(e),
         UNCHANGED <<now, record, row>>
  PROVE  Inv'
<1> DEFINE t == NewTransfer(kind, cycle, amount, d)
<1>1. Typed /\ Dated /\ Store(e) /\ Course(e)
  BY DEF Inv
<1>2. /\ t \in Transfer /\ t.kind = kind /\ t.cycle = cycle /\ t.amount = amount
      /\ t.fate # "reverted" /\ (d = "direct" => t.fate = "delivered")
      /\ Window <= t.deadline /\ t.deadline = now + Window /\ CommittedAt(t) = now
  BY <1>1, NewTransferFacts DEF Kinds
<1>3. Appends(e, t)
  BY DEF Commit, Appends, NewTransfer
<1> HIDE DEF t
<1>4. /\ op \in Running /\ op.escrow = e /\ op.kind = kind /\ op.stage = "begun" /\ op # Idle
  BY <1>1 DEF At, Typed, Reclaiming, Idle
<1>5. /\ op' \in Running /\ op'.escrow = e /\ op'.kind = kind /\ op'.stage = "committed"
      /\ op'.delivery = d /\ op' # Idle
  BY <1>4 DEF Commit, Running, Idle
<1>6. Busy(e) /\ Busy(e)' /\ \A K : ~Pays(e, K) /\ (Pays(e, K)' <=> kind \in K)
  BY <1>4, <1>5 DEF Busy, Pays
<1>7. row[e].status = "active" /\ (kind = "release" => row[e].nextDueAt <= now)
  BY <1>1, <1>4, <1>6 DEF Course, OpFits
<1>8. amount + counted(e) <= Deposit[e]
  <2>1. row[e].released = counted(e) /\ counted(e) <= Deposit[e]
    BY <1>1, <1>7 DEF Store, WithinDeposit, Open
  <2>2. counted(e) \in Nat /\ Deposit[e] \in Nat
    BY <1>1, CountedNat, TypeFacts DEF Store
  <2> QED BY <2>1, <2>2 DEF remainingOf
<1>9. /\ Store(e)' /\ ~Recorded(e, Len(xfer[e]))' /\ cycleNo(e)' = cycleNo(e)
      /\ ReleaseLegs(e)' = ReleaseLegs(e) /\ ReleaseLegs(e) \in SUBSET DOMAIN row[e].legs
      /\ \A n \in DOMAIN row[e].legs : legXfer(e, n)' = legXfer(e, n)
  BY <1>1, <1>2, <1>3, <1>7, <1>8, AppendKeepsStore, CountedNat DEF Store
<1>10. /\ \A f \in Escrows \ {e} : xfer'[f] = xfer[f]
       /\ Transfers(e)' = Transfers(e) \cup {Len(xfer'[e])}
       /\ \A i \in Transfers(e) : xfer'[e][i] = xfer[e][i]
       /\ last(e)' = t /\ xfer'[e][Len(xfer'[e])] = t
  BY <1>1, <1>2, <1>3, AppendFacts
<1>11. Typed' /\ Dated'
  BY <1>1, <1>2, <1>3, <1>5, AppendTypes
<1>12. remainingOf(row[e], e)' = remainingOf(row[e], e)
  BY DEF remainingOf
<1>13. OpFits(e)'
  BY <1>2, <1>5, <1>6, <1>7, <1>9, <1>10, <1>12 DEF OpFits
<1>14. RecordBehind(e)'
  <2>1. record[e].released <= released(e)
    <3>1. released(e) \in Nat /\ record[e].released \in Nat
      BY <1>1, TypeFacts, SumFacts DEF released
    <3> QED BY <1>1, <1>6, <3>1 DEF Course, RecordBehind
  <2>2. released(e)' = released(e) + (IF t.kind = "release" THEN t.amount ELSE 0)
    BY <1>1, <1>2, <1>3, AppendMovesSums
  <2>3. released(e) \in Nat /\ record[e].released \in Nat
    BY <1>1, TypeFacts, SumFacts DEF released
  <2> QED BY <2>1, <2>2, <2>3, <1>2, <1>6, <1>10 DEF RecordBehind
<1>15. CyclesFit(e)'
  <2>1. cycleNo(e) \in Nat
    BY <1>1, CountedNat DEF Store
  <2> QED BY <2>1, <1>1, <1>2, <1>9, <1>10 DEF Course, CyclesFit
<1>16. Interlocked'
  BY <1>5 DEF Interlocked
<1>17. \A f \in Escrows \ {e} : Store(f)' /\ Course(f)'
  BY <1>4, <1>5, <1>10, OthersKeep
<1> QED
  BY <1>9, <1>11, <1>13, <1>14, <1>15, <1>16, <1>17 DEF Inv, Course

\* A deposit reaches custody, submitted by the operation under way or by a wallet.
LEMMA DepositStep ==
  ASSUME Inv, NEW e \in Escrows, NEW t \in Transfer, Appends(e, t), t.kind = "deposit",
         Window <= t.deadline, t.deadline = now + Window, t.fate # "reverted",
         UNCHANGED <<now, record, row>>,
         \/ op' = op /\ ~Busy(e)
         \/ op \in Running /\ op' \in Running /\ Busy(e) /\ Busy(e)' /\ op.kind = "create" /\ op'.kind = "create"
  PROVE  Inv'
<1>1. Typed /\ Dated /\ Store(e) /\ Course(e)
  BY DEF Inv
<1>2. /\ Store(e)' /\ cycleNo(e)' = cycleNo(e) /\ ReleaseLegs(e)' = ReleaseLegs(e)
      /\ ReleaseLegs(e) \in SUBSET DOMAIN row[e].legs
      /\ \A n \in DOMAIN row[e].legs : legXfer(e, n)' = legXfer(e, n)
  BY <1>1, AppendKeepsStore, CountedNat DEF Store
<1>3. /\ \A f \in Escrows \ {e} : xfer'[f] = xfer[f]
      /\ Transfers(e)' = Transfers(e) \cup {Len(xfer'[e])}
      /\ \A i \in Transfers(e) : xfer'[e][i] = xfer[e][i]
      /\ xfer'[e][Len(xfer'[e])] = t
  BY AppendFacts, <1>1
<1>4. Typed' /\ Dated'
  BY <1>1, AppendTypes
<1>5. ~Pays(e, {"release"}) /\ ~Pays(e, {"release"})' /\ ~Pays(e, {"release", "refund"})'
  BY DEF Pays, Busy
<1>6. OpFits(e)'
  <2>1. CASE op' = op /\ ~Busy(e)
    <3>1. ~Busy(e)'
      BY <2>1 DEF Busy
    <3> QED BY <3>1, <1>5 DEF OpFits
  <2>2. CASE Busy(e) /\ Busy(e)' /\ op.kind = "create" /\ op'.kind = "create"
    BY <2>2, <1>1, <1>3, <1>5 DEF Course, OpFits
  <2> QED BY <2>1, <2>2
<1>7. RecordBehind(e)'
  <2>1. released(e) \in Nat /\ record[e].released \in Nat
    BY <1>1, TypeFacts, SumFacts DEF released
  <2>2. released(e)' = released(e)
    BY <1>1, <2>1, AppendMovesSums
  <2> QED BY <2>1, <2>2, <1>1, <1>5 DEF Course, RecordBehind
<1>8. CyclesFit(e)'
  BY <1>1, <1>2, <1>3 DEF Course, CyclesFit
<1>9. \A f \in Escrows \ {e} : Store(f)' /\ Course(f)'
  BY <1>3, OthersKeep DEF Busy
<1>10. Interlocked'
  <2>1. CASE op' = op
    <3>1. \A f \in Escrows : /\ arrived(f, "deposit") <= arrived(f, "deposit")'
                             /\ sentOut(f)' <= sentOut(f)
      <4> TAKE f \in Escrows
      <4>1. arrived(f, "deposit") \in Nat /\ sentOut(f) \in Nat
        BY <1>1, ArrivedFacts
      <4>2. CASE f = e
        BY <4>1, <4>2, <1>1, AppendMovesSums
      <4>3. CASE f # e
        BY <4>1, <4>3, <1>3, SameArrived
      <4> QED BY <4>2, <4>3
    <3>2. poolFreeBalance <= poolFreeBalance'
      BY <3>1, <1>1, <1>4, PoolGrows
    <3>3. poolFreeBalance \in Int /\ poolFreeBalance' \in Int /\ owedByAsset \in Nat
      BY <1>1, <1>4, PoolFacts, PoolFactsNext
    <3>4. owedByAsset' = owedByAsset
      BY SameOwed
    <3> QED BY <2>1, <3>2, <3>3, <3>4 DEF Inv, Interlocked, assertPoolSolvent
  <2>2. CASE op'.kind = "create"
    BY <2>2 DEF Interlocked
  <2> QED BY <2>1, <2>2
<1> QED
  BY <1>2, <1>4, <1>6, <1>7, <1>8, <1>9, <1>10 DEF Inv, Course

LEMMA CommitDepositStep ==
  ASSUME Inv, NEW e \in Escrows, CommitDeposit(e)
  PROVE  Inv'
<1>1. PICK d \in DepositLands : Commit("deposit", e, 0, Deposit[e], d)
  BY DEF CommitDeposit
<1> DEFINE t == NewTransfer("deposit", 0, Deposit[e], d)
<1>2. Typed /\ op.kind = "create" /\ op.escrow = e /\ UNCHANGED <<now, record, row>>
  BY DEF Inv, CommitDeposit, At
<1>3. Deposit[e] \in Nat /\ d \in {"direct", "offer"}
  BY LaneAssumption
<1>4. /\ t \in Transfer /\ t.kind = "deposit" /\ t.fate # "reverted"
      /\ Window <= t.deadline /\ t.deadline = now + Window
  BY <1>2, <1>3, NewTransferFacts DEF Kinds
<1>5. Appends(e, t)
  BY <1>1 DEF Commit, Appends, NewTransfer
<1> HIDE DEF t
<1>6. op \in Running
  BY <1>2 DEF Typed, Reclaiming, Idle
<1>7. op' \in Running /\ op'.kind = "create" /\ op'.escrow = e
  BY <1>1, <1>2, <1>3, <1>6 DEF Commit, Running
<1>8. Busy(e) /\ Busy(e)'
  BY <1>2, <1>7 DEF Busy, Idle
<1> QED
  BY <1>2, <1>4, <1>5, <1>6, <1>7, <1>8, DepositStep

LEMMA WalletDepositStep ==
  ASSUME Inv, NEW e \in Escrows, WalletDeposit(e)
  PROVE  Inv'
<1> DEFINE t == NewTransfer("deposit", 0, Deposit[e], "direct")
<1>1. Typed /\ xfer[e] = <<>> /\ UNCHANGED <<now, record, row, op>> /\ ~Busy(e)
  BY DEF Inv, WalletDeposit, Busy
<1>2. Deposit[e] \in Nat
  BY LaneAssumption
<1>3. /\ t \in Transfer /\ t.kind = "deposit" /\ t.fate # "reverted"
      /\ Window <= t.deadline /\ t.deadline = now + Window
  BY <1>1, <1>2, NewTransferFacts DEF Kinds
<1>4. xfer' = [xfer EXCEPT ![e] = <<t>>]
  BY DEF WalletDeposit, NewTransfer
<1> HIDE DEF t
<1>5. Append(xfer[e], t) = <<t>>
  BY <1>1
<1>6. Appends(e, t)
  BY <1>4, <1>5 DEF Appends
<1> QED
  BY <1>1, <1>3, <1>6, DepositStep

----------------------------------------------------------------------------
(* The ledger's own record is written, or could not be *)

LEMMA RecordingStep ==
  ASSUME Inv, NEW e \in Escrows, NEW kind \in {"create", "release", "refund"}, Recording(kind, e),
         record' \in [Escrows -> [status : {"none", "Active", "Cancelled"}, released : Nat]],
         \A f \in Escrows \ {e} : record'[f] = record[f],
         \/ record'[e].released <= record[e].released
         \/ kind = "release" /\ record'[e].released = record[e].released + last(e).amount
  PROVE  Inv'
<1>1. Typed /\ Dated /\ Store(e) /\ Course(e)
  BY DEF Inv
<1>2. /\ op.kind = kind /\ op.escrow = e /\ op.stage = "committed" /\ op \in Running /\ op # Idle
      /\ UNCHANGED <<now, xfer, row>>
  BY <1>1 DEF Recording, At, Typed, Reclaiming, Idle
<1>3. /\ op' \in Running /\ op'.kind = kind /\ op'.escrow = e /\ op'.stage = "recorded"
      /\ op'.delivery = op.delivery /\ op' # Idle
  BY <1>2 DEF Recording, Running, Idle
<1>4. Busy(e) /\ Busy(e)' /\ \A K : Pays(e, K)' <=> Pays(e, K)
  BY <1>2, <1>3 DEF Busy, Pays
<1>5. /\ Transfers(e)' = Transfers(e) /\ last(e)' = last(e) /\ released(e)' = released(e)
      /\ ReleaseLegs(e)' = ReleaseLegs(e) /\ cycleNo(e)' = cycleNo(e) /\ (Open(e)' <=> Open(e))
      /\ remainingOf(row[e], e)' = remainingOf(row[e], e)
  BY <1>2 DEF Transfers, last, released, SumOf, ReleaseLegs, LegsOf, cycleNo, Open, remainingOf
<1>6. \A i : Recorded(e, i)' <=> Recorded(e, i)
  BY <1>2 DEF Recorded
<1>7. OpFits(e)'
  BY <1>1, <1>2, <1>3, <1>4, <1>5, <1>6 DEF Course, OpFits
<1>8. RecordBehind(e)'
  <2>1. released(e) \in Nat /\ record[e].released \in Nat /\ record'[e].released \in Nat
    BY <1>1, TypeFacts, SumFacts DEF released
  <2>2. Pays(e, {"release"}) => Transfers(e) # {}
    BY <1>1, <1>2, <1>4 DEF Course, OpFits, Pays
  <2>3. Pays(e, {"release"}) => last(e).amount \in Nat
    <3>1. Transfers(e) # {} => last(e) \in Transfer
      BY <1>1, TypeFacts DEF last
    <3> QED BY <2>2, <3>1 DEF Transfer
  <2>4. kind = "release" => Pays(e, {"release"})
    BY <1>1, <1>2, <1>4 DEF Course, OpFits, Pays
  <2> QED BY <1>1, <1>2, <1>3, <1>5, <2>1, <2>3, <2>4 DEF Course, RecordBehind
<1>9. CyclesFit(e)'
  BY <1>1, <1>2, <1>5 DEF Course, CyclesFit, legXfer
<1>10. \A f \in Escrows \ {e} : Store(f)' /\ Course(f)'
  BY <1>2, <1>3, OthersKeep
<1>11. Store(e)'
  BY <1>1, <1>2, SameStore
<1>12. Typed' /\ Dated' /\ Interlocked'
  BY <1>1, <1>2, <1>3 DEF Typed, Dated, Interlocked, Transfers
<1> QED
  BY <1>7, <1>8, <1>9, <1>10, <1>11, <1>12 DEF Inv, Course

LEMMA RecordSteps ==
  ASSUME Inv, NEW e \in Escrows,
         createOperatorEscrow(e) \/ recordEscrowRelease(e) \/ recordEscrowRefund(e)
  PROVE  Inv'
<1>1. record \in [Escrows -> [status : {"none", "Active", "Cancelled"}, released : Nat]]
      /\ record[e].released \in Nat
  BY TypeFacts DEF Inv, Typed
<1>2. CASE createOperatorEscrow(e)
  BY <1>1, <1>2, RecordingStep DEF createOperatorEscrow
<1>3. CASE recordEscrowRelease(e)
  <2>1. Recording("release", e)
    BY <1>3 DEF recordEscrowRelease
  <2>2. CASE UNCHANGED record
    BY <1>1, <2>1, <2>2, RecordingStep
  <2>3. CASE record' = [record EXCEPT ![e].released = @ + RecordedAmount(e)]
    <3>1. Typed /\ OpFits(e) /\ op.kind = "release" /\ op.escrow = e /\ op.stage = "committed"
      BY <2>1 DEF Inv, Course, Recording, At
    <3>2. Transfers(e) # {}
      BY <3>1 DEF OpFits, Pays, Busy, Idle
    <3>3. last(e).amount \in Nat /\ RecordedAmount(e) = last(e).amount
      BY <3>1, <3>2, TypeFacts DEF last, Transfer, RecordedAmount
    <3>4. record'[e].released = record[e].released + last(e).amount
      BY <1>1, <2>3, <3>3
    <3>5. record[e].released + last(e).amount \in Nat
      BY <1>1, <3>3
    <3>6. /\ record' \in [Escrows -> [status : {"none", "Active", "Cancelled"}, released : Nat]]
          /\ \A f \in Escrows \ {e} : record'[f] = record[f]
      BY <1>1, <2>3, <3>3, <3>5
    <3> QED BY <2>1, <3>4, <3>6, RecordingStep
  <2> QED BY <1>3, <2>2, <2>3 DEF recordEscrowRelease
<1>4. CASE recordEscrowRefund(e)
  <2>1. Recording("refund", e)
    BY <1>4 DEF recordEscrowRefund
  <2>2. CASE UNCHANGED record
    BY <1>1, <2>1, <2>2, RecordingStep
  <2>3. CASE record' = [record EXCEPT ![e].status = "Cancelled"]
    <3>1. /\ record' \in [Escrows -> [status : {"none", "Active", "Cancelled"}, released : Nat]]
          /\ record'[e].released = record[e].released
          /\ \A f \in Escrows \ {e} : record'[f] = record[f]
      BY <1>1, <2>3
    <3> QED BY <1>1, <2>1, <3>1, RecordingStep
  <2> QED BY <1>4, <2>2, <2>3 DEF recordEscrowRefund
<1> QED
  BY <1>2, <1>3, <1>4

----------------------------------------------------------------------------
(* A row is saved *)

LEMMA RowStep ==
  ASSUME Inv, NEW e \in Escrows, UNCHANGED <<now, xfer, record>>, NEW r \in Row, r.released \in Nat,
         SaveRow(e, r), op' = Idle, op = Idle \/ op.escrow = e, Store(e)',
         cycleNo(e) \in Nat, cycleNo(e)' \in Nat, cycleNo(e) <= cycleNo(e)',
         \A n \in ReleaseLegs(e)' :
           \/ n \in ReleaseLegs(e) /\ legXfer(e, n)' = legXfer(e, n)
           \/ legXfer(e, n)' = last(e) /\ Transfers(e) # {} /\ cycleNo(e) < cycleNo(e)'
  PROVE  Inv'
<1>1. Typed /\ Dated /\ Store(e) /\ Course(e)
  BY DEF Inv
<1>2. row' = [row EXCEPT ![e] = r] /\ row'[e] = r /\ \A f \in Escrows \ {e} : row'[f] = row[f]
  BY <1>1 DEF SaveRow, Typed
<1>3. Typed' /\ Dated' /\ Interlocked'
  BY <1>1, <1>2 DEF Typed, Dated, Interlocked, Transfers
<1>4. ~Busy(e)' /\ \A K : ~Pays(e, K)'
  BY DEF Busy, Pays
<1>5. OpFits(e)'
  BY <1>4 DEF OpFits
<1>6. RecordBehind(e)'
  <2>1. released(e) \in Nat /\ record[e].released \in Nat /\ released(e)' = released(e)
    BY <1>1, TypeFacts, SumFacts DEF released, SumOf, Transfers
  <2>2. Pays(e, {"release"}) => last(e).amount \in Nat
    <3>1. Pays(e, {"release"}) => Transfers(e) # {}
      BY <1>1 DEF Course, OpFits, Pays
    <3>2. Transfers(e) # {} => last(e) \in Transfer
      BY <1>1, TypeFacts DEF last
    <3> QED BY <3>1, <3>2 DEF Transfer
  <2> QED BY <1>1, <1>4, <2>1, <2>2 DEF Course, RecordBehind
<1>7. CyclesFit(e)'
  <2>1. \A i \in Transfers(e) : xfer[e][i].cycle \in Nat
    BY <1>1, TypeFacts DEF Transfer
  <2>2. \A n \in ReleaseLegs(e) : legXfer(e, n).cycle \in Nat
    BY <1>1, LegFacts, CountedNat DEF Store, Transfer
  <2>3. \A i \in Transfers(e)' : xfer'[e][i].kind = "release" => xfer'[e][i].cycle <= cycleNo(e)'
    BY <1>1, <2>1 DEF Course, CyclesFit, Transfers
  <2>4. ASSUME NEW n \in ReleaseLegs(e)' PROVE legXfer(e, n)'.cycle < cycleNo(e)'
    <3>1. CASE n \in ReleaseLegs(e) /\ legXfer(e, n)' = legXfer(e, n)
      BY <1>1, <2>2, <3>1 DEF Course, CyclesFit
    <3>2. CASE legXfer(e, n)' = last(e) /\ Transfers(e) # {} /\ cycleNo(e) < cycleNo(e)'
      <4>1. Len(xfer[e]) \in Transfers(e) /\ legXfer(e, n)'.kind = "release"
        BY <1>1, <2>4, <3>2, TypeFacts DEF ReleaseLegs, LegsOf, legXfer
      <4> QED BY <1>1, <2>1, <3>2, <4>1 DEF Course, CyclesFit, last
    <3> QED BY <2>4, <3>1, <3>2
  <2> QED BY <2>3, <2>4 DEF CyclesFit
<1>8. \A f \in Escrows \ {e} : Store(f)' /\ Course(f)'
  BY <1>2, OthersKeep
<1> QED
  BY <1>3, <1>5, <1>6, <1>7, <1>8 DEF Inv, Course

\* A leg for the last transfer.
LEMMA LegAppended ==
  ASSUME Typed, NEW e \in Escrows, Store(e), xfer' = xfer, row'[e].legs \in Seq(Leg), NEW d,
         row'[e].legs = Append(row[e].legs, NewLeg(Len(xfer[e]), d)),
         Transfers(e) # {}, ~Recorded(e, Len(xfer[e])),
         d = "direct" => last(e).kind = "deposit" \/ Arrived(last(e))
  PROVE  /\ LegsFit(e)' /\ Recorded(e, Len(xfer[e]))'
         /\ \A n \in DOMAIN row'[e].legs :
              (n \in DOMAIN row[e].legs /\ legXfer(e, n)' = legXfer(e, n)) \/ legXfer(e, n)' = last(e)
         /\ \A n \in ReleaseLegs(e)' :
              (n \in ReleaseLegs(e) /\ legXfer(e, n)' = legXfer(e, n)) \/ legXfer(e, n)' = last(e)
         /\ counted(e)' = counted(e) + (IF last(e).kind = "deposit" THEN 0 ELSE last(e).amount)
         /\ cycleNo(e) \in Nat
         /\ cycleNo(e)' = cycleNo(e) + (IF last(e).kind = "release" THEN 1 ELSE 0)
<1> DEFINE legs == row[e].legs
           leg == NewLeg(Len(xfer[e]), d)
<1>0. PICK new : new = Len(legs) + 1
  OBVIOUS
<1>1. /\ legs \in Seq(Leg) /\ Len(legs) \in Nat /\ DOMAIN legs = 1 .. Len(legs)
      /\ Len(xfer[e]) \in Transfers(e) /\ Transfers(e)' = Transfers(e)
  BY TypeFacts DEF Transfers
<1>2. /\ leg.cid = Len(xfer[e]) /\ leg.status \in {"direct", "active"}
      /\ leg.status = "direct" => d = "direct"
  BY DEF NewLeg
<1>3. /\ DOMAIN row'[e].legs = DOMAIN legs \cup {new} /\ new \notin DOMAIN legs
      /\ \A n \in DOMAIN legs : row'[e].legs[n] = legs[n]
      /\ row'[e].legs[new] = leg
  BY <1>0, <1>1
<1> HIDE DEF leg
<1>4. /\ \A n \in DOMAIN legs : legXfer(e, n)' = legXfer(e, n)
      /\ legXfer(e, new)' = last(e)
  BY <1>2, <1>3 DEF legXfer, last
<1>5. LegsFit(e)'
  <2>1. \A n \in DOMAIN legs : legs[n].cid # Len(xfer[e])
    BY DEF Recorded
  <2>2. \A m, n \in DOMAIN row'[e].legs : row'[e].legs[m].cid = row'[e].legs[n].cid => m = n
    BY <1>2, <1>3, <2>1 DEF Store, LegsFit
  <2>3. \A n \in DOMAIN row'[e].legs : row'[e].legs[n].cid \in Transfers(e)
    BY <1>1, <1>2, <1>3 DEF Store, LegsFit
  <2>4. \A n \in DOMAIN legs : Outgoing(e, row[e].legs[n])' <=> Outgoing(e, legs[n])
    BY <1>3 DEF Outgoing
  <2>5. Outgoing(e, row[e].legs[new])' => last(e).kind # "deposit"
    BY <1>2, <1>3 DEF Outgoing, last
  <2>6. \A n \in DOMAIN row'[e].legs : Outgoing(e, row[e].legs[n])' =>
          /\ row'[e].legs[n].status = "direct" => Arrived(legXfer(e, n)')
          /\ row'[e].legs[n].status = "accepted" /\ ~ReceiverRejects => Arrived(legXfer(e, n)')
    BY <1>2, <1>3, <1>4, <2>4, <2>5 DEF Store, LegsFit
  <2> QED BY <1>1, <2>2, <2>3, <2>6 DEF LegsFit, Arrived
<1>6. Recorded(e, Len(xfer[e]))'
  BY <1>2, <1>3 DEF Recorded
<1>7. ReleaseLegs(e)' = ReleaseLegs(e) \cup (IF last(e).kind = "release" THEN {new} ELSE {})
  BY <1>2, <1>3 DEF ReleaseLegs, LegsOf, last
<1>8. Kept(e)' = Kept(e) \cup (IF last(e).kind = "deposit" THEN {} ELSE {new})
  BY <1>2, <1>3 DEF Kept, Outgoing, Undone, last
<1>9. /\ Kept(e) \in SUBSET DOMAIN legs /\ ReleaseLegs(e) \in SUBSET DOMAIN legs
      /\ counted(e) \in Nat /\ Cardinality(ReleaseLegs(e)) \in Nat
      /\ cycleNo(e) = Cardinality(ReleaseLegs(e)) + 1
  BY CountedNat DEF Store
<1>10. counted(e)' = counted(e) + (IF last(e).kind = "deposit" THEN 0 ELSE last(e).amount)
  <2> DEFINE f == [n \in Kept(e) |-> legXfer(e, n).amount]
             g == [n \in Kept(e)' |-> legXfer(e, n)'.amount]
  <2>1. counted(e) = Total(f) /\ counted(e)' = Total(g)
    BY DEF counted
  <2>2. CASE last(e).kind = "deposit"
    <3>1. f = g
      BY <1>4, <1>8, <1>9, <2>2
    <3> QED BY <2>1, <2>2, <3>1, <1>9
  <2>3. CASE last(e).kind # "deposit"
    <3>1. /\ DOMAIN f = Kept(e) /\ DOMAIN g = Kept(e) \cup {new} /\ f = [n \in DOMAIN f |-> f[n]]
          /\ g[new] = last(e).amount /\ \A n \in Kept(e) : g[n] = f[n]
      BY <1>4, <1>8, <1>9, <2>3
    <3>2. last(e).amount \in Nat
      BY <1>1, TypeFacts DEF last, Transfer
    <3>3. Summable(f) /\ new \notin Kept(e)
      BY <1>3, <1>9, LegFacts DEF Store
    <3> HIDE DEF f, g
    <3>4. Total(g) = Total(f) + g[new]
      BY <3>1, <3>2, <3>3, TotalExtends
    <3> QED BY <2>1, <2>3, <3>1, <3>4
  <2> QED BY <2>2, <2>3
<1>11. cycleNo(e)' = cycleNo(e) + (IF last(e).kind = "release" THEN 1 ELSE 0)
  <2>1. IsFiniteSet(ReleaseLegs(e)) /\ new \notin ReleaseLegs(e)
    BY <1>3, <1>9, LegFacts DEF Store
  <2>2. cycleNo(e)' = Cardinality(ReleaseLegs(e)') + 1
    BY DEF cycleNo, ReleaseLegs
  <2>3. CASE last(e).kind = "release"
    <3>1. Cardinality(ReleaseLegs(e) \cup {new}) = Cardinality(ReleaseLegs(e)) + 1
      BY <2>1, FS_AddElement
    <3> QED BY <1>7, <1>9, <2>2, <2>3, <3>1
  <2>4. CASE last(e).kind # "release"
    BY <1>7, <1>9, <2>2, <2>4
  <2> QED BY <2>3, <2>4
<1>12. \A n \in DOMAIN row'[e].legs :
         (n \in DOMAIN row[e].legs /\ legXfer(e, n)' = legXfer(e, n)) \/ legXfer(e, n)' = last(e)
  BY <1>3, <1>4
<1>13. \A n \in ReleaseLegs(e)' :
         (n \in ReleaseLegs(e) /\ legXfer(e, n)' = legXfer(e, n)) \/ legXfer(e, n)' = last(e)
  BY <1>4, <1>7, <1>9
<1> QED
  BY <1>5, <1>6, <1>9, <1>10, <1>11, <1>12, <1>13

\* Legs get another status; those that come undone no longer count.
Undoes(e, U) == U = { n \in Kept(e) : Undone(row'[e].legs[n]) }

LEMMA LegsRestated ==
  ASSUME Typed, NEW e \in Escrows, Store(e), xfer' = xfer, row'[e].legs \in Seq(Leg),
         DOMAIN row'[e].legs = DOMAIN row[e].legs, NEW U, Undoes(e, U),
         \A n \in DOMAIN row[e].legs :
           /\ row'[e].legs[n].cid = row[e].legs[n].cid
           /\ Undone(row[e].legs[n]) => Undone(row'[e].legs[n])
           /\ row'[e].legs[n].status = "direct" => row[e].legs[n].status = "direct"
           /\ Outgoing(e, row[e].legs[n]) /\ row'[e].legs[n].status = "accepted" =>
                row[e].legs[n].status = "accepted" \/ ReceiverRejects \/ Arrived(legXfer(e, n))
  PROVE  /\ LegsFit(e)' /\ ReleaseLegs(e)' = ReleaseLegs(e)
         /\ cycleNo(e)' = cycleNo(e) /\ cycleNo(e) \in Nat
         /\ \A n \in DOMAIN row[e].legs : legXfer(e, n)' = legXfer(e, n)
         /\ \A i : Recorded(e, i)' <=> Recorded(e, i)
         /\ counted(e)' = counted(e) - Total([n \in U |-> legXfer(e, n).amount])
         /\ counted(e)' \in Nat /\ counted(e)' <= counted(e)
<1>1. \A n \in DOMAIN row[e].legs : legXfer(e, n)' = legXfer(e, n)
  BY DEF legXfer
<1>2. \A n \in DOMAIN row[e].legs : Outgoing(e, row[e].legs[n])' <=> Outgoing(e, row[e].legs[n])
  BY DEF Outgoing
<1>3. LegsFit(e)'
  BY <1>1, <1>2 DEF Store, LegsFit, Transfers, Arrived
<1>4. ReleaseLegs(e)' = ReleaseLegs(e)
  BY DEF ReleaseLegs, LegsOf
<1>5. Kept(e)' = Kept(e) \ U
  BY <1>2 DEF Kept, Undoes, Outgoing
<1>6. cycleNo(e) \in Nat /\ cycleNo(e)' = cycleNo(e) /\ Kept(e) \in SUBSET DOMAIN row[e].legs
  <2>1. /\ Cardinality(ReleaseLegs(e)) \in Nat /\ cycleNo(e) = Cardinality(ReleaseLegs(e)) + 1
        /\ Kept(e) \in SUBSET DOMAIN row[e].legs
    BY CountedNat DEF Store
  <2>2. cycleNo(e)' = Cardinality(ReleaseLegs(e)') + 1
    BY DEF cycleNo, ReleaseLegs
  <2> QED BY <1>4, <2>1, <2>2
<1>7. \A i : Recorded(e, i)' <=> Recorded(e, i)
  BY DEF Recorded
<1> DEFINE f == [n \in Kept(e) |-> legXfer(e, n).amount]
<1>8. Summable(f) /\ DOMAIN f = Kept(e) /\ U \in SUBSET Kept(e)
  BY <1>6, LegFacts DEF Store, Undoes
<1>9. /\ counted(e) = Total(f)
      /\ counted(e)' = Total(Part(f, Kept(e) \ U))
      /\ Total([n \in U |-> legXfer(e, n).amount]) = Total(Part(f, U))
  <2>1. [n \in Kept(e)' |-> legXfer(e, n)'.amount] = Part(f, Kept(e) \ U)
    BY <1>1, <1>5, <1>6 DEF Part
  <2>2. [n \in U |-> legXfer(e, n).amount] = Part(f, U)
    BY <1>8 DEF Part
  <2> HIDE DEF f
  <2>3. counted(e)' = Total([n \in Kept(e)' |-> legXfer(e, n)'.amount])
    BY DEF counted
  <2> QED BY <2>1, <2>2, <2>3 DEF counted, f
<1> HIDE DEF f
<1>10. Total(f) = Total(Part(f, U)) + Total(Part(f, Kept(e) \ U))
  BY <1>8, TotalSplits
<1>11. Total(Part(f, U)) \in Nat /\ Total(Part(f, Kept(e) \ U)) \in Nat
  <2>1. Kept(e) \ U \in SUBSET DOMAIN f /\ U \in SUBSET DOMAIN f
    BY <1>8
  <2> QED BY <1>8, <2>1, PartFacts
<1> QED
  BY <1>1, <1>3, <1>4, <1>6, <1>7, <1>9, <1>10, <1>11

LEMMA CompleteFacts ==
  ASSUME NEW e \in Escrows, NEW r \in Row, r.status = "active"
  PROVE  LET c == CompleteIfDone(r, e) IN
         /\ c \in Row /\ c.legs = r.legs /\ c.released = r.released /\ c.nextDueAt = r.nextDueAt
         /\ c.status \in {"active", "completed"}
         /\ c.status = "completed" => remainingOf(c, e) = 0 /\ ~hasPendingRelease(c, e)
<1> DEFINE c == CompleteIfDone(r, e)
<1>1. c = r \/ (c = [r EXCEPT !.status = "completed"] /\ remainingOf(r, e) = 0 /\ ~hasPendingRelease(r, e))
  BY DEF CompleteIfDone
<1>2. /\ c \in Row /\ c.legs = r.legs /\ c.released = r.released /\ c.nextDueAt = r.nextDueAt
      /\ c.status \in {"active", "completed"}
      /\ c.status = "completed" => remainingOf(r, e) = 0 /\ ~hasPendingRelease(r, e)
  BY <1>1 DEF Row
<1> HIDE DEF c
<1>3. /\ remainingOf(c, e) = remainingOf(r, e)
      /\ hasPendingRelease(c, e) <=> hasPendingRelease(r, e)
  BY <1>2 DEF remainingOf, hasPendingRelease, LegsOf
<1> QED
  BY <1>2, <1>3 DEF c

\* The status that a row is saved with fits, if it is completed by CompleteIfDone.
LEMMA StatusSaved ==
  ASSUME NEW e \in Escrows, xfer' = xfer, NEW r \in Row, row'[e] = r,
         r.status = "completed" => remainingOf(r, e) = 0 /\ ~hasPendingRelease(r, e),
         r.status # "none", Open(e)' => \A n \in DOMAIN r.legs : legXfer(e, n)'.kind # "refund"
  PROVE  StatusFits(e)'
<1>1. /\ remainingOf(row[e], e)' = remainingOf(r, e)
      /\ hasPendingRelease(row[e], e)' <=> hasPendingRelease(r, e)
  BY DEF remainingOf, hasPendingRelease, LegsOf
<1> QED
  BY <1>1 DEF StatusFits

LEMMA CreatedRow ==
  ASSUME NEW l \in Leg, NEW t \in Nat
  PROVE  LET r == [status |-> "active", released |-> 0, nextDueAt |-> t, stalls |-> 0, legs |-> <<l>>]
         IN  /\ r \in Row /\ r.released = 0 /\ r.status = "active" /\ r.nextDueAt = t
             /\ r.legs = <<l>> /\ <<l>> \in Seq(Leg)
<1>1. <<l>> \in Seq(Leg)
  OBVIOUS
<1> QED
  BY <1>1 DEF Row

LEMMA FinishCreateStep ==
  ASSUME Inv, NEW e \in Escrows, FinishCreate(e)
  PROVE  Inv'
<1> DEFINE leg == NewLeg(Len(xfer[e]), op.delivery)
           r == [ status |-> "active", released |-> 0, nextDueAt |-> now, stalls |-> 0,
                  legs |-> <<leg>> ]
<1>1. /\ Typed /\ Dated /\ Store(e) /\ Course(e) /\ op.kind = "create" /\ op.escrow = e
      /\ op.stage = "recorded" /\ op' = Idle /\ UNCHANGED <<now, xfer, record>> /\ SaveRow(e, r)
      /\ op # Idle /\ now \in Nat
  BY DEF Inv, FinishCreate, Finish, At, Idle, Typed
<1>2. row[e].status = "none" /\ Transfers(e) # {} /\ ~Pays(e, {"release"})
  BY <1>1 DEF Course, OpFits, Busy, Pays
<1>3. row[e].legs = <<>> /\ Len(xfer[e]) \in Transfers(e) /\ last(e).kind = "deposit"
  BY <1>1, <1>2, TypeFacts DEF Store, StatusFits, last
<1>4. leg \in Leg
  BY <1>1, TypeFacts DEF NewLeg, Leg
<1>5. r \in Row /\ r.released = 0 /\ r.status = "active" /\ r.nextDueAt = now
      /\ r.legs = <<leg>> /\ <<leg>> \in Seq(Leg)
  BY <1>1, <1>4, CreatedRow
<1>6. row'[e] = r
  BY <1>1 DEF SaveRow, Typed
<1>7. row'[e].legs = Append(row[e].legs, leg)
  BY <1>3, <1>5, <1>6
<1> HIDE DEF r
<1>8. ~Recorded(e, Len(xfer[e])) /\ ReleaseLegs(e) = {} /\ Kept(e) = {}
  BY <1>3 DEF Recorded, ReleaseLegs, LegsOf, Kept
<1>9. counted(e) = 0
  BY <1>8, TotalOfNothing DEF counted
<1>10. /\ LegsFit(e)' /\ Recorded(e, Len(xfer[e]))'
       /\ \A n \in DOMAIN row'[e].legs :
            (n \in DOMAIN row[e].legs /\ legXfer(e, n)' = legXfer(e, n)) \/ legXfer(e, n)' = last(e)
       /\ \A n \in ReleaseLegs(e)' :
            (n \in ReleaseLegs(e) /\ legXfer(e, n)' = legXfer(e, n)) \/ legXfer(e, n)' = last(e)
       /\ counted(e)' = counted(e) + 0
       /\ cycleNo(e) \in Nat /\ cycleNo(e)' = cycleNo(e) + 0
  BY <1>1, <1>2, <1>3, <1>5, <1>6, <1>7, <1>8, LegAppended
<1>11. StatusFits(e)'
  <2>1. \A n \in DOMAIN r.legs : legXfer(e, n)'.kind # "refund"
    BY <1>3, <1>6, <1>10
  <2> QED BY <1>1, <1>5, <1>6, <2>1, StatusSaved
<1>15. ReleaseLegs(e)' = {}
  <2>1. \A n \in ReleaseLegs(e)' : legXfer(e, n)'.kind = "release"
    BY DEF ReleaseLegs, LegsOf, legXfer
  <2> QED BY <1>3, <1>8, <1>10, <2>1
<1>12. DueLater(e)' /\ Paced(e)'
  BY <1>15 DEF DueLater, Paced
<1>13. WithinDeposit(e)'
  <2>1. Deposit[e] \in Nat
    BY <1>1, TypeFacts
  <2>2. last(e)' = last(e) /\ Len(xfer'[e]) = Len(xfer[e])
    BY <1>1 DEF last
  <2> QED BY <1>3, <1>5, <1>6, <1>9, <1>10, <2>1, <2>2 DEF WithinDeposit, LeftCustody
<1>14. Store(e)'
  BY <1>10, <1>11, <1>12, <1>13 DEF Store
<1> QED
  BY <1>1, <1>5, <1>10, <1>14, <1>15, RowStep

\* The transfer of the operation under way enters its row.
LEMMA PaidFacts ==
  ASSUME Inv, NEW e \in Escrows, op # Idle, op.escrow = e, op.kind \in {"release", "refund"},
         op.stage = "recorded", op.delivery # "none"
  PROVE  /\ Typed /\ Store(e) /\ Pays(e, {"release", "refund"}) /\ row[e].status = "active"
         /\ Len(xfer[e]) \in Transfers(e) /\ Transfers(e) # {} /\ ~Recorded(e, Len(xfer[e]))
         /\ last(e).kind = op.kind /\ last(e) \in Transfer /\ last(e).amount \in Nat
         /\ op.kind = "refund" => last(e).amount = remainingOf(row[e], e)
         /\ op.delivery = "direct" => Arrived(last(e))
         /\ row[e].released = counted(e) /\ counted(e) \in Nat
         /\ last(e).amount + counted(e) <= Deposit[e]
         /\ NewLeg(Len(xfer[e]), op.delivery) \in Leg
<1>1. Typed /\ Store(e) /\ Course(e) /\ Busy(e) /\ Pays(e, {"release", "refund"})
  BY DEF Inv, Busy, Pays
<1>2. /\ Transfers(e) # {} /\ ~Recorded(e, Len(xfer[e])) /\ last(e).kind = op.kind
      /\ last(e).amount <= remainingOf(row[e], e) /\ row[e].status = "active"
      /\ op.kind = "refund" => last(e).amount = remainingOf(row[e], e)
      /\ op.delivery = "direct" => last(e).fate = "delivered"
  BY <1>1 DEF Course, OpFits
<1>3. Len(xfer[e]) \in Transfers(e) /\ last(e) \in Transfer /\ Len(xfer[e]) \in Nat
  BY <1>1, <1>2, TypeFacts DEF last
<1>4. last(e).amount \in Nat /\ counted(e) \in Nat /\ Deposit[e] \in Nat
  BY <1>1, <1>3, CountedNat, TypeFacts DEF Store, Transfer
<1>5. row[e].released = counted(e) /\ counted(e) <= Deposit[e]
  BY <1>1, <1>2 DEF Store, WithinDeposit, Open
<1>6. last(e).amount + counted(e) <= Deposit[e]
  BY <1>2, <1>4, <1>5 DEF remainingOf
<1>7. NewLeg(Len(xfer[e]), op.delivery) \in Leg
  BY <1>3 DEF NewLeg, Leg
<1> QED
  BY <1>1, <1>2, <1>3, <1>4, <1>5, <1>6, <1>7 DEF Arrived

LEMMA FinishReleaseStep ==
  ASSUME Inv, NEW e \in Escrows, FinishRelease(e)
  PROVE  Inv'
<1> DEFINE leg == NewLeg(Len(xfer[e]), op.delivery)
           b == [row[e] EXCEPT !.released = @ + last(e).amount, !.nextDueAt = now + Cadence,
                               !.legs = Append(@, leg)]
           r == CompleteIfDone(b, e)
<1>1. /\ op.kind = "release" /\ op.escrow = e /\ op.stage = "recorded" /\ op' = Idle
      /\ UNCHANGED <<now, xfer, record>> /\ SaveRow(e, r) /\ op # Idle
  BY DEF FinishRelease, Finish, At, Idle, last
<1>2. Course(e) /\ Busy(e) /\ Dated /\ Typed /\ now \in Nat
  BY <1>1 DEF Inv, Busy, Typed
<1>3. op.delivery # "none" /\ row[e].nextDueAt <= now
  BY <1>1, <1>2 DEF Course, OpFits
<1>4. /\ Store(e) /\ Pays(e, {"release", "refund"}) /\ row[e].status = "active"
      /\ Len(xfer[e]) \in Transfers(e) /\ Transfers(e) # {} /\ ~Recorded(e, Len(xfer[e]))
      /\ last(e).kind = "release" /\ last(e) \in Transfer /\ last(e).amount \in Nat
      /\ op.delivery = "direct" => Arrived(last(e))
      /\ row[e].released = counted(e) /\ counted(e) \in Nat
      /\ last(e).amount + counted(e) <= Deposit[e] /\ leg \in Leg
  BY <1>1, <1>3, PaidFacts
<1>5. Pays(e, {"release"}) /\ row[e].nextDueAt <= CommittedAt(last(e))
  BY <1>1, <1>2, <1>4 DEF Pays, Course, OpFits
<1>6. /\ CommittedAt(last(e)) <= now /\ CommittedAt(last(e)) \in Nat
      /\ CommittedAt(last(e)) + Cadence <= now + Cadence /\ now + Cadence \in Nat
  <2>1. /\ Window <= last(e).deadline /\ last(e).deadline <= now + Window /\ last(e).deadline \in Nat
    BY <1>2, <1>4 DEF Dated, last, Transfer
  <2> QED BY <2>1, <1>2, LaneAssumption DEF CommittedAt
<1>7. /\ row[e].legs \in Seq(Leg) /\ row[e] \in Row /\ row[e].released \in Nat /\ Deposit[e] \in Nat
      /\ Append(row[e].legs, leg) \in Seq(Leg)
  BY <1>2, <1>4, TypeFacts
<1> HIDE DEF leg
<1>8. /\ b \in Row /\ b.status = "active" /\ b.released = row[e].released + last(e).amount
      /\ b.nextDueAt = now + Cadence /\ b.legs = Append(row[e].legs, leg)
  <2>1. row[e].released + last(e).amount \in Int
    BY <1>4, <1>7
  <2> QED BY <2>1, <1>4, <1>6, <1>7 DEF Row
<1> HIDE DEF b
<1>9. /\ r \in Row /\ r.legs = b.legs /\ r.released = b.released /\ r.nextDueAt = b.nextDueAt
      /\ r.status \in {"active", "completed"}
      /\ r.status = "completed" => remainingOf(r, e) = 0 /\ ~hasPendingRelease(r, e)
  BY <1>8, CompleteFacts
<1> HIDE DEF r
<1>10. row'[e] = r /\ r.released = counted(e) + last(e).amount /\ r.released \in Nat
  BY <1>1, <1>2, <1>4, <1>8, <1>9 DEF SaveRow, Typed
<1>11. /\ LegsFit(e)' /\ Recorded(e, Len(xfer[e]))'
       /\ \A n \in DOMAIN row'[e].legs :
            (n \in DOMAIN row[e].legs /\ legXfer(e, n)' = legXfer(e, n)) \/ legXfer(e, n)' = last(e)
       /\ \A n \in ReleaseLegs(e)' :
            (n \in ReleaseLegs(e) /\ legXfer(e, n)' = legXfer(e, n)) \/ legXfer(e, n)' = last(e)
       /\ counted(e)' = counted(e) + last(e).amount
       /\ cycleNo(e) \in Nat /\ cycleNo(e)' = cycleNo(e) + 1
  <2>1. xfer' = xfer /\ row'[e].legs \in Seq(Leg)
        /\ row'[e].legs = Append(row[e].legs, NewLeg(Len(xfer[e]), op.delivery))
    BY <1>1, <1>7, <1>8, <1>9, <1>10 DEF leg
  <2> HIDE DEF leg
  <2> QED BY <1>2, <1>4, <2>1, LegAppended
<1>12. StatusFits(e)'
  <2>1. \A n \in DOMAIN row[e].legs : legXfer(e, n).kind # "refund"
    BY <1>4 DEF Store, StatusFits, Open
  <2>2. \A n \in DOMAIN r.legs : legXfer(e, n)'.kind # "refund"
    BY <2>1, <1>4, <1>10, <1>11
  <2> QED BY <1>1, <1>9, <1>10, <2>2, StatusSaved
<1>13. WithinDeposit(e)'
  <2>1. last(e)' = last(e) /\ Len(xfer'[e]) = Len(xfer[e])
    BY <1>1 DEF last
  <2> QED BY <1>4, <1>10, <1>11, <2>1 DEF WithinDeposit
<1>14. DueLater(e)'
  <2>1. \A n \in ReleaseLegs(e) : CommittedAt(legXfer(e, n)) + Cadence <= row[e].nextDueAt
    BY <1>4 DEF Store, DueLater, Open
  <2>2. \A n \in ReleaseLegs(e) : CommittedAt(legXfer(e, n)) \in Int
    BY <1>2, <1>4, LegCommitted, CountedNat DEF Store
  <2>3. ASSUME NEW n \in ReleaseLegs(e)' PROVE CommittedAt(legXfer(e, n)') + Cadence <= now + Cadence
    <3>1. CASE n \in ReleaseLegs(e) /\ legXfer(e, n)' = legXfer(e, n)
      BY <3>1, <2>1, <2>2, <1>2, <1>3, <1>7, LaneAssumption DEF Row
    <3>2. CASE legXfer(e, n)' = last(e)
      BY <3>2, <1>6
    <3> QED BY <3>1, <3>2, <1>11
  <2>4. row'[e].nextDueAt = now + Cadence
    BY <1>8, <1>9, <1>10
  <2> QED BY <2>3, <2>4 DEF DueLater, CommittedAt
<1>15. Paced(e)'
  <2>1. \A n \in ReleaseLegs(e) : CommittedAt(legXfer(e, n)) + Cadence <= CommittedAt(last(e))
    <3>1. \A n \in ReleaseLegs(e) : CommittedAt(legXfer(e, n)) + Cadence <= row[e].nextDueAt
      BY <1>4 DEF Store, DueLater, Open
    <3>2. \A n \in ReleaseLegs(e) : CommittedAt(legXfer(e, n)) \in Int
      BY <1>2, <1>4, LegCommitted, CountedNat DEF Store
    <3> QED BY <3>1, <3>2, <1>5, <1>6, <1>7, LaneAssumption DEF Row
  <2>2. PICK new : new = Len(row[e].legs) + 1
    OBVIOUS
  <2>3. /\ DOMAIN row'[e].legs = DOMAIN row[e].legs \cup {new} /\ row'[e].legs[new] = leg
        /\ \A n \in DOMAIN row[e].legs : row'[e].legs[n] = row[e].legs[n] /\ n \in Nat /\ n < new
        /\ new \in Nat
    <3>1. row'[e].legs = Append(row[e].legs, leg) /\ Len(row[e].legs) \in Nat
      BY <1>7, <1>8, <1>9, <1>10
    <3> QED BY <1>4, <1>7, <2>2, <3>1
  <2>4. /\ \A n \in DOMAIN row[e].legs : legXfer(e, n)' = legXfer(e, n)
        /\ legXfer(e, new)' = last(e)
    BY <1>1, <2>3 DEF legXfer, leg, NewLeg, last
  <2>5. /\ \A n \in ReleaseLegs(e)' \ {new} : n \in ReleaseLegs(e) /\ n \in DOMAIN row[e].legs
        /\ ReleaseLegs(e)' \subseteq DOMAIN row'[e].legs
    BY <1>1, <2>3 DEF ReleaseLegs, LegsOf
  <2> SUFFICES ASSUME NEW m \in ReleaseLegs(e)', NEW n \in ReleaseLegs(e)', m < n
               PROVE  CommittedAt(legXfer(e, n)') >= CommittedAt(legXfer(e, m)') + Cadence
    BY DEF Paced, CommittedAt
  <2>6. m # new
    BY <2>3, <2>5
  <2>7. CASE n = new
    <3>1. CommittedAt(legXfer(e, m)') + Cadence <= CommittedAt(last(e))
      BY <2>1, <2>4, <2>5, <2>6
    <3>2. CommittedAt(legXfer(e, m)') \in Int
      BY <1>2, <1>4, <2>4, <2>5, <2>6, LegCommitted DEF Store
    <3> QED BY <2>4, <2>7, <3>1, <3>2, <1>6, LaneAssumption
  <2>8. CASE n # new
    BY <1>4, <2>4, <2>5, <2>6, <2>8 DEF Store, Paced
  <2> QED BY <2>7, <2>8
<1>17. Store(e)'
  BY <1>11, <1>12, <1>13, <1>14, <1>15 DEF Store
<1>18. cycleNo(e)' \in Nat /\ cycleNo(e) <= cycleNo(e)' /\ cycleNo(e) < cycleNo(e)'
  BY <1>11
<1> QED
  BY <1>1, <1>4, <1>9, <1>10, <1>11, <1>17, <1>18, RowStep

With(r, v, legs) == [r EXCEPT !.released = v, !.legs = legs]

LEMMA RowWith ==
  ASSUME NEW r \in Row, NEW v \in Nat, NEW legs \in Seq(Leg)
  PROVE  LET q == With(r, v, legs) IN
         /\ q \in Row /\ q.released = v /\ q.legs = legs /\ q.status = r.status
         /\ q.nextDueAt = r.nextDueAt
<1> DEFINE p == [r EXCEPT !.released = v]
           q == [p EXCEPT !.legs = legs]
<1>1. v \in Int
  OBVIOUS
<1>2. /\ p \in Row /\ p.released = v /\ p.status = r.status /\ p.nextDueAt = r.nextDueAt
  BY <1>1 DEF Row
<1>3. q = With(r, v, legs)
  BY DEF With
<1> HIDE DEF p
<1>4. /\ q \in Row /\ q.released = v /\ q.legs = legs /\ q.status = r.status
      /\ q.nextDueAt = r.nextDueAt
  BY <1>2 DEF Row
<1> HIDE DEF q
<1> QED
  BY <1>3, <1>4

\* The legs stay as they are.
LEMMA LegsKept ==
  ASSUME Typed, NEW e \in Escrows, Store(e), xfer' = xfer, row'[e].legs = row[e].legs
  PROVE  /\ LegsFit(e)' /\ ReleaseLegs(e)' = ReleaseLegs(e) /\ counted(e)' = counted(e)
         /\ cycleNo(e)' = cycleNo(e) /\ cycleNo(e) \in Nat
         /\ \A n \in DOMAIN row[e].legs : legXfer(e, n)' = legXfer(e, n)
         /\ \A i : Recorded(e, i)' <=> Recorded(e, i)
         /\ Paced(e)'
<1>1. \A n : legXfer(e, n)' = legXfer(e, n)
  BY DEF legXfer
<1>2. ReleaseLegs(e)' = ReleaseLegs(e) /\ Kept(e)' = Kept(e)
  BY DEF ReleaseLegs, LegsOf, Kept, Outgoing
<1>3. LegsFit(e)'
  BY <1>1 DEF Store, LegsFit, Transfers, Outgoing
<1>4. counted(e)' = counted(e)
  BY <1>1, <1>2 DEF counted
<1>5. cycleNo(e) \in Nat
  BY CountedNat DEF Store
<1>6. cycleNo(e)' = cycleNo(e)
  BY DEF cycleNo, LegsOf
<1>7. \A i : Recorded(e, i)' <=> Recorded(e, i)
  BY DEF Recorded
<1>8. Paced(e)'
  BY <1>1, <1>2 DEF Store, Paced
<1> QED
  BY <1>1, <1>2, <1>3, <1>4, <1>5, <1>6, <1>7, <1>8

LEMMA CloseOrWaitStep ==
  ASSUME Inv, NEW e \in Escrows, CloseOrWait(e)
  PROVE  Inv'
<1> DEFINE c == CompleteIfDone(row[e], e)
           r == IF c.status = "completed" THEN c ELSE [c EXCEPT !.nextDueAt = now + Cadence]
<1>1. /\ op = Idle /\ op' = Idle /\ UNCHANGED <<now, xfer, record>> /\ SaveRow(e, r)
      /\ row[e].status = "active" /\ row[e].nextDueAt <= now
  BY DEF CloseOrWait, Due
<1>2. /\ Typed /\ Store(e) /\ now \in Nat /\ row[e] \in Row /\ row[e].released \in Nat
      /\ row[e].nextDueAt \in Nat /\ now + Cadence \in Nat /\ row[e].nextDueAt <= now + Cadence
  <2>1. Typed /\ Store(e) /\ now \in Nat
    BY DEF Inv, Typed
  <2>2. row[e] \in Row /\ row[e].released \in Nat /\ row[e].nextDueAt \in Nat
    BY <2>1, TypeFacts
  <2> QED BY <1>1, <2>1, <2>2, LaneAssumption
<1>3. /\ c \in Row /\ c.legs = row[e].legs /\ c.released = row[e].released
      /\ c.nextDueAt = row[e].nextDueAt /\ c.status \in {"active", "completed"}
      /\ c.status = "completed" => remainingOf(c, e) = 0 /\ ~hasPendingRelease(c, e)
  BY <1>1, <1>2, CompleteFacts
<1> HIDE DEF c
<1>4. /\ r \in Row /\ r.legs = row[e].legs /\ r.released = row[e].released /\ r.released \in Nat
      /\ row[e].nextDueAt <= r.nextDueAt /\ r.status \in {"active", "completed"}
      /\ r.status = "completed" => r = c
  BY <1>2, <1>3 DEF Row
<1> HIDE DEF r
<1>5. row'[e] = r
  BY <1>1, <1>2 DEF SaveRow, Typed
<1>6. /\ LegsFit(e)' /\ ReleaseLegs(e)' = ReleaseLegs(e) /\ counted(e)' = counted(e)
      /\ cycleNo(e)' = cycleNo(e) /\ cycleNo(e) \in Nat
      /\ \A n \in DOMAIN row[e].legs : legXfer(e, n)' = legXfer(e, n)
      /\ \A i : Recorded(e, i)' <=> Recorded(e, i)
      /\ Paced(e)' /\ ReleaseLegs(e) \in SUBSET DOMAIN row[e].legs
  BY <1>1, <1>2, <1>4, <1>5, LegsKept, CountedNat DEF Store
<1>7. StatusFits(e)'
  <2>1. \A n \in DOMAIN r.legs : legXfer(e, n)'.kind # "refund"
    BY <1>1, <1>2, <1>4, <1>6 DEF Store, StatusFits, Open
  <2> QED BY <1>1, <1>3, <1>4, <1>5, <2>1, StatusSaved
<1>8. WithinDeposit(e)'
  BY <1>1, <1>2, <1>4, <1>5, <1>6 DEF Store, WithinDeposit, Open, Transfers, last
<1>9. DueLater(e)'
  <2>1. \A n \in ReleaseLegs(e) :
          /\ CommittedAt(legXfer(e, n)) + Cadence <= row[e].nextDueAt
          /\ CommittedAt(legXfer(e, n)) \in Int /\ legXfer(e, n)' = legXfer(e, n)
    BY <1>1, <1>2, <1>6, LegCommitted, CountedNat DEF Store, DueLater, Open
  <2>2. \A n \in ReleaseLegs(e) : CommittedAt(legXfer(e, n)) + Cadence <= r.nextDueAt
    BY <1>2, <1>4, <2>1, LaneAssumption DEF Row
  <2> QED BY <1>5, <1>6, <2>1, <2>2 DEF DueLater, CommittedAt
<1>10. Store(e)'
  BY <1>6, <1>7, <1>8, <1>9 DEF Store
<1>12. cycleNo(e)' \in Nat /\ cycleNo(e) <= cycleNo(e)'
  BY <1>6
<1> QED
  BY <1>1, <1>4, <1>6, <1>10, <1>12, RowStep

LEMMA FinishRefundStep ==
  ASSUME Inv, NEW e \in Escrows, FinishRefund(e)
  PROVE  Inv'
<1> DEFINE closed == [row[e] EXCEPT !.status = "refunded", !.nextDueAt = 0]
           leg == NewLeg(Len(xfer[e]), op.delivery)
           r == IF op.delivery = "none" THEN closed
                ELSE [closed EXCEPT !.released = Deposit[e], !.legs = Append(@, leg)]
<1>1. /\ op.kind = "refund" /\ op.escrow = e /\ op.stage = "recorded" /\ op' = Idle /\ op # Idle
      /\ UNCHANGED <<now, xfer, record>> /\ SaveRow(e, r)
  BY DEF FinishRefund, Finish, At, Idle
<1>2. /\ Typed /\ Store(e) /\ row[e] \in Row /\ row[e].released \in Nat /\ Deposit[e] \in Nat
      /\ row[e].legs \in Seq(Leg)
  BY TypeFacts DEF Inv
<1>3. ReleaseLegs(e) \in SUBSET DOMAIN row[e].legs
  BY <1>2, CountedNat DEF Store
<1>5. CASE op.delivery = "none"
  <2>1. /\ r \in Row /\ r.legs = row[e].legs /\ r.released \in Nat /\ r.status = "refunded"
    BY <1>2, <1>5 DEF Row
  <2> HIDE DEF r
  <2>2. row'[e] = r /\ ~Open(e)'
    BY <1>1, <1>2, <2>1 DEF SaveRow, Typed, Open
  <2>3. /\ LegsFit(e)' /\ ReleaseLegs(e)' = ReleaseLegs(e) /\ counted(e)' = counted(e)
        /\ cycleNo(e)' = cycleNo(e) /\ cycleNo(e) \in Nat
        /\ \A i : Recorded(e, i)' <=> Recorded(e, i)
        /\ Paced(e)'
        /\ \A n \in DOMAIN row[e].legs : legXfer(e, n)' = legXfer(e, n)
    BY <1>1, <1>2, <2>1, <2>2, LegsKept
  <2>4. StatusFits(e)'
    BY <1>1, <2>1, <2>2, StatusSaved
  <2>5. WithinDeposit(e)'
    BY <1>1, <1>2, <2>2, <2>3 DEF Store, WithinDeposit, Transfers, last
  <2>6. Store(e)'
    BY <2>2, <2>3, <2>4, <2>5 DEF Store, DueLater
  <2>7. cycleNo(e)' \in Nat /\ cycleNo(e) <= cycleNo(e)'
    BY <2>3
  <2> QED BY <1>1, <1>3, <2>1, <2>3, <2>6, <2>7, RowStep
<1>6. CASE op.delivery # "none"
  <2>1. /\ Len(xfer[e]) \in Transfers(e) /\ Transfers(e) # {} /\ ~Recorded(e, Len(xfer[e]))
        /\ last(e).kind = "refund" /\ last(e) \in Transfer /\ last(e).amount \in Nat
        /\ op.delivery = "direct" => Arrived(last(e))
        /\ counted(e) \in Nat /\ last(e).amount + counted(e) <= Deposit[e] /\ leg \in Leg
    BY <1>1, <1>6, PaidFacts
  <2>2. Append(row[e].legs, leg) \in Seq(Leg)
    BY <1>2, <2>1
  <2> HIDE DEF leg
  <2>3. /\ r \in Row /\ r.legs = Append(row[e].legs, leg) /\ r.released \in Nat
        /\ r.status = "refunded"
    <3>1. closed \in Row /\ closed.legs = row[e].legs /\ closed.status = "refunded"
      BY <1>2 DEF Row
    <3> HIDE DEF closed
    <3>2. r = With(closed, Deposit[e], Append(row[e].legs, leg))
      BY <1>6, <3>1 DEF With
    <3> HIDE DEF r
    <3> DEFINE q == With(closed, Deposit[e], Append(row[e].legs, leg))
    <3>3. Deposit[e] \in Nat
      BY <1>2
    <3>4. /\ q \in Row /\ q.released = Deposit[e] /\ q.legs = Append(row[e].legs, leg)
          /\ q.status = closed.status
      BY <2>2, <3>1, <3>3, RowWith
    <3> HIDE DEF q
    <3>5. r = q
      BY <3>2 DEF q
    <3> QED BY <3>1, <3>3, <3>4, <3>5
  <2> HIDE DEF r
  <2>4. row'[e] = r /\ ~Open(e)'
    BY <1>1, <1>2, <2>3 DEF SaveRow, Typed, Open
  <2>5. /\ LegsFit(e)' /\ Recorded(e, Len(xfer[e]))'
        /\ \A n \in ReleaseLegs(e)' :
             (n \in ReleaseLegs(e) /\ legXfer(e, n)' = legXfer(e, n)) \/ legXfer(e, n)' = last(e)
        /\ counted(e)' = counted(e) + last(e).amount
        /\ cycleNo(e) \in Nat /\ cycleNo(e)' = cycleNo(e) + 0
    BY <1>1, <1>2, <2>1, <2>2, <2>3, <2>4, LegAppended DEF leg
  <2>6. StatusFits(e)'
    BY <1>1, <2>3, <2>4, StatusSaved
  <2>7. WithinDeposit(e)'
    <3>1. Len(xfer'[e]) = Len(xfer[e])
      BY <1>1
    <3> QED BY <2>1, <2>4, <2>5, <3>1 DEF WithinDeposit
  <2>11. \A n \in ReleaseLegs(e)' : n \in ReleaseLegs(e) /\ legXfer(e, n)' = legXfer(e, n)
    <3>1. \A n \in ReleaseLegs(e)' : legXfer(e, n)'.kind = "release"
      BY DEF ReleaseLegs, LegsOf, legXfer
    <3> QED BY <2>1, <2>5, <3>1
  <2>8. Paced(e)'
    BY <1>2, <2>11 DEF Store, Paced, CommittedAt
  <2>9. Store(e)'
    BY <2>4, <2>5, <2>6, <2>7, <2>8 DEF Store, DueLater
  <2>10. cycleNo(e)' \in Nat /\ cycleNo(e) <= cycleNo(e)'
    BY <2>5
  <2> QED BY <1>1, <2>3, <2>5, <2>9, <2>10, <2>11, RowStep
<1> QED
  BY <1>5, <1>6

\* A row is saved with some of its legs restated, and nothing else changed but what it
\* counts as released and its status.
LEMMA RestatedStore ==
  ASSUME Typed, NEW e \in Escrows, Store(e), xfer' = xfer, NEW r \in Row, row'[e] = r,
         DOMAIN r.legs = DOMAIN row[e].legs, NEW U, Undoes(e, U), r.nextDueAt = row[e].nextDueAt,
         \A n \in DOMAIN row[e].legs :
           /\ r.legs[n].cid = row[e].legs[n].cid
           /\ Undone(row[e].legs[n]) => Undone(r.legs[n])
           /\ r.legs[n].status = "direct" => row[e].legs[n].status = "direct"
           /\ Outgoing(e, row[e].legs[n]) /\ r.legs[n].status = "accepted" =>
                row[e].legs[n].status = "accepted" \/ ReceiverRejects \/ Arrived(legXfer(e, n)),
         r.status \in {"active", "completed"} =>
           Open(e) /\ r.released = Unreleased(row[e], e, U),
         r.status = "completed" => remainingOf(r, e) = 0 /\ ~hasPendingRelease(r, e),
         r.status # "none"
  PROVE  /\ Store(e)' /\ cycleNo(e) \in Nat /\ cycleNo(e)' = cycleNo(e)
         /\ \A n \in ReleaseLegs(e)' : n \in ReleaseLegs(e) /\ legXfer(e, n)' = legXfer(e, n)
<1>1. r.legs \in Seq(Leg)
  BY DEF Row
<1>2. /\ LegsFit(e)' /\ ReleaseLegs(e)' = ReleaseLegs(e)
      /\ cycleNo(e)' = cycleNo(e) /\ cycleNo(e) \in Nat
      /\ \A n \in DOMAIN row[e].legs : legXfer(e, n)' = legXfer(e, n)
      /\ \A i : Recorded(e, i)' <=> Recorded(e, i)
      /\ counted(e)' = counted(e) - Total([n \in U |-> legXfer(e, n).amount])
      /\ counted(e)' \in Nat /\ counted(e)' <= counted(e)
  BY <1>1, LegsRestated
<1>3. /\ Deposit[e] \in Nat /\ counted(e) \in Nat
      /\ ReleaseLegs(e) \in SUBSET DOMAIN row[e].legs
  BY TypeFacts, CountedNat DEF Store
<1>4. StatusFits(e)'
  <2>1. Open(e)' => \A n \in DOMAIN r.legs : legXfer(e, n)'.kind # "refund"
    BY <1>2 DEF Open, Store, StatusFits
  <2> QED BY <2>1, StatusSaved
<1>5. Open(e)' => r.released = counted(e)'
  <2> SUFFICES ASSUME Open(e)' PROVE r.released = counted(e)'
    OBVIOUS
  <2>1. row[e].released = counted(e)
    BY DEF Open, Store, WithinDeposit
  <2>2. U \in SUBSET DOMAIN row[e].legs /\ LegsFit(e)
    BY CountedNat DEF Undoes, Store
  <2> DEFINE t == Total([n \in U |-> legXfer(e, n).amount])
  <2>3. /\ t \in Nat /\ counted(e)' = counted(e) - t /\ counted(e)' \in Nat
        /\ t <= row[e].released => Unreleased(row[e], e, U) = row[e].released - t
    BY <1>2, <2>2, UnreleasedIs
  <2> HIDE DEF t
  <2>4. Unreleased(row[e], e, U) = counted(e)'
    BY <1>3, <2>1, <2>3
  <2> QED BY <2>4 DEF Open
<1>6. WithinDeposit(e)'
  <2>1. counted(e)' <= Deposit[e]
    BY <1>2, <1>3 DEF Store, WithinDeposit
  <2>2. Transfers(e) # {} => last(e).amount \in Nat
    BY TypeFacts DEF last, Transfer
  <2>3. last(e)' = last(e) /\ Transfers(e)' = Transfers(e)
    BY DEF last, Transfers
  <2> QED BY <1>2, <1>3, <1>5, <2>1, <2>2, <2>3 DEF Store, WithinDeposit
<1>7. DueLater(e)' /\ Paced(e)'
  <2>1. Open(e)' => Open(e)
    BY DEF Open
  <2>2. \A n \in ReleaseLegs(e) : legXfer(e, n)' = legXfer(e, n)
    BY <1>2, <1>3
  <2>3. DueLater(e)'
    BY <1>2, <2>1, <2>2 DEF Store, DueLater, CommittedAt
  <2>4. Paced(e)'
    BY <1>2, <2>2 DEF Store, Paced, CommittedAt
  <2> QED BY <2>3, <2>4
<1> QED
  BY <1>2, <1>3, <1>4, <1>6, <1>7 DEF Store

LEMMA ReconcileStep ==
  ASSUME Inv, NEW e \in Escrows, reconcile(e)
  PROVE  Inv'
<1> DEFINE next(n) == InferredStatus(e, row[e].legs[n])
           changed == { n \in LegsOf(row[e], e, "release") : next(n) # row[e].legs[n].status }
           expired == { n \in changed : next(n) = "expired" }
           legs == [n \in DOMAIN row[e].legs |-> [row[e].legs[n] EXCEPT !.status = next(n)]]
           U == { n \in Kept(e) : Undone(legs[n]) }
           released2 == Unreleased(row[e], e, expired)
           after ==
             [ row[e] EXCEPT
                 !.legs = legs, !.released = released2,
                 !.status = IF expired # {} /\ @ = "completed" THEN "active" ELSE @,
                 !.stalls = IF \E n \in changed : next(n) = "accepted" THEN 0 ELSE @ ]
           r == IF after.status = "active" THEN CompleteIfDone(after, e) ELSE after
<1>1. /\ op = Idle /\ op' = Idle /\ UNCHANGED <<now, xfer, record>> /\ SaveRow(e, r)
      /\ row[e].status # "none"
  BY DEF reconcile
<1>2. /\ Typed /\ Dated /\ Store(e) /\ LegsFit(e)
      /\ row[e] \in Row /\ row[e].released \in Nat /\ row[e].legs \in Seq(Leg)
      /\ Len(row[e].legs) \in Nat /\ DOMAIN row[e].legs = 1 .. Len(row[e].legs)
      /\ row[e].stalls \in Nat /\ row[e].nextDueAt \in Nat
      /\ \A n \in DOMAIN row[e].legs : row[e].legs[n] \in Leg
  BY TypeFacts DEF Inv, Store
<1>3. \A n \in DOMAIN row[e].legs :
        /\ next(n) \in {"direct", "active", "accepted", "expired", "withdrawn"}
        /\ next(n) # row[e].legs[n].status => row[e].legs[n].status = "active"
        /\ next(n) # row[e].legs[n].status => next(n) \in {"accepted", "expired"}
        /\ next(n) = "accepted" /\ row[e].legs[n].status # "accepted" =>
             /\ Gone(e, row[e].legs[n]) /\ ~PastDeadline(e, row[e].legs[n])
  BY <1>2 DEF InferredStatus, Leg
<1> HIDE DEF next
<1>4. \A n \in DOMAIN row[e].legs :
        legs[n] \in Leg /\ legs[n].cid = row[e].legs[n].cid /\ legs[n].status = next(n)
  BY <1>2, <1>3 DEF Leg
<1>5. legs \in Seq(Leg) /\ DOMAIN legs = DOMAIN row[e].legs
  <2>1. legs \in [DOMAIN row[e].legs -> Leg]
    BY <1>4
  <2> QED BY <1>2, <2>1, SeqDef
<1> HIDE DEF legs
<1>6. /\ changed \in SUBSET DOMAIN row[e].legs /\ expired \in SUBSET DOMAIN row[e].legs
      /\ released2 \in Nat
  <2>1. changed \in SUBSET DOMAIN row[e].legs /\ expired \in SUBSET DOMAIN row[e].legs
    BY DEF LegsOf
  <2> HIDE DEF changed, expired
  <2> QED BY <1>2, <2>1, UnreleasedIs
<1>7. Open(e) => U = expired
  <2> SUFFICES ASSUME Open(e), NEW n \in DOMAIN row[e].legs PROVE n \in U <=> n \in expired
    BY <1>6 DEF Kept
  <2>1. legXfer(e, n).kind \in {"deposit", "release"}
    <3>1. legXfer(e, n).kind # "refund"
      BY <1>2 DEF Store, StatusFits
    <3> QED BY <1>2, <3>1, LegFacts DEF Transfer, Kinds
  <2>2. Outgoing(e, row[e].legs[n]) <=> n \in LegsOf(row[e], e, "release")
    BY <2>1 DEF Outgoing, LegsOf, legXfer
  <2> QED BY <1>3, <1>4, <2>2 DEF Kept, Undone
<1> HIDE DEF released2, changed, expired
<1>8. /\ after \in Row /\ after.legs = legs /\ after.released = released2
      /\ after.nextDueAt = row[e].nextDueAt
      /\ after.status = IF expired # {} /\ row[e].status = "completed" THEN "active" ELSE row[e].status
  <2>1. released2 \in Int
    BY <1>6
  <2> QED BY <1>2, <1>5, <1>6, <2>1 DEF Row
<1> HIDE DEF after
<1>9. /\ r \in Row /\ r.legs = legs /\ r.released = released2 /\ r.nextDueAt = row[e].nextDueAt
      /\ r.status # "none" /\ (r.status \in {"active", "completed"} => Open(e))
      /\ r.status = "completed" =>
           \/ remainingOf(r, e) = 0 /\ ~hasPendingRelease(r, e)
           \/ r = after /\ row[e].status = "completed" /\ expired = {}
  <2>1. CASE after.status = "active"
    <3>1. /\ r \in Row /\ r.legs = after.legs /\ r.released = after.released
          /\ r.nextDueAt = after.nextDueAt /\ r.status \in {"active", "completed"}
          /\ r.status = "completed" => remainingOf(r, e) = 0 /\ ~hasPendingRelease(r, e)
      BY <1>8, <2>1, CompleteFacts
    <3> HIDE DEF r
    <3> QED BY <3>1, <1>1, <1>8, <2>1 DEF Open
  <2>2. CASE after.status # "active"
    BY <2>2, <1>1, <1>8 DEF Open
  <2> QED BY <2>1, <2>2
<1> HIDE DEF r
<1>10. r.status = "completed" => remainingOf(r, e) = 0 /\ ~hasPendingRelease(r, e)
  <2> SUFFICES ASSUME r.status = "completed", row[e].status = "completed", expired = {}
               PROVE  remainingOf(r, e) = 0 /\ ~hasPendingRelease(r, e)
    BY <1>9
  <2>1. remainingOf(row[e], e) = 0 /\ ~hasPendingRelease(row[e], e)
    BY <1>2 DEF Store, StatusFits
  <2>2. r.released = row[e].released
    <3>1. Total([n \in {} |-> xfer[e][row[e].legs[n].cid].amount]) = 0
      BY TotalOfNothing
    <3> QED BY <1>2, <1>9, <3>1 DEF released2, Unreleased
  <2>3. ~hasPendingRelease(r, e)
    BY <1>3, <1>4, <1>5, <1>9, <2>1 DEF hasPendingRelease, LegsOf
  <2> QED BY <2>1, <2>2, <2>3 DEF remainingOf
<1>11. row'[e] = r
  BY <1>1, <1>2 DEF SaveRow, Typed
<1>12. \A n \in DOMAIN row[e].legs :
         /\ r.legs[n].cid = row[e].legs[n].cid
         /\ Undone(row[e].legs[n]) => Undone(r.legs[n])
         /\ r.legs[n].status = "direct" => row[e].legs[n].status = "direct"
         /\ Outgoing(e, row[e].legs[n]) /\ r.legs[n].status = "accepted" =>
              row[e].legs[n].status = "accepted" \/ ReceiverRejects \/ Arrived(legXfer(e, n))
  <2> TAKE n \in DOMAIN row[e].legs
  <2>1. r.legs[n].cid = row[e].legs[n].cid /\ r.legs[n].status = next(n)
    BY <1>4, <1>9
  <2>2. CASE next(n) = row[e].legs[n].status
    BY <2>1, <2>2 DEF Undone
  <2>3. CASE next(n) # row[e].legs[n].status
    <3>1. row[e].legs[n].status = "active" /\ next(n) \in {"accepted", "expired"}
      BY <1>3, <2>3
    <3>2. next(n) = "accepted" => ReceiverRejects \/ Arrived(legXfer(e, n))
      <4> SUFFICES ASSUME next(n) = "accepted", ~ReceiverRejects PROVE Arrived(legXfer(e, n))
        OBVIOUS
      <4>1. Gone(e, row[e].legs[n]) /\ ~PastDeadline(e, row[e].legs[n])
        BY <1>3, <3>1
      <4>2. row[e].legs[n].cid \in Transfers(e) /\ legXfer(e, n) \in Transfer
        BY <1>2, LegFacts DEF LegsFit
      <4>3. legXfer(e, n).fate # "reverted"
        BY <1>2, <4>1, <4>2 DEF Dated, PastDeadline, legXfer
      <4> QED BY <4>1, <4>2, <4>3 DEF Gone, legXfer, Arrived, Transfer
    <3> QED BY <2>1, <3>1, <3>2 DEF Undone
  <2> QED BY <2>2, <2>3
<1>13. Undoes(e, U)
  BY <1>9, <1>11 DEF Undoes
<1>14. r.status \in {"active", "completed"} => Open(e) /\ r.released = Unreleased(row[e], e, U)
  BY <1>7, <1>9 DEF released2
<1> HIDE DEF U
<1>15. DOMAIN r.legs = DOMAIN row[e].legs
  BY <1>5, <1>9
<1>16. /\ Store(e)' /\ cycleNo(e) \in Nat /\ cycleNo(e)' = cycleNo(e)
       /\ \A n \in ReleaseLegs(e)' : n \in ReleaseLegs(e) /\ legXfer(e, n)' = legXfer(e, n)
  BY <1>1, <1>2, <1>9, <1>10, <1>11, <1>12, <1>13, <1>14, <1>15, RestatedStore
<1>18. cycleNo(e)' \in Nat /\ cycleNo(e) <= cycleNo(e)'
  BY <1>16
<1>19. r.released \in Nat
  BY <1>6, <1>9
<1> QED
  BY <1>1, <1>9, <1>16, <1>18, <1>19, RowStep

\* The offers an operation withdraws, or has withdrawn, are legs waiting for their payee.
LEMMA ReclaimFacts ==
  ASSUME Inv, NEW e \in Escrows, op.kind = "reclaim", op.escrow = e
  PROVE  /\ Typed /\ Store(e) /\ Open(e) /\ op \in Reclaiming /\ op # Idle
         /\ op.todo \cup op.done \in SUBSET ReleaseLegs(e)
         /\ ReleaseLegs(e) \in SUBSET DOMAIN row[e].legs
         /\ \A n \in op.todo \cup op.done : row[e].legs[n].status = "active"
         /\ \A n \in op.todo : PastDeadline(e, row[e].legs[n])
         /\ \A K \in SUBSET {"release", "refund"} : ~Pays(e, K)
<1>1. Typed /\ Store(e) /\ Course(e) /\ Busy(e)
  BY DEF Inv, Busy, Idle
<1>2. op \in Reclaiming /\ op # Idle
  BY <1>1 DEF Typed, Idle, Running
<1>3. ReleaseLegs(e) \in SUBSET DOMAIN row[e].legs
  BY <1>1, CountedNat DEF Store
<1> QED
  BY <1>1, <1>2, <1>3 DEF Course, OpFits, Pays

LEMMA WithdrawOfferStep ==
  ASSUME Inv, NEW e \in Escrows, WithdrawOffer(e)
  PROVE  Inv'
<1>1. op.kind = "reclaim" /\ op.escrow = e /\ UNCHANGED <<now, record, row>>
  BY DEF WithdrawOffer
<1>2. /\ Typed /\ Store(e) /\ Open(e) /\ op \in Reclaiming /\ op # Idle
      /\ op.todo \cup op.done \in SUBSET ReleaseLegs(e)
      /\ ReleaseLegs(e) \in SUBSET DOMAIN row[e].legs
      /\ \A n \in op.todo \cup op.done : row[e].legs[n].status = "active"
      /\ \A n \in op.todo : PastDeadline(e, row[e].legs[n])
      /\ ~Pays(e, {"release"}) /\ ~Pays(e, {"release", "refund"}) /\ Course(e) /\ Busy(e)
  BY <1>1, ReclaimFacts DEF Inv, Busy
<1>3. PICK n \in op.todo :
        \/ /\ xfer[e][row[e].legs[n].cid].fate = "open"
           /\ SetFate(e, row[e].legs[n].cid, "reverted")
           /\ op' = [op EXCEPT !.todo = @ \ {n}, !.done = @ \cup {n}, !.stage = "committed"]
        \/ /\ op' = [op EXCEPT !.todo = @ \ {n}]
           /\ UNCHANGED xfer
  BY DEF WithdrawOffer
<1>4. /\ op' \in Reclaiming /\ op'.escrow = e /\ op'.kind = "reclaim"
      /\ op'.todo \subseteq op.todo /\ op'.done \subseteq op.todo \cup op.done
  <2>1. n \in Nat /\ op.todo \in SUBSET Nat /\ op.done \in SUBSET Nat
    BY <1>2 DEF Reclaiming
  <2>2. op.todo \ {n} \in SUBSET Nat /\ op.done \cup {n} \in SUBSET Nat
    BY <2>1
  <2>3. CASE op' = [op EXCEPT !.todo = @ \ {n}, !.done = @ \cup {n}, !.stage = "committed"]
    <3>1. /\ op' \in Reclaiming /\ op'.escrow = op.escrow /\ op'.kind = op.kind
          /\ op'.todo = op.todo \ {n} /\ op'.done = op.done \cup {n}
      BY <1>2, <2>2, <2>3 DEF Reclaiming
    <3> QED BY <1>1, <3>1
  <2>4. CASE op' = [op EXCEPT !.todo = @ \ {n}]
    <3>1. /\ op' \in Reclaiming /\ op'.escrow = op.escrow /\ op'.kind = op.kind
          /\ op'.todo = op.todo \ {n} /\ op'.done = op.done
      BY <1>2, <2>2, <2>4 DEF Reclaiming
    <3> QED BY <1>1, <3>1
  <2> QED BY <1>3, <2>3, <2>4
<1>5. /\ \A K \in SUBSET {"release", "refund"} : ~Pays(e, K)'
      /\ op' # Idle /\ Busy(e)'
  BY <1>4 DEF Pays, Busy, Reclaiming, Idle
<1>6. CASE UNCHANGED xfer
  <2>1. /\ ReleaseLegs(e)' = ReleaseLegs(e) /\ Open(e)'
        /\ \A k : PastDeadline(e, row[e].legs[k])' <=> PastDeadline(e, row[e].legs[k])
    BY <1>1, <1>2, <1>6 DEF ReleaseLegs, LegsOf, Open, PastDeadline
  <2>2. OpFits(e)'
    BY <1>1, <1>2, <1>4, <1>5, <2>1 DEF OpFits
  <2>3. ~Pays(e, {"release"})'
    BY <1>5
  <2> QED BY <1>1, <1>2, <1>4, <1>6, <2>2, <2>3, OperationStep
<1>7. CASE /\ xfer[e][row[e].legs[n].cid].fate = "open"
           /\ SetFate(e, row[e].legs[n].cid, "reverted")
  <2>1. PICK i \in Transfers(e) : i = row[e].legs[n].cid
    BY <1>2 DEF Store, LegsFit
  <2>2. /\ xfer[e][i].fate = "open" /\ SetFate(e, i, "reverted") /\ xfer[e][i].deadline <= now
    BY <1>2, <1>7, <2>1 DEF PastDeadline
  <2>3. /\ xfer' \in [Escrows -> Seq(Transfer)]
        /\ \A f \in Escrows \ {e} : xfer'[f] = xfer[f]
        /\ Transfers(e)' = Transfers(e)
        /\ \A j \in Transfers(e) :
             /\ xfer'[e][j].kind = xfer[e][j].kind /\ xfer'[e][j].cycle = xfer[e][j].cycle
             /\ xfer'[e][j].deadline = xfer[e][j].deadline
             /\ xfer'[e][j].fate = IF j = i THEN "reverted" ELSE xfer[e][j].fate
    BY <1>2, <2>2, FateFacts
  <2>4. Typed'
    BY <1>1, <1>2, <1>4, <2>3 DEF Typed
  <2>5. Dated'
    BY <1>1, <2>2, <2>3 DEF Inv, Dated, Transfers
  <2>6. Interlocked'
    BY <1>4 DEF Interlocked
  <2>7. /\ Store(e)' /\ released(e)' = released(e)
        /\ ReleaseLegs(e)' = ReleaseLegs(e) /\ CyclesFit(e)'
    BY <1>1, <1>2, <2>2, FateKeepsStore DEF Course
  <2>8. OpFits(e)'
    <3>1. Open(e)' <=> Open(e)
      BY <1>1 DEF Open
    <3>2. \A k \in ReleaseLegs(e) : PastDeadline(e, row[e].legs[k])' <=> PastDeadline(e, row[e].legs[k])
      <4> TAKE k \in ReleaseLegs(e)
      <4>1. row[e].legs[k].cid \in Transfers(e)
        BY <1>2 DEF Store, LegsFit, ReleaseLegs, LegsOf
      <4>2. xfer'[e][row[e].legs[k].cid].deadline = xfer[e][row[e].legs[k].cid].deadline
        BY <2>3, <4>1
      <4> QED BY <1>1, <4>2 DEF PastDeadline
    <3> QED BY <1>1, <1>2, <1>4, <1>5, <2>7, <3>1, <3>2 DEF OpFits
  <2>9. RecordBehind(e)' /\ CyclesFit(e)'
    BY <1>1, <1>2, <1>5, <2>7 DEF Course, RecordBehind
  <2>10. \A f \in Escrows \ {e} : Store(f)' /\ Course(f)'
    BY <1>1, <1>4, <2>3, OthersKeep
  <2> QED BY <2>4, <2>5, <2>6, <2>7, <2>8, <2>9, <2>10 DEF Inv, Course
<1> QED
  BY <1>3, <1>6, <1>7

LEMMA FinishReclaimStep ==
  ASSUME Inv, NEW e \in Escrows, FinishReclaim(e)
  PROVE  Inv'
<1> DEFINE legs == [n \in DOMAIN row[e].legs |->
                      IF n \in op.done THEN [row[e].legs[n] EXCEPT !.status = "withdrawn"]
                      ELSE row[e].legs[n]]
           released2 == Unreleased(row[e], e, op.done)
           reopened == [row[e] EXCEPT !.legs = legs, !.released = released2, !.status = "active",
                                      !.stalls = @ + Cardinality(op.done)]
<1>1. /\ op.kind = "reclaim" /\ op.escrow = e /\ op' = Idle /\ UNCHANGED <<now, xfer, record>>
      /\ SaveRow(e, IF op.done = {} THEN row[e] ELSE reopened)
  BY DEF FinishReclaim
<1>2. /\ Typed /\ Store(e) /\ Open(e) /\ op \in Reclaiming /\ op # Idle
      /\ op.done \in SUBSET ReleaseLegs(e) /\ op.done \in SUBSET DOMAIN row[e].legs
      /\ \A n \in op.done : row[e].legs[n].status = "active"
      /\ ~Pays(e, {"release"})
  BY <1>1, ReclaimFacts
<1>3. /\ row[e] \in Row /\ row[e].released \in Nat /\ row[e].legs \in Seq(Leg)
      /\ Len(row[e].legs) \in Nat /\ DOMAIN row[e].legs = 1 .. Len(row[e].legs)
      /\ row[e].stalls \in Nat /\ row[e].nextDueAt \in Nat
      /\ \A n \in DOMAIN row[e].legs : row[e].legs[n] \in Leg
  BY <1>2, TypeFacts
<1>4. \A n \in DOMAIN row[e].legs :
        /\ legs[n] \in Leg /\ legs[n].cid = row[e].legs[n].cid
        /\ legs[n].status = IF n \in op.done THEN "withdrawn" ELSE row[e].legs[n].status
  BY <1>3 DEF Leg
<1>5. legs \in Seq(Leg) /\ DOMAIN legs = DOMAIN row[e].legs
  <2>1. legs \in [DOMAIN row[e].legs -> Leg]
    BY <1>4
  <2> QED BY <1>3, <2>1, SeqDef
<1> HIDE DEF legs
<1>6. released2 \in Nat /\ Cardinality(op.done) \in Nat
  BY <1>2, LegFacts, UnreleasedIs DEF Store
<1>7. CASE op.done = {}
  <2>1. row'[e] = row[e] /\ SaveRow(e, row[e])
    BY <1>1, <1>2, <1>7 DEF SaveRow, Typed
  <2>2. Store(e)'
    BY <1>1, <1>2, <2>1, SameStore
  <2>3. /\ cycleNo(e)' = cycleNo(e) /\ cycleNo(e) \in Nat
        /\ \A n \in ReleaseLegs(e)' : n \in ReleaseLegs(e) /\ legXfer(e, n)' = legXfer(e, n)
    BY <1>1, <1>2, <2>1, LegsKept, CountedNat DEF Store
  <2>4. cycleNo(e)' \in Nat /\ cycleNo(e) <= cycleNo(e)'
    BY <2>3
  <2> QED BY <1>1, <1>2, <1>3, <2>1, <2>2, <2>3, <2>4, RowStep
<1>8. CASE op.done # {}
  <2> HIDE DEF released2
  <2>1. /\ reopened \in Row /\ reopened.legs = legs /\ reopened.released = released2
        /\ reopened.nextDueAt = row[e].nextDueAt /\ reopened.status = "active"
    <3>1. released2 \in Int /\ row[e].stalls + Cardinality(op.done) \in Nat
      BY <1>3, <1>6
    <3> QED BY <1>3, <1>5, <3>1 DEF Row
  <2> HIDE DEF reopened
  <2>2. SaveRow(e, reopened) /\ row'[e] = reopened
    BY <1>1, <1>2, <1>8 DEF SaveRow, Typed
  <2>3. \A n \in DOMAIN row[e].legs :
          /\ reopened.legs[n].cid = row[e].legs[n].cid
          /\ Undone(row[e].legs[n]) => Undone(reopened.legs[n])
          /\ reopened.legs[n].status = "direct" => row[e].legs[n].status = "direct"
          /\ reopened.legs[n].status = "accepted" => row[e].legs[n].status = "accepted"
    BY <1>4, <2>1 DEF Undone
  <2>4. Undoes(e, op.done)
    <3>1. \A n \in op.done : n \in Kept(e)
      BY <1>2 DEF Kept, Outgoing, Undone, ReleaseLegs, LegsOf
    <3>2. \A n \in Kept(e) : n \in op.done <=> Undone(reopened.legs[n])
      BY <1>4, <2>1 DEF Kept, Undone
    <3> QED BY <2>2, <3>1, <3>2 DEF Undoes
  <2>5. reopened.released = Unreleased(row[e], e, op.done)
    BY <2>1 DEF released2
  <2>6. DOMAIN reopened.legs = DOMAIN row[e].legs
    BY <1>5, <2>1
  <2>7. /\ Store(e)' /\ cycleNo(e) \in Nat /\ cycleNo(e)' = cycleNo(e)
        /\ \A n \in ReleaseLegs(e)' : n \in ReleaseLegs(e) /\ legXfer(e, n)' = legXfer(e, n)
    BY <1>1, <1>2, <2>1, <2>2, <2>3, <2>4, <2>5, <2>6, RestatedStore
  <2>8. cycleNo(e)' \in Nat /\ cycleNo(e) <= cycleNo(e)' /\ reopened.released \in Nat
    BY <1>6, <2>1, <2>7
  <2> QED BY <1>1, <1>2, <2>1, <2>2, <2>7, <2>8, RowStep
<1> QED
  BY <1>7, <1>8

----------------------------------------------------------------------------
(* Every step *)

LEMMA InitInv ==
  Init => Inv
<1> SUFFICES ASSUME Init PROVE Inv
  OBVIOUS
<1>1. /\ now = 0 /\ op = Idle
      /\ \A e \in Escrows : xfer[e] = <<>> /\ record[e] = NoRecord /\ row[e] = NoRow
  BY DEF Init
<1>2. NoRow \in Row /\ NoRow.released = 0 /\ NoRow.status = "none" /\ NoRow.legs = <<>>
  <2>1. <<>> \in Seq(Leg)
    OBVIOUS
  <2> QED BY <2>1 DEF NoRow, Row
<1>3. Typed
  BY <1>1, <1>2, LaneAssumption DEF Init, Typed, NoRecord
<1>4. \A e \in Escrows : Transfers(e) = {}
  BY <1>1 DEF Transfers
<1>5. Dated /\ Interlocked
  BY <1>1, <1>4 DEF Dated, Interlocked
<1>6. ASSUME NEW e \in Escrows PROVE Store(e)
  <2>1. /\ row[e].legs = <<>> /\ ~Open(e) /\ row[e].status = "none" /\ Transfers(e) = {}
        /\ DOMAIN row[e].legs = {}
    BY <1>1, <1>2, <1>4 DEF Open
  <2>2. Kept(e) = {} /\ ReleaseLegs(e) = {}
    BY <2>1 DEF Kept, ReleaseLegs, LegsOf
  <2>3. counted(e) = 0 /\ Deposit[e] \in Nat
    BY <2>2, TotalOfNothing, LaneAssumption DEF counted
  <2> QED BY <2>1, <2>2, <2>3 DEF Store, LegsFit, StatusFits, WithinDeposit, DueLater, Paced
<1>7. ASSUME NEW e \in Escrows PROVE Course(e)
  <2>1. ~Busy(e) /\ \A K : ~Pays(e, K)
    BY <1>1 DEF Busy, Pays
  <2>2. record[e].released = 0
    BY <1>1 DEF NoRecord
  <2>3. released(e) = 0
    BY <1>4, TotalOfNothing DEF released, SumOf
  <2>4. ReleaseLegs(e) = {}
    BY <1>1, <1>2 DEF ReleaseLegs, LegsOf
  <2> QED BY <1>4, <2>1, <2>2, <2>3, <2>4 DEF Course, OpFits, RecordBehind, CyclesFit
<1> QED
  BY <1>3, <1>5, <1>6, <1>7 DEF Inv

LEMMA OnChainStep ==
  ASSUME Inv, OnChain
  PROVE  Inv'
<1>1. PICK e \in Escrows : \E i \in DOMAIN xfer[e] :
        AcceptOffer(e, i) \/ RejectOffer(e, i) \/ SweepOffer(e, i)
  BY DEF OnChain
<1>2. PICK i \in Transfers(e) : AcceptOffer(e, i) \/ RejectOffer(e, i) \/ SweepOffer(e, i)
  BY <1>1 DEF Transfers
<1>3. UNCHANGED <<now, record, row, op>> /\ xfer[e][i].fate = "open"
  BY <1>2 DEF AcceptOffer, RejectOffer, SweepOffer
<1>4. CASE SetFate(e, i, "accepted")
  BY <1>3, <1>4, ChainStep
<1>5. CASE SetFate(e, i, "reverted") /\ (~ReceiverRejects => xfer[e][i].deadline <= now)
  BY <1>3, <1>5, ChainStep
<1>6. now \in Nat /\ xfer[e][i].deadline \in Nat
  BY TypeFacts DEF Inv, Typed, Transfer
<1> QED
  BY <1>2, <1>4, <1>5, <1>6 DEF AcceptOffer, RejectOffer, SweepOffer

LEMMA BeginningStep ==
  ASSUME Inv, NEW e \in Escrows,
         BeginCreate(e) \/ BeginVerified(e) \/ BeginRelease(e) \/ BeginRefund(e)
  PROVE  Inv'
<1>1. UNCHANGED <<now, xfer, record, row>>
  BY DEF BeginCreate, BeginVerified, BeginRelease, BeginRefund
<1>2. CASE BeginCreate(e)
  BY <1>1, <1>2, BeginStep DEF BeginCreate
<1>3. CASE BeginVerified(e)
  <2>1. xfer[e] # <<>> => Transfers(e) # {}
    <3>1. xfer[e] \in Seq(Transfer)
      BY DEF Inv, Typed
    <3>2. xfer[e] # <<>> => Len(xfer[e]) # 0
      BY <3>1, EmptySeq
    <3>3. Len(xfer[e]) \in Nat /\ Transfers(e) = 1 .. Len(xfer[e])
      BY <3>1 DEF Transfers
    <3>4. Len(xfer[e]) # 0 => 1 \in 1 .. Len(xfer[e])
      BY <3>3
    <3> QED BY <3>2, <3>3, <3>4
  <2> QED BY <1>1, <1>3, <2>1, BeginStep DEF BeginVerified
<1>4. CASE BeginRelease(e)
  BY <1>1, <1>4, BeginStep DEF BeginRelease, Due
<1>5. CASE BeginRefund(e)
  BY <1>1, <1>5, BeginStep DEF BeginRefund
<1> QED
  BY <1>2, <1>3, <1>4, <1>5

LEMMA AmountFacts ==
  ASSUME Inv, NEW e \in Escrows
  PROVE  /\ cycleNo(e) \in Nat /\ remainingOf(row[e], e) \in Nat /\ amountDue(e) \in Nat
         /\ amountDue(e) <= remainingOf(row[e], e) /\ RefundAmount(e) = remainingOf(row[e], e)
         /\ Deliveries[e] \subseteq {"direct", "offer"}
<1>1. /\ cycleNo(e) \in Nat /\ remainingOf(row[e], e) \in Nat /\ Rate \in Nat
  BY CountedNat, TypeFacts, LaneAssumption DEF Inv, Store, remainingOf
<1>2. Deliveries[e] \subseteq {"direct", "offer"}
  BY LaneAssumption
<1> QED
  BY <1>1, <1>2 DEF amountDue, RefundAmount

LEMMA CommittingStep ==
  ASSUME Inv, NEW e \in Escrows, CommitRelease(e) \/ CommitRefund(e)
  PROVE  Inv'
<1>1. /\ cycleNo(e) \in Nat /\ remainingOf(row[e], e) \in Nat /\ amountDue(e) \in Nat
      /\ amountDue(e) <= remainingOf(row[e], e) /\ RefundAmount(e) = remainingOf(row[e], e)
      /\ Deliveries[e] \subseteq {"direct", "offer"}
  BY AmountFacts
<1>2. CASE CommitRelease(e)
  <2>1. PICK d \in {"direct", "offer"} : Commit("release", e, cycleNo(e), amountDue(e), d)
    BY <1>1, <1>2 DEF CommitRelease
  <2> QED BY <1>1, <1>2, <2>1, CommitStep DEF CommitRelease
<1>3. CASE CommitRefund(e)
  <2>1. PICK d \in {"direct", "offer"} : Commit("refund", e, 0, remainingOf(row[e], e), d)
    BY <1>1, <1>3 DEF CommitRefund
  <2> QED BY <1>1, <1>3, <2>1, CommitStep DEF CommitRefund
<1> QED
  BY <1>2, <1>3

LEMMA InvStep ==
  Inv /\ [Next]_vars => Inv'
<1> SUFFICES ASSUME Inv, [Next]_vars PROVE Inv'
  OBVIOUS
<1>1. CASE OnChain
  BY <1>1, OnChainStep
<1>2. CASE Tick
  BY <1>2, TickStep
<1>3. CASE GiveUp
  BY <1>3, GiveUpStep
<1>4. ASSUME NEW e \in Escrows, Create(e) PROVE Inv'
  BY <1>4, BeginningStep, CommitDepositStep, WalletDepositStep, RecordSteps, FinishCreateStep
     DEF Create
<1>5. ASSUME NEW e \in Escrows, Release(e) PROVE Inv'
  BY <1>5, BeginningStep, CloseOrWaitStep, CommittingStep, RecordSteps, FinishReleaseStep DEF Release
<1>6. ASSUME NEW e \in Escrows, Refund(e) PROVE Inv'
  BY <1>6, BeginningStep, CommittingStep, RecordSteps, FinishRefundStep DEF Refund
<1>7. ASSUME NEW e \in Escrows, reconcile(e) PROVE Inv'
  BY <1>7, ReconcileStep
<1>8. ASSUME NEW e \in Escrows, Reclaim(e) PROVE Inv'
  BY <1>8, BeginReclaimStep, WithdrawOfferStep, FinishReclaimStep DEF Reclaim
<1>9. CASE UNCHANGED vars
  <2>1. UNCHANGED <<now, xfer, record, row, op>>
    BY <1>9 DEF vars
  <2>2. \A e \in Escrows : Store(e)' /\ Course(e)'
    <3> TAKE e \in Escrows
    <3>1. Typed /\ Store(e) /\ Course(e) /\ now \in Nat /\ now <= now'
      BY <2>1 DEF Inv, Typed
    <3> QED BY <2>1, <3>1, SameStore, SameCourse
  <2>3. Typed' /\ Dated' /\ Interlocked'
    <3>1. poolFreeBalance' = poolFreeBalance
      BY <2>1 DEF poolFreeBalance, arrived, sentOut, SumOf
    <3> QED BY <2>1, <3>1, SameOwed DEF Inv, Typed, Dated, Interlocked, assertPoolSolvent, Transfers
  <2> QED BY <2>2, <2>3 DEF Inv
<1> QED
  BY <1>1, <1>2, <1>3, <1>4, <1>5, <1>6, <1>7, <1>8, <1>9 DEF Next

\* The inductive invariant holds in every state the lane reaches.
THEOREM LaneInvariant ==
  Spec => []Inv
BY InitInv, InvStep, PTL DEF Spec

----------------------------------------------------------------------------
(* What it gives *)

\* What left custody is what the legs of a faithful row count, and the last transfer.
LEMMA FaithfulBound ==
  ASSUME Inv, NEW e \in Escrows, Faithful(e)
  PROVE  sentOut(e) <= Deposit[e]
<1> DEFINE Out == { i \in Transfers(e) : LeftCustody(xfer[e][i]) }
           R == { i \in Out : Recorded(e, i) }
           f == [i \in Out |-> xfer[e][i].amount]
           g == [n \in Kept(e) |-> legXfer(e, n).amount]
           h == [i \in R |-> CHOOSE n \in DOMAIN row[e].legs : row[e].legs[n].cid = i]
<1>1. Typed /\ Store(e) /\ LegsFit(e) /\ WithinDeposit(e)
  BY DEF Inv, Store
<1>2. /\ Kept(e) \in SUBSET DOMAIN row[e].legs /\ counted(e) \in Nat /\ Deposit[e] \in Nat
      /\ counted(e) = Total(g) /\ counted(e) <= Deposit[e]
  BY <1>1, CountedNat, TypeFacts DEF counted, WithinDeposit
<1>3. Summable(g) /\ DOMAIN g = Kept(e)
  BY <1>1, <1>2, LegFacts
<1>4. Summable(f) /\ DOMAIN f = Out /\ sentOut(e) = Total(f)
  BY <1>1, SumFacts DEF sentOut, SumOf, Transfers
<1>5. R \in SUBSET DOMAIN f /\ DOMAIN Part(f, R) = R /\ Summable(Part(f, R)) /\ Total(Part(f, R)) \in Nat
  <2>1. R \in SUBSET DOMAIN f
    OBVIOUS
  <2> HIDE DEF f, R
  <2> QED BY <2>1, <1>4, PartFacts
<1>6. \A i \in R : /\ h[i] \in Kept(e) /\ row[e].legs[h[i]].cid = i
                   /\ Part(f, R)[i] <= g[h[i]]
  <2> TAKE i \in R
  <2>1. h[i] \in DOMAIN row[e].legs /\ row[e].legs[h[i]].cid = i
    BY DEF Recorded
  <2> HIDE DEF h
  <2>2. LeftCustody(xfer[e][i]) /\ xfer[e][i].amount \in Nat
    BY <1>1, TypeFacts DEF Transfer
  <2>3. h[i] \in Kept(e)
    BY <2>1, <2>2 DEF Kept, Outgoing, Faithful, LeftCustody
  <2>4. Part(f, R)[i] = xfer[e][i].amount /\ g[h[i]] = xfer[e][i].amount
    BY <2>1, <2>3 DEF Part, legXfer
  <2> QED BY <2>1, <2>2, <2>3, <2>4
<1>7. h \in [R -> Kept(e)]
  <2>1. h = [i \in R |-> h[i]]
    OBVIOUS
  <2> HIDE DEF h, R
  <2> QED BY <1>6, <2>1
<1>8. Total(Part(f, R)) <= counted(e)
  <2> HIDE DEF f, g, h, R
  <2>1. \A i, j \in R : h[i] = h[j] => i = j
    BY <1>6
  <2> QED BY <1>2, <1>3, <1>5, <1>6, <1>7, <2>1, TotalInjects
<1>9. CASE R = Out
  <2>1. Part(f, R) = f
    BY <1>9 DEF Part
  <2> HIDE DEF f, R
  <2> QED BY <1>2, <1>4, <1>5, <1>8, <2>1
<1>10. CASE R # Out
  <2>1. \A i \in Out : i = Len(xfer[e]) \/ i \in R
    BY DEF Faithful, Transfers
  <2>2. Len(xfer[e]) \in Out /\ Len(xfer[e]) \notin R /\ Out \ {Len(xfer[e])} = R
    BY <1>10, <2>1
  <2>3. last(e).amount + counted(e) <= Deposit[e] /\ last(e).amount \in Nat
        /\ f[Len(xfer[e])] = last(e).amount
    BY <1>1, <2>2, TypeFacts DEF WithinDeposit, last, Transfer
  <2> HIDE DEF f, R, Out
  <2>4. Total(f) = Total(Part(f, R)) + f[Len(xfer[e])]
    BY <1>4, <2>2, TotalWithout
  <2> QED BY <1>2, <1>4, <1>5, <1>8, <2>3, <2>4
<1> QED
  BY <1>9, <1>10

\* A release is asked for again only while the participant remembers the command id of
\* every transfer of the escrow that was made and never saved.
RetriesRefused ==
  \A e \in Escrows : \A i \in Transfers(e) :
    At("release", e, "begun") /\ xfer[e][i].kind = "release" /\ ~Recorded(e, i)
      => now < CommittedAt(xfer[e][i]) + DedupWindow

\* A fate changes nothing of what was transferred.
LEMMA FateKeepsCycles ==
  ASSUME Inv, OneTransferPerCycle, NEW e \in Escrows, NEW i \in Transfers(e),
         NEW fate \in {"accepted", "reverted"}, xfer[e][i].fate = "open", SetFate(e, i, fate)
  PROVE  OneTransferPerCycle'
<1>1. /\ \A f \in Escrows \ {e} : xfer'[f] = xfer[f]
      /\ Transfers(e)' = Transfers(e)
      /\ \A j \in Transfers(e) : /\ xfer'[e][j].kind = xfer[e][j].kind
                                 /\ xfer'[e][j].cycle = xfer[e][j].cycle
  BY FateFacts DEF Inv
<1> QED
  BY <1>1 DEF OneTransferPerCycle, Transfers

LEMMA AppendKeepsCycles ==
  ASSUME Inv, OneTransferPerCycle, NEW e \in Escrows, NEW t \in Transfer, Appends(e, t),
         \A i \in Transfers(e) :
           t.kind = "release" /\ xfer[e][i].kind = "release" => xfer[e][i].cycle # t.cycle
  PROVE  OneTransferPerCycle'
<1>1. /\ \A f \in Escrows \ {e} : xfer'[f] = xfer[f]
      /\ Transfers(e)' = Transfers(e) \cup {Len(xfer'[e])}
      /\ \A i \in Transfers(e) : xfer'[e][i] = xfer[e][i]
      /\ xfer'[e][Len(xfer'[e])] = t
  BY AppendFacts DEF Inv
<1>2. \A i, j \in Transfers(e)' :
        /\ xfer'[e][i].kind = "release" /\ xfer'[e][j].kind = "release"
        /\ xfer'[e][i].cycle = xfer'[e][j].cycle
        => i = j
  BY <1>1 DEF OneTransferPerCycle, Transfers
<1> QED
  BY <1>1, <1>2 DEF OneTransferPerCycle, Transfers

\* A release is transferred only if no release of its cycle was: one that is recorded
\* was of an earlier cycle, and for one that is not the participant refuses.
LEMMA ReleaseIsNew ==
  ASSUME Inv, RetriesRefused, NEW e \in Escrows, At("release", e, "begun"),
         ~Deduplicated(e, "release", cycleNo(e)),
         NEW i \in Transfers(e), xfer[e][i].kind = "release"
  PROVE  xfer[e][i].cycle # cycleNo(e)
<1>1. Typed /\ Store(e) /\ CyclesFit(e) /\ xfer[e][i] \in Transfer
  BY TypeFacts DEF Inv, Course
<1>2. CASE Recorded(e, i)
  <2>1. PICK n \in DOMAIN row[e].legs : row[e].legs[n].cid = i
    BY <1>2 DEF Recorded
  <2>2. n \in ReleaseLegs(e) /\ legXfer(e, n) = xfer[e][i]
    BY <2>1 DEF ReleaseLegs, LegsOf, legXfer
  <2>3. xfer[e][i].cycle < cycleNo(e) /\ cycleNo(e) \in Nat /\ xfer[e][i].cycle \in Nat
    BY <1>1, <2>2, CountedNat DEF CyclesFit, Store, Transfer
  <2> QED BY <2>3
<1>3. CASE ~Recorded(e, i)
  BY <1>3 DEF RetriesRefused, Deduplicated, CommittedAt, Transfers
<1> QED
  BY <1>2, <1>3

LEMMA CommitKeepsCycles ==
  ASSUME Inv, RetriesRefused, OneTransferPerCycle, NEW e \in Escrows,
         CommitDeposit(e) \/ CommitRelease(e) \/ CommitRefund(e)
  PROVE  OneTransferPerCycle'
<1>1. Typed /\ cycleNo(e) \in Nat /\ amountDue(e) \in Nat /\ RefundAmount(e) \in Nat
      /\ Deposit[e] \in Nat
  <2>1. Typed /\ Deposit[e] \in Nat /\ row[e].released \in Nat /\ cycleNo(e) \in Nat
    BY TypeFacts, CountedNat DEF Inv, Store
  <2> QED BY <2>1, LaneAssumption DEF amountDue, RefundAmount, remainingOf
<1>2. ASSUME NEW kind \in Kinds, NEW cycle \in Nat, NEW amount \in Nat, NEW d,
             Commit(kind, e, cycle, amount, d),
             kind = "release" => cycle = cycleNo(e) /\ At("release", e, "begun")
      PROVE  OneTransferPerCycle'
  <2> DEFINE t == NewTransfer(kind, cycle, amount, d)
  <2>1. t \in Transfer /\ t.kind = kind /\ t.cycle = cycle
    BY <1>1, NewTransferFacts
  <2>2. Appends(e, t) /\ ~Deduplicated(e, kind, cycle)
    BY <1>2 DEF Commit, Appends, NewTransfer
  <2> HIDE DEF t
  <2>3. \A i \in Transfers(e) :
          t.kind = "release" /\ xfer[e][i].kind = "release" => xfer[e][i].cycle # t.cycle
    BY <1>2, <2>1, <2>2, ReleaseIsNew
  <2> QED BY <2>1, <2>2, <2>3, AppendKeepsCycles
<1>3. CASE CommitDeposit(e)
  BY <1>1, <1>2, <1>3 DEF CommitDeposit, Kinds
<1>4. CASE CommitRelease(e)
  BY <1>1, <1>2, <1>4 DEF CommitRelease, Kinds
<1>5. CASE CommitRefund(e)
  BY <1>1, <1>2, <1>5 DEF CommitRefund, Kinds
<1> QED
  BY <1>3, <1>4, <1>5

LEMMA WalletKeepsCycles ==
  ASSUME Inv, OneTransferPerCycle, NEW e \in Escrows, WalletDeposit(e)
  PROVE  OneTransferPerCycle'
<1> DEFINE t == [ kind |-> "deposit", cycle |-> 0, amount |-> Deposit[e],
                  deadline |-> now + Window, fate |-> "delivered" ]
<1>1. xfer[e] = <<>> /\ xfer' = [xfer EXCEPT ![e] = <<t>>] /\ t.kind = "deposit"
  BY DEF WalletDeposit
<1>2. t \in Transfer
  BY LaneAssumption DEF Transfer, Kinds, Inv, Typed
<1> HIDE DEF t
<1>3. Append(xfer[e], t) = <<t>>
  BY <1>1
<1>4. Appends(e, t)
  BY <1>1, <1>3 DEF Appends
<1> QED
  BY <1>1, <1>2, <1>4, AppendKeepsCycles

LEMMA WithdrawalKeepsCycles ==
  ASSUME Inv, OneTransferPerCycle, NEW e \in Escrows, WithdrawOffer(e)
  PROVE  OneTransferPerCycle'
<1>1. CASE xfer' = xfer
  BY <1>1 DEF OneTransferPerCycle
<1>2. CASE xfer' # xfer
  <2>1. PICK n \in op.todo : /\ xfer[e][row[e].legs[n].cid].fate = "open"
                             /\ SetFate(e, row[e].legs[n].cid, "reverted")
    BY <1>2 DEF WithdrawOffer
  <2>2. op.kind = "reclaim" /\ op.escrow = e
    BY DEF WithdrawOffer
  <2>3. n \in DOMAIN row[e].legs /\ LegsFit(e)
    BY <2>2, ReclaimFacts DEF Store
  <2>4. row[e].legs[n].cid \in Transfers(e)
    BY <2>3 DEF LegsFit
  <2> QED BY <2>1, <2>4, FateKeepsCycles
<1> QED
  BY <1>1, <1>2

LEMMA CyclesStep ==
  ASSUME Inv, RetriesRefused, OneTransferPerCycle, [Next]_vars
  PROVE  OneTransferPerCycle'
<1>1. CASE xfer' = xfer
  BY <1>1 DEF OneTransferPerCycle
<1>2. CASE OnChain
  <2>0. PICK e \in Escrows : \E i \in Transfers(e) :
          AcceptOffer(e, i) \/ RejectOffer(e, i) \/ SweepOffer(e, i)
    BY <1>2 DEF OnChain, Transfers
  <2>1. PICK i \in Transfers(e) : AcceptOffer(e, i) \/ RejectOffer(e, i) \/ SweepOffer(e, i)
    BY <2>0
  <2>2. /\ xfer[e][i].fate = "open"
        /\ SetFate(e, i, "accepted") \/ SetFate(e, i, "reverted")
    BY <2>1 DEF AcceptOffer, RejectOffer, SweepOffer
  <2> QED BY <2>2, FateKeepsCycles
<1>3. CASE Tick \/ GiveUp \/ UNCHANGED vars
  BY <1>1, <1>3 DEF Tick, GiveUp, vars
<1>4. ASSUME NEW e \in Escrows, Create(e) PROVE OneTransferPerCycle'
  <2>1. CASE CommitDeposit(e)
    BY <2>1, CommitKeepsCycles
  <2>2. CASE WalletDeposit(e)
    BY <2>2, WalletKeepsCycles
  <2>3. CASE xfer' = xfer
    BY <1>1, <2>3
  <2> QED
    BY <1>4, <2>1, <2>2, <2>3 DEF Create, BeginCreate, BeginVerified, createOperatorEscrow,
       FinishCreate, Recording, Finish
<1>5. ASSUME NEW e \in Escrows, Release(e) PROVE OneTransferPerCycle'
  <2>1. CASE CommitRelease(e)
    BY <2>1, CommitKeepsCycles
  <2>2. CASE xfer' = xfer
    BY <1>1, <2>2
  <2> QED
    BY <1>5, <2>1, <2>2 DEF Release, BeginRelease, CloseOrWait, recordEscrowRelease,
       FinishRelease, Recording, Finish
<1>6. ASSUME NEW e \in Escrows, Refund(e) PROVE OneTransferPerCycle'
  <2>1. CASE CommitRefund(e)
    BY <2>1, CommitKeepsCycles
  <2>2. CASE xfer' = xfer
    BY <1>1, <2>2
  <2> QED
    BY <1>6, <2>1, <2>2 DEF Refund, BeginRefund, recordEscrowRefund, FinishRefund, Recording, Finish
<1>7. ASSUME NEW e \in Escrows, reconcile(e) PROVE OneTransferPerCycle'
  BY <1>1, <1>7 DEF reconcile
<1>8. ASSUME NEW e \in Escrows, Reclaim(e) PROVE OneTransferPerCycle'
  <2>1. CASE WithdrawOffer(e)
    BY <2>1, WithdrawalKeepsCycles
  <2>2. CASE xfer' = xfer
    BY <1>1, <2>2
  <2> QED
    BY <1>8, <2>1, <2>2 DEF Reclaim, BeginReclaim, FinishReclaim
<1> QED
  BY <1>2, <1>3, <1>4, <1>5, <1>6, <1>7, <1>8 DEF Next

\* PayoutsBounded (settleCycle, releaseEscrowOnce): the payee is paid once per cycle,
\* a cadence apart, and never beyond the deposit, in every behaviour in which a release
\* is asked for again only while the participant still remembers the ids of the transfers
\* that were made and never saved.  Whatever else may fail or die, at any length.
THEOREM PayoutsAreBounded ==
  Spec /\ []RetriesRefused => []PayoutsBounded
<1>1. Inv /\ OneTransferPerCycle => PayoutsBounded
  <2> SUFFICES ASSUME Inv, OneTransferPerCycle PROVE PayoutsBounded
    OBVIOUS
  <2>1. NoOverpayment
    BY FaithfulBound DEF NoOverpayment
  <2>2. CadenceRespected
    BY DEF Inv, Store, Paced, CadenceRespected, legXfer
  <2> QED BY <2>1, <2>2 DEF PayoutsBounded
<1>2. Init => OneTransferPerCycle
  BY DEF Init, OneTransferPerCycle
<1>3. Inv /\ RetriesRefused /\ OneTransferPerCycle /\ [Next]_vars => OneTransferPerCycle'
  BY CyclesStep
<1> QED
  BY LaneInvariant, <1>1, <1>2, <1>3, PTL DEF Spec

\* The same without a word about cycles, whatever dies and whenever it is retried.
THEOREM PayoutsKeepPace ==
  Spec => [](NoOverpayment /\ CadenceRespected)
<1>1. Inv => NoOverpayment /\ CadenceRespected
  <2> SUFFICES ASSUME Inv PROVE NoOverpayment /\ CadenceRespected
    OBVIOUS
  <2>1. NoOverpayment
    BY FaithfulBound DEF NoOverpayment
  <2>2. CadenceRespected
    BY DEF Inv, Store, Paced, CadenceRespected, legXfer
  <2> QED BY <2>1, <2>2
<1> QED
  BY LaneInvariant, <1>1, PTL

\* In an open row the legs that count are the release legs.
LEMMA KeptReleases ==
  ASSUME Typed, NEW e \in Escrows, Store(e), Open(e)
  PROVE  /\ Kept(e) = { m \in ReleaseLegs(e) : ~Undone(row[e].legs[m]) }
         /\ row[e].released = counted(e)
<1>1. \A n \in DOMAIN row[e].legs : legXfer(e, n).kind \in {"deposit", "release"}
  <2>1. \A n \in DOMAIN row[e].legs : legXfer(e, n) \in Transfer /\ legXfer(e, n).kind # "refund"
    BY LegFacts DEF Store, StatusFits
  <2> QED BY <2>1 DEF Transfer, Kinds
<1>2. Kept(e) = { m \in ReleaseLegs(e) : ~Undone(row[e].legs[m]) }
  BY <1>1 DEF Kept, Outgoing, ReleaseLegs, LegsOf, legXfer
<1> QED
  BY <1>2 DEF Store, WithinDeposit

LEMMA CompletedArrived ==
  ASSUME Inv, ~ReceiverRejects, NEW e \in Escrows, row[e].status = "completed"
  PROVE  paid(e) >= Deposit[e]
<1> DEFINE P == { i \in Transfers(e) : xfer[e][i].kind = "release" /\ Arrived(xfer[e][i]) }
           f == [n \in Kept(e) |-> legXfer(e, n).amount]
           g == [i \in P |-> xfer[e][i].amount]
           h == [n \in Kept(e) |-> row[e].legs[n].cid]
<1>1. Typed /\ Store(e) /\ Open(e) /\ LegsFit(e) /\ StatusFits(e)
  BY DEF Inv, Store, Open
<1>2. /\ Kept(e) = { m \in ReleaseLegs(e) : ~Undone(row[e].legs[m]) }
      /\ row[e].released = counted(e) /\ counted(e) \in Nat /\ Deposit[e] \in Nat
      /\ Kept(e) \in SUBSET DOMAIN row[e].legs
      /\ \A n \in DOMAIN row[e].legs : row[e].legs[n] \in Leg
  BY <1>1, KeptReleases, CountedNat, TypeFacts
<1>3. Deposit[e] <= counted(e) /\ ~hasPendingRelease(row[e], e)
  BY <1>1, <1>2 DEF StatusFits, remainingOf
<1>4. Summable(f) /\ DOMAIN f = Kept(e) /\ counted(e) = Total(f)
  BY <1>1, <1>2, LegFacts DEF counted
<1>5. Summable(g) /\ DOMAIN g = P /\ paid(e) = Total(g) /\ Total(g) \in Nat
  <2>1. paid(e) = SumOf(e, P) /\ P \in SUBSET Transfers(e)
    BY DEF paid, arrived, Transfers
  <2> QED BY <1>1, <2>1, SumFacts DEF SumOf
<1>6. \A n \in Kept(e) : h[n] \in P /\ f[n] <= g[h[n]]
  <2> TAKE n \in Kept(e)
  <2>1. /\ row[e].legs[n].status \in {"direct", "accepted"} /\ h[n] = row[e].legs[n].cid
        /\ h[n] \in Transfers(e) /\ Outgoing(e, row[e].legs[n])
        /\ xfer[e][h[n]].kind = "release"
    BY <1>1, <1>2, <1>3 DEF hasPendingRelease, ReleaseLegs, Undone, Leg, LegsFit, Outgoing, LegsOf
  <2>2. Arrived(legXfer(e, n))
    BY <1>1, <1>2, <2>1 DEF LegsFit
  <2>3. legXfer(e, n) = xfer[e][h[n]] /\ xfer[e][h[n]].amount \in Nat
    BY <1>1, <2>1, TypeFacts DEF legXfer, Transfer
  <2>4. f[n] = legXfer(e, n).amount
    OBVIOUS
  <2> HIDE DEF f, h
  <2>5. h[n] \in P
    BY <2>1, <2>2, <2>3
  <2>6. g[h[n]] = xfer[e][h[n]].amount
    BY <2>5
  <2> HIDE DEF g, P
  <2> QED BY <2>3, <2>4, <2>5, <2>6
<1>7. \A m, n \in Kept(e) : h[m] = h[n] => m = n
  BY <1>1, <1>2 DEF LegsFit
<1>8. h \in [Kept(e) -> P]
  <2>1. h = [n \in Kept(e) |-> h[n]]
    OBVIOUS
  <2> HIDE DEF h, P
  <2> QED BY <1>6, <2>1
<1>9. Total(f) <= Total(g)
  <2> HIDE DEF f, g, h, P
  <2> QED BY <1>4, <1>5, <1>6, <1>7, <1>8, TotalInjects
<1> QED
  BY <1>2, <1>3, <1>4, <1>5, <1>9

LEMMA BooksFit ==
  ASSUME Inv
  PROVE  TypeOK /\ ReleasedMatchesLegs /\ RecordNeverAhead
<1>1. TypeOK
  BY LaneAssumption DEF Inv, Typed, Store, LegsFit, TypeOK, Transfers
<1>2. ReleasedMatchesLegs
  <2> SUFFICES ASSUME NEW e \in Escrows, Open(e)
               PROVE  row[e].released =
                        Total([ n \in { m \in ReleaseLegs(e) : ~Undone(row[e].legs[m]) } |->
                                  xfer[e][row[e].legs[n].cid].amount ])
    BY DEF ReleasedMatchesLegs, Open
  <2>1. /\ Kept(e) = { m \in ReleaseLegs(e) : ~Undone(row[e].legs[m]) }
        /\ row[e].released = counted(e)
    BY KeptReleases DEF Inv
  <2> QED BY <2>1 DEF counted, legXfer
<1>3. RecordNeverAhead
  <2> SUFFICES ASSUME NEW e \in Escrows PROVE record[e].released <= released(e)
    BY DEF RecordNeverAhead, released, Transfers
  <2>1. Typed /\ Course(e) /\ released(e) \in Nat /\ record[e].released \in Nat
    BY TypeFacts, SumFacts DEF Inv, released
  <2>2. Pays(e, {"release"}) => last(e).amount \in Nat
    <3>1. Pays(e, {"release"}) => Transfers(e) # {}
      BY <2>1 DEF Course, OpFits, Pays
    <3>2. Transfers(e) # {} => last(e) \in Transfer
      BY <2>1, TypeFacts DEF last
    <3> QED BY <3>1, <3>2 DEF Transfer
  <2> QED BY <2>1, <2>2 DEF Course, RecordBehind
<1> QED
  BY <1>1, <1>2, <1>3

\* RowsMatchChain (reconcile, RecordRelease): rows and records say what the chain did,
\* and completed means delivered, unless receivers decline what they are offered.
THEOREM RowsAreTrue ==
  ASSUME ~ReceiverRejects
  PROVE  Spec => []RowsMatchChain
<1>1. Inv => RowsMatchChain
  BY BooksFit, CompletedArrived DEF RowsMatchChain, CompletedMeansDelivered
<1> QED
  BY LaneInvariant, <1>1, PTL

\* Whatever receivers do, the amounts in the rows and in the records are right.
THEOREM BooksAreKept ==
  Spec => [](TypeOK /\ ReleasedMatchesLegs /\ RecordNeverAhead)
BY LaneInvariant, BooksFit, PTL

----------------------------------------------------------------------------
(* The pool *)

\* A release or a refund leaves in custody what the others are owed.
LEMMA CommitCovers ==
  ASSUME Inv, NEW e \in Escrows, NEW kind \in {"release", "refund"}, At(kind, e, "begun"),
         NEW cycle \in Nat, NEW amount \in Nat, NEW d, Commit(kind, e, cycle, amount, d),
         amount <= remainingOf(row[e], e)
  PROVE  poolFreeBalance' >= Total([f \in ActiveRows \ {e} |-> remainingOf(row[f], f)])
<1> DEFINE t == NewTransfer(kind, cycle, amount, d)
           owed == [f \in ActiveRows |-> remainingOf(row[f], f)]
           sent == [f \in Escrows |-> sentOut(f)]
           in == [f \in Escrows |-> arrived(f, "deposit")]
           sent2 == [f \in Escrows |-> sentOut(f)']
<1>1. Typed /\ Course(e) /\ Interlocked
  BY DEF Inv
<1>2. /\ t \in Transfer /\ t.kind = kind /\ t.amount = amount /\ t.fate # "reverted"
  BY <1>1, NewTransferFacts DEF Kinds
<1>3. Appends(e, t)
  BY DEF Commit, Appends, NewTransfer
<1> HIDE DEF t
<1>4. op # Idle /\ op.escrow = e /\ op.kind = kind /\ op.stage = "begun"
  BY DEF At, Idle
<1>5. e \in ActiveRows
  BY <1>1, <1>4 DEF Course, OpFits, Busy, ActiveRows
<1>6. /\ Summable(in) /\ Summable(sent) /\ Summable(owed) /\ Total(owed) = owedByAsset
      /\ poolFreeBalance = Total(in) - Total(sent)
      /\ DOMAIN sent = Escrows /\ DOMAIN sent2 = Escrows /\ DOMAIN owed = ActiveRows
  BY <1>1, PoolFacts DEF owedByAsset, poolFreeBalance
<1>7. /\ arrived(e, "deposit")' = arrived(e, "deposit") /\ sentOut(e)' = sentOut(e) + amount
      /\ \A f \in Escrows \ {e} :
           arrived(f, "deposit")' = arrived(f, "deposit") /\ sentOut(f)' = sentOut(f)
  <2>1. \A f \in Escrows \ {e} : xfer'[f] = xfer[f]
    BY <1>1, <1>2, <1>3, AppendFacts
  <2> QED BY <1>1, <1>2, <1>3, <2>1, AppendMovesSums, SameArrived
<1>8. poolFreeBalance' = Total(in) - Total(sent2)
  <2>1. [f \in Escrows |-> arrived(f, "deposit")'] = in
    BY <1>7
  <2>2. poolFreeBalance' = Total([f \in Escrows |-> arrived(f, "deposit")']) - Total(sent2)
    BY DEF poolFreeBalance
  <2> HIDE DEF in, sent2
  <2> QED BY <2>1, <2>2
<1>9. /\ sent2[e] = sent[e] + amount /\ sent2[e] \in Nat /\ sent[e] \in Nat
      /\ \A f \in Escrows \ {e} : sent2[f] = sent[f]
  BY <1>1, <1>7, ArrivedFacts
<1>10. owed[e] = remainingOf(row[e], e) /\ owed[e] \in Nat
  BY <1>5, <1>6 DEF Summable
<1>11. Part(owed, ActiveRows \ {e}) = [f \in ActiveRows \ {e} |-> remainingOf(row[f], f)]
  BY DEF Part
<1> HIDE DEF sent, sent2, in, owed
<1>12. Total(sent2) = Total(sent) - sent[e] + sent2[e]
  BY <1>6, <1>9, TotalChanges
<1>13. /\ Total(owed) = Total(Part(owed, ActiveRows \ {e})) + owed[e]
       /\ Total(Part(owed, ActiveRows \ {e})) \in Nat
  BY <1>5, <1>6, TotalWithout
<1>14. Total(in) \in Nat /\ Total(sent) \in Nat /\ Total(owed) \in Nat
  BY <1>6, UnitsFinite
<1>15. poolFreeBalance >= owedByAsset
  BY <1>1, <1>4 DEF Interlocked, assertPoolSolvent
<1>16. poolFreeBalance' = poolFreeBalance - amount
  BY <1>6, <1>8, <1>9, <1>12, <1>14
<1> QED
  BY <1>6, <1>10, <1>11, <1>13, <1>14, <1>15, <1>16

\* No other step sends anything out.
LEMMA OnlyCommits ==
  ASSUME Inv, [Next]_vars, NEW e \in Escrows, Len(xfer'[e]) > Len(xfer[e]),
         xfer'[e][Len(xfer'[e])].kind # "deposit"
  PROVE  CommitRelease(e) \/ CommitRefund(e)
<1>1. Typed /\ Len(xfer[e]) \in Nat /\ xfer \in [Escrows -> Seq(Transfer)]
  BY TypeFacts DEF Inv, Typed
<1>2. xfer'[e] # xfer[e] /\ Len(xfer'[e]) # Len(xfer[e])
  BY <1>1
<1>3. ASSUME NEW f \in Escrows, NEW i \in Transfers(f), NEW fate \in {"accepted", "reverted"},
             xfer[f][i].fate = "open", SetFate(f, i, fate)
      PROVE  FALSE
  <2>1. Len(xfer'[f]) = Len(xfer[f]) /\ \A g \in Escrows \ {f} : xfer'[g] = xfer[g]
    BY <1>1, <1>3, FateFacts
  <2> QED BY <1>2, <2>1
<1>4. ASSUME NEW f \in Escrows, NEW kind \in Kinds, NEW cycle \in Nat, NEW amount \in Nat, NEW d,
             Commit(kind, f, cycle, amount, d)
      PROVE  f = e /\ kind # "deposit"
  <2> DEFINE t == NewTransfer(kind, cycle, amount, d)
  <2>1. t \in Transfer /\ t.kind = kind
    BY <1>1, NewTransferFacts
  <2>2. Appends(f, t)
    BY <1>4 DEF Commit, Appends, NewTransfer
  <2> HIDE DEF t
  <2>3. /\ \A g \in Escrows \ {f} : xfer'[g] = xfer[g]
        /\ xfer'[f][Len(xfer'[f])] = t
    BY <1>1, <2>1, <2>2, AppendFacts
  <2> QED BY <1>2, <2>1, <2>3
<1>5. CASE OnChain
  BY <1>3, <1>5 DEF OnChain, AcceptOffer, RejectOffer, SweepOffer, Transfers
<1>6. CASE Tick \/ GiveUp \/ UNCHANGED vars
  BY <1>2, <1>6 DEF Tick, GiveUp, vars
<1>7. ASSUME NEW f \in Escrows, Create(f) PROVE FALSE
  <2>1. CASE CommitDeposit(f)
    <3>1. Deposit[f] \in Nat
      BY LaneAssumption
    <3> QED BY <1>4, <2>1, <3>1 DEF CommitDeposit, Kinds
  <2>2. CASE WalletDeposit(f)
    <3>1. CASE f = e
      <4>1. xfer'[e] = <<[ kind |-> "deposit", cycle |-> 0, amount |-> Deposit[e],
                           deadline |-> now + Window, fate |-> "delivered" ]>>
        BY <1>1, <2>2, <3>1 DEF WalletDeposit
      <4>2. Len(xfer'[e]) = 1 /\ xfer'[e][1].kind = "deposit"
        BY <4>1
      <4> QED BY <4>2
    <3>2. CASE f # e
      BY <1>1, <1>2, <2>2, <3>2 DEF WalletDeposit
    <3> QED BY <3>1, <3>2
  <2>3. CASE BeginCreate(f) \/ BeginVerified(f) \/ createOperatorEscrow(f) \/ FinishCreate(f)
    BY <1>2, <2>3 DEF BeginCreate, BeginVerified, createOperatorEscrow, Recording, FinishCreate, Finish
  <2> QED BY <1>7, <2>1, <2>2, <2>3 DEF Create
<1>8. \A f \in Escrows : cycleNo(f) \in Nat /\ amountDue(f) \in Nat /\ RefundAmount(f) \in Nat
  BY AmountFacts
<1>9. ASSUME NEW f \in Escrows, Release(f) PROVE f = e /\ CommitRelease(e)
  <2>1. CASE CommitRelease(f)
    BY <1>4, <1>8, <2>1 DEF CommitRelease, Kinds
  <2>2. CASE BeginRelease(f) \/ CloseOrWait(f) \/ recordEscrowRelease(f) \/ FinishRelease(f)
    BY <1>2, <2>2 DEF BeginRelease, CloseOrWait, recordEscrowRelease, Recording, FinishRelease, Finish
  <2> QED BY <1>9, <2>1, <2>2 DEF Release
<1>10. ASSUME NEW f \in Escrows, Refund(f) PROVE f = e /\ CommitRefund(e)
  <2>1. CASE CommitRefund(f)
    BY <1>4, <1>8, <2>1 DEF CommitRefund, Kinds
  <2>2. CASE BeginRefund(f) \/ recordEscrowRefund(f) \/ FinishRefund(f)
    BY <1>2, <2>2 DEF BeginRefund, recordEscrowRefund, Recording, FinishRefund, Finish
  <2> QED BY <1>10, <2>1, <2>2 DEF Refund
<1>11. ASSUME NEW f \in Escrows, reconcile(f) PROVE FALSE
  BY <1>2, <1>11 DEF reconcile
<1>12. ASSUME NEW f \in Escrows, Reclaim(f) PROVE FALSE
  <2>1. CASE BeginReclaim(f) \/ FinishReclaim(f)
    BY <1>2, <2>1 DEF BeginReclaim, FinishReclaim
  <2>2. CASE WithdrawOffer(f)
    <3>1. op.kind = "reclaim" /\ op.escrow = f
      BY <2>2 DEF WithdrawOffer
    <3>2. /\ op.todo \cup op.done \in SUBSET ReleaseLegs(f)
          /\ ReleaseLegs(f) \in SUBSET DOMAIN row[f].legs /\ Store(f)
      BY <3>1, ReclaimFacts
    <3>3. \A n \in op.todo : row[f].legs[n].cid \in Transfers(f)
      BY <3>2 DEF Store, LegsFit
    <3> QED BY <1>2, <1>3, <2>2, <3>3 DEF WithdrawOffer
  <2> QED BY <1>12, <2>1, <2>2 DEF Reclaim
<1> QED
  BY <1>5, <1>6, <1>7, <1>9, <1>10, <1>11, <1>12 DEF Next

\* OthersCovered (assertPoolSolvent, settleCycle): no release and no refund leaves in
\* custody less than the other escrows are owed, even after a transfer that was never
\* recorded and while offers lapse.
THEOREM OthersStayCovered ==
  Spec => OthersCovered
<1> DEFINE Covered ==
      \A e \in Escrows :
        /\ Len(xfer'[e]) > Len(xfer[e])
        /\ xfer'[e][Len(xfer'[e])].kind # "deposit"
        => poolFreeBalance' >= Total([f \in ActiveRows \ {e} |-> remainingOf(row[f], f)])
<1>1. Inv /\ [Next]_vars => Covered
  <2> SUFFICES ASSUME Inv, [Next]_vars, NEW e \in Escrows, Len(xfer'[e]) > Len(xfer[e]),
                      xfer'[e][Len(xfer'[e])].kind # "deposit"
               PROVE  poolFreeBalance' >= Total([f \in ActiveRows \ {e} |-> remainingOf(row[f], f)])
    OBVIOUS
  <2>1. /\ cycleNo(e) \in Nat /\ remainingOf(row[e], e) \in Nat /\ amountDue(e) \in Nat
        /\ amountDue(e) <= remainingOf(row[e], e) /\ RefundAmount(e) = remainingOf(row[e], e)
    BY AmountFacts
  <2>2. CASE CommitRelease(e)
    BY <2>1, <2>2, CommitCovers DEF CommitRelease
  <2>3. CASE CommitRefund(e)
    <3>1. PICK d : Commit("refund", e, 0, remainingOf(row[e], e), d)
      BY <2>1, <2>3 DEF CommitRefund
    <3>2. At("refund", e, "begun") /\ remainingOf(row[e], e) <= remainingOf(row[e], e) /\ 0 \in Nat
      BY <2>1, <2>3 DEF CommitRefund
    <3>3. PICK left \in Nat : left = remainingOf(row[e], e)
      BY <2>1
    <3> QED BY <3>1, <3>2, <3>3, CommitCovers
  <2> QED BY <2>2, <2>3, OnlyCommits
<1>2. Inv /\ [Next]_vars => [Covered]_vars
  BY <1>1
<1> QED
  BY LaneInvariant, <1>2, PTL DEF Spec, OthersCovered
============================================================================
