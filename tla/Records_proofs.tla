--------------------------- MODULE Records_proofs ---------------------------
(***************************************************************************)
(* The contracts that record or authorize what settles elsewhere, and the  *)
(* checkpoint file of the event subscriber, each by itself: the contracts  *)
(* share nothing but ledger time.  One section per component, with its     *)
(* inductive invariant, a lemma per action that may disturb it, and the    *)
(* theorem.                                                                *)
(***************************************************************************)
EXTENDS AdminRecorder, StreamFlowAdmin, StreamMandate, MilestoneAdmin, UnifiedStream,
        DelegatedPolicy, Subscriber, ReceiverClaim, FunctionTheorems, SequenceTheorems,
        WellFoundedInduction, Arithmetic_proofs

----------------------------------------------------------------------------
(* StreamAdmin: an index recorded with Sync_Iteration never runs ahead of  *)
(* its vesting curve and holds the first iterations that settled, each     *)
(* once, for every set of streams and every schedule.  The choice checks   *)
(* the cap against the curve at the instant it runs; that the record is    *)
(* still within the curve later rests on the curve never falling, and that *)
(* an honest record is not refused, where the curve can be evaluated, rests *)
(* on the iterations themselves staying within the curve.                  *)

\* What an index is while it is not cancelled; a cancelled one is never touched.
Scheduled(s) ==
  admin[s].status # "Cancelled" =>
    /\ admin[s].totalWithdrawn \in 0 .. accrued(s, now)
    /\ admin[s].status = "Completed" <=> admin[s].totalWithdrawn = Terms[s].totalDeposited

Recorded(s) ==
  admin[s].status # "Cancelled" =>
    /\ admin[s].numIterations <= Len(settled[s])
    /\ admin[s].totalWithdrawn = Total(SubSeq(settled[s], 1, admin[s].numIterations))
    /\ admin[s].status = "Active" /\ admin[s].numIterations > 0 =>
         admin[s].currentAllocationCid = nextCid(s, admin[s].numIterations)

AdminInv ==
  /\ now \in Nat
  /\ settled \in [Streams -> Seq(Nat \ {0})]
  /\ admin \in [Streams -> Index]
  /\ \A s \in Streams : moved(s) <= accrued(s, now) /\ Scheduled(s) /\ Recorded(s)

LEMMA AccruedRange ==
  ASSUME NEW s \in Streams, NEW t \in Nat
  PROVE  accrued(s, t) \in 0 .. Terms[s].totalDeposited /\ accrued(s, t) \in Nat
<1>1. /\ Terms[s].vestingMode \in VestingMode /\ Terms[s].totalDeposited \in Nat
      /\ Terms[s].startTime \in Int /\ Terms[s].endTime \in Int /\ t \in Int
      /\ Terms[s].startTime < Terms[s].endTime
  BY StreamAdminAssumption
<1>2. accrued(s, t) \in 0 .. Terms[s].totalDeposited
  BY <1>1, AccrualRange DEF accrued
<1> QED BY <1>1, <1>2

LEMMA AccruedNeverFalls ==
  ASSUME NEW s \in Streams, NEW t \in Nat, NEW u \in Nat, t <= u
  PROVE  accrued(s, t) <= accrued(s, u)
<1>1. /\ Terms[s].vestingMode \in VestingMode /\ Terms[s].totalDeposited \in Nat
      /\ Terms[s].startTime \in Int /\ Terms[s].endTime \in Int /\ t \in Int /\ u \in Int
      /\ Terms[s].startTime < Terms[s].endTime
  BY StreamAdminAssumption
<1> QED BY <1>1, AccrualMonotone DEF accrued

\* The sum of a sequence of amounts and of its prefixes.
LEMMA SumOfAmounts ==
  ASSUME NEW q \in Seq(Nat \ {0})
  PROVE  Summable(q) /\ Total(q) \in Nat /\ DOMAIN q = 1 .. Len(q)
<1>1. DOMAIN q = 1 .. Len(q) /\ Len(q) \in Nat
  OBVIOUS
<1>2. \A i \in DOMAIN q : q[i] \in Nat
  BY <1>1, ElementOfSeq
<1>3. IsFiniteSet(DOMAIN q)
  BY <1>1, FS_Interval
<1> QED
  BY <1>1, <1>2, <1>3, UnitsFinite DEF Summable

LEMMA PrefixIs ==
  ASSUME NEW q \in Seq(Nat \ {0}), NEW k \in 0 .. Len(q)
  PROVE  /\ SubSeq(q, 1, k) \in Seq(Nat \ {0})
         /\ DOMAIN SubSeq(q, 1, k) = 1 .. k
         /\ \A i \in 1 .. k : SubSeq(q, 1, k)[i] = q[i]
         /\ SubSeq(q, 1, k) = [i \in 1 .. k |-> q[i]]
<1>1. SubSeq(q, 1, k) = [i \in 1 .. k |-> q[i]]
  OBVIOUS
<1>2. SubSeq(q, 1, k) \in Seq(Nat \ {0})
  BY SubSeqProperties
<1> QED
  BY <1>1, <1>2

LEMMA PrefixSums ==
  ASSUME NEW q \in Seq(Nat \ {0}), NEW k \in 0 .. Len(q)
  PROVE  /\ Total(SubSeq(q, 1, k)) \in Nat
         /\ Total(SubSeq(q, 1, k)) <= Total(q)
         /\ k < Len(q) => Total(SubSeq(q, 1, k + 1)) = Total(SubSeq(q, 1, k)) + q[k + 1]
<1> DEFINE p == SubSeq(q, 1, k)
<1>1. p \in Seq(Nat \ {0}) /\ DOMAIN p = 1 .. k /\ DOMAIN q = 1 .. Len(q) /\ Len(q) \in Nat
  BY PrefixIs
<1>2. \A i \in 1 .. k : p[i] = q[i]
  BY PrefixIs
<1>3. Summable(p) /\ Summable(q) /\ Total(p) \in Nat
  BY <1>1, SumOfAmounts
<1>4. p = [i \in DOMAIN p |-> p[i]]
  BY <1>1, PrefixIs
<1> HIDE DEF p
<1>5. Total(p) <= Total(q)
  <2>1. DOMAIN p \subseteq DOMAIN q /\ \A i \in DOMAIN p : p[i] <= q[i]
    BY <1>1, <1>2, <1>3 DEF Summable
  <2> QED BY <1>3, <2>1, TotalMonotone
<1>6. ASSUME k < Len(q) PROVE Total(SubSeq(q, 1, k + 1)) = Total(p) + q[k + 1]
  <2> DEFINE r == SubSeq(q, 1, k + 1)
  <2>1. k + 1 \in 0 .. Len(q) /\ k \in Nat
    BY <1>1, <1>6
  <2>2. DOMAIN r = 1 .. (k + 1) /\ \A i \in 1 .. (k + 1) : r[i] = q[i]
    BY <2>1, PrefixIs
  <2> HIDE DEF r
  <2>3. /\ DOMAIN r = DOMAIN p \cup {k + 1} /\ k + 1 \notin DOMAIN p
        /\ \A i \in DOMAIN p : r[i] = p[i]
    BY <1>1, <1>2, <2>1, <2>2
  <2>4. r[k + 1] = q[k + 1] /\ q[k + 1] \in Nat
    BY <1>1, <1>3, <1>6, <2>1, <2>2 DEF Summable
  <2>5. Total(r) = Total(p) + r[k + 1]
    BY <1>3, <1>4, <2>3, <2>4, TotalExtends
  <2> QED BY <2>4, <2>5 DEF r
<1> QED
  BY <1>3, <1>5, <1>6 DEF p

LEMMA AppendSums ==
  ASSUME NEW q \in Seq(Nat \ {0}), NEW a \in Nat \ {0}
  PROVE  /\ Append(q, a) \in Seq(Nat \ {0}) /\ Len(Append(q, a)) = Len(q) + 1
         /\ Total(Append(q, a)) = Total(q) + a
         /\ \A k \in 0 .. Len(q) : SubSeq(Append(q, a), 1, k) = SubSeq(q, 1, k)
<1> DEFINE r == Append(q, a)
           n == Len(q)
<1>1. r \in Seq(Nat \ {0}) /\ Len(r) = n + 1 /\ n \in Nat
  OBVIOUS
<1>2. (\A i \in 1 .. n : r[i] = q[i]) /\ r[n + 1] = a
  OBVIOUS
<1> HIDE DEF r
<1>3. Total(SubSeq(r, 1, n + 1)) = Total(SubSeq(r, 1, n)) + r[n + 1]
  <2>1. n \in 0 .. Len(r) /\ n < Len(r)
    BY <1>1
  <2> QED BY <1>1, <2>1, PrefixSums
<1>4. SubSeq(r, 1, n + 1) = r
  <2>1. SubSeq(r, 1, n + 1) = [i \in 1 .. (n + 1) |-> r[i]]
    BY <1>1, PrefixIs
  <2>2. r = [i \in 1 .. Len(r) |-> r[i]]
    BY <1>1
  <2> QED BY <1>1, <2>1, <2>2
<1>5. ASSUME NEW k \in 0 .. n PROVE SubSeq(r, 1, k) = SubSeq(q, 1, k)
  <2>1. SubSeq(r, 1, k) = [i \in 1 .. k |-> r[i]]
    BY <1>1, PrefixIs
  <2>2. SubSeq(q, 1, k) = [i \in 1 .. k |-> q[i]]
    BY PrefixIs
  <2>3. \A i \in 1 .. k : r[i] = q[i]
    BY <1>2
  <2> QED BY <2>1, <2>2, <2>3
<1>6. SubSeq(q, 1, n) = q
  <2>1. SubSeq(q, 1, n) = [i \in 1 .. n |-> q[i]]
    BY <1>1, PrefixIs
  <2>2. q = [i \in 1 .. Len(q) |-> q[i]]
    OBVIOUS
  <2> QED BY <2>1, <2>2
<1>7. Total(r) = Total(q) + a
  <2>1. SubSeq(r, 1, n) = q
    <3>1. n \in 0 .. n
      BY <1>1
    <3> QED BY <1>5, <1>6, <3>1
  <2> QED BY <1>2, <1>3, <1>4, <2>1
<1> QED
  BY <1>1, <1>5, <1>7 DEF r

LEMMA AdminInitInv ==
  ASSUME AdminInit PROVE AdminInv
<1>1. now = 0 /\ settled \in [Streams -> Seq(Nat \ {0})]
  BY DEF AdminInit
<1>2. admin \in [Streams -> Index]
  BY DEF AdminInit, mkStreamAdmin, Index, NoCid
<1>3. ASSUME NEW s \in Streams PROVE moved(s) <= accrued(s, now) /\ Scheduled(s) /\ Recorded(s)
  <2>1. admin[s] = mkStreamAdmin /\ settled[s] = <<>>
    BY DEF AdminInit
  <2>2. accrued(s, now) \in Nat /\ Terms[s].totalDeposited \in Nat \ {0}
    BY <1>1, AccruedRange, StreamAdminAssumption
  <2>3. Total(<<>>) = 0
    BY TotalOfNothing
  <2>4. SubSeq(<<>>, 1, 0) = <<>>
    OBVIOUS
  <2>5. Scheduled(s)
    BY <2>1, <2>2, SMT DEF mkStreamAdmin, Scheduled
  <2>6. Recorded(s)
    <3>1. admin[s].numIterations = 0 /\ admin[s].totalWithdrawn = 0
      BY <2>1 DEF mkStreamAdmin
    <3>2. Len(<<>>) = 0
      OBVIOUS
    <3>3. admin[s].numIterations <= Len(settled[s])
      BY <2>1, <3>1, <3>2
    <3>4. Total(SubSeq(settled[s], 1, admin[s].numIterations)) = 0
      BY <2>1, <2>3, <2>4, <3>1
    <3>5. ~(admin[s].numIterations > 0)
      BY <3>1
    <3> QED BY <3>1, <3>3, <3>4, <3>5 DEF Recorded
  <2> QED BY <2>1, <2>2, <2>3, <2>5, <2>6 DEF moved
<1> QED BY <1>1, <1>2, <1>3 DEF AdminInv

LEMMA TickKeepsInv ==
  ASSUME AdminInv, Tick, UNCHANGED <<admin, settled>>
  PROVE  AdminInv'
<1>1. now \in Nat /\ now' \in Nat /\ now <= now'
  BY SMT DEF Tick, AdminInv
<1>2. ASSUME NEW s \in Streams PROVE (moved(s) <= accrued(s, now) /\ Scheduled(s) /\ Recorded(s))'
  <2>1. /\ accrued(s, now) \in Nat /\ accrued(s, now') \in Nat
        /\ accrued(s, now) <= accrued(s, now')
    BY <1>1, AccruedRange, AccruedNeverFalls
  <2>2. moved(s) <= accrued(s, now) /\ Scheduled(s) /\ Recorded(s)
    BY DEF AdminInv
  <2>3. (accrued(s, now))' = accrued(s, now') /\ moved(s)' = moved(s)
    BY DEF accrued, moved
  <2>4. moved(s) \in Nat
    BY SumOfAmounts DEF AdminInv, moved
  <2>5. Recorded(s)'
    BY <2>2 DEF Recorded, nextCid
  <2>6. Scheduled(s)'
    BY <2>1, <2>2, <2>3, SMT DEF Scheduled
  <2>7. moved(s) <= accrued(s, now')
    BY <2>1, <2>2, <2>4
  <2> QED BY <2>3, <2>5, <2>6, <2>7
<1> QED BY <1>1, <1>2 DEF AdminInv

\* The step replaces one index; the others, the clock and the chain stay.
LEMMA OneIndexChanges ==
  ASSUME AdminInv, NEW s \in Streams, NEW a \in Index,
         now' = now, settled' = settled, admin' = [admin EXCEPT ![s] = a],
         a.status # "Cancelled" =>
           /\ a.totalWithdrawn \in 0 .. accrued(s, now)
           /\ a.status = "Completed" <=> a.totalWithdrawn = Terms[s].totalDeposited
           /\ a.numIterations <= Len(settled[s])
           /\ a.totalWithdrawn = Total(SubSeq(settled[s], 1, a.numIterations))
           /\ a.status = "Active" => a.currentAllocationCid = nextCid(s, a.numIterations)
  PROVE  AdminInv'
<1>1. admin' \in [Streams -> Index] /\ admin'[s] = a
  BY DEF AdminInv
<1>2. ASSUME NEW r \in Streams PROVE (moved(r) <= accrued(r, now) /\ Scheduled(r) /\ Recorded(r))'
  <2>1. (accrued(r, now))' = accrued(r, now) /\ moved(r)' = moved(r)
    BY DEF accrued, moved
  <2>2. CASE r = s
    BY <1>1, <2>1, <2>2 DEF Scheduled, Recorded, AdminInv, nextCid
  <2>3. CASE r # s
    <3>1. admin'[r] = admin[r]
      BY <2>3 DEF AdminInv
    <3> QED BY <2>1, <3>1 DEF AdminInv, Scheduled, Recorded, nextCid
  <2> QED BY <2>2, <2>3
<1> QED BY <1>1, <1>2 DEF AdminInv

\* The replay guard lets only the oldest unrecorded iteration through.
LEMMA SyncKeepsInv ==
  ASSUME AdminInv, NEW s \in Streams, buildSyncIteration(s)
  PROVE  AdminInv'
<1>1. PICK k \in DOMAIN settled[s] : Sync_Iteration(s, settled[s][k], k, nextCid(s, k))
  BY DEF buildSyncIteration
<1>2. now' = now /\ settled' = settled
  BY DEF buildSyncIteration
<1> DEFINE amount == settled[s][k]
           a == Synced(s, amount, nextCid(s, k))
           n == admin[s].numIterations
<1>3. /\ settled[s] \in Seq(Nat \ {0}) /\ amount \in Nat \ {0} /\ k \in 1 .. Len(settled[s])
      /\ Len(settled[s]) \in Nat
  <2>1. settled[s] \in Seq(Nat \ {0})
    BY DEF AdminInv
  <2>2. k \in 1 .. Len(settled[s]) /\ Len(settled[s]) \in Nat
    BY <2>1, <1>1
  <2> QED BY <2>1, <2>2, ElementOfSeq
<1>4. admin[s] \in Index /\ n \in Nat /\ admin[s].totalWithdrawn \in Nat
  BY DEF AdminInv, Index
<1>5. nextCid(s, k) \in Int
  BY <1>3 DEF nextCid, NoCid
<1> HIDE DEF amount
<1>6. /\ CanSync(s, amount, k) /\ admin' = [admin EXCEPT ![s] = a]
  BY <1>1 DEF Sync_Iteration, amount
<1>7. /\ a.totalWithdrawn = admin[s].totalWithdrawn + amount
      /\ a.numIterations = n + 1
      /\ a.status = IF a.totalWithdrawn = Terms[s].totalDeposited THEN "Completed" ELSE "Active"
      /\ a.currentAllocationCid = nextCid(s, k)
  BY DEF Synced
<1>8. a \in Index
  <2>1. admin[s].originalAllocationId \in Int
    BY <1>4 DEF Index
  <2>2. admin[s].totalWithdrawn + amount \in Nat /\ n + 1 \in Nat
    BY <1>3, <1>4
  <2> QED BY <1>5, <2>1, <2>2 DEF Synced, Index
<1>9. /\ admin[s].status = "Active" /\ k = n + 1
      /\ admin[s].totalWithdrawn + amount <= accrued(s, now)
  BY <1>3, <1>6 DEF CanSync
<1>10. /\ accrued(s, now) \in Nat
       /\ admin[s].totalWithdrawn = Total(SubSeq(settled[s], 1, n))
  BY <1>9, AccruedRange DEF AdminInv, Recorded
<1>11. Total(SubSeq(settled[s], 1, n + 1)) = admin[s].totalWithdrawn + amount
  <2>1. n \in 0 .. Len(settled[s]) /\ n < Len(settled[s]) /\ amount = settled[s][n + 1]
    BY <1>3, <1>4, <1>9 DEF amount
  <2> QED BY <1>3, <1>10, <2>1, PrefixSums
<1> HIDE DEF a, n
<1>12. a.totalWithdrawn \in 0 .. accrued(s, now)
  BY <1>3, <1>4, <1>7, <1>9, <1>10
<1>13. a.status = "Completed" <=> a.totalWithdrawn = Terms[s].totalDeposited
  BY <1>7
<1>14. a.numIterations <= Len(settled[s])
  BY <1>3, <1>7, <1>9
<1>15. a.totalWithdrawn = Total(SubSeq(settled[s], 1, a.numIterations))
  BY <1>7, <1>11
<1>16. a.currentAllocationCid = nextCid(s, a.numIterations)
  BY <1>7, <1>9
<1> QED BY <1>2, <1>6, <1>8, <1>12, <1>13, <1>14, <1>15, <1>16, OneIndexChanges

LEMMA MarkedIndex ==
  ASSUME NEW r \in Index, NEW x \in Nat, NEW c \in Int
  PROVE  LET a == [r EXCEPT !.totalWithdrawn = x, !.status = "Cancelled", !.currentAllocationCid = c]
         IN  a \in Index /\ a.status = "Cancelled"
BY DEF Index

LEMMA CancelKeepsInv ==
  ASSUME AdminInv, NEW s \in Streams, buildMarkCancelled(s)
  PROVE  AdminInv'
<1> DEFINE a == [ admin[s] EXCEPT !.totalWithdrawn = moved(s), !.status = "Cancelled",
                                  !.currentAllocationCid = NoCid ]
<1>1. admin[s] \in Index /\ DOMAIN admin = Streams
  BY DEF AdminInv
<1>2. /\ now' = now /\ settled' = settled
      /\ admin' = [ admin EXCEPT ![s].totalWithdrawn = moved(s), ![s].status = "Cancelled",
                                 ![s].currentAllocationCid = NoCid ]
  BY DEF buildMarkCancelled, Mark_Cancelled
<1>3. admin' = [admin EXCEPT ![s] = a]
  BY <1>1, <1>2
<1>4. moved(s) \in Nat /\ NoCid \in Int
  BY SumOfAmounts DEF AdminInv, moved, NoCid
<1>5. a \in Index /\ a.status = "Cancelled"
  BY <1>1, <1>4, MarkedIndex
<1> HIDE DEF a
<1> QED BY <1>2, <1>3, <1>5, OneIndexChanges

\* An index that holds its whole deposit is completed already, so the choice
\* never changes one.
LEMMA CompleteKeepsInv ==
  ASSUME AdminInv, NEW s \in Streams, buildMarkCompleted(s)
  PROVE  AdminInv'
<1>1. Scheduled(s)
  BY DEF AdminInv
<1>2. admin' = admin /\ now' = now /\ settled' = settled
  BY <1>1 DEF buildMarkCompleted, Mark_Completed, Scheduled
<1> QED BY <1>2 DEF AdminInv, Scheduled, Recorded, accrued, moved, nextCid

LEMMA SettleKeepsInv ==
  ASSUME AdminInv, NEW s \in Streams, Allocation_Settle(s)
  PROVE  AdminInv'
<1>1. PICK amount \in 1 .. (accrued(s, now) - moved(s)) :
        settled' = [settled EXCEPT ![s] = Append(@, amount)]
  BY DEF Allocation_Settle
<1>2. now' = now /\ admin' = admin
  BY DEF Allocation_Settle
<1> DEFINE q == settled[s]
<1>3. q \in Seq(Nat \ {0}) /\ moved(s) = Total(q) /\ moved(s) \in Nat /\ accrued(s, now) \in Nat
  BY SumOfAmounts, AccruedRange DEF AdminInv, moved
<1>4. amount \in Nat \ {0} /\ Total(q) + amount <= accrued(s, now)
  BY <1>1, <1>3
<1>5. settled'[s] = Append(q, amount) /\ \A r \in Streams \ {s} : settled'[r] = settled[r]
  BY <1>1 DEF AdminInv
<1>6. /\ Append(q, amount) \in Seq(Nat \ {0}) /\ Len(Append(q, amount)) = Len(q) + 1
      /\ Total(Append(q, amount)) = Total(q) + amount
      /\ \A k \in 0 .. Len(q) : SubSeq(Append(q, amount), 1, k) = SubSeq(q, 1, k)
  BY <1>3, <1>4, AppendSums
<1>7. settled' \in [Streams -> Seq(Nat \ {0})]
  BY <1>1, <1>6 DEF AdminInv
<1>8. ASSUME NEW r \in Streams PROVE (moved(r) <= accrued(r, now) /\ Scheduled(r) /\ Recorded(r))'
  <2>1. (accrued(r, now))' = accrued(r, now) /\ (Scheduled(r))'
    BY <1>2 DEF accrued, AdminInv, Scheduled
  <2>2. CASE r = s
    <3>1. moved(r)' <= accrued(r, now)
      BY <1>4, <1>5, <1>6, <2>2 DEF moved
    <3>2. Recorded(r)'
      <4> SUFFICES ASSUME admin[s].status # "Cancelled"
                   PROVE  /\ admin[s].numIterations <= Len(settled'[s])
                          /\ admin[s].totalWithdrawn = Total(SubSeq(settled'[s], 1, admin[s].numIterations))
                          /\ admin[s].status = "Active" /\ admin[s].numIterations > 0 =>
                               admin[s].currentAllocationCid = nextCid(s, admin[s].numIterations)'
        BY <1>2, <2>2 DEF Recorded
      <4>1. /\ admin[s].numIterations \in 0 .. Len(q) /\ Len(q) \in Nat
            /\ admin[s].totalWithdrawn = Total(SubSeq(q, 1, admin[s].numIterations))
            /\ admin[s].status = "Active" /\ admin[s].numIterations > 0 =>
                 admin[s].currentAllocationCid = nextCid(s, admin[s].numIterations)
        BY <1>3 DEF AdminInv, Recorded, Index
      <4> DEFINE n == admin[s].numIterations
      <4>2. SubSeq(settled'[s], 1, n) = SubSeq(q, 1, n)
        BY <1>5, <1>6, <4>1
      <4>3. n <= Len(settled'[s])
        <5> HIDE DEF q, n
        <5>1. n \in Nat /\ n <= Len(q)
          BY <4>1 DEF n
        <5>2. Len(settled'[s]) = Len(q) + 1
          BY <1>5, <1>6
        <5> QED BY <4>1, <5>1, <5>2
      <4>4. nextCid(s, n)' = nextCid(s, n)
        BY <1>2, <4>2 DEF nextCid
      <4> QED BY <4>1, <4>2, <4>3, <4>4
    <3> QED BY <2>1, <3>1, <3>2
  <2>3. CASE r # s
    <3>1. settled'[r] = settled[r]
      BY <1>5, <2>3
    <3> QED BY <1>2, <2>1, <3>1 DEF AdminInv, Recorded, moved, nextCid
  <2> QED BY <2>2, <2>3
<1> QED BY <1>2, <1>7, <1>8 DEF AdminInv

LEMMA AdminStepInv ==
  ASSUME AdminInv, [AdminNext]_adminVars PROVE AdminInv'
<1>1. CASE Tick /\ UNCHANGED <<admin, settled>>
  BY <1>1, TickKeepsInv
<1>2. ASSUME NEW s \in Streams,
             Allocation_Settle(s) \/ buildSyncIteration(s)
               \/ buildMarkCancelled(s) \/ buildMarkCompleted(s)
      PROVE  AdminInv'
  BY <1>2, SettleKeepsInv, SyncKeepsInv, CancelKeepsInv, CompleteKeepsInv
<1>3. CASE UNCHANGED adminVars
  BY <1>3 DEF adminVars, AdminInv, Scheduled, Recorded, accrued, moved, nextCid
<1> QED BY <1>1, <1>2, <1>3 DEF AdminNext

LEMMA AdminInvIsEnough ==
  ASSUME AdminInv PROVE AdminSound
<1>1. AdminTypeOK
  <2>1. Nat \ {0} \subseteq Nat
    OBVIOUS
  <2>2. Seq(Nat \ {0}) \subseteq Seq(Nat)
    BY <2>1, SeqMonotonic
  <2> QED BY <2>2 DEF AdminInv, AdminTypeOK
<1>2. AdminOnSchedule
  <2>1. ASSUME NEW s \in Streams PROVE accrued(s, now) \in Nat /\ Scheduled(s)
    BY AccruedRange DEF AdminInv
  <2> QED BY <2>1, SMT DEF AdminOnSchedule, Scheduled
<1>3. AdminRecordsAPrefix
  BY DEF AdminInv, Recorded, AdminRecordsAPrefix
<1>4. ASSUME NEW s \in Streams, admin[s].status = "Active",
             admin[s].numIterations < Len(settled[s]), Priced(s)
      PROVE  CanSync(s, settled[s][admin[s].numIterations + 1], admin[s].numIterations + 1)
  <2> DEFINE q == settled[s]
             n == admin[s].numIterations
             amount == q[n + 1]
  <2>1. q \in Seq(Nat \ {0}) /\ n \in Nat /\ n < Len(q) /\ Len(q) \in Nat
    BY <1>4 DEF AdminInv, Index
  <2>2. n + 1 \in 1 .. Len(q) /\ n \in 0 .. Len(q) /\ n + 1 \in 0 .. Len(q)
    BY <2>1
  <2>3. amount \in Nat \ {0}
    BY <2>1, <2>2, ElementOfSeq
  <2>4. admin[s].totalWithdrawn = Total(SubSeq(q, 1, n))
    BY <1>4 DEF AdminInv, Recorded
  <2> HIDE DEF n
  <2>5. Total(SubSeq(q, 1, n + 1)) = admin[s].totalWithdrawn + amount
    BY <2>1, <2>2, <2>4, PrefixSums
  <2>6. Total(SubSeq(q, 1, n + 1)) <= Total(q) /\ Total(SubSeq(q, 1, n + 1)) \in Nat
    BY <2>1, <2>2, PrefixSums
  <2>7. Total(q) \in Nat /\ Total(q) <= accrued(s, now)
    BY <2>1, SumOfAmounts DEF AdminInv, moved
  <2>8. accrued(s, now) \in Nat /\ accrued(s, now) <= Terms[s].totalDeposited
    BY AccruedRange DEF AdminInv
  <2>9. Terms[s].totalDeposited \in Nat
    BY StreamAdminAssumption
  <2>10. /\ admin[s].totalWithdrawn + amount <= accrued(s, now)
         /\ admin[s].totalWithdrawn + amount <= Terms[s].totalDeposited
    BY <2>5, <2>6, <2>7, <2>8, <2>9
  <2>11. CanSync(s, amount, n + 1)
    <3> HIDE DEF amount
    <3> QED BY <1>4, <2>3, <2>10 DEF CanSync, n
  <2> QED BY <2>11 DEF n
<1>5. AdminHonestNeverRefused
  BY <1>4 DEF AdminHonestNeverRefused
<1>6. AdminNamesAllocation
  BY DEF AdminInv, Recorded, AdminNamesAllocation
<1> QED BY <1>1, <1>2, <1>3, <1>5, <1>6 DEF AdminSound

\* Whatever a recorder replays and whenever, an index is on schedule and holds the
\* first iterations that settled; it names the allocation they left, and the next one
\* can be recorded whenever the curve does not overflow (Stream/StreamAdmin.daml, sdk/src/commands/stream-admin.ts).
THEOREM AdminIsSound == AdminSpec => []AdminSound
<1>1. AdminInit => AdminInv
  BY AdminInitInv
<1>2. AdminInv /\ [AdminNext]_adminVars => AdminInv'
  BY AdminStepInv
<1>3. AdminInv => AdminSound
  BY AdminInvIsEnough
<1> QED BY <1>1, <1>2, <1>3, PTL DEF AdminSpec

----------------------------------------------------------------------------
(* StreamFlowAdmin: concurrent routes lose no record.  A route submits the *)
(* contract it read; that no route overwrites another's record rests on    *)
(* every choice archiving the contract, so that a version names one        *)
(* payload.  That no earned amount is refused rests on the time the flow   *)
(* ran never passing the time since it started.                            *)

\* What a route has in hand is an earlier contract or the active one.
ReadEarlier(r) ==
  /\ r.at <= now
  /\ r.f.version <= flow.version
  /\ r.f.version = flow.version => r.f = flow

FlowInv ==
  /\ now \in Nat
  /\ FlowTypeOK
  /\ \A h \in Handlers : flowRequest[h] # IdleRequest => ReadEarlier(flowRequest[h])
  /\ FlowKeepsEveryRecord
  /\ FlowWithinRate
  /\ flowing <= elapsed

LEMMA FlowInitInv ==
  ASSUME FlowInit PROVE FlowInv
<1>1. elapsed \in Nat
  BY FlowAdminAssumption, SMT DEF FlowInit, elapsed
<1>2. FlowRate * elapsed \in Nat
  BY <1>1, FlowAdminAssumption, SMT
<1>3. FlowTypeOK
  BY FlowAdminAssumption, SMT DEF FlowInit, FlowTypeOK, createFlowAdmin, Payload, IdleRequest
<1>4. FlowKeepsEveryRecord /\ FlowWithinRate
  BY <1>2, FlowAdminAssumption, SMT
  DEF FlowInit, FlowKeepsEveryRecord, FlowWithinRate, createFlowAdmin
<1> QED
  BY <1>1, <1>3, <1>4, SMT DEF FlowInit, FlowInv

\* Time only widens what may be recorded.
LEMMA PassKeepsFlowInv ==
  ASSUME FlowInv, Pass PROVE FlowInv'
<1>1. now \in Nat /\ now' = now + 1 /\ flowing \in Nat /\ flowing <= elapsed
  BY DEF FlowInv, FlowTypeOK, Pass, Tick
<1> DEFINE before == IF now >= FlowStart THEN now - FlowStart ELSE 0
           after == IF now' >= FlowStart THEN now' - FlowStart ELSE 0
<1>a. elapsed = before /\ elapsed' = after
  BY DEF elapsed
<1>2. before \in Nat /\ after \in Nat /\ before <= after
  BY <1>1, FlowAdminAssumption, SMT
<1>3. flowing' \in Nat /\ flowing' <= after
  BY <1>1, <1>a, FlowAdminAssumption, SMT DEF Pass
<1> HIDE DEF before, after
<1>4. FlowRate * before <= FlowRate * after
  BY <1>2, FlowAdminAssumption, ProductMonotone
<1>5. FlowRate * before \in Nat /\ FlowRate * after \in Nat
  BY <1>2, FlowAdminAssumption, SMT
<1>6. UNCHANGED <<flow, flowRequest, recorded>>
  BY DEF Pass
<1>7. FlowTypeOK'
  BY <1>3, <1>6 DEF FlowInv, FlowTypeOK
<1>8. FlowKeepsEveryRecord'
  BY <1>6 DEF FlowInv, FlowKeepsEveryRecord
<1>9. FlowWithinRate'
  <2>1. flow.totalWithdrawn \in Nat
    BY DEF FlowInv, FlowTypeOK, Payload
  <2>2. flow.totalWithdrawn <= flow.currentFundedAmount /\ flow.totalWithdrawn <= FlowRate * elapsed
    BY DEF FlowInv, FlowWithinRate
  <2> QED BY <1>a, <1>4, <1>5, <1>6, <2>1, <2>2, SMT DEF FlowWithinRate
<1>10. ASSUME NEW h \in Handlers, flowRequest'[h] # IdleRequest
       PROVE  ReadEarlier(flowRequest[h])'
  <2>1. ReadEarlier(flowRequest[h]) /\ flowRequest[h].at \in Nat
    BY <1>6, <1>10 DEF FlowInv, FlowTypeOK
  <2> QED BY <1>1, <1>6, <2>1, SMT DEF ReadEarlier
<1> QED BY <1>1, <1>a, <1>3, <1>7, <1>8, <1>9, <1>10 DEF FlowInv

\* A route that reads has the active contract in hand.
LEMMA ReadKeepsFlowInv ==
  ASSUME FlowInv, NEW h \in Handlers, Read(h) PROVE FlowInv'
<1>1. PICK choice \in RouteChoices, amount \in Amounts :
        flowRequest' = [flowRequest EXCEPT ![h] =
          [choice |-> choice, amount |-> amount, at |-> now, f |-> flow]]
  BY DEF Read
<1>2. UNCHANGED <<now, flow, flowing, recorded>>
  BY DEF Read
<1>3. FlowTypeOK'
  BY <1>1, <1>2 DEF FlowInv, FlowTypeOK
<1>4. ASSUME NEW g \in Handlers, flowRequest'[g] # IdleRequest
      PROVE  ReadEarlier(flowRequest[g])'
  <2>1. CASE g = h
    <3>1. flowRequest'[g] = [choice |-> choice, amount |-> amount, at |-> now, f |-> flow]
      BY <1>1, <2>1 DEF FlowInv, FlowTypeOK
    <3> QED BY <1>2, <3>1, SMT DEF FlowInv, FlowTypeOK, Payload, ReadEarlier
  <2>2. CASE g # h
    <3>1. flowRequest'[g] = flowRequest[g]
      BY <1>1, <2>2 DEF FlowInv, FlowTypeOK
    <3> QED BY <1>2, <1>4, <3>1 DEF FlowInv, ReadEarlier
  <2> QED BY <2>1, <2>2
<1> QED
  BY <1>2, <1>3, <1>4 DEF FlowInv, FlowKeepsEveryRecord, FlowWithinRate, elapsed

LEMMA RefusedKeepsFlowInv ==
  ASSUME FlowInv, NEW h \in Handlers, Refused(h) PROVE FlowInv'
<1>1. /\ UNCHANGED <<now, flow, flowing, recorded>>
      /\ flowRequest' = [flowRequest EXCEPT ![h] = IdleRequest]
  BY DEF Refused
<1>2. FlowTypeOK'
  BY <1>1 DEF FlowInv, FlowTypeOK
<1>3. ASSUME NEW g \in Handlers, flowRequest'[g] # IdleRequest
      PROVE  ReadEarlier(flowRequest[g])'
  <2>1. g # h /\ flowRequest'[g] = flowRequest[g]
    BY <1>1, <1>3 DEF FlowInv, FlowTypeOK
  <2> QED BY <1>1, <1>3, <2>1 DEF FlowInv, ReadEarlier
<1> QED
  BY <1>1, <1>2, <1>3 DEF FlowInv, FlowKeepsEveryRecord, FlowWithinRate, elapsed

\* A choice that succeeds ran on the active contract, whatever was read before.
LEMMA ExercisedOnTheActive ==
  ASSUME FlowInv, NEW h \in Handlers, Submit(h)
  PROVE  /\ Exercised(flowRequest[h])
         /\ flowRequest[h].f = flow
         /\ flowRequest[h].amount \in Nat
<1>1. flowRequest[h] # IdleRequest /\ IsActive(flowRequest[h].f) /\ Exercised(flowRequest[h])
  BY DEF Submit
<1>2. flowRequest[h].f = flow
  BY <1>1 DEF FlowInv, ReadEarlier, IsActive
<1>3. flowRequest[h].amount \in Amounts
  BY <1>1 DEF FlowInv, FlowTypeOK
<1> QED BY <1>1, <1>2, <1>3, FlowAdminAssumption

LEMMA ExercisedKeepsRecords ==
  ASSUME FlowInv, NEW h \in Handlers, Submit(h)
  PROVE  /\ flow' \in Payload /\ flow'.version = flow.version + 1
         /\ recorded' \in [withdrawn : Nat, funded : Nat]
         /\ FlowKeepsEveryRecord'
         /\ flow'.totalWithdrawn <= flow'.currentFundedAmount
         /\ flow'.totalWithdrawn <= FlowRate * elapsed
<1> DEFINE r == flowRequest[h]
           cap == FlowRate * elapsed
           Kept(tw, funded) ==
             /\ flow' \in Payload /\ flow'.version = flow.version + 1
             /\ flow'.totalWithdrawn = tw /\ flow'.currentFundedAmount = funded
             /\ recorded' \in [withdrawn : Nat, funded : Nat]
             /\ recorded'.withdrawn = tw /\ recorded'.funded = funded
             /\ tw \in Nat /\ funded \in Nat /\ tw <= funded /\ tw <= cap
<1>1. Exercised(r) /\ r.f = flow /\ r.amount \in Nat
  BY ExercisedOnTheActive
<1>2. /\ flow \in Payload /\ recorded \in [withdrawn : Nat, funded : Nat]
      /\ flow.totalWithdrawn = recorded.withdrawn /\ flow.currentFundedAmount = recorded.funded
      /\ flow.totalWithdrawn <= flow.currentFundedAmount
      /\ flow.totalWithdrawn <= cap
  BY DEF FlowInv, FlowTypeOK, FlowKeepsEveryRecord, FlowWithinRate
<1>3. cap \in Nat
  <2>1. elapsed \in Nat
    BY FlowAdminAssumption, SMT DEF FlowInv, elapsed
  <2> QED BY <2>1, FlowAdminAssumption, SMT
<1> HIDE DEF r, cap
<1>4. CASE /\ Sync_Iteration_Flow(r.f, r.amount)
           /\ recorded' = [recorded EXCEPT !.withdrawn = @ + r.amount]
  <2>1. /\ flow.totalWithdrawn + r.amount <= flow.currentFundedAmount
        /\ flow.totalWithdrawn + r.amount <= cap
        /\ flow' = [ flow EXCEPT !.totalWithdrawn = flow.totalWithdrawn + r.amount,
                                 !.numIterations = flow.numIterations + 1,
                                 !.version = flow.version + 1 ]
    BY <1>1, <1>2, <1>4 DEF Sync_Iteration_Flow, CanSyncFlow, Recreated, Payload, cap
  <2>2. Kept(flow.totalWithdrawn + r.amount, flow.currentFundedAmount)
    <3>1. flow.totalWithdrawn + r.amount \in Nat /\ flow.currentFundedAmount \in Nat
      BY <1>1, <1>2, SMT DEF Payload
    <3>2. flow.totalWithdrawn + r.amount <= flow.currentFundedAmount /\ flow.totalWithdrawn + r.amount <= cap
      BY <1>1, <1>2, <1>3, <2>1, SMT DEF Payload
    <3>3. /\ flow' \in Payload /\ flow'.version = flow.version + 1
          /\ flow'.totalWithdrawn = flow.totalWithdrawn + r.amount
          /\ flow'.currentFundedAmount = flow.currentFundedAmount
      <4>1. flow.version + 1 \in Nat /\ flow.numIterations + 1 \in Nat
        BY <1>2, SMT DEF Payload
      <4> QED BY <1>2, <2>1, <3>1, <4>1, Zenon DEF Payload
    <3>4. /\ recorded' \in [withdrawn : Nat, funded : Nat]
          /\ recorded'.withdrawn = flow.totalWithdrawn + r.amount
          /\ recorded'.funded = flow.currentFundedAmount
      BY <1>2, <1>4, <3>1, SMT
    <3> QED BY <3>1, <3>2, <3>3, <3>4
  <2> QED BY <2>2 DEF FlowKeepsEveryRecord, cap
<1>5. CASE /\ TopUp_Flow_Admin(r.f, r.amount)
           /\ recorded' = [recorded EXCEPT !.funded = @ + r.amount]
  <2>1. flow' = [ flow EXCEPT !.currentFundedAmount = flow.currentFundedAmount + r.amount,
                              !.version = flow.version + 1 ]
    BY <1>1, <1>2, <1>5 DEF TopUp_Flow_Admin, Recreated, Payload
  <2>2. Kept(flow.totalWithdrawn, flow.currentFundedAmount + r.amount)
    <3>1. flow.totalWithdrawn \in Nat /\ flow.currentFundedAmount + r.amount \in Nat
      BY <1>1, <1>2, SMT DEF Payload
    <3>2. flow.totalWithdrawn <= flow.currentFundedAmount + r.amount /\ flow.totalWithdrawn <= cap
      BY <1>1, <1>2, <1>3, <2>1, SMT DEF Payload
    <3>3. /\ flow' \in Payload /\ flow'.version = flow.version + 1
          /\ flow'.totalWithdrawn = flow.totalWithdrawn
          /\ flow'.currentFundedAmount = flow.currentFundedAmount + r.amount
      <4>1. flow.version + 1 \in Nat /\ flow.numIterations + 1 \in Nat
        BY <1>2, SMT DEF Payload
      <4> QED BY <1>2, <2>1, <3>1, <4>1, Zenon DEF Payload
    <3>4. /\ recorded' \in [withdrawn : Nat, funded : Nat]
          /\ recorded'.withdrawn = flow.totalWithdrawn
          /\ recorded'.funded = flow.currentFundedAmount + r.amount
      BY <1>2, <1>5, <3>1, SMT
    <3> QED BY <3>1, <3>2, <3>3, <3>4
  <2> QED BY <2>2 DEF FlowKeepsEveryRecord, cap
<1>6. CASE /\ UNCHANGED recorded
           /\ \/ Pause_Flow_Admin(r.f) \/ Resume_Flow_Admin(r.f)
              \/ Mark_Cancelled_Flow_Admin(r.f, r.f.totalWithdrawn, r.at)
  <2>1. PICK p \in BOOLEAN, s \in {"Active", "Cancelled"} :
          flow' = [flow EXCEPT !.paused = p, !.status = s, !.version = flow.version + 1]
    <3>0. /\ flow \in Payload /\ r.f = flow
          /\ flow.paused \in BOOLEAN /\ flow.status \in {"Active", "Cancelled"}
      BY <1>1, <1>2 DEF Payload
    <3>1. CASE Pause_Flow_Admin(r.f)
      <4>1. flow' = [[flow EXCEPT !.paused = TRUE] EXCEPT !.version = @ + 1]
        BY <3>0, <3>1 DEF Pause_Flow_Admin, Recreated
      <4>2. flow' = [flow EXCEPT !.paused = TRUE, !.status = flow.status, !.version = flow.version + 1]
        BY <3>0, <4>1 DEF Payload
      <4> QED BY <3>0, <4>2
    <3>2. CASE Resume_Flow_Admin(r.f)
      <4>1. flow' = [[flow EXCEPT !.paused = FALSE] EXCEPT !.version = @ + 1]
        BY <3>0, <3>2 DEF Resume_Flow_Admin, Recreated
      <4>2. flow' = [flow EXCEPT !.paused = FALSE, !.status = flow.status, !.version = flow.version + 1]
        BY <3>0, <4>1 DEF Payload
      <4> QED BY <3>0, <4>2
    <3>3. CASE Mark_Cancelled_Flow_Admin(r.f, r.f.totalWithdrawn, r.at)
      <4>1. flow' = [ [flow EXCEPT !.totalWithdrawn = flow.totalWithdrawn, !.status = "Cancelled"]
                        EXCEPT !.version = @ + 1 ]
        BY <3>0, <3>3 DEF Mark_Cancelled_Flow_Admin, Recreated
      <4>2. flow' = [ flow EXCEPT !.paused = flow.paused, !.status = "Cancelled",
                                  !.version = flow.version + 1 ]
        BY <3>0, <4>1 DEF Payload
      <4> QED BY <3>0, <4>2
    <3> QED BY <1>6, <3>1, <3>2, <3>3
  <2>2. Kept(flow.totalWithdrawn, flow.currentFundedAmount)
    <3>1. flow.totalWithdrawn \in Nat /\ flow.currentFundedAmount \in Nat
      BY <1>1, <1>2, SMT DEF Payload
    <3>2. flow.totalWithdrawn <= flow.currentFundedAmount /\ flow.totalWithdrawn <= cap
      BY <1>1, <1>2, <1>3, <2>1, SMT DEF Payload
    <3>3. /\ flow' \in Payload /\ flow'.version = flow.version + 1
          /\ flow'.totalWithdrawn = flow.totalWithdrawn
          /\ flow'.currentFundedAmount = flow.currentFundedAmount
      <4>1. flow.version + 1 \in Nat /\ flow.numIterations + 1 \in Nat
        BY <1>2, SMT DEF Payload
      <4> QED BY <1>2, <2>1, <3>1, <4>1, Zenon DEF Payload
    <3>4. /\ recorded' \in [withdrawn : Nat, funded : Nat]
          /\ recorded'.withdrawn = flow.totalWithdrawn
          /\ recorded'.funded = flow.currentFundedAmount
      BY <1>2, <1>6, <3>1, SMT
    <3> QED BY <3>1, <3>2, <3>3, <3>4
  <2> QED BY <2>2 DEF FlowKeepsEveryRecord, cap
<1> QED BY <1>1, <1>4, <1>5, <1>6 DEF Exercised

LEMMA SubmitKeepsFlowInv ==
  ASSUME FlowInv, NEW h \in Handlers, Submit(h) PROVE FlowInv'
<1>1. /\ flow' \in Payload /\ flow'.version = flow.version + 1
      /\ recorded' \in [withdrawn : Nat, funded : Nat]
      /\ FlowKeepsEveryRecord'
      /\ flow'.totalWithdrawn <= flow'.currentFundedAmount
      /\ flow'.totalWithdrawn <= FlowRate * elapsed
  BY ExercisedKeepsRecords
<1>2. UNCHANGED <<now, flowing>> /\ flowRequest' = [flowRequest EXCEPT ![h] = IdleRequest]
  BY DEF Submit
<1>3. FlowTypeOK'
  BY <1>1, <1>2 DEF FlowInv, FlowTypeOK
<1>4. FlowWithinRate' /\ elapsed' = elapsed
  BY <1>1, <1>2 DEF FlowWithinRate, elapsed
\* What the other routes have in hand is archived now.
<1>5. ASSUME NEW g \in Handlers, flowRequest'[g] # IdleRequest
      PROVE  ReadEarlier(flowRequest[g])'
  <2>1. g # h /\ flowRequest'[g] = flowRequest[g]
    BY <1>2, <1>5 DEF FlowInv, FlowTypeOK
  <2>2. /\ ReadEarlier(flowRequest[g]) /\ flowRequest[g].f \in Payload /\ flow \in Payload
    BY <1>5, <2>1 DEF FlowInv, FlowTypeOK
  <2> QED BY <1>1, <1>2, <2>1, <2>2, SMT DEF ReadEarlier, Payload
<1> QED BY <1>1, <1>2, <1>3, <1>4, <1>5 DEF FlowInv

LEMMA FlowStepKeepsInv ==
  ASSUME FlowInv, [FlowNext]_flowVars PROVE FlowInv'
<1>1. CASE Pass
  BY <1>1, PassKeepsFlowInv
<1>2. ASSUME NEW h \in Handlers, Read(h) \/ Submit(h) \/ Refused(h) PROVE FlowInv'
  BY <1>2, ReadKeepsFlowInv, SubmitKeepsFlowInv, RefusedKeepsFlowInv
<1>3. CASE UNCHANGED flowVars
  BY <1>3 DEF flowVars, FlowInv, FlowTypeOK, ReadEarlier, FlowKeepsEveryRecord,
              FlowWithinRate, elapsed
<1> QED BY <1>1, <1>2, <1>3 DEF FlowNext

LEMMA FlowInvIsEnough ==
  ASSUME FlowInv PROVE FlowSound
<1> DEFINE earned == FlowRate * flowing
<1>1. elapsed \in Nat /\ flowing \in Nat /\ flowing <= elapsed /\ flow.totalWithdrawn \in Nat
  BY FlowAdminAssumption, SMT DEF FlowInv, FlowTypeOK, Payload, elapsed
<1>2. earned <= FlowRate * elapsed
  BY <1>1, FlowAdminAssumption, ProductMonotone
<1>3. earned \in Int
  BY <1>1, FlowAdminAssumption, SMT
<1> HIDE DEF earned
<1>4. flow.totalWithdrawn + (earned - flow.totalWithdrawn) = earned
  BY <1>1, <1>3, SMT
<1>5. FlowHonestNeverRefused
  BY <1>2, <1>4, SMT DEF FlowHonestNeverRefused, CanSyncFlow, earned
<1> QED BY <1>5 DEF FlowInv, FlowSound

\* Whatever routes run at the same time, read whatever they will and are refused or
\* lost: the index keeps every accepted record, stays within funding and rate, and
\* refuses nothing the receiver earned while the flow ran.
THEOREM FlowIsSound == FlowAdminSpec => []FlowSound
<1>1. FlowInit => FlowInv
  BY FlowInitInv
<1>2. FlowInv /\ [FlowNext]_flowVars => FlowInv'
  BY FlowStepKeepsInv
<1>3. FlowInv => FlowSound
  BY FlowInvIsEnough
<1> QED BY <1>1, <1>2, <1>3, PTL DEF FlowAdminSpec

----------------------------------------------------------------------------
(* StreamMandate: what a payer can lose to a mandate, for every rate, cadence, *)
(* cap and term.  The contract does not keep when its pulls were made, so the *)
(* bound on their sum rests on one on their number: between the start and the *)
(* last pull there was a full cadence before each pull but the first.      *)

\* Each pull takes at most a cycle's rate, and pulls are a cadence apart.
PullsAreSpaced ==
  /\ mandate.totalPulled <= RatePerCycle * mandate.cyclesPulled
  /\ mandate.lastPulledAt = Never => mandate.cyclesPulled = 0
  /\ mandate.lastPulledAt # Never =>
       /\ mandate.cyclesPulled >= 1
       /\ MandateStart <= mandate.lastPulledAt /\ mandate.lastPulledAt <= now
       /\ CadenceSeconds * (mandate.cyclesPulled - 1) <= mandate.lastPulledAt - MandateStart

MandateInv ==
  /\ now \in Nat
  /\ MandateTypeOK
  /\ MaxTotal # 0 => mandate.totalPulled <= MaxTotal
  /\ PullsAreSpaced
  /\ MandateRevokedForGood
  /\ revokedAt # Never => revokedAt <= now

LEMMA MandateInitInv ==
  ASSUME MandateInit PROVE MandateInv
BY MandateAssumption, SMT
DEF MandateInit, MandateInv, MandateTypeOK, PullsAreSpaced, MandateRevokedForGood, Never

LEMMA PullKeepsInv ==
  ASSUME MandateInv, NEW amount \in 1 .. RatePerCycle, RecordPull(amount)
  PROVE  MandateInv'
<1>1. /\ now' = now /\ now \in Nat /\ amount \in Nat \ {0} /\ amount <= RatePerCycle
      /\ RatePerCycle \in Nat \ {0} /\ CadenceSeconds \in Nat \ {0}
      /\ MaxTotal \in Nat /\ MandateStart \in Nat
      /\ revokedAt' = revokedAt
      /\ mandate.active /\ MandateStart <= now
  BY MandateAssumption, SMT DEF RecordPull, MandateInv
<1>2. /\ mandate \in [ totalPulled : Nat, cyclesPulled : Nat,
                 lastPulledAt : Nat \cup {Never}, active : BOOLEAN ]
      /\ mandate' = [ mandate EXCEPT !.totalPulled = @ + amount, !.cyclesPulled = @ + 1,
                         !.lastPulledAt = now ]
  BY DEF RecordPull, MandateInv, MandateTypeOK
<1>3. /\ mandate'.totalPulled = mandate.totalPulled + amount /\ mandate'.cyclesPulled = mandate.cyclesPulled + 1
      /\ mandate'.lastPulledAt = now /\ mandate'.active = mandate.active
  BY <1>2
<1>3a. mandate.totalPulled \in Nat /\ mandate.cyclesPulled \in Nat /\ now # Never
  BY <1>1, <1>2, SMT DEF Never
<1>4. MandateTypeOK'
  <2>1. mandate.totalPulled + amount \in Nat /\ mandate.cyclesPulled + 1 \in Nat
    BY <1>1, <1>3a, SMT
  <2>2. mandate' \in [ totalPulled : Nat, cyclesPulled : Nat,
                       lastPulledAt : Nat \cup {Never}, active : BOOLEAN ]
    BY <1>1, <1>2, <2>1
  <2>3. revokedAt \in Nat \cup {Never}
    BY DEF MandateInv, MandateTypeOK
  <2> QED BY <1>1, <2>2, <2>3 DEF MandateTypeOK
<1>5. (MaxTotal # 0 => mandate.totalPulled <= MaxTotal)'
  BY <1>3, <1>3a, SMT DEF RecordPull, WithinCap
<1>6. PullsAreSpaced'
  <2>1. RatePerCycle * (mandate.cyclesPulled + 1) = RatePerCycle * mandate.cyclesPulled + RatePerCycle
    BY <1>1, <1>3, <1>3a, SMT
  <2>2. mandate.totalPulled <= RatePerCycle * mandate.cyclesPulled
    BY DEF MandateInv, PullsAreSpaced
  <2>3. RatePerCycle * mandate.cyclesPulled \in Int
    BY <1>1, <1>3, <1>3a, SMT
  <2>4. mandate'.totalPulled <= RatePerCycle * mandate'.cyclesPulled
    BY <1>1, <1>3, <1>3a, <2>1, <2>2, <2>3, SMT
  <2>5. CadenceSeconds * (mandate'.cyclesPulled - 1) <= now - MandateStart
    <3>1. CASE mandate.lastPulledAt = Never
      <4>1. mandate.cyclesPulled = 0
        BY <3>1 DEF MandateInv, PullsAreSpaced
      <4> QED BY <1>1, <1>3, <1>3a, <4>1, SMT
    <3>2. CASE mandate.lastPulledAt # Never
      <4>1. /\ mandate.lastPulledAt + CadenceSeconds <= now
            /\ mandate.lastPulledAt \in Nat
            /\ CadenceSeconds * (mandate.cyclesPulled - 1) <= mandate.lastPulledAt - MandateStart
        BY <1>1, <1>2, <3>2, SMT
        DEF RecordPull, CadenceElapsed, MandateInv, PullsAreSpaced
      <4>2. CadenceSeconds * (mandate.cyclesPulled + 1 - 1)
              = CadenceSeconds * (mandate.cyclesPulled - 1) + CadenceSeconds
        BY <1>1, <1>3, <1>3a, SMT
      <4>3. CadenceSeconds * (mandate.cyclesPulled - 1) \in Int
        BY <1>1, <1>3, <1>3a, SMT
      <4> QED BY <1>1, <1>3, <1>3a, <4>1, <4>2, <4>3, SMT
    <3> QED BY <3>1, <3>2
  <2> QED BY <1>1, <1>3, <1>3a, <2>4, <2>5, SMT DEF PullsAreSpaced
<1>7. revokedAt = Never
  BY <1>1 DEF MandateInv, MandateRevokedForGood
<1> QED BY <1>1, <1>4, <1>5, <1>6, <1>7 DEF MandateInv, MandateRevokedForGood

LEMMA RevokeKeepsInv ==
  ASSUME MandateInv, Revoke PROVE MandateInv'
<1>1. /\ mandate' = [mandate EXCEPT !.active = FALSE] /\ now' = now
      /\ mandate \in [ totalPulled : Nat, cyclesPulled : Nat,
                       lastPulledAt : Nat \cup {Never}, active : BOOLEAN ]
  BY DEF Revoke, MandateInv, MandateTypeOK
<1>2. /\ mandate'.totalPulled = mandate.totalPulled
      /\ mandate'.cyclesPulled = mandate.cyclesPulled
      /\ mandate'.lastPulledAt = mandate.lastPulledAt
      /\ mandate'.active = FALSE
      /\ mandate.lastPulledAt \in Nat \cup {Never}
  BY <1>1
<1>3. MandateTypeOK'
  <2>1. mandate' \in [ totalPulled : Nat, cyclesPulled : Nat,
                       lastPulledAt : Nat \cup {Never}, active : BOOLEAN ]
    BY <1>1
  <2>2. revokedAt' \in Nat \cup {Never}
    BY DEF Revoke, MandateInv, MandateTypeOK
  <2> QED BY <2>1, <2>2 DEF MandateTypeOK
<1>4. mandate.lastPulledAt <= now
  BY <1>2, SMT DEF MandateInv, PullsAreSpaced, Never
<1>5. MandateRevokedForGood' /\ (revokedAt # Never => revokedAt <= now)'
  BY <1>1, <1>2, <1>4, SMT DEF Revoke, MandateInv, MandateRevokedForGood, Never
<1> QED BY <1>1, <1>2, <1>3, <1>5 DEF MandateInv, PullsAreSpaced

LEMMA MandateStepInv ==
  ASSUME MandateInv, [MandateNext]_mandateVars PROVE MandateInv'
<1>1. CASE Tick /\ UNCHANGED <<mandate, revokedAt>>
  BY <1>1, MandateAssumption, SMT
  DEF Tick, MandateInv, MandateTypeOK, PullsAreSpaced, MandateRevokedForGood, Never
<1>2. CASE \E amount \in 1 .. RatePerCycle : RecordPull(amount)
  BY <1>2, PullKeepsInv
<1>3. CASE Revoke
  BY <1>3, RevokeKeepsInv
<1>4. CASE UNCHANGED mandateVars
  BY <1>4 DEF mandateVars, MandateInv, MandateTypeOK, PullsAreSpaced, MandateRevokedForGood
<1> QED BY <1>1, <1>2, <1>3, <1>4 DEF MandateNext

\* A number of whole cadences that fits in an interval is at most its quotient.
LEMMA CadencesFit ==
  ASSUME NEW n \in Nat, NEW d \in Nat \ {0}, NEW k \in Int, d * k <= n
  PROVE  k <= n \div d
<1> DEFINE q == n \div d
<1>1. q \in Nat /\ n % d \in 0 .. (d - 1) /\ n = d * q + (n % d)
  BY DivMod
<1> HIDE DEF q
<1> SUFFICES ASSUME q + 1 <= k PROVE FALSE
  BY <1>1, SMT DEF q
<1>2. d * (q + 1) <= d * k
  BY <1>1, ProductMonotone
<1>3. d * (q + 1) = d * q + d
  BY <1>1, SMT
<1> QED BY <1>1, <1>2, <1>3, SMT

LEMMA InvBounds ==
  ASSUME MandateInv PROVE MandateSafe
<1>1. /\ now \in Nat /\ MandateStart \in Nat
      /\ RatePerCycle \in Nat \ {0} /\ CadenceSeconds \in Nat \ {0}
      /\ mandate.totalPulled \in Nat /\ mandate.cyclesPulled \in Nat
      /\ mandate.lastPulledAt \in Nat \cup {Never}
      /\ mandate.totalPulled <= RatePerCycle * mandate.cyclesPulled
  BY MandateAssumption DEF MandateInv, MandateTypeOK, PullsAreSpaced
<1>2. ASSUME MandateStart <= now
      PROVE  mandate.totalPulled <= RatePerCycle * ((now - MandateStart) \div CadenceSeconds + 1)
  <2> DEFINE q == (now - MandateStart) \div CadenceSeconds
  <2>0. now - MandateStart \in Nat
    BY <1>1, <1>2, SMT
  <2>1. q \in Nat
    BY <1>1, <2>0, DivMod
  <2>2. mandate.cyclesPulled <= q + 1
    <3>1. CASE mandate.lastPulledAt = Never
      BY <1>1, <2>1, <3>1, SMT DEF MandateInv, PullsAreSpaced
    <3>2. CASE mandate.lastPulledAt # Never
      <4>1. /\ mandate.lastPulledAt \in Nat /\ mandate.lastPulledAt <= now
            /\ CadenceSeconds * (mandate.cyclesPulled - 1) <= mandate.lastPulledAt - MandateStart
        BY <1>1, <3>2, SMT DEF MandateInv, PullsAreSpaced
      <4>2. CadenceSeconds * (mandate.cyclesPulled - 1) \in Int
            /\ mandate.cyclesPulled - 1 \in Int
        BY <1>1, SMT
      <4>3. CadenceSeconds * (mandate.cyclesPulled - 1) <= now - MandateStart
        BY <1>1, <4>1, <4>2, SMT
      <4>4. mandate.cyclesPulled - 1 <= q
        BY <1>1, <2>0, <4>2, <4>3, CadencesFit
      <4> HIDE DEF q
      <4> QED BY <1>1, <2>1, <4>4, SMT
    <3> QED BY <3>1, <3>2
  <2> HIDE DEF q
  <2>3. RatePerCycle * mandate.cyclesPulled <= RatePerCycle * (q + 1)
    BY <1>1, <2>1, <2>2, ProductMonotone, SMT
  <2>4. RatePerCycle * mandate.cyclesPulled \in Int /\ RatePerCycle * (q + 1) \in Int
    BY <1>1, <2>1, SMT
  <2>5. mandate.totalPulled <= RatePerCycle * (q + 1)
    BY <1>1, <2>3, <2>4, SMT
  <2> QED BY <2>5 DEF q
<1>3. ASSUME now < MandateStart PROVE mandate.totalPulled = 0
  <2>1. mandate.cyclesPulled = 0
    BY <1>1, <1>3, SMT DEF MandateInv, PullsAreSpaced
  <2> QED BY <1>1, <2>1, SMT
<1>4. MandateBounded
  BY <1>1, <1>2, <1>3, SMT DEF MandateInv, MandateBounded
<1> QED BY <1>4 DEF MandateInv, MandateSafe

\* RecordPull and Revoke, in any order and for ever: the payer never loses more
\* than a rate per elapsed cadence and one, nor more than the cap, and nothing
\* once the mandate is revoked.
THEOREM MandateIsSafe == MandateSpec => []MandateSafe
<1>1. MandateInit => MandateInv
  BY MandateInitInv
<1>2. MandateInv /\ [MandateNext]_mandateVars => MandateInv'
  BY MandateStepInv
<1>3. MandateInv => MandateSafe
  BY InvBounds
<1> QED BY <1>1, <1>2, <1>3, PTL DEF MandateSpec

----------------------------------------------------------------------------
(* MilestoneAdmin: every milestone is released once, for any names, amounts *)
(* and batches.  What is recorded stays the worth of what is confirmed     *)
(* because a batch must match exactly what it lists and nothing confirmed. *)
(* That a settled leg can always be confirmed rests on milestones of one   *)
(* name being confirmed together.                                          *)

NamesTogether ==
  \A m \in milestones.confirmed : named({MilestoneName[m]}) \subseteq milestones.confirmed

MilestoneInv ==
  /\ MilestoneTypeOK
  /\ milestones.totalReleased = sumOf(milestones.confirmed)
  /\ milestones.status = "Completed" <=> milestones.confirmed = Milestones
  /\ NamesTogether

LEMMA WorthOf ==
  ASSUME NEW ms \in SUBSET Milestones
  PROVE  /\ Summable([m \in ms |-> Worth[m]])
         /\ sumOf(ms) \in Nat
<1>1. Summable([m \in ms |-> Worth[m]])
  BY MilestoneAssumption, FS_Subset DEF Summable
<1> QED
  BY <1>1, UnitsFinite DEF sumOf

\* What two batches without a common milestone are worth together.
LEMMA WorthAdds ==
  ASSUME NEW ms \in SUBSET Milestones, NEW ns \in SUBSET Milestones, ms \cap ns = {}
  PROVE  sumOf(ms \cup ns) = sumOf(ms) + sumOf(ns)
<1> DEFINE both == [m \in ms \cup ns |-> Worth[m]]
<1>1. Summable(both) /\ DOMAIN both = ms \cup ns
  BY WorthOf
<1>2. Part(both, ms) = [m \in ms |-> Worth[m]]
  BY DEF Part
<1>3. Part(both, DOMAIN both \ ms) = [m \in ns |-> Worth[m]]
  <2>1. (ms \cup ns) \ ms = ns
    OBVIOUS
  <2> QED BY <2>1 DEF Part
<1>4. Total(both) = sumOf(ms \cup ns)
  BY DEF sumOf
<1> HIDE DEF both
<1>5. Total(both) = Total(Part(both, ms)) + Total(Part(both, DOMAIN both \ ms))
  BY <1>1, TotalSplits
<1> QED
  BY <1>2, <1>3, <1>4, <1>5 DEF sumOf

LEMMA WorthIsWithin ==
  ASSUME NEW ms \in SUBSET Milestones
  PROVE  sumOf(ms) <= totalDeposited
<1> DEFINE f == [m \in ms |-> Worth[m]]
           g == [m \in Milestones |-> Worth[m]]
<1>1. Summable(f) /\ Summable(g) /\ DOMAIN f \subseteq DOMAIN g
  BY WorthOf
<1>2. \A m \in DOMAIN f : f[m] <= g[m]
  BY MilestoneAssumption
<1>3. Total(f) <= Total(g)
  <2> HIDE DEF f, g
  <2> QED BY <1>1, <1>2, TotalMonotone
<1> QED
  BY <1>3 DEF sumOf, totalDeposited

LEMMA MilestoneInitInv ==
  ASSUME MilestoneInit PROVE MilestoneInv
<1>1. sumOf({}) = 0
  BY TotalOfNothing DEF sumOf
<1>2. milestones = mkMilestoneAdmin /\ legs = {}
  BY DEF MilestoneInit
<1> QED
  BY <1>1, <1>2, MilestoneAssumption DEF MilestoneInv, MilestoneTypeOK, NamesTogether, mkMilestoneAdmin

\* What both ways of confirming have in common.
LEMMA ConfirmedKeepsInv ==
  ASSUME MilestoneInv, milestones.status = "Active", NEW ns, named(ns) \cap milestones.confirmed = {},
         milestones' = Confirmed(named(ns)), legs' = legs
  PROVE  MilestoneInv'
<1> DEFINE ms == named(ns)
           all == milestones.confirmed \cup ms
<1>1. ms \in SUBSET Milestones /\ milestones.confirmed \in SUBSET Milestones
  BY DEF MilestoneInv, MilestoneTypeOK, named
<1>2. sumOf(all) = milestones.totalReleased + sumOf(ms) /\ sumOf(all) \in Nat
  BY <1>1, WorthAdds, WorthOf DEF MilestoneInv
<1>3. milestones' = [ milestones EXCEPT !.confirmed = all, !.totalReleased = sumOf(all),
                        !.status = IF all = Milestones THEN "Completed" ELSE "Active" ]
  BY <1>2 DEF Confirmed
<1>4. /\ milestones'.confirmed = all /\ milestones'.totalReleased = sumOf(all)
      /\ milestones'.status = IF all = Milestones THEN "Completed" ELSE "Active"
  BY <1>3 DEF MilestoneInv, MilestoneTypeOK
<1> HIDE DEF all
<1>6. MilestoneTypeOK'
  <2>1. all \in SUBSET Milestones
    BY <1>1 DEF all
  <2>2. (IF all = Milestones THEN "Completed" ELSE "Active") \in {"Active", "Completed", "Cancelled"}
    OBVIOUS
  <2> QED BY <1>2, <1>3, <2>1, <2>2 DEF MilestoneInv, MilestoneTypeOK
<1>5. NamesTogether'
  BY <1>4 DEF MilestoneInv, NamesTogether, named, all
<1> QED
  BY <1>4, <1>5, <1>6 DEF MilestoneInv, sumOf

LEMMA MilestoneStepKeepsInv ==
  ASSUME MilestoneInv, [MilestoneNext]_milestoneVars PROVE MilestoneInv'
<1>1. CASE SettleLeg
  BY <1>1 DEF SettleLeg, MilestoneInv, MilestoneTypeOK, NamesTogether, sumOf, named
<1>2. ASSUME NEW cid \in Cids, Bind_Allocation(cid) PROVE MilestoneInv'
  <2>1. /\ milestones'.confirmed = milestones.confirmed
        /\ milestones'.totalReleased = milestones.totalReleased
        /\ milestones'.status = milestones.status
        /\ MilestoneTypeOK'
    BY <1>2 DEF Bind_Allocation, MilestoneInv, MilestoneTypeOK
  <2> QED BY <2>1 DEF MilestoneInv, NamesTogether, sumOf, named
<1>3. ASSUME NEW name \in names, Confirm_Milestone(name) PROVE MilestoneInv'
  <2>1. PICK target \in Milestones :
          /\ named({name}) = {target}
          /\ target \notin milestones.confirmed
          /\ milestones' = Confirmed({target})
    BY <1>3 DEF Confirm_Milestone
  <2>2. milestones.status = "Active" /\ legs' = legs
    BY <1>3 DEF Confirm_Milestone
  <2>3. named({name}) \cap milestones.confirmed = {} /\ milestones' = Confirmed(named({name}))
    BY <2>1
  <2> QED BY <2>2, <2>3, ConfirmedKeepsInv
<1>4. ASSUME NEW n \in 1 .. MaxBatch, NEW batch \in [1 .. n -> names], Confirm_Milestone_Batch(batch)
      PROVE  MilestoneInv'
  <2> DEFINE ns == { batch[i] : i \in DOMAIN batch }
  <2>1. /\ milestones.status = "Active" /\ legs' = legs
        /\ named(ns) \cap milestones.confirmed = {}
        /\ milestones' = Confirmed(named(ns))
    BY <1>4 DEF Confirm_Milestone_Batch, BatchIsOpen
  <2> HIDE DEF ns
  <2> QED BY <2>1, ConfirmedKeepsInv
<1>5. CASE Mark_Cancelled_Milestone_Admin
  <2>1. /\ milestones'.confirmed = milestones.confirmed
        /\ milestones'.totalReleased = milestones.totalReleased
        /\ milestones.status = "Active" /\ milestones'.status = "Cancelled"
        /\ MilestoneTypeOK'
    BY <1>5 DEF Mark_Cancelled_Milestone_Admin, MilestoneInv, MilestoneTypeOK
  <2> QED BY <2>1 DEF MilestoneInv, NamesTogether, sumOf, named
<1>6. CASE UNCHANGED milestoneVars
  BY <1>6 DEF milestoneVars, MilestoneInv, MilestoneTypeOK, NamesTogether, sumOf, named
<1> QED
  BY <1>1, <1>2, <1>3, <1>4, <1>5, <1>6 DEF MilestoneNext

\* The witness is a batch that repeats the name as often as milestones have it.
LEMMA ConfirmableFromInv ==
  ASSUME MilestoneInv PROVE MilestonesConfirmable
<1> SUFFICES ASSUME NEW m \in legs \ milestones.confirmed
             PROVE  \E n \in 1 .. Cardinality(Milestones) : \E batch \in [1 .. n -> names] :
                      /\ BatchIsOpen(batch)
                      /\ m \in named({ batch[i] : i \in 1 .. n })
  BY DEF MilestonesConfirmable
<1> DEFINE name == MilestoneName[m]
           same == named({name})
           n == Cardinality(same)
           batch == [i \in 1 .. n |-> name]
<1>1. m \in Milestones /\ m \in same /\ same \subseteq Milestones /\ name \in names
  BY DEF MilestoneInv, MilestoneTypeOK, named, names
<1>2. IsFiniteSet(same) /\ n \in Nat /\ n <= Cardinality(Milestones) /\ Cardinality(Milestones) \in Nat
  BY <1>1, MilestoneAssumption, FS_Subset, FS_CardinalityType
<1>3. n # 0
  BY <1>1, <1>2, FS_EmptySet
<1>4. n \in 1 .. Cardinality(Milestones) /\ batch \in [1 .. n -> names] /\ Len(batch) = n
  BY <1>1, <1>2, <1>3
<1>5. { batch[i] : i \in 1 .. n } = {name} /\ DOMAIN batch = 1 .. n
  BY <1>2, <1>3
<1>6. same \cap milestones.confirmed = {}
  BY <1>1 DEF MilestoneInv, NamesTogether, named
<1>7. BatchIsOpen(batch) /\ m \in named({ batch[i] : i \in 1 .. n })
  BY <1>1, <1>4, <1>5, <1>6 DEF BatchIsOpen
<1> QED
  BY <1>4, <1>7

\* Every milestone is recorded once and none gets stuck, for any number of
\* milestones however named (Stream/MilestoneAdmin.daml).
THEOREM MilestonesAreSound == MilestoneSpec => []MilestonesSound
<1>1. MilestoneInit => MilestoneInv
  BY MilestoneInitInv
<1>2. MilestoneInv /\ [MilestoneNext]_milestoneVars => MilestoneInv'
  BY MilestoneStepKeepsInv
<1>3. MilestoneInv => MilestonesSound
  <2>1. MilestoneInv => milestones.totalReleased <= totalDeposited
    BY WorthIsWithin DEF MilestoneInv, MilestoneTypeOK
  <2> QED BY <2>1, ConfirmableFromInv DEF MilestonesSound, MilestonesReleasedOnce, MilestoneInv
<1> QED
  BY <1>1, <1>2, <1>3, PTL DEF MilestoneSpec

----------------------------------------------------------------------------
(* The unified request: a fully accepted one binds nobody who did not accept *)
(* its terms, for any parties, roles and number of counter-proposals.  The *)
(* contract keeps who accepted, not which terms; that its acceptances are of *)
(* the current ones rests on terms changing only before anybody accepted.  *)

Parties == UNION { operatorsOf(r) : r \in RoleSets }

UnifiedPayload ==
  [ stage : {"requested", "accepted", "full", "gone"}, terms : 1 .. MaxTerms,
    roles : RoleSets, expiresAt : Expiries,
    acceptedOperators : SUBSET Parties, triggerPartyAccepted : BOOLEAN ]

Accepted(role, p) == <<role, p, proposal.terms>> \in consent

\* What the contract says of acceptances is true of the terms it holds.
ListedHaveAccepted ==
  /\ \A p \in proposal.acceptedOperators : Accepted("operator", p)
  /\ proposal.triggerPartyAccepted =>
       \A p \in triggerOf(proposal.roles) : Accepted("trigger", p)

\* The inductive invariant.  UnifiedFullMeansConsent speaks of the last stage only;
\* each stage before it has its share of the consent.
UnifiedInv ==
  \/ proposal = [stage |-> "none"]
  \/ /\ proposal \in UnifiedPayload
     /\ proposal.acceptedOperators \subseteq operatorsOf(proposal.roles)
     /\ proposal.stage = "requested" =>
          proposal.acceptedOperators = {} /\ ~proposal.triggerPartyAccepted
     /\ proposal.stage # "gone" => Accepted("sender", Sender)
     /\ proposal.stage \in {"accepted", "full"} =>
          Accepted("recipient", Recipient) /\ ListedHaveAccepted
     /\ proposal.stage = "full" =>
          /\ proposal.acceptedOperators = operatorsOf(proposal.roles)
          /\ proposal.triggerPartyAccepted

LEMMA UnifiedInitInv ==
  ASSUME UnifiedInit PROVE UnifiedInv
BY DEF UnifiedInit, UnifiedInv

LEMMA RequestKeepsInv ==
  ASSUME Request PROVE UnifiedInv'
<1>1. PICK roles \in RoleSets, expiry \in Expiries :
        proposal' = [ stage |-> "requested", terms |-> 1, roles |-> roles,
                      expiresAt |-> expiry, acceptedOperators |-> {},
                      triggerPartyAccepted |-> FALSE ]
  BY DEF Request
<1>2. proposal' \in UnifiedPayload
  BY <1>1, UnifiedAssumption, SMT DEF UnifiedPayload
<1>3. Accepted("sender", Sender)'
  BY <1>1 DEF Request, Accepted
<1> QED
  BY <1>1, <1>2, <1>3 DEF UnifiedInv

\* New terms void the consent to the old ones, and there was only the sender's.
LEMMA CounterProposeKeepsInv ==
  ASSUME UnifiedInv, CounterPropose PROVE UnifiedInv'
<1>1. /\ proposal \in UnifiedPayload /\ proposal.stage = "requested"
      /\ proposal.acceptedOperators = {} /\ ~proposal.triggerPartyAccepted
  BY DEF UnifiedInv, CounterPropose
<1>2. PICK roles \in RoleSets, expiry \in Expiries :
        proposal' = [ proposal EXCEPT !.terms = @ + 1, !.roles = roles,
                                      !.expiresAt = expiry ]
  BY DEF CounterPropose
<1>3. proposal.terms + 1 \in 1 .. MaxTerms
  BY <1>1, UnifiedAssumption, SMT DEF CounterPropose, UnifiedPayload
<1>4. /\ proposal' \in UnifiedPayload /\ proposal'.stage = "requested"
      /\ proposal'.acceptedOperators = {} /\ ~proposal'.triggerPartyAccepted
      /\ proposal'.terms = proposal.terms + 1
  BY <1>1, <1>2, <1>3 DEF UnifiedPayload
<1>5. Accepted("sender", Sender)'
  BY <1>4 DEF CounterPropose, Accepted
<1> QED
  BY <1>4, <1>5 DEF UnifiedInv

LEMMA AcceptRecipientKeepsInv ==
  ASSUME UnifiedInv, AcceptRecipient PROVE UnifiedInv'
<1>1. /\ proposal \in UnifiedPayload /\ proposal.stage = "requested"
      /\ Accepted("sender", Sender)
  BY DEF UnifiedInv, AcceptRecipient
<1>2. /\ proposal' \in UnifiedPayload /\ proposal'.stage = "accepted"
      /\ proposal'.acceptedOperators = {}
      /\ proposal'.triggerPartyAccepted => triggerOf(proposal'.roles) = {}
      /\ proposal'.terms = proposal.terms
  BY <1>1 DEF AcceptRecipient, UnifiedPayload
<1>3. consent' = consent \cup {<<"recipient", Recipient, proposal.terms>>}
  BY DEF AcceptRecipient, Consents
<1>4. Accepted("sender", Sender)' /\ Accepted("recipient", Recipient)' /\ ListedHaveAccepted'
  BY <1>1, <1>2, <1>3 DEF Accepted, ListedHaveAccepted
<1> QED
  BY <1>2, <1>4 DEF UnifiedInv

LEMMA OperatorAcceptKeepsInv ==
  ASSUME UnifiedInv, NEW p, OperatorAccept(p) PROVE UnifiedInv'
<1>1. /\ proposal \in UnifiedPayload /\ proposal.stage = "accepted"
      /\ proposal.acceptedOperators \subseteq operatorsOf(proposal.roles)
      /\ Accepted("sender", Sender) /\ Accepted("recipient", Recipient) /\ ListedHaveAccepted
      /\ p \in operatorsOf(proposal.roles)
  BY DEF UnifiedInv, OperatorAccept
<1>2. p \in Parties
  BY <1>1 DEF Parties, UnifiedPayload
<1>3. /\ proposal' \in UnifiedPayload /\ proposal'.stage = "accepted"
      /\ proposal'.acceptedOperators = proposal.acceptedOperators \cup {p}
      /\ proposal'.triggerPartyAccepted = proposal.triggerPartyAccepted
      /\ proposal'.terms = proposal.terms /\ proposal'.roles = proposal.roles
  BY <1>1, <1>2 DEF OperatorAccept, UnifiedPayload
<1>4. consent' = consent \cup {<<"operator", p, proposal.terms>>}
  BY DEF OperatorAccept, Consents
<1>5. Accepted("sender", Sender)' /\ Accepted("recipient", Recipient)' /\ ListedHaveAccepted'
  BY <1>1, <1>3, <1>4 DEF Accepted, ListedHaveAccepted
<1> QED
  BY <1>1, <1>3, <1>5 DEF UnifiedInv

LEMMA TriggerPartyAcceptKeepsInv ==
  ASSUME UnifiedInv, TriggerPartyAccept PROVE UnifiedInv'
<1>1. /\ proposal \in UnifiedPayload /\ proposal.stage = "accepted"
      /\ proposal.acceptedOperators \subseteq operatorsOf(proposal.roles)
      /\ Accepted("sender", Sender) /\ Accepted("recipient", Recipient) /\ ListedHaveAccepted
  BY DEF UnifiedInv, TriggerPartyAccept
<1>2. /\ proposal' \in UnifiedPayload /\ proposal'.stage = "accepted"
      /\ proposal'.acceptedOperators = proposal.acceptedOperators
      /\ proposal'.terms = proposal.terms /\ proposal'.roles = proposal.roles
  BY <1>1 DEF TriggerPartyAccept, UnifiedPayload
<1>3. consent' = consent \cup {<<"trigger", proposal.roles.triggerParty, proposal.terms>>}
  BY DEF TriggerPartyAccept, Consents
<1>4. \A p \in triggerOf(proposal'.roles) : Accepted("trigger", p)'
  BY <1>2, <1>3 DEF triggerOf, Accepted
<1>5. Accepted("sender", Sender)' /\ Accepted("recipient", Recipient)' /\ ListedHaveAccepted'
  BY <1>1, <1>2, <1>3, <1>4 DEF Accepted, ListedHaveAccepted
<1> QED
  BY <1>1, <1>2, <1>5 DEF UnifiedInv

LEMMA PromoteKeepsInv ==
  ASSUME UnifiedInv, Promote PROVE UnifiedInv'
<1>1. /\ proposal \in UnifiedPayload /\ proposal.stage = "accepted"
      /\ Accepted("sender", Sender) /\ Accepted("recipient", Recipient) /\ ListedHaveAccepted
  BY DEF UnifiedInv, Promote
<1>2. proposal.acceptedOperators = operatorsOf(proposal.roles) /\ proposal.triggerPartyAccepted
  BY DEF Promote, CanPromote, allOperatorsAccepted
<1>3. /\ proposal' \in UnifiedPayload /\ proposal'.stage = "full"
      /\ proposal'.acceptedOperators = proposal.acceptedOperators
      /\ proposal'.triggerPartyAccepted = proposal.triggerPartyAccepted
      /\ proposal'.terms = proposal.terms /\ proposal'.roles = proposal.roles
      /\ consent' = consent
  BY <1>1 DEF Promote, UnifiedPayload
<1>4. Accepted("sender", Sender)' /\ Accepted("recipient", Recipient)' /\ ListedHaveAccepted'
  BY <1>1, <1>3 DEF Accepted, ListedHaveAccepted
<1> QED
  BY <1>2, <1>3, <1>4 DEF UnifiedInv

LEMMA GoneKeepsInv ==
  ASSUME UnifiedInv, proposal.stage # "none", Gone PROVE UnifiedInv'
<1>1. proposal \in UnifiedPayload /\ proposal.acceptedOperators \subseteq operatorsOf(proposal.roles)
  BY DEF UnifiedInv
<1>2. /\ proposal' \in UnifiedPayload /\ proposal'.stage = "gone"
      /\ proposal'.acceptedOperators = proposal.acceptedOperators
      /\ proposal'.roles = proposal.roles
  BY <1>1 DEF Gone, UnifiedPayload
<1> QED
  BY <1>1, <1>2 DEF UnifiedInv

LEMMA UnifiedStepKeepsInv ==
  ASSUME UnifiedInv, [UnifiedNext]_unifiedVars PROVE UnifiedInv'
<1>1. CASE UNCHANGED <<proposal, consent>>
  BY <1>1 DEF UnifiedInv, Accepted, ListedHaveAccepted
<1>2. CASE RejectOrWithdraw \/ ExpireRequest \/ RejectOrCancelAccepted \/ DiscardAcceptedRequest
  BY <1>2, GoneKeepsInv
  DEF RejectOrWithdraw, ExpireRequest, RejectOrCancelAccepted, DiscardAcceptedRequest
<1> QED
  BY <1>1, <1>2, RequestKeepsInv, CounterProposeKeepsInv, AcceptRecipientKeepsInv,
     OperatorAcceptKeepsInv, TriggerPartyAcceptKeepsInv, PromoteKeepsInv
  DEF UnifiedNext, unifiedVars

LEMMA UnifiedInvIsEnough ==
  ASSUME UnifiedInv PROVE UnifiedFullMeansConsent
<1>1. CASE proposal = [stage |-> "none"]
  BY <1>1 DEF UnifiedFullMeansConsent, UnifiedTypeOK
<1>2. CASE proposal # [stage |-> "none"]
  <2>1. UnifiedTypeOK
    BY <1>2 DEF UnifiedInv, UnifiedTypeOK, UnifiedPayload
  <2>2. ASSUME proposal.stage = "full" PROVE AllConsent
    BY <1>2, <2>2 DEF UnifiedInv, AllConsent, ListedHaveAccepted, Accepted
  <2> QED
    BY <2>1, <2>2 DEF UnifiedFullMeansConsent
<1> QED
  BY <1>1, <1>2

\* Whatever the parties propose, counter-propose, accept and refuse, a request that
\* reaches its last stage names no role whose party did not accept those very terms
\* (UnifiedStreamRequest, RecipientAcceptedStreamRequest, Promote).
THEOREM FullMeansConsent == UnifiedSpec => []UnifiedFullMeansConsent
<1>1. UnifiedInit => UnifiedInv
  BY UnifiedInitInv
<1>2. UnifiedInv /\ [UnifiedNext]_unifiedVars => UnifiedInv'
  BY UnifiedStepKeepsInv
<1>3. UnifiedInv => UnifiedFullMeansConsent
  BY UnifiedInvIsEnough
<1> QED
  BY <1>1, <1>2, <1>3, PTL DEF UnifiedSpec

----------------------------------------------------------------------------
(* DelegatedPolicy: one state lets through no more than its quota in any   *)
(* window between two resets, and all no more than their quotas.  The      *)
(* list a state keeps is pruned; that it still counts every execution of   *)
(* the window is what the invariant says of it.                            *)

\* The executions of a state since its last reset: the latest is dated no earlier,
\* and the list remembers those of the window that ends now.
Remembers(k) ==
  /\ IsFiniteSet(quota[k].recentExecutions)
  /\ \A i \in countedIn(k, quota[k].era) :
       /\ quota[k].lastExecutionTime # Undated
       /\ executions[i].at <= quota[k].lastExecutionTime
       /\ executions[i].at > now - periodDuration =>
            Instant(executions[i].at, i) \in quota[k].recentExecutions

Logged ==
  \A i \in DOMAIN executions :
    executions[i].at <= now /\ executions[i].era <= quota[executions[i].state].era

PolicyInv ==
  /\ now \in Nat
  /\ PolicyTypeOK
  /\ Logged
  /\ \A k \in States : Remembers(k)
  /\ RateHeld
  /\ WithinScope
  /\ EndsForGood

\* A set in finitely many parts, none of more than m members.
LEMMA PartsBound ==
  ASSUME NEW S, NEW C, IsFiniteSet(C), NEW m \in Nat, NEW part \in [S -> C],
         \A c \in C : LET P == {x \in S : part[x] = c} IN IsFiniteSet(P) /\ Cardinality(P) <= m
  PROVE  IsFiniteSet(S) /\ Cardinality(S) <= Cardinality(C) * m
<1> DEFINE P(c) == {x \in S : part[x] = c}
           number == [c \in C |-> CHOOSE f : f \in Injection(P(c), 1 .. m)]
           h == [x \in S |-> <<part[x], number[part[x]][x]>>]
<1>1. ASSUME NEW c \in C PROVE \E f : f \in Injection(P(c), 1 .. m)
  <2> DEFINE n == Cardinality(P(c))
  <2>1. IsFiniteSet(P(c)) /\ n <= m /\ n \in Nat /\ ExistsBijection(1 .. n, P(c))
    BY FS_CardinalityType
  <2>2. PICK b : b \in Bijection(1 .. n, P(c))
    BY <2>1 DEF ExistsBijection
  <2> DEFINE f == [x \in P(c) |-> CHOOSE i \in 1 .. n : b[i] = x]
  <2>3. \A x \in P(c) : f[x] \in 1 .. n /\ b[f[x]] = x
    BY <2>2 DEF Bijection, Surjection
  <2>4. f \in Injection(P(c), 1 .. m)
    <3>1. f \in [P(c) -> 1 .. m]
      <4>1. \A x \in P(c) : f[x] \in 1 .. m
        BY <2>1, <2>3
      <4> QED BY <4>1
    <3>2. \A x, y \in P(c) : f[x] = f[y] => x = y
      <4> HIDE DEF f, P
      <4> QED BY <2>3
    <3> HIDE DEF f, P
    <3> QED BY <3>1, <3>2, Fun_IsInj
  <2> QED BY <2>4
<1>2. \A c \in C : number[c] \in Injection(P(c), 1 .. m)
  BY <1>1
<1> HIDE DEF number
<1>3. h \in Injection(S, C \X (1 .. m))
  <2>1. \A x \in S : part[x] \in C /\ x \in P(part[x])
    OBVIOUS
  <2>2. \A x \in S : number[part[x]][x] \in 1 .. m
    BY <1>2, <2>1 DEF Injection
  <2>3. ASSUME NEW x \in S, NEW y \in S, h[x] = h[y] PROVE x = y
    <3>1. part[x] = part[y] /\ number[part[x]][x] = number[part[x]][y]
      BY <2>3
    <3>2. x \in P(part[x]) /\ y \in P(part[x]) /\ part[x] \in C
      BY <2>1, <3>1
    <3> DEFINE g == number[part[x]]
    <3>3. g \in Injection(P(part[x]), 1 .. m)
      BY <1>2
    <3>4. g[x] = g[y] /\ x \in P(part[x]) /\ y \in P(part[x])
      BY <3>1, <3>2
    <3> HIDE DEF P, g
    <3> QED BY <3>3, <3>4, Fun_InjectionProperties
  <2>4. h \in [S -> C \X (1 .. m)]
    BY <2>1, <2>2
  <2>5. \A x, y \in S : h[x] = h[y] => x = y
    BY <2>3
  <2> HIDE DEF h
  <2> QED BY <2>4, <2>5, Fun_IsInj
<1>4. /\ IsFiniteSet(C \X (1 .. m))
      /\ Cardinality(C \X (1 .. m)) = Cardinality(C) * m
  <2>1. IsFiniteSet(1 .. m) /\ Cardinality(1 .. m) = m
    BY FS_Interval
  <2> QED BY <2>1, FS_Product
<1> QED
  BY <1>3, <1>4, FS_Injection

Execution ==
  [ at : Nat, action : Actions, stream : TargetStreams, amount : Nat \ {0}, state : States,
    era : {0, 1} ]

LEMMA ExecutionsAre ==
  ASSUME PolicyTypeOK
  PROVE  /\ executions \in Seq(Execution)
         /\ DOMAIN executions = 1 .. Len(executions) /\ Len(executions) \in Nat
         /\ \A i \in DOMAIN executions :
              /\ executions[i].at \in Nat /\ executions[i].state \in States
              /\ executions[i].era \in {0, 1}
<1>1. /\ executions \in Seq(Execution)
      /\ DOMAIN executions = 1 .. Len(executions) /\ Len(executions) \in Nat
  BY DEF PolicyTypeOK, Execution
<1>2. ASSUME NEW i \in DOMAIN executions PROVE executions[i] \in Execution
  BY <1>1, ElementOfSeq
<1> QED
  BY <1>1, <1>2 DEF Execution

LEMMA ExecutionsAreFinite ==
  ASSUME PolicyTypeOK, NEW is \in SUBSET DOMAIN executions, NEW t
  PROVE  IsFiniteSet(within(is, t)) /\ Cardinality(within(is, t)) \in Nat
<1>1. DOMAIN executions = 1 .. Len(executions) /\ Len(executions) \in Nat
  BY DEF PolicyTypeOK
<1>2. IsFiniteSet(DOMAIN executions)
  BY <1>1, FS_Interval
<1>3. within(is, t) \in SUBSET DOMAIN executions
  BY DEF within
<1> QED
  BY <1>2, <1>3, FS_Subset, FS_CardinalityType

\* The list counts every execution of its window.
LEMMA ListCounts ==
  ASSUME PolicyInv, NEW k \in States
  PROVE  Cardinality(within(countedIn(k, quota[k].era), now))
           <= Cardinality(InWindow(quota[k].recentExecutions))
<1> DEFINE S == within(countedIn(k, quota[k].era), now)
           T == InWindow(quota[k].recentExecutions)
           h == [i \in S |-> Instant(executions[i].at, i)]
<1>1. IsFiniteSet(T)
  BY FS_Subset DEF PolicyInv, Remembers, InWindow
<1>2. \A i \in S : h[i] \in T
  BY DEF PolicyInv, Remembers, within, InWindow, Instant
<1>3. \A i, j \in S : h[i] = h[j] => i = j
  BY DEF Instant
<1>4. h \in Injection(S, T)
  <2>1. h \in [S -> T]
    <3> HIDE DEF T
    <3> QED BY <1>2
  <2> HIDE DEF h, S, T
  <2> QED BY <1>3, <2>1, Fun_IsInj
<1> QED
  BY <1>1, <1>4, FS_Injection

LEMMA PolicyInitInv ==
  ASSUME PolicyInit PROVE PolicyInv
<1>1. DOMAIN executions = {} /\ now = 0 /\ executions = <<>>
  BY DEF PolicyInit
<1>2. \A k \in States : quota[k] = NewState(0) /\ DOMAIN quota = States
  BY DEF PolicyInit
<1>3. PolicyTypeOK
  BY DEF PolicyInit, PolicyTypeOK, NewState, Undated
<1>4. \A k \in States, era \in {0, 1} : countedIn(k, era) = {}
  BY <1>1 DEF countedIn
<1>5. \A k \in States, era \in {0, 1}, t \in 0 .. now : Cardinality(within(countedIn(k, era), t)) = 0
  <2>1. \A k \in States, era \in {0, 1}, t \in 0 .. now : within(countedIn(k, era), t) = {}
    BY <1>4 DEF within
  <2> QED BY <2>1, FS_EmptySet
<1>6. RateHeld
  BY <1>4, <1>5, PolicyAssumption DEF RateHeld
<1>7. ASSUME NEW k \in States PROVE Remembers(k)
  <2>1. quota[k].recentExecutions = {}
    BY <1>2 DEF NewState
  <2>2. countedIn(k, quota[k].era) = {}
    BY <1>1 DEF countedIn
  <2> QED BY <2>1, <2>2, FS_EmptySet DEF Remembers
<1> QED
  BY <1>1, <1>3, <1>6, <1>7 DEF PolicyInv, Logged, EndsForGood, WithinScope

LEMMA PolicyTickKeepsInv ==
  ASSUME PolicyInv, Tick, UNCHANGED <<policy, quota, executions>> PROVE PolicyInv'
<1>1. now \in Nat /\ now' = now + 1 /\ periodDuration \in Nat
  BY PolicyAssumption DEF PolicyInv, Tick
<1>2. PolicyTypeOK' /\ EndsForGood' /\ WithinScope'
  BY DEF PolicyInv, PolicyTypeOK, EndsForGood, WithinScope, InScope
<1>3. \A i \in DOMAIN executions : executions[i].at \in Nat
  BY ExecutionsAre DEF PolicyInv
<1>4. Logged'
  BY <1>1, <1>3 DEF PolicyInv, Logged
<1>5. ASSUME NEW k \in States PROVE Remembers(k)'
  <2>1. countedIn(k, quota[k].era)' = countedIn(k, quota[k].era)
    BY DEF countedIn
  <2>2. \A i \in countedIn(k, quota[k].era) :
           executions[i].at > now' - periodDuration => executions[i].at > now - periodDuration
    BY <1>1, <1>3 DEF countedIn
  <2> QED BY <2>1, <2>2 DEF PolicyInv, Remembers
<1>6. ASSUME NEW k \in States, NEW era \in {0, 1}, NEW t \in 0 .. now + 1
      PROVE  Cardinality(within(countedIn(k, era), t)) <= maxExecutionsPerPeriod
  <2>1. CASE t \in 0 .. now
    BY <2>1 DEF PolicyInv, RateHeld
  <2>2. CASE t = now + 1
    <3>1. within(countedIn(k, era), t) \in SUBSET within(countedIn(k, era), now)
      BY <1>1, <1>3, <2>2 DEF PolicyInv, Logged, within, countedIn
    <3>2. countedIn(k, era) \in SUBSET DOMAIN executions
      BY DEF countedIn
    <3>3. Cardinality(within(countedIn(k, era), now)) <= maxExecutionsPerPeriod
      BY <1>1 DEF PolicyInv, RateHeld
    <3>4. /\ IsFiniteSet(within(countedIn(k, era), now))
          /\ Cardinality(within(countedIn(k, era), now)) \in Nat
          /\ Cardinality(within(countedIn(k, era), t)) \in Nat
      BY <3>2, ExecutionsAreFinite DEF PolicyInv
    <3>5. Cardinality(within(countedIn(k, era), t)) <= Cardinality(within(countedIn(k, era), now))
      BY <3>1, <3>4, FS_Subset
    <3> QED BY <3>3, <3>4, <3>5, PolicyAssumption
  <2> QED BY <1>1, <2>1, <2>2
<1>7. RateHeld'
  BY <1>1, <1>6 DEF PolicyInv, RateHeld, within, countedIn
<1> QED
  BY <1>1, <1>2, <1>4, <1>5, <1>7 DEF PolicyInv

LEMMA RevokeKeepsPolicyInv ==
  ASSUME PolicyInv, RevokePolicy PROVE PolicyInv'
<1>1. PolicyTypeOK'
  BY DEF PolicyInv, PolicyTypeOK, RevokePolicy
<1>2. EndsForGood'
  BY DEF PolicyInv, EndsForGood, Logged, RevokePolicy
<1>3. Logged' /\ RateHeld' /\ \A k \in States : Remembers(k)'
  BY DEF PolicyInv, Logged, RateHeld, Remembers, RevokePolicy, within, countedIn
<1>4. WithinScope'
  BY DEF PolicyInv, WithinScope, InScope, RevokePolicy
<1> QED
  BY <1>1, <1>2, <1>3, <1>4 DEF PolicyInv, RevokePolicy

\* Nothing is counted in the state's second life yet.
LEMMA ResetKeepsPolicyInv ==
  ASSUME PolicyInv, NEW k \in States, ResetExecutionState(k) PROVE PolicyInv'
<1>1. /\ quota' = [quota EXCEPT ![k] = NewState(1)] /\ quota[k].era = 0
      /\ UNCHANGED <<now, policy, executions>>
      /\ DOMAIN quota = States
  BY DEF ResetExecutionState, PolicyInv, PolicyTypeOK
<1>2. PolicyTypeOK'
  <2>1. NewState(1) \in [ era : {0, 1}, totalExecutions : Nat, lastExecutionTime : Nat \cup {Undated},
                          recentExecutions : SUBSET [at : Nat, log : Nat] ]
    BY DEF NewState
  <2> QED BY <1>1, <2>1 DEF PolicyInv, PolicyTypeOK
<1>3. quota'[k] = NewState(1) /\ \A l \in States \ {k} : quota'[l] = quota[l]
  BY <1>1
<1>4. \A i \in DOMAIN executions : executions[i].state \in States /\ executions[i].era \in {0, 1}
  BY ExecutionsAre DEF PolicyInv
<1>5. Logged'
  <2>1. quota'[k].era = 1
    BY <1>3 DEF NewState
  <2> QED BY <1>1, <1>3, <1>4, <2>1 DEF PolicyInv, Logged
<1>6. ASSUME NEW l \in States PROVE Remembers(l)'
  <2>1. CASE l = k
    <3>1. countedIn(k, 1) = {}
      BY <1>1, <1>4 DEF PolicyInv, Logged, countedIn
    <3>2. quota'[l] = NewState(1) /\ NewState(1).era = 1 /\ NewState(1).recentExecutions = {}
      BY <1>3, <2>1 DEF NewState
    <3>3. countedIn(l, quota'[l].era) = {}
      BY <2>1, <3>1, <3>2
    <3> QED BY <1>1, <3>2, <3>3, FS_EmptySet DEF Remembers, countedIn
  <2>2. CASE l # k
    BY <1>1, <1>3, <2>2 DEF PolicyInv, Remembers, countedIn
  <2> QED BY <2>1, <2>2
<1>7. RateHeld' /\ WithinScope' /\ EndsForGood'
  <2>1. now' = now /\ policy' = policy /\ executions' = executions
    BY <1>1
  <2>2. RateHeld'
    BY <2>1 DEF PolicyInv, RateHeld, within, countedIn
  <2>3. EndsForGood'
    BY <2>1 DEF PolicyInv, EndsForGood
  <2>4. WithinScope'
    BY <2>1 DEF PolicyInv, WithinScope, InScope
  <2> QED BY <2>2, <2>3, <2>4
<1> QED
  BY <1>1, <1>2, <1>5, <1>6, <1>7 DEF PolicyInv

\* The record an execution leaves in its state, written out.
LEMMA CountedRecord ==
  ASSUME NEW q \in [ era : {0, 1}, totalExecutions : Nat, lastExecutionTime : Nat \cup {Undated},
                     recentExecutions : SUBSET [at : Nat, log : Nat] ],
         NEW t, NEW recent
  PROVE  [ q EXCEPT !.totalExecutions = @ + 1, !.lastExecutionTime = t,
                    !.recentExecutions = recent ]
         = [ era |-> q.era, totalExecutions |-> q.totalExecutions + 1,
             lastExecutionTime |-> t, recentExecutions |-> recent ]
<1> DEFINE m == q.totalExecutions + 1
           q1 == [ q EXCEPT !.totalExecutions = m ]
           q2 == [ q1 EXCEPT !.lastExecutionTime = t ]
<1>1. q1 = [ era |-> q.era, totalExecutions |-> m, lastExecutionTime |-> q.lastExecutionTime,
             recentExecutions |-> q.recentExecutions ]
  OBVIOUS
<1> HIDE DEF q1, m
<1>2. q2 = [ era |-> q.era, totalExecutions |-> m, lastExecutionTime |-> t,
             recentExecutions |-> q.recentExecutions ]
  BY <1>1
<1> HIDE DEF q2
<1>3. [ q2 EXCEPT !.recentExecutions = recent ]
      = [ era |-> q.era, totalExecutions |-> m, lastExecutionTime |-> t,
          recentExecutions |-> recent ]
  BY <1>2
<1> QED
  BY <1>3 DEF q2, q1, m

LEMMA ExecuteKeepsPolicyInv ==
  ASSUME PolicyInv, NEW k \in States, NEW action \in Actions, NEW stream \in TargetStreams,
         NEW amount \in 0 .. maxAmountPerExecution + 1, ExecutePolicy(k, action, stream, amount)
  PROVE  PolicyInv'
<1> DEFINE era0 == quota[k].era
           n == Len(executions) + 1
           entry == [ at |-> now, action |-> action, stream |-> stream, amount |-> amount,
                      state |-> k, era |-> era0 ]
           pruned == prunedRecent(quota[k])
<1>1. /\ executions' = Append(executions, entry) /\ now' = now /\ policy' = policy
      /\ policy.active /\ now < expiresAt /\ WithinRate(quota[k]) /\ amount > 0
  BY PolicyAssumption DEF ExecutePolicy, PolicyInv
<1>2. /\ now \in Nat /\ DOMAIN quota = States /\ era0 \in {0, 1} /\ n \in Nat \ {0}
      /\ DOMAIN executions = 1 .. Len(executions) /\ Len(executions) \in Nat
      /\ \A i \in DOMAIN executions :
           /\ executions[i].at \in Nat /\ executions[i].at <= now
           /\ executions[i].state \in States /\ executions[i].era \in {0, 1}
  BY ExecutionsAre DEF PolicyInv, PolicyTypeOK, Logged
<1>3. /\ DOMAIN executions' = DOMAIN executions \cup {n} /\ n \notin DOMAIN executions
      /\ executions'[n] = entry
      /\ \A i \in DOMAIN executions : executions'[i] = executions[i]
  BY <1>1, <1>2, ExecutionsAre DEF PolicyInv
<1>4. /\ DOMAIN quota' = States
      /\ \A l \in States \ {k} : quota'[l] = quota[l]
      /\ quota'[k].era = era0 /\ quota'[k].lastExecutionTime = now
      /\ quota'[k].recentExecutions = pruned
      /\ quota'[k] = [ era |-> era0, totalExecutions |-> quota[k].totalExecutions + 1,
                       lastExecutionTime |-> now, recentExecutions |-> pruned ]
  <2> DEFINE new == [ quota[k] EXCEPT !.totalExecutions = @ + 1, !.lastExecutionTime = now,
                                      !.recentExecutions = pruned ]
  <2>1. quota' = [quota EXCEPT ![k] = new]
    BY DEF ExecutePolicy
  <2> HIDE DEF pruned
  <2>2. new = [ era |-> era0, totalExecutions |-> quota[k].totalExecutions + 1,
                lastExecutionTime |-> now, recentExecutions |-> pruned ]
    <3>1. quota[k] \in [ era : {0, 1}, totalExecutions : Nat,
                         lastExecutionTime : Nat \cup {Undated},
                         recentExecutions : SUBSET [at : Nat, log : Nat] ]
      BY DEF PolicyInv, PolicyTypeOK
    <3> QED BY <3>1, CountedRecord
  <2> HIDE DEF new
  <2> QED BY <1>2, <2>1, <2>2
<1>5. /\ pruned \in SUBSET [at : Nat, log : Nat] /\ IsFiniteSet(pruned)
      /\ \A e : e \in pruned <=> /\ e = Instant(now, n) \/ e \in quota[k].recentExecutions
                                 /\ e.at > now - periodDuration
  <2> DEFINE all == {Instant(now, n)} \cup quota[k].recentExecutions
  <2>1. quota[k].recentExecutions \in SUBSET [at : Nat, log : Nat]
    BY DEF PolicyInv, PolicyTypeOK
  <2>2. Instant(now, n) \in [at : Nat, log : Nat]
    BY <1>2 DEF Instant
  <2>3. IsFiniteSet(all)
    <3>1. IsFiniteSet(quota[k].recentExecutions)
      BY DEF PolicyInv, Remembers
    <3>2. all = quota[k].recentExecutions \cup {Instant(now, n)}
      OBVIOUS
    <3> HIDE DEF all
    <3> QED BY <3>1, <3>2, FS_AddElement
  <2>4. pruned = {e \in all : e.at > now - periodDuration}
    BY DEF prunedRecent, InWindow
  <2> QED BY <2>1, <2>2, <2>3, <2>4, FS_Subset
<1> HIDE DEF pruned
<1>6. PolicyTypeOK'
  <2>1. entry \in [ at : Nat, action : Actions, stream : TargetStreams,
                    amount : Nat \ {0}, state : States, era : {0, 1} ]
    BY <1>1, <1>2, PolicyAssumption
  <2>2. executions' \in Seq([ at : Nat, action : Actions, stream : TargetStreams,
                              amount : Nat \ {0}, state : States, era : {0, 1} ])
    BY <1>1, <2>1 DEF PolicyInv, PolicyTypeOK
  <2>3. quota'[k] \in [ era : {0, 1}, totalExecutions : Nat, lastExecutionTime : Nat \cup {Undated},
                        recentExecutions : SUBSET [at : Nat, log : Nat] ]
    <3>1. quota[k].totalExecutions + 1 \in Nat
      BY DEF PolicyInv, PolicyTypeOK
    <3> QED BY <1>2, <1>4, <1>5, <3>1
  <2>4. quota' \in [ States -> [ era : {0, 1}, totalExecutions : Nat,
                            lastExecutionTime : Nat \cup {Undated},
                            recentExecutions : SUBSET [at : Nat, log : Nat] ] ]
    <3>1. quota' = [l \in States |-> quota'[l]]
      BY DEF ExecutePolicy, PolicyInv, PolicyTypeOK
    <3>2. \A l \in States : quota'[l] \in [ era : {0, 1}, totalExecutions : Nat,
                            lastExecutionTime : Nat \cup {Undated},
                            recentExecutions : SUBSET [at : Nat, log : Nat] ]
      BY <1>4, <2>3 DEF PolicyInv, PolicyTypeOK
    <3> QED BY <3>1, <3>2
  <2> QED BY <1>1, <2>2, <2>4 DEF PolicyInv, PolicyTypeOK
<1>7. Logged' /\ EndsForGood'
  <2>1. entry.at = now /\ entry.state = k /\ entry.era = era0
    OBVIOUS
  <2> HIDE DEF entry
  <2>2. \A i \in DOMAIN executions' : executions'[i].at <= now /\ executions'[i].at < expiresAt
    BY <1>1, <1>2, <1>3, <2>1 DEF PolicyInv, EndsForGood
  <2>3. \A i \in DOMAIN executions' : executions'[i].era <= quota'[executions'[i].state].era
    BY <1>2, <1>3, <1>4, <2>1 DEF PolicyInv, Logged
  <2> QED BY <1>1, <2>2, <2>3 DEF Logged, EndsForGood
<1>8. ASSUME NEW l \in States, NEW era \in {0, 1}
      PROVE  countedIn(l, era)' = IF l = k /\ era = era0 THEN countedIn(l, era) \cup {n}
                                  ELSE countedIn(l, era)
  <2>1. entry.state = k /\ entry.era = era0
    OBVIOUS
  <2> QED BY <1>3, <2>1 DEF countedIn
<1>9. ASSUME NEW l \in States PROVE Remembers(l)'
  <2>1. CASE l = k
    <3>1. countedIn(k, quota[k].era)' = countedIn(k, era0) \cup {n}
      <4> HIDE DEF era0
      <4>1. entry.state = k /\ entry.era = era0
        OBVIOUS
      <4>2. {i \in DOMAIN executions' : executions'[i].state = k /\ executions'[i].era = era0}
              = countedIn(k, era0) \cup {n}
        <5> HIDE DEF entry
        <5> QED BY <1>3, <4>1 DEF countedIn
      <4>3. {i \in DOMAIN executions' : executions'[i].state = k /\ executions'[i].era = quota'[k].era}
              = countedIn(k, era0) \cup {n}
        BY <1>4, <4>2
      <4> QED BY <4>3 DEF countedIn
    <3>2. entry.at = now
      OBVIOUS
    <3>3. Instant(now, n) \in pruned
      BY <1>2, <1>5, PolicyAssumption DEF Instant
    <3>4. \A i \in countedIn(k, era0) :
             /\ executions'[i].at <= now
             /\ executions'[i].at > now - periodDuration => Instant(executions'[i].at, i) \in pruned
      BY <1>2, <1>3, <1>5 DEF PolicyInv, Remembers, countedIn, Instant
    <3>5. now # Undated
      BY <1>2 DEF Undated
    <3>6. \A i \in countedIn(k, era0) \cup {n} :
             /\ executions'[i].at <= now
             /\ executions'[i].at > now - periodDuration => Instant(executions'[i].at, i) \in pruned
      BY <1>2, <1>3, <3>2, <3>3, <3>4
    <3> HIDE DEF era0
    <3> QED BY <1>1, <1>4, <1>5, <2>1, <3>1, <3>5, <3>6 DEF Remembers
  <2>2. CASE l # k
    <3>1. quota'[l] = quota[l] /\ quota[l].era \in {0, 1}
      BY <1>4, <2>2 DEF PolicyInv, PolicyTypeOK
    <3>2. countedIn(l, quota[l].era)' = countedIn(l, quota[l].era)
      BY <1>8, <2>2, <3>1 DEF countedIn
    <3>3. \A i \in countedIn(l, quota[l].era) : executions'[i] = executions[i]
      BY <1>3 DEF countedIn
    <3> QED BY <1>1, <3>1, <3>2, <3>3 DEF PolicyInv, Remembers
  <2> QED BY <2>1, <2>2
<1>10. ASSUME NEW l \in States, NEW era \in {0, 1}, NEW t \in 0 .. now
       PROVE  Cardinality(within(countedIn(l, era), t)') <= maxExecutionsPerPeriod
  <2>1. entry.at = now
    OBVIOUS
  <2>2. \A i \in countedIn(l, era) : executions'[i] = executions[i]
    BY <1>3 DEF countedIn
  <2>3. Cardinality(within(countedIn(l, era), t)) <= maxExecutionsPerPeriod
    BY DEF PolicyInv, RateHeld
  <2>4. CASE ~(l = k /\ era = era0) \/ t # now
    <3>1. within(countedIn(l, era), t)' = within(countedIn(l, era), t)
      BY <1>2, <1>3, <1>8, <2>1, <2>2, <2>4 DEF within
    <3> QED BY <2>3, <3>1
  <2>5. CASE l = k /\ era = era0 /\ t = now
    <3> DEFINE W == within(countedIn(k, era0), now)
    <3>1. within(countedIn(l, era), t)' \in SUBSET (W \cup {n})
      BY <1>2, <1>8, <2>2, <2>5 DEF within
    <3>2. IsFiniteSet(W) /\ Cardinality(W) \in Nat
      BY ExecutionsAreFinite DEF countedIn, PolicyInv
    <3>3. IsFiniteSet(InWindow(quota[k].recentExecutions))
      BY FS_Subset DEF PolicyInv, Remembers, InWindow
    <3>4. Cardinality(W) < maxExecutionsPerPeriod
      <4>1. Cardinality(W) <= Cardinality(InWindow(quota[k].recentExecutions))
        BY ListCounts
      <4>2. Cardinality(InWindow(quota[k].recentExecutions)) < maxExecutionsPerPeriod
        BY <1>1 DEF WithinRate
      <4>3. Cardinality(InWindow(quota[k].recentExecutions)) \in Nat
        BY <3>3, FS_CardinalityType
      <4> QED BY <3>2, <4>1, <4>2, <4>3, PolicyAssumption
    <3> HIDE DEF W
    <3>5. /\ IsFiniteSet(W \cup {n}) /\ Cardinality(W \cup {n}) \in Nat
          /\ Cardinality(W \cup {n}) <= Cardinality(W) + 1
      <4>1. /\ IsFiniteSet(W \cup {n})
            /\ Cardinality(W \cup {n}) = IF n \in W THEN Cardinality(W) ELSE Cardinality(W) + 1
        BY <3>2, FS_AddElement
      <4> QED BY <3>2, <4>1
    <3>6. /\ Cardinality(within(countedIn(l, era), t)') <= Cardinality(W \cup {n})
          /\ Cardinality(within(countedIn(l, era), t)') \in Nat
      BY <3>1, <3>5, FS_Subset, FS_CardinalityType
    <3> QED BY <3>2, <3>4, <3>5, <3>6, PolicyAssumption
  <2> QED BY <2>4, <2>5
<1>11. ASSUME NEW l \in States, NEW era \in {0, 1}, NEW i \in countedIn(l, era)', NEW j \in countedIn(l, era)',
              i < j
       PROVE  executions'[i].at + cooldownInterval <= executions'[j].at
  <2>1. i \in DOMAIN executions \cup {n} /\ j \in DOMAIN executions \cup {n}
    BY <1>3 DEF countedIn
  <2>2. i \in DOMAIN executions /\ i \in countedIn(l, era)
    BY <1>2, <1>8, <1>11, <2>1
  <2>3. CASE j \in DOMAIN executions
    <3>1. j \in countedIn(l, era)
      BY <1>3, <1>8, <2>3
    <3> QED BY <1>3, <1>11, <2>2, <2>3, <3>1 DEF PolicyInv, RateHeld
  <2>4. CASE j = n
    <3>1. l = k /\ era = era0
      BY <1>2, <1>3, <1>8, <2>4 DEF countedIn
    <3>2. /\ quota[k].lastExecutionTime # Undated
          /\ executions[i].at <= quota[k].lastExecutionTime
      BY <2>2, <3>1 DEF PolicyInv, Remembers
    <3>3. quota[k].lastExecutionTime + cooldownInterval <= now
      BY <1>1, <3>2 DEF WithinRate
    <3>4. quota[k].lastExecutionTime \in Nat
      BY <3>2 DEF PolicyInv, PolicyTypeOK
    <3>5. executions'[i].at = executions[i].at /\ executions'[j].at = now
      BY <1>3, <2>2, <2>4
    <3> QED BY <1>2, <2>2, <3>2, <3>3, <3>4, <3>5, PolicyAssumption
  <2> QED BY <2>1, <2>3, <2>4
<1>12. RateHeld'
  BY <1>1, <1>10, <1>11 DEF RateHeld
<1>13. WithinScope'
  <2>1. entry.action = action /\ entry.stream = stream /\ entry.amount = amount
    OBVIOUS
  <2>2. InScope(action, stream) /\ amount <= maxAmountPerExecution
    BY DEF ExecutePolicy
  <2> HIDE DEF entry
  <2> QED BY <1>3, <2>1, <2>2 DEF PolicyInv, WithinScope, InScope
<1> QED
  BY <1>1, <1>2, <1>6, <1>7, <1>9, <1>12, <1>13 DEF PolicyInv

LEMMA PolicyStepKeepsInv ==
  ASSUME PolicyInv, [PolicyNext]_policyVars PROVE PolicyInv'
<1>1. CASE UNCHANGED policyVars
  <2>1. now' = now /\ policy' = policy /\ quota' = quota /\ executions' = executions
    BY <1>1 DEF policyVars
  <2>2. PolicyTypeOK' /\ Logged' /\ WithinScope' /\ EndsForGood'
    BY <2>1 DEF PolicyInv, PolicyTypeOK, Logged, WithinScope, InScope, EndsForGood
  <2>3. RateHeld' /\ \A k \in States : Remembers(k)'
    BY <2>1 DEF PolicyInv, Remembers, RateHeld, within, countedIn
  <2> QED BY <2>1, <2>2, <2>3 DEF PolicyInv
<1>2. ASSUME NEW k \in States, ResetExecutionState(k) PROVE PolicyInv'
  BY <1>2, ResetKeepsPolicyInv
<1>3. ASSUME NEW k \in States, NEW action \in Actions, NEW stream \in TargetStreams,
             NEW amount \in 0 .. maxAmountPerExecution + 1, ExecutePolicy(k, action, stream, amount)
      PROVE  PolicyInv'
  BY <1>3, ExecuteKeepsPolicyInv
<1>4. CASE Tick /\ UNCHANGED <<policy, quota, executions>>
  BY <1>4, PolicyTickKeepsInv
<1>5. CASE RevokePolicy
  BY <1>5, RevokeKeepsPolicyInv
<1> QED
  BY <1>1, <1>2, <1>3, <1>4, <1>5 DEF PolicyNext

\* Each quota has its share of the window, and every execution is in one.
LEMMA ExposureFromInv ==
  ASSUME PolicyInv PROVE ExposureBounded
<1> SUFFICES ASSUME NEW t \in 0 .. now
             PROVE  Cardinality(within(DOMAIN executions, t)) <= Cardinality(Quotas) * maxExecutionsPerPeriod
  BY DEF ExposureBounded
<1> DEFINE W == within(DOMAIN executions, t)
           part == [i \in W |-> <<executions[i].state, executions[i].era>>]
<1>1. \A i \in W : /\ i \in DOMAIN executions /\ executions[i].state \in States
                   /\ executions[i].era \in {0, 1} /\ executions[i].era <= quota[executions[i].state].era
  BY ExecutionsAre DEF PolicyInv, Logged, within
<1>2. part \in [W -> Quotas]
  <2>1. \A i \in W : part[i] \in Quotas
    BY <1>1 DEF Quotas
  <2> HIDE DEF W
  <2> QED BY <2>1
<1>3. ASSUME NEW q \in Quotas
      PROVE  LET P == {x \in W : part[x] = q} IN IsFiniteSet(P) /\ Cardinality(P) <= maxExecutionsPerPeriod
  <2>1. q = <<q[1], q[2]>> /\ q[1] \in States /\ q[2] \in {0, 1}
    BY DEF Quotas
  <2>2. {x \in W : part[x] = q} = within(countedIn(q[1], q[2]), t)
    <3>1. \A x \in W : part[x] = q <=> executions[x].state = q[1] /\ executions[x].era = q[2]
      BY <2>1
    <3> HIDE DEF part
    <3> QED BY <3>1 DEF within, countedIn
  <2>3. countedIn(q[1], q[2]) \in SUBSET DOMAIN executions
    BY DEF countedIn
  <2>4. Cardinality(within(countedIn(q[1], q[2]), t)) <= maxExecutionsPerPeriod
    BY <2>1 DEF PolicyInv, RateHeld
  <2>5. IsFiniteSet(within(countedIn(q[1], q[2]), t))
    BY <2>3, ExecutionsAreFinite DEF PolicyInv
  <2> QED BY <2>2, <2>4, <2>5
<1> HIDE DEF W, part
<1>4. Cardinality(W) <= Cardinality(Quotas) * maxExecutionsPerPeriod
  <2>1. IsFiniteSet(States \X {0, 1})
    <3>1. IsFiniteSet({0, 1})
      <4>1. IsFiniteSet({0})
        BY FS_Singleton
      <4>2. IsFiniteSet({0} \cup {1})
        BY <4>1, FS_AddElement
      <4>3. {0, 1} = {0} \cup {1}
        OBVIOUS
      <4> QED BY <4>2, <4>3
    <3> QED BY <3>1, PolicyAssumption, FS_Product
  <2>2. IsFiniteSet(Quotas)
    BY <2>1, FS_Subset DEF Quotas
  <2> QED BY <1>2, <1>3, <2>2, PolicyAssumption, PartsBound
<1> QED
  BY <1>4 DEF W

\* Each execution stays within what was delegated, and their number in any window
\* within the quotas signed, for any limits and any number of state contracts
\* (Policy/DelegatedPolicy.daml).
THEOREM PolicyIsSound == PolicySpec => []PolicySound
<1>1. PolicyInit => PolicyInv
  BY PolicyInitInv
<1>2. PolicyInv /\ [PolicyNext]_policyVars => PolicyInv'
  BY PolicyStepKeepsInv
<1>3. PolicyInv => PolicySound
  BY ExposureFromInv DEF PolicyInv, PolicySound
<1> QED
  BY <1>1, <1>2, <1>3, PTL DEF PolicySpec

----------------------------------------------------------------------------
(* Subscriber: no checkpoint ever passes an event given to no handler, for *)
(* any number of assets and loops, however they interleave on the two      *)
(* files and whenever the process dies.                                    *)

Offsets == 0 .. LogEnd
Maps == [Assets -> Offsets]
Contents == {Absent, Empty, Torn} \cup Maps

\* The events given to a handler, which may have died since.
given == handling \cup handled \cup lost

\* The events of a up to n are in S.
Reached(S, a, n) == \A m \in 1 .. n : <<a, m>> \in S
Covered(S, map) == \A a \in Assets : Reached(S, a, map[a])
ContentOK(S, c) == c \in Contents /\ Covered(S, Loaded(c))

LoopType ==
  [at : {"asleep", "written"}]
  \cup [at : {"poll"}, asset : Assets, from : Offsets]
  \cup [at : {"emitted"}, asset : Assets, end : Offsets]
  \cup [at : {"loaded"}, map : Maps]
  \cup [at : {"opened"}, map : Maps, fd : {"tmp", "file", "gone"}]

\* What a loop has in hand is covered: the offset it asks from, the one it is going
\* to save, the map it is going to write.
LoopOK(S, s) ==
  /\ s \in LoopType
  /\ s.at = "poll" => Reached(S, s.asset, s.from)
  /\ s.at = "emitted" => Reached(S, s.asset, s.end)
  /\ s.at \in {"loaded", "opened"} => Covered(S, s.map)

\* The inductive invariant: SubscriberSound does not mention what loops hold, and
\* any of it may end up in the file.
SubscriberInv ==
  /\ log \in [Assets -> Offsets]
  /\ current \in [Assets -> Loops]
  /\ (handling \cup lost) \subseteq Assets \X (1 .. LogEnd)
  /\ DOMAIN loop = Loops
  /\ ContentOK(given, file) /\ ContentOK(given, tmp)
  /\ \A l \in Loops : LoopOK(given, loop[l])

----------------------------------------------------------------------------
\* Genesis covers nothing, so a file nobody can read is harmless.
LEMMA GenesisCovered ==
  ASSUME NEW S PROVE Genesis \in Maps /\ Covered(S, Genesis)
<1>1. \A a : Reached(S, a, 0)
  BY SMT DEF Reached
<1>2. \A a \in Assets : Genesis[a] = 0
  BY DEF Genesis
<1>3. 0 \in Offsets
  BY SubscriberAssumption, SMT DEF Offsets
<1> QED
  BY <1>1, <1>2, <1>3 DEF Covered, Genesis, Maps

LEMMA LoadedCovered ==
  ASSUME NEW S, NEW c, ContentOK(S, c)
  PROVE  Loaded(c) \in Maps /\ Covered(S, Loaded(c))
  BY GenesisCovered DEF ContentOK, Contents, Loaded

LEMMA MapIsOK ==
  ASSUME NEW S, NEW map \in Maps, Covered(S, map)
  PROVE  ContentOK(S, map)
  BY GenesisCovered DEF ContentOK, Contents, Loaded

LEMMA MarkersAreOK ==
  ASSUME NEW S, NEW c \in {Absent, Empty, Torn}
  PROVE  ContentOK(S, c)
  BY GenesisCovered DEF ContentOK, Contents, Loaded

\* Coverage is kept while no event is forgotten.
LEMMA CoverageKept ==
  ASSUME NEW S, NEW R, S \subseteq R
  PROVE  /\ \A c : ContentOK(S, c) => ContentOK(R, c)
         /\ \A s : LoopOK(S, s) => LoopOK(R, s)
<1>1. \A a, n : Reached(S, a, n) => Reached(R, a, n)
  BY DEF Reached
<1>2. \A map : Covered(S, map) => Covered(R, map)
  BY <1>1 DEF Covered
<1> QED
  BY <1>1, <1>2 DEF ContentOK, LoopOK

\* At first there are no files, and every loop sleeps.
LEMMA SubscriberInitInv ==
  ASSUME SubscriberInit PROVE SubscriberInv
<1>1. \A a \in Assets : 0 \in Offsets
  BY SubscriberAssumption, SMT DEF Offsets
<1>2. LoopOK(given, Asleep)
  BY DEF LoopOK, LoopType, Asleep
<1> QED
  BY <1>1, <1>2, MarkersAreOK DEF SubscriberInit, SubscriberInv, Genesis

----------------------------------------------------------------------------
\* What a step that only moves one loop has to show.
LEMMA OneLoopMoves ==
  ASSUME SubscriberInv, NEW l \in Loops, NEW s,
         given \subseteq given', LoopOK(given', s), Becomes(l, s)
  PROVE  DOMAIN loop' = Loops /\ \A k \in Loops : LoopOK(given', loop'[k])
<1>1. \A k \in Loops : LoopOK(given', loop[k])
  BY CoverageKept DEF SubscriberInv
<1> QED
  BY <1>1 DEF Becomes, SubscriberInv

LEMMA FilesKept ==
  ASSUME SubscriberInv, given \subseteq given', file' = file, tmp' = tmp
  PROVE  ContentOK(given', file') /\ ContentOK(given', tmp')
  BY CoverageKept DEF SubscriberInv

LEMMA AsleepIsOK ==
  ASSUME NEW S PROVE LoopOK(S, Asleep)
  BY DEF LoopOK, LoopType, Asleep

LEMMA PollKeepsInv ==
  ASSUME SubscriberInv, NEW a \in Assets, Poll(a) PROVE SubscriberInv'
<1> DEFINE s == [at |-> "poll", asset |-> a, from |-> Loaded(file)[a]]
<1>1. current[a] \in Loops /\ given' = given /\ file' = file /\ tmp' = tmp
  BY DEF SubscriberInv, Poll, given
<1>2. Loaded(file) \in Maps /\ Covered(given, Loaded(file))
  BY LoadedCovered DEF SubscriberInv
<1>3. s \in LoopType /\ Reached(given', a, s.from)
  BY <1>1, <1>2 DEF Maps, Covered, LoopType
<1>4. LoopOK(given', s)
  BY <1>3 DEF LoopOK
<1>5. Becomes(current[a], s)
  BY DEF Poll
<1>6. DOMAIN loop' = Loops /\ \A k \in Loops : LoopOK(given', loop'[k])
  BY <1>1, <1>4, <1>5, OneLoopMoves
<1>7. ContentOK(given', file') /\ ContentOK(given', tmp')
  BY <1>1, FilesKept
<1> QED
  BY <1>6, <1>7 DEF SubscriberInv, Poll

\* The events a round asked for reach their handlers before the loop has an offset
\* to save.
LEMMA FetchKeepsInv ==
  ASSUME SubscriberInv, NEW l \in Loops, Fetch(l) PROVE SubscriberInv'
<1> DEFINE a == loop[l].asset
<1>1. /\ a \in Assets /\ loop[l].from \in Offsets
      /\ Reached(given, a, loop[l].from)
  BY DEF SubscriberInv, Fetch, At, LoopOK, LoopType
<1>2. PICK end \in loop[l].from .. log[a] :
         /\ handling' = handling \cup { <<a, n>> : n \in (loop[l].from + 1) .. end }
         /\ Becomes(l, [at |-> "emitted", asset |-> a, end |-> end])
  BY DEF Fetch, endOffset
<1>3. log[a] \in Offsets
  BY <1>1 DEF SubscriberInv
<1>4. end \in Offsets /\ (loop[l].from + 1) .. end \subseteq 1 .. LogEnd
  BY <1>1, <1>2, <1>3, SubscriberAssumption, SMT DEF Offsets
<1>5. UNCHANGED <<handled, lost, log, current, file, tmp>>
  BY DEF Fetch
<1>6. given \subseteq given'
  BY <1>2, <1>5 DEF given
<1>7. Reached(given', a, end)
  <2> SUFFICES ASSUME NEW m \in 1 .. end PROVE <<a, m>> \in given'
    BY DEF Reached
  <2>1. m \in 1 .. loop[l].from \/ m \in (loop[l].from + 1) .. end
    BY <1>1, <1>4, SubscriberAssumption, SMT DEF Offsets
  <2>2. CASE m \in 1 .. loop[l].from
    BY <1>1, <1>6, <2>2 DEF Reached
  <2>3. CASE m \in (loop[l].from + 1) .. end
    BY <1>2, <2>3 DEF given
  <2> QED
    BY <2>1, <2>2, <2>3
<1>8. LoopOK(given', [at |-> "emitted", asset |-> a, end |-> end])
  BY <1>1, <1>4, <1>7 DEF LoopOK, LoopType
<1>9. DOMAIN loop' = Loops /\ \A k \in Loops : LoopOK(given', loop'[k])
  BY <1>2, <1>6, <1>8, OneLoopMoves
<1>10. (handling \cup lost)' \subseteq Assets \X (1 .. LogEnd)
  BY <1>1, <1>2, <1>4, <1>5 DEF SubscriberInv
<1>11. ContentOK(given', file') /\ ContentOK(given', tmp')
  BY <1>5, <1>6, FilesKept
<1> QED
  BY <1>5, <1>9, <1>10, <1>11 DEF SubscriberInv

LEMMA LoadKeepsInv ==
  ASSUME SubscriberInv, NEW l \in Loops, Load(l) PROVE SubscriberInv'
<1> DEFINE map == [Loaded(file) EXCEPT ![loop[l].asset] = loop[l].end]
<1>1. /\ loop[l].asset \in Assets /\ loop[l].end \in Offsets
      /\ Reached(given, loop[l].asset, loop[l].end)
  BY DEF SubscriberInv, Load, At, LoopOK, LoopType
<1>2. Loaded(file) \in Maps /\ Covered(given, Loaded(file))
  BY LoadedCovered DEF SubscriberInv
<1>3. map \in Maps
  BY <1>1, <1>2 DEF Maps
<1>4. Covered(given, map)
  BY <1>1, <1>2 DEF Maps, Covered
<1>5. given' = given /\ file' = file /\ tmp' = tmp
  BY DEF Load, given
<1>6. LoopOK(given', [at |-> "loaded", map |-> map])
  BY <1>3, <1>4, <1>5 DEF LoopOK, LoopType
<1>7. Becomes(l, [at |-> "loaded", map |-> map])
  BY DEF Load
<1>8. DOMAIN loop' = Loops /\ \A k \in Loops : LoopOK(given', loop'[k])
  BY <1>5, <1>6, <1>7, OneLoopMoves
<1>9. ContentOK(given', file') /\ ContentOK(given', tmp')
  BY <1>5, FilesKept
<1> QED
  BY <1>8, <1>9 DEF SubscriberInv, Load

LEMMA OpenKeepsInv ==
  ASSUME SubscriberInv, NEW l \in Loops, Open(l) PROVE SubscriberInv'
<1> DEFINE s == [at |-> "opened", map |-> loop[l].map, fd |-> "tmp"]
<1>1. loop[l].map \in Maps /\ Covered(given, loop[l].map)
  BY DEF SubscriberInv, Open, At, LoopOK, LoopType
<1>2. given' = given /\ file' = file /\ tmp' = Empty
  BY DEF Open, given
<1>3. LoopOK(given', s)
  BY <1>1, <1>2 DEF LoopOK, LoopType
<1>4. Becomes(l, s)
  BY DEF Open
<1>5. DOMAIN loop' = Loops /\ \A k \in Loops : LoopOK(given', loop'[k])
  BY <1>2, <1>3, <1>4, OneLoopMoves
<1>6. ContentOK(given', file') /\ ContentOK(given', tmp')
  BY <1>2, MarkersAreOK DEF SubscriberInv
<1> QED
  BY <1>5, <1>6 DEF SubscriberInv, Open

\* Whatever file the loop wrote to, it holds the loop's map or nothing readable.
LEMMA WriteKeepsInv ==
  ASSUME SubscriberInv, NEW l \in Loops, Write(l) PROVE SubscriberInv'
<1>1. loop[l].map \in Maps /\ Covered(given, loop[l].map)
  BY DEF SubscriberInv, Write, At, LoopOK, LoopType
<1>2. given' = given
  BY DEF Write, given
<1>3. \A c : \A d \in Written(c, loop[l].map) : ContentOK(given, d)
  BY <1>1, MapIsOK, MarkersAreOK DEF Written
<1>4. ContentOK(given', tmp') /\ ContentOK(given', file')
  BY <1>2, <1>3 DEF Write, SubscriberInv
<1>5. LoopOK(given', [at |-> "written"])
  BY DEF LoopOK, LoopType
<1>6. DOMAIN loop' = Loops /\ \A k \in Loops : LoopOK(given', loop'[k])
  BY <1>2, <1>5, OneLoopMoves DEF Write
<1> QED
  BY <1>4, <1>6 DEF SubscriberInv, Write

LEMMA RenameKeepsInv ==
  ASSUME SubscriberInv, NEW l \in Loops, Rename(l) PROVE SubscriberInv'
<1>1. given' = given
  BY DEF Rename, given
<1>2. ContentOK(given', file') /\ ContentOK(given', tmp')
  BY <1>1, MarkersAreOK DEF Rename, SubscriberInv
<1>3. \A k \in Loops : LoopOK(given, Moved(k))
  <2> SUFFICES ASSUME NEW k \in Loops PROVE LoopOK(given, Moved(k))
    OBVIOUS
  <2>1. LoopOK(given, loop[k])
    BY DEF SubscriberInv
  <2>2. CASE ~At(k, "opened")
    BY <2>1, <2>2 DEF Moved
  <2>3. CASE At(k, "opened")
    <3>1. loop[k] \in [at : {"opened"}, map : Maps, fd : {"tmp", "file", "gone"}]
      BY <2>1, <2>3 DEF LoopOK, LoopType, At
    <3>2. /\ Moved(k) \in [at : {"opened"}, map : Maps, fd : {"tmp", "file", "gone"}]
          /\ Moved(k).map = loop[k].map
      BY <2>3, <3>1 DEF Moved
    <3> QED
      BY <2>1, <2>3, <3>2 DEF LoopOK, LoopType, At
  <2> QED
    BY <2>2, <2>3
<1>4. DOMAIN loop' = Loops /\ \A k \in Loops : LoopOK(given', loop'[k])
  <2>1. CASE tmp = Absent
    BY <1>1, <2>1, AsleepIsOK, OneLoopMoves DEF Rename
  <2>2. CASE tmp # Absent
    BY <1>1, <1>3, <2>2, AsleepIsOK DEF Rename
  <2> QED
    BY <2>1, <2>2
<1> QED
  BY <1>2, <1>4 DEF SubscriberInv, Rename

LEMMA RoundFailsKeepsInv ==
  ASSUME SubscriberInv, NEW l \in Loops, RoundFails(l) PROVE SubscriberInv'
<1>1. given' = given /\ file' = file /\ tmp' = tmp
  BY DEF RoundFails, given
<1>2. DOMAIN loop' = Loops /\ \A k \in Loops : LoopOK(given', loop'[k])
  BY <1>1, AsleepIsOK, OneLoopMoves DEF RoundFails
<1> QED
  BY <1>1, <1>2 DEF SubscriberInv, RoundFails

\* An event that is handled was being handled: none is forgotten.
LEMMA HandlerEndsKeepsInv ==
  ASSUME SubscriberInv, NEW e \in handling, HandlerEnds(e) PROVE SubscriberInv'
<1>1. given' = given
  BY DEF HandlerEnds, given
<1> QED
  BY <1>1 DEF SubscriberInv, HandlerEnds

LEMMA AroundKeepsInv ==
  ASSUME SubscriberInv, NEW a \in Assets,
         Settles(a) \/ \E l \in Loops : StopStart(a, l)
  PROVE  SubscriberInv'
<1>1. /\ given' = given /\ file' = file /\ tmp' = tmp /\ loop' = loop
      /\ handling' = handling /\ lost' = lost
  BY DEF Settles, StopStart, given
<1>2. CASE Settles(a)
  <2>1. log[a] + 1 \in Offsets
    BY <1>2, SubscriberAssumption, SMT DEF Settles, SubscriberInv, Offsets
  <2> QED
    BY <1>1, <1>2, <2>1 DEF Settles, SubscriberInv
<1>3. CASE \E l \in Loops : StopStart(a, l)
  BY <1>1, <1>3 DEF StopStart, SubscriberInv
<1> QED
  BY <1>2, <1>3

\* A crash loses what loops had in hand and the handlers that run, which were given
\* their events.
LEMMA CrashKeepsInv ==
  ASSUME SubscriberInv, Crash PROVE SubscriberInv'
<1>1. given' = given /\ handling' \cup lost' = handling \cup lost
  BY DEF Crash, given
<1> QED
  BY <1>1, AsleepIsOK DEF SubscriberInv, Crash

LEMMA SubscriberStepKeepsInv ==
  ASSUME SubscriberInv, [SubscriberNext]_subscriberVars PROVE SubscriberInv'
<1>1. CASE UNCHANGED subscriberVars
  BY <1>1 DEF subscriberVars, SubscriberInv, given
<1>2. CASE SubscriberNext
  BY <1>2, PollKeepsInv, FetchKeepsInv, LoadKeepsInv, OpenKeepsInv, WriteKeepsInv, RenameKeepsInv,
     RoundFailsKeepsInv, HandlerEndsKeepsInv, AroundKeepsInv, CrashKeepsInv
  DEF SubscriberNext
<1> QED
  BY <1>1, <1>2

LEMMA InvIsEnough ==
  ASSUME SubscriberInv PROVE SubscriberSound
<1>1. Loaded(file) \in Maps /\ Covered(given, Loaded(file)) /\ Loaded(tmp) \in Maps
  BY LoadedCovered DEF SubscriberInv
<1>2. SubscriberTypeOK
  BY <1>1 DEF SubscriberInv, SubscriberTypeOK, Maps, Offsets
<1>3. NothingSkipped
  BY <1>1 DEF NothingSkipped, Covered, Reached, given
<1> QED
  BY <1>2, <1>3 DEF SubscriberSound

\* A checkpoint never passes an event given to no handler, whatever the loops do to
\* each other's files and whenever the process dies: what a crash can lose is only
\* what the handlers running then had (transfer-events-subscriber.ts:635-642).
THEOREM NoEventIsSkipped == SubscriberSpec => []SubscriberSound
<1>1. SubscriberInit => SubscriberInv
  BY SubscriberInitInv
<1>2. SubscriberInv /\ [SubscriberNext]_subscriberVars => SubscriberInv'
  BY SubscriberStepKeepsInv
<1>3. SubscriberInv => SubscriberSound
  BY InvIsEnough
<1> QED
  BY <1>1, <1>2, <1>3, PTL DEF SubscriberSpec

----------------------------------------------------------------------------
(* ReceiverClaim: whatever order the two wallets and the lane take their   *)
(* steps in, the row of the stream counts only what was delivered, and a   *)
(* payer who funds one cycle at a time strands no delivery and, unless it  *)
(* catches up, pays, unless a caller chose otherwise, one period for every *)
(* period gone by.  The last two rest on one                               *)
(* record per cycle: a session is given a cycle no record has, and what it *)
(* is given reaches the record before the contract that is claimed.        *)

\* The least of a set of natural numbers, and the greatest of a finite one.
LEMMA LeastNat ==
  ASSUME NEW S \in SUBSET Nat, S # {}
  PROVE  \E n \in S : \A m \in S : n <= m
<1> DEFINE R == {ss \in Nat \X Nat : ss[1] < ss[2]}
<1>1. IsWellFoundedOn(R, Nat)
  BY NatLessThanWellFounded DEF OpToRel
<1>2. PICK x \in S : \A y \in S : ~ (<<y, x>> \in R)
  <2> HIDE DEF R
  <2> QED BY <1>1, WFMin
<1>3. \A y \in S : x <= y
  <2> TAKE y \in S
  <2>1. <<y, x>> \notin R  BY <1>2
  <2>2. ~(y < x)  BY <2>1
  <2> QED BY <2>2
<1> QED
  BY <1>3

LEMMA GreatestNat ==
  ASSUME NEW S \in SUBSET Nat, S # {}, IsFiniteSet(S)
  PROVE  Max(S) \in S /\ \A m \in S : m <= Max(S)
<1> DEFINE f == [x \in S |-> x]
           bounds == {n \in Nat : \A m \in S : m <= n}
<1>1. Summable(f) /\ \A x \in S : f[x] = x
  BY DEF Summable
<1>2. Total(f) \in Nat /\ DOMAIN f = S
  BY <1>1, UnitsFinite
<1>3. \A m \in S : m <= Total(f)
  <2> TAKE m \in S
  <2>1. f[m] <= Total(f)
    <3> HIDE DEF f
    <3> QED BY <1>1, <1>2, TotalWithout
  <2> QED BY <1>1, <2>1
<1>4. bounds # {} /\ bounds \in SUBSET Nat
  BY <1>2, <1>3
<1>5. PICK n \in bounds : \A b \in bounds : n <= b
  <2> HIDE DEF bounds
  <2> QED BY <1>4, LeastNat
<1>6. n \in S
  <2> SUFFICES ASSUME n \notin S PROVE FALSE
    OBVIOUS
  <2>1. \A m \in S : m < n /\ m \in Nat /\ m <= n - 1
    BY <1>5
  <2>2. n - 1 \in bounds
    <3>1. PICK m \in S : TRUE
      OBVIOUS
    <3>2. n - 1 \in Nat
      BY <1>5, <2>1, <3>1
    <3> QED BY <2>1, <3>2
  <2> QED BY <1>5, <2>2
<1>7. n \in S /\ \A m \in S : n >= m
  BY <1>5, <1>6
<1> QED
  BY <1>7 DEF Max

\* The terms a payer that does not catch up gets when it chooses nothing: one
\* period at most, unlocked when the cycle is over.
Regular(cycle, t) ==
  ~payer.catchUp /\ ~t.chosen => t.amount <= PeriodRate /\ cycle <= t.unlockAt

\* What is held names what is on chain, under the same reference.
ClaimRefers ==
  /\ \A k \in DOMAIN lane.claims :
       /\ lane.claims[k].allocation \in DOMAIN allocations
       /\ allocations[lane.claims[k].allocation].cycle = lane.claims[k].cycle
       /\ Regular(lane.claims[k].cycle, lane.claims[k].terms)
  /\ \A c \in DOMAIN claimable : claimable[c].allocation \in DOMAIN allocations
  /\ \A f \in Sessions :
       /\ session[f].step \in {"prepared", "allocated"} =>
            Regular(session[f].cycle, session[f].terms)
       /\ session[f].step \in {"recorded", "drafted", "created"} =>
            session[f].allocation \in DOMAIN allocations

\* A settlement that is no claim is numbered by its place in the history.
HistoryNumbered ==
  \A k \in DOMAIN lane.history : lane.history[k].update \in DOMAIN allocations \cup {-k}

OneAtATime ==
  \A f, g \in Sessions : session[f].step # "closed" /\ session[g].step # "closed" => f = g

OneRecordEach ==
  /\ \A k, l \in DOMAIN lane.claims : lane.claims[k].cycle = lane.claims[l].cycle => k = l
  /\ \A f \in Sessions : session[f].step \in {"prepared", "allocated"} =>
       \A k \in DOMAIN lane.claims : lane.claims[k].cycle # session[f].cycle
  /\ \A k \in DOMAIN lane.claims : lane.claims[k].status = "claimed" =>
       Claimed(lane.claims[k].allocation)

RecordedAs(i, t) ==
  \E k \in DOMAIN lane.claims : lane.claims[k].allocation = i /\ lane.claims[k].terms = t

\* What was claimed is recorded as it was claimed.
FromRecords ==
  /\ \A f \in Sessions : session[f].step = "drafted" =>
       RecordedAs(session[f].allocation, session[f].terms)
  /\ \A c \in DOMAIN claimable : RecordedAs(claimable[c].allocation, claimable[c].terms)
  /\ \A i \in DOMAIN allocations : allocations[i].fate = "executed" =>
       \E t \in ClaimTerms :
         /\ RecordedAs(i, t)
         /\ t.amount = allocations[i].amount /\ t.chosen = allocations[i].chosen
         /\ t.unlockAt <= now

ClaimInv ==
  /\ now \in Nat
  /\ ClaimTypeOK
  /\ ClaimRefers
  /\ HistoryNumbered
  /\ ClaimsAreDeliveries
  /\ payer.serial => OneAtATime /\ OneRecordEach /\ FromRecords

LaneRow ==
  [ status : {"active", "stopped"}, settled : Nat, cycles : Nat,
    history : Seq([update : Int, amount : Nat \ {0}]), claims : Seq(ClaimRecord) ]

LEMMA ClaimFacts ==
  ASSUME ClaimTypeOK
  PROVE  /\ payer \in Payers /\ payer.serial \in BOOLEAN /\ payer.catchUp \in BOOLEAN
         /\ payer.termEnd \in Nat
         /\ PeriodRate \in Nat \ {0} /\ SettleWindow \in Nat \ {0}
         /\ lane \in LaneRow
         /\ lane.settled \in Nat /\ lane.cycles \in Nat
         /\ lane.history \in Seq([update : Int, amount : Nat \ {0}])
         /\ DOMAIN lane.history = 1 .. Len(lane.history) /\ Len(lane.history) \in Nat
         /\ \A k \in DOMAIN lane.history : /\ lane.history[k].update \in Int
                                           /\ lane.history[k].amount \in Nat \ {0}
         /\ lane.claims \in Seq(ClaimRecord)
         /\ DOMAIN lane.claims = 1 .. Len(lane.claims) /\ Len(lane.claims) \in Nat
         /\ \A k \in DOMAIN lane.claims : lane.claims[k] \in ClaimRecord
         /\ DOMAIN allocations = 1 .. Len(allocations) /\ Len(allocations) \in Nat
         /\ allocations \in Seq(Allocation)
         /\ \A i \in DOMAIN allocations : allocations[i] \in Allocation
         /\ claimable \in Seq(ClaimContract)
         /\ DOMAIN claimable = 1 .. Len(claimable) /\ Len(claimable) \in Nat
         /\ \A c \in DOMAIN claimable : claimable[c] \in ClaimContract
         /\ session \in [Sessions -> FundingSession]
<1> USE DEF ClaimTypeOK
<1>1. payer \in Payers /\ payer \in [serial : BOOLEAN, catchUp : BOOLEAN, termEnd : Nat]
  BY ClaimAssumption
<1>2. lane \in LaneRow /\ session \in [Sessions -> FundingSession]
  BY DEF LaneRow
<1>3. /\ lane.settled \in Nat /\ lane.cycles \in Nat
      /\ lane.history \in Seq([update : Int, amount : Nat \ {0}])
      /\ lane.claims \in Seq(ClaimRecord)
  BY <1>2 DEF LaneRow
<1>4. /\ DOMAIN lane.history = 1 .. Len(lane.history) /\ Len(lane.history) \in Nat
      /\ \A k \in DOMAIN lane.history : lane.history[k] \in [update : Int, amount : Nat \ {0}]
  <2> DEFINE E == [update : Int, amount : Nat \ {0}]
  <2>1. lane.history \in Seq(E)
    BY <1>3
  <2> HIDE DEF E
  <2>2. DOMAIN lane.history = 1 .. Len(lane.history) /\ Len(lane.history) \in Nat
    BY <2>1, LenProperties
  <2>3. \A k \in DOMAIN lane.history : lane.history[k] \in E
    BY <2>1, <2>2, ElementOfSeq
  <2> QED BY <2>2, <2>3 DEF E
<1>5. \A k \in DOMAIN lane.history : /\ lane.history[k].update \in Int
                                     /\ lane.history[k].amount \in Nat \ {0}
  BY <1>4
<1>6. /\ DOMAIN lane.claims = 1 .. Len(lane.claims) /\ Len(lane.claims) \in Nat
      /\ \A k \in DOMAIN lane.claims : lane.claims[k] \in ClaimRecord
  BY <1>3, LenProperties, ElementOfSeq
<1>7. /\ DOMAIN allocations = 1 .. Len(allocations) /\ Len(allocations) \in Nat
      /\ \A i \in DOMAIN allocations : allocations[i] \in Allocation
  BY LenProperties, ElementOfSeq
<1>8. /\ DOMAIN claimable = 1 .. Len(claimable) /\ Len(claimable) \in Nat
      /\ \A c \in DOMAIN claimable : claimable[c] \in ClaimContract
  BY LenProperties, ElementOfSeq
<1> QED
  BY <1>1, <1>2, <1>3, <1>4, <1>5, <1>6, <1>7, <1>8, ClaimAssumption

\* A positive update of the history names a delivery.
LEMMA HistoryRefers ==
  ASSUME ClaimInv
  PROVE  \A k \in DOMAIN lane.history : lane.history[k].update > 0 =>
           lane.history[k].update \in DOMAIN allocations
<1> SUFFICES ASSUME NEW k \in DOMAIN lane.history, lane.history[k].update > 0
             PROVE  lane.history[k].update \in DOMAIN allocations
  OBVIOUS
<1>1. lane.history[k].update \in DOMAIN allocations \cup {-k}
  BY DEF ClaimInv, HistoryNumbered
<1>2. k \in Nat /\ -k <= 0
  <2>1. DOMAIN lane.history = 1 .. Len(lane.history) /\ Len(lane.history) \in Nat
    BY ClaimFacts DEF ClaimInv
  <2> QED BY <2>1
<1> QED BY <1>1, <1>2

\* A cycle is given out once: it follows every cycle a record was made for.
LEMMA NextCycleIsNew ==
  ASSUME ClaimTypeOK
  PROVE  /\ nextClaimCycle(lane) \in Nat \ {0}
         /\ \A k \in DOMAIN lane.claims : lane.claims[k].cycle < nextClaimCycle(lane)
<1> DEFINE cyclesHad == { lane.claims[k].cycle : k \in DOMAIN lane.claims }
           S == {lane.cycles} \cup cyclesHad
<1>1. cyclesHad \in SUBSET Nat /\ lane.cycles \in Nat
  BY ClaimFacts DEF ClaimRecord
<1>2. IsFiniteSet(cyclesHad)
  <2> DEFINE D == DOMAIN lane.claims
             f == [k \in D |-> lane.claims[k].cycle]
  <2>1. IsFiniteSet(D)
    <3> DEFINE n == Len(lane.claims)
    <3>1. D = 1 .. n /\ n \in Int
      BY ClaimFacts
    <3> HIDE DEF D, n, cyclesHad, S
    <3>2. IsFiniteSet(1 .. n)
      BY <3>1, FS_Interval
    <3> QED BY <3>1, <3>2
  <2>2. f \in Surjection(D, cyclesHad)
    BY DEF Surjection
  <2> HIDE DEF D, f, cyclesHad
  <2> QED BY <2>1, <2>2, FS_Surjection
<1>3. IsFiniteSet(S) /\ S # {} /\ S \in SUBSET Nat
  <2>1. IsFiniteSet(cyclesHad \cup {lane.cycles})
    BY <1>2, FS_AddElement
  <2>2. S = cyclesHad \cup {lane.cycles}
    OBVIOUS
  <2> QED BY <1>1, <2>1, <2>2
<1>4. Max(S) \in Nat /\ \A m \in S : m <= Max(S)
  <2> HIDE DEF S
  <2> QED BY <1>3, GreatestNat
<1>5. nextClaimCycle(lane) = Max(S) + 1
  BY DEF nextClaimCycle
<1>6. \A k \in DOMAIN lane.claims : lane.claims[k].cycle \in S
  OBVIOUS
<1>7. \A k \in DOMAIN lane.claims : lane.claims[k].cycle \in Nat
  BY ClaimFacts DEF ClaimRecord
<1> HIDE DEF S
<1>8. \A k \in DOMAIN lane.claims : lane.claims[k].cycle <= Max(S)
  BY <1>4, <1>6
<1> QED
  BY <1>4, <1>5, <1>7, <1>8

\* What is due is at most what accrued, and one period for who does not catch up.
LEMMA DueFacts ==
  ASSUME now \in Nat, ClaimTypeOK
  PROVE  /\ claimDue \in Nat
         /\ ~payer.catchUp => claimDue <= PeriodRate
<1> DEFINE past == IF payer.termEnd # 0 /\ payer.termEnd < now THEN payer.termEnd ELSE now
           arrears == PeriodRate * past - lane.settled
<1>1. past \in Nat /\ PeriodRate * past \in Nat
  <2>1. past \in Nat /\ PeriodRate \in Nat
    BY ClaimFacts
  <2> HIDE DEF past
  <2> QED BY <2>1
<1>2. arrears \in Int /\ PeriodRate \in Nat
  BY <1>1, ClaimFacts
<1>3. claimDue = IF lane.status = "stopped" \/ arrears <= 0 THEN 0
                 ELSE IF payer.catchUp \/ arrears < PeriodRate THEN arrears
                 ELSE PeriodRate
  BY DEF claimDue
<1> HIDE DEF arrears
<1> QED
  BY <1>2, <1>3

\* What a row's history adds up to.
LEMMA HistorySums ==
  ASSUME NEW h \in Seq([update : Int, amount : Nat \ {0}]),
         NEW e \in [update : Int, amount : Nat \ {0}]
  PROVE  /\ Append(h, e) \in Seq([update : Int, amount : Nat \ {0}])
         /\ Len(Append(h, e)) = Len(h) + 1 /\ DOMAIN Append(h, e) = 1 .. (Len(h) + 1)
         /\ \A k \in 1 .. Len(h) : Append(h, e)[k] = h[k]
         /\ Append(h, e)[Len(h) + 1] = e
         /\ Total([k \in DOMAIN Append(h, e) |-> Append(h, e)[k].amount])
              = Total([k \in DOMAIN h |-> h[k].amount]) + e.amount
<1> DEFINE E == [update : Int, amount : Nat \ {0}]
           n == Len(h)
           r == Append(h, e)
           f == [k \in 1 .. n |-> h[k].amount]
           g == [k \in 1 .. (n + 1) |-> r[k].amount]
<1>1. n \in Nat /\ DOMAIN h = 1 .. n /\ \A k \in 1 .. n : h[k] \in E
  BY LenProperties, ElementOfSeq
<1>2. /\ r \in Seq(E) /\ Len(r) = n + 1 /\ DOMAIN r = 1 .. (n + 1)
      /\ \A k \in 1 .. n : r[k] = h[k]
      /\ r[n + 1] = e
  <2>1. h \in Seq(E) /\ e \in E
    OBVIOUS
  <2> HIDE DEF E
  <2>2. r \in Seq(E) /\ Len(r) = n + 1
    BY <2>1
  <2>3. DOMAIN r = 1 .. (n + 1)
    BY <2>2, LenProperties
  <2>4. \A k \in 1 .. n : r[k] = h[k]
    BY <2>1, <1>1
  <2>5. r[n + 1] = e
    BY <2>1, <1>1
  <2> QED BY <2>2, <2>3, <2>4, <2>5
<1> HIDE DEF r
<1>3. Summable(f)
  <2>1. IsFiniteSet(1 .. n)
    BY <1>1, FS_Interval
  <2>2. \A k \in 1 .. n : h[k].amount \in Nat
    BY <1>1
  <2> QED BY <2>1, <2>2 DEF Summable
<1>4. /\ n + 1 \notin DOMAIN f /\ DOMAIN g = DOMAIN f \cup {n + 1}
      /\ \A k \in DOMAIN f : g[k] = f[k]
      /\ g[n + 1] = e.amount /\ e.amount \in Nat
      /\ f = [k \in DOMAIN f |-> f[k]]
  BY <1>1, <1>2
<1>5. Total(g) = Total(f) + g[n + 1]
  <2> HIDE DEF f, g
  <2> QED BY <1>3, <1>4, TotalExtends
<1> QED
  BY <1>1, <1>2, <1>4, <1>5 DEF r

LEMMA ClaimInitInv ==
  ASSUME ClaimInit PROVE ClaimInv
<1>1. /\ now = 0 /\ payer \in Payers /\ allocations = <<>> /\ claimable = <<>>
      /\ lane = [status |-> "active", settled |-> 0, cycles |-> 0, history |-> <<>>, claims |-> <<>>]
      /\ session = [f \in Sessions |-> Closed]
  BY DEF ClaimInit
<1>2. /\ lane.history = <<>> /\ lane.claims = <<>> /\ lane.settled = 0
      /\ \A f \in Sessions : session[f].step = "closed"
  BY <1>1 DEF Closed
<1>3. now \in Nat /\ ClaimTypeOK
  BY <1>1, EmptySeq DEF ClaimTypeOK, FundingSession
<1>4. DOMAIN lane.history = {} /\ DOMAIN lane.claims = {} /\ DOMAIN allocations = {}
      /\ DOMAIN claimable = {}
  BY <1>1, <1>2
<1>5. ClaimRefers /\ HistoryNumbered
  BY <1>2, <1>4 DEF ClaimRefers, HistoryNumbered
<1>6. ClaimsAreDeliveries
  <2>1. Total([k \in DOMAIN lane.history |-> lane.history[k].amount]) = 0
    BY <1>4, TotalOfNothing
  <2> QED BY <1>2, <1>4, <2>1 DEF ClaimsAreDeliveries
<1>7. OneAtATime /\ OneRecordEach /\ FromRecords
  BY <1>2, <1>4 DEF OneAtATime, OneRecordEach, FromRecords
<1> QED
  BY <1>3, <1>5, <1>6, <1>7 DEF ClaimInv

LEMMA ClaimTick ==
  ASSUME ClaimInv, Tick, UNCHANGED <<payer, lane, allocations, claimable, session>>
  PROVE  ClaimInv'
<1>1. now \in Nat /\ now' = now + 1
  BY DEF ClaimInv, Tick
<1>2. now' \in Nat /\ ClaimTypeOK' /\ ClaimRefers' /\ HistoryNumbered' /\ ClaimsAreDeliveries'
  BY <1>1 DEF ClaimInv, ClaimTypeOK, ClaimRefers, Regular, HistoryNumbered, ClaimsAreDeliveries
<1>3. ASSUME payer.serial PROVE (OneAtATime /\ OneRecordEach)'
  BY <1>3 DEF ClaimInv, OneAtATime, OneRecordEach, Claimed
<1>4. ASSUME payer.serial PROVE FromRecords'
  <2>1. FromRecords
    BY <1>4 DEF ClaimInv
  <2>2. \A t \in ClaimTerms : t.unlockAt <= now => t.unlockAt <= now'
    BY <1>1 DEF ClaimTerms
  <2> QED BY <2>1, <2>2 DEF FromRecords, RecordedAs
<1>5. payer' = payer
  OBVIOUS
<1> QED
  BY <1>2, <1>3, <1>4, <1>5 DEF ClaimInv

\* A credit: the history grows by an update it does not have.
LEMMA CreditKeepsBooks ==
  ASSUME ClaimInv, NEW u \in Int, NEW amount \in Nat \ {0}, NEW cycle \in Nat,
         \A k \in DOMAIN lane.history : lane.history[k].update # u,
         u \in DOMAIN allocations \cup {-Len(lane.history) - 1},
         u > 0 => allocations[u].fate = "executed" /\ amount <= allocations[u].amount,
         NEW claims \in Seq(ClaimRecord),
         lane' = [CreditedLane(lane, u, amount, cycle) EXCEPT !.claims = claims],
         UNCHANGED <<payer, allocations, claimable, session>>
  PROVE  /\ ClaimTypeOK' /\ HistoryNumbered' /\ ClaimsAreDeliveries'
         /\ lane'.claims = claims
         /\ \A v : Claimed(v) => Claimed(v)'
         /\ Claimed(u)'
<1> DEFINE h == lane.history
           e == [update |-> u, amount |-> amount]
           n == Len(h)
<1>1. ClaimTypeOK /\ now \in Nat
  BY DEF ClaimInv
<1>2. /\ h \in Seq([update : Int, amount : Nat \ {0}]) /\ e \in [update : Int, amount : Nat \ {0}]
      /\ DOMAIN h = 1 .. n /\ n \in Nat /\ lane \in LaneRow /\ lane.settled \in Nat
      /\ lane.cycles \in Nat
  BY <1>1, ClaimFacts
<1>3. /\ lane'.history = Append(h, e) /\ lane'.settled = lane.settled + amount
      /\ lane'.claims = claims /\ lane' \in LaneRow
  <2>1. Append(h, e) \in Seq([update : Int, amount : Nat \ {0}])
    BY <1>2, HistorySums
  <2>2. lane' = [ lane EXCEPT !.settled = @ + amount, !.cycles = IF @ < cycle THEN cycle ELSE @,
                              !.history = Append(h, e), !.claims = claims ]
    BY <1>2 DEF CreditedLane, LaneRow
  <2>3. lane.settled + amount \in Nat /\ (IF lane.cycles < cycle THEN cycle ELSE lane.cycles) \in Nat
    BY <1>2
  <2> HIDE DEF h, e
  <2> QED BY <1>2, <2>1, <2>2, <2>3 DEF LaneRow
<1>4. /\ DOMAIN Append(h, e) = 1 .. (n + 1)
      /\ \A k \in 1 .. n : Append(h, e)[k] = h[k]
      /\ Append(h, e)[n + 1] = e
      /\ Total([k \in DOMAIN Append(h, e) |-> Append(h, e)[k].amount])
           = Total([k \in DOMAIN h |-> h[k].amount]) + amount
  BY <1>2, HistorySums
<1> DEFINE r == lane'.history
<1>5. /\ DOMAIN r = 1 .. (n + 1)
      /\ \A k \in 1 .. n : r[k] = h[k]
      /\ r[n + 1].update = u /\ r[n + 1].amount = amount
      /\ Total([k \in DOMAIN r |-> r[k].amount]) = Total([k \in DOMAIN h |-> h[k].amount]) + amount
  <2>1. r = Append(h, e)
    BY <1>3
  <2>2. e.update = u /\ e.amount = amount
    OBVIOUS
  <2> HIDE DEF h, e, r
  <2> QED BY <1>4, <2>1, <2>2
<1>a. /\ \A k, l \in 1 .. n : k # l => h[k].update # h[l].update
      /\ \A k \in 1 .. n : h[k].update # u
      /\ \A k \in 1 .. n : h[k].update \in DOMAIN allocations \cup {-k}
      /\ \A k \in 1 .. n : h[k].update > 0 =>
           /\ allocations[h[k].update].fate = "executed"
           /\ h[k].amount <= allocations[h[k].update].amount
  BY <1>2 DEF ClaimInv, ClaimsAreDeliveries, HistoryNumbered
<1>b. \A k \in 1 .. (n + 1) : k \in 1 .. n \/ k = n + 1
  BY <1>2
<1>c. \A k \in 1 .. n : k \in 1 .. (n + 1)
  BY <1>2
<1>6. ClaimTypeOK'
  BY <1>1, <1>3 DEF ClaimTypeOK, LaneRow
<1>7. HistoryNumbered'
  <2>2. -Len(lane.history) - 1 = -(n + 1)
    BY <1>2
  <2>3. \A k \in 1 .. (n + 1) : r[k].update \in DOMAIN allocations \cup {-k}
    <3> HIDE DEF h, r
    <3> QED BY <1>5, <1>a, <1>b, <2>2
  <2> QED BY <1>5, <2>3 DEF HistoryNumbered
<1>8. ClaimsAreDeliveries'
  <2>1. \A k, l \in 1 .. (n + 1) : k # l => r[k].update # r[l].update
    <3> HIDE DEF h, r
    <3> QED BY <1>5, <1>a, <1>b
  <2>2. \A k \in 1 .. (n + 1) : r[k].update > 0 =>
          /\ allocations[r[k].update].fate = "executed"
          /\ r[k].amount <= allocations[r[k].update].amount
    <3> HIDE DEF h, r
    <3> QED BY <1>5, <1>a, <1>b
  <2>3. lane'.settled = Total([k \in DOMAIN r |-> r[k].amount])
    BY <1>3, <1>5 DEF ClaimInv, ClaimsAreDeliveries
  <2> QED BY <1>5, <2>1, <2>2, <2>3 DEF ClaimsAreDeliveries
<1>9. \A v : Claimed(v) => Claimed(v)'
  <2>1. \A v : Claimed(v) => \E k \in 1 .. n : h[k].update = v
    BY <1>2 DEF Claimed
  <2>2. \A v : (\E k \in 1 .. (n + 1) : r[k].update = v) => Claimed(v)'
    BY <1>5 DEF Claimed
  <2> HIDE DEF h, r
  <2> QED BY <1>5, <1>c, <2>1, <2>2
<1>10. Claimed(u)'
  <2>1. n + 1 \in DOMAIN r
    BY <1>2, <1>5
  <2> QED BY <1>5, <2>1 DEF Claimed
<1> QED
  BY <1>3, <1>6, <1>7, <1>8, <1>9, <1>10

LEMMA OtherCycleKeepsInv ==
  ASSUME ClaimInv, OtherCycle PROVE ClaimInv'
<1> DEFINE u == -Len(lane.history) - 1
<1>1. /\ claimDue > 0 /\ lane' = CreditedLane(lane, u, claimDue, lane.cycles + 1)
      /\ UNCHANGED <<now, payer, allocations, claimable, session>>
  BY DEF OtherCycle
<1>2. ClaimTypeOK /\ now \in Nat
  BY DEF ClaimInv
<1>3. /\ DOMAIN lane.history = 1 .. Len(lane.history) /\ Len(lane.history) \in Nat
      /\ DOMAIN allocations = 1 .. Len(allocations) /\ Len(allocations) \in Nat
      /\ lane.claims \in Seq(ClaimRecord) /\ lane \in LaneRow /\ lane.cycles \in Nat
  BY <1>2, ClaimFacts
<1>4. u \in Int /\ ~(u > 0) /\ claimDue \in Nat \ {0} /\ lane.cycles + 1 \in Nat
  BY <1>1, <1>2, <1>3, DueFacts
<1>5. \A k \in DOMAIN lane.history : lane.history[k].update # u
  <2>1. \A k \in DOMAIN lane.history : lane.history[k].update \in DOMAIN allocations \cup {-k}
    BY DEF ClaimInv, HistoryNumbered
  <2> QED BY <1>3, <2>1
<1>6. lane' = [CreditedLane(lane, u, claimDue, lane.cycles + 1) EXCEPT !.claims = lane.claims]
  BY <1>1, <1>3 DEF CreditedLane, LaneRow
<1> HIDE DEF u
<1>7. u \in DOMAIN allocations \cup {-Len(lane.history) - 1}
  BY DEF u
<1>8. /\ ClaimTypeOK' /\ HistoryNumbered' /\ ClaimsAreDeliveries'
      /\ lane'.claims = lane.claims /\ \A v : Claimed(v) => Claimed(v)'
  BY <1>1, <1>3, <1>4, <1>5, <1>6, <1>7, CreditKeepsBooks
<1>9. ClaimRefers'
  BY <1>1, <1>8 DEF ClaimInv, ClaimRefers, Regular
<1>10. ASSUME payer.serial PROVE (OneAtATime /\ OneRecordEach /\ FromRecords)'
  BY <1>1, <1>8, <1>10 DEF ClaimInv, OneAtATime, OneRecordEach, FromRecords, RecordedAs
<1> QED
  BY <1>1, <1>2, <1>8, <1>9, <1>10 DEF ClaimInv

LEMMA StopLaneKeepsInv ==
  ASSUME ClaimInv, stopLane PROVE ClaimInv'
<1>1. /\ lane' = [lane EXCEPT !.status = "stopped"]
      /\ UNCHANGED <<now, payer, allocations, claimable, session>>
  BY DEF stopLane
<1>2. ClaimTypeOK /\ now \in Nat /\ lane \in LaneRow
  BY ClaimFacts DEF ClaimInv
<1>3. /\ lane'.claims = lane.claims /\ lane'.history = lane.history /\ lane'.settled = lane.settled
      /\ lane' \in LaneRow
  BY <1>1, <1>2 DEF LaneRow
<1>4. ClaimTypeOK'
  BY <1>1, <1>2, <1>3 DEF ClaimTypeOK, LaneRow
<1>5. ClaimRefers' /\ HistoryNumbered'
  BY <1>1, <1>3 DEF ClaimInv, ClaimRefers, Regular, HistoryNumbered
<1>6. ClaimsAreDeliveries'
  BY <1>1, <1>3 DEF ClaimInv, ClaimsAreDeliveries
<1>7. ASSUME payer.serial PROVE (OneAtATime /\ OneRecordEach /\ FromRecords)'
  BY <1>1, <1>3, <1>7 DEF ClaimInv, OneAtATime, OneRecordEach, Claimed, FromRecords, RecordedAs
<1> QED
  BY <1>1, <1>2, <1>4, <1>5, <1>6, <1>7 DEF ClaimInv

\* One session goes on, the others stay where they are.
LEMMA OneGoesOn ==
  ASSUME ClaimTypeOK, NEW f \in Sessions, NEW s \in FundingSession, Goes(f, s)
  PROVE  /\ session' \in [Sessions -> FundingSession] /\ session'[f] = s
         /\ \A g \in Sessions \ {f} : session'[g] = session[g]
BY DEF Goes, ClaimTypeOK

\* What a session holds at each step.
LEMMA SessionShape ==
  ASSUME ClaimTypeOK, NEW f \in Sessions
  PROVE  /\ session[f].step \in {"prepared", "allocated"} =>
              session[f] \in [step : {"prepared", "allocated"}, cycle : Nat \ {0}, terms : ClaimTerms]
         /\ session[f].step \in {"recorded", "created"} =>
              session[f] \in [step : {"recorded", "created"}, allocation : Nat \ {0}, cycle : Nat \ {0}]
         /\ session[f].step = "drafted" =>
              session[f] \in [ step : {"drafted"}, allocation : Nat \ {0}, cycle : Nat \ {0},
                               terms : ClaimTerms ]
<1>1. session[f] \in FundingSession
  BY DEF ClaimTypeOK
<1>2. session[f] = Closed => session[f].step = "closed"
  BY DEF Closed
<1> HIDE DEF Closed
<1> QED
  BY <1>1, <1>2 DEF FundingSession

LEMMA PrepareAllocationKeepsInv ==
  ASSUME ClaimInv, NEW f \in Sessions, NEW req \in Requests, prepareReceiverAllocation(f, req)
  PROVE  ClaimInv'
<1> DEFINE cycle == nextClaimCycle(lane)
           amount == claimAmount(req)
           unlockAt == unlockTime(req, cycle)
           expires == expiryTime(req, cycle)
           t == [ amount |-> amount, chosen |-> Chosen(req), unlockAt |-> unlockAt,
                  expiresAt |-> expires ]
           s == [step |-> "prepared", cycle |-> cycle, terms |-> t]
<1>1. /\ payer.serial => \A g \in Sessions : session[g].step = "closed"
      /\ amount > 0 /\ Goes(f, s) /\ UNCHANGED <<now, payer, lane, allocations, claimable>>
  BY DEF prepareReceiverAllocation
<1>2. ClaimTypeOK /\ now \in Nat
  BY DEF ClaimInv
<1>3. cycle \in Nat \ {0} /\ \A k \in DOMAIN lane.claims : lane.claims[k].cycle < cycle
  BY <1>2, NextCycleIsNew
<1>4. claimDue \in Nat /\ (~payer.catchUp => claimDue <= PeriodRate) /\ PeriodRate \in Nat \ {0}
      /\ SettleWindow \in Nat
  BY <1>2, DueFacts, ClaimFacts
<1> HIDE DEF cycle
<1>5. /\ amount \in Nat \ {0} /\ unlockAt \in Nat /\ expires \in Nat
      /\ Chosen(req) \in BOOLEAN
      /\ ~payer.catchUp /\ ~Chosen(req) => amount <= PeriodRate /\ cycle <= unlockAt
  <2>1. /\ req.force \in BOOLEAN /\ req.amount \in Nat \cup {-1}
        /\ req.unlockAt \in Nat \cup {-1} /\ req.expiresAt \in Nat \cup {-1}
    BY ClaimAssumption
  <2>2. amount \in Nat \ {0} /\ (~payer.catchUp /\ ~Chosen(req) => amount <= PeriodRate)
    BY <1>1, <1>4, <2>1 DEF claimAmount, NotGiven, Chosen
  <2>3. unlockAt \in Nat /\ (~Chosen(req) => cycle <= unlockAt)
    BY <1>2, <1>3, <2>1 DEF unlockTime, NotGiven, Chosen
  <2>4. expires \in Nat
    BY <1>4, <2>1, <2>3 DEF expiryTime, NotGiven
  <2> QED BY <2>2, <2>3, <2>4 DEF Chosen
<1> HIDE DEF amount, unlockAt, expires
<1>6. t \in ClaimTerms /\ Regular(cycle, t)
  BY <1>5 DEF ClaimTerms, Regular
<1> HIDE DEF t
<1>7. s \in FundingSession /\ s.step = "prepared" /\ s.cycle = cycle /\ s.terms = t
  BY <1>3, <1>6 DEF FundingSession
<1> HIDE DEF s
<1>8. /\ session' \in [Sessions -> FundingSession] /\ session'[f] = s
      /\ \A g \in Sessions \ {f} : session'[g] = session[g]
  BY <1>1, <1>2, <1>7, OneGoesOn
<1>9. ClaimTypeOK'
  BY <1>1, <1>2, <1>8 DEF ClaimTypeOK
<1>10. ClaimRefers'
  <2>1. \A g \in Sessions :
          /\ session'[g].step \in {"prepared", "allocated"} =>
               Regular(session'[g].cycle, session'[g].terms)
          /\ session'[g].step \in {"recorded", "drafted", "created"} =>
               session'[g].allocation \in DOMAIN allocations
    BY <1>6, <1>7, <1>8 DEF ClaimInv, ClaimRefers
  <2> QED BY <1>1, <2>1 DEF ClaimInv, ClaimRefers, Regular
<1>11. HistoryNumbered' /\ ClaimsAreDeliveries'
  BY <1>1 DEF ClaimInv, HistoryNumbered, ClaimsAreDeliveries
<1>12. ASSUME payer.serial PROVE (OneAtATime /\ OneRecordEach /\ FromRecords)'
  <2>1. \A g \in Sessions \ {f} : session'[g].step = "closed"
    BY <1>1, <1>8, <1>12
  <2>2. OneAtATime'
    BY <2>1 DEF OneAtATime
  <2>3. OneRecordEach'
    <3>1. \A k \in DOMAIN lane.claims : lane.claims[k].cycle # cycle
      BY <1>2, <1>3, ClaimFacts DEF ClaimRecord
    <3>2. \A g \in Sessions : session'[g].step \in {"prepared", "allocated"} =>
            \A k \in DOMAIN lane.claims : lane.claims[k].cycle # session'[g].cycle
      BY <1>7, <1>8, <2>1, <3>1
    <3> QED BY <1>1, <1>12, <3>2 DEF ClaimInv, OneRecordEach, Claimed
  <2>4. FromRecords'
    <3>1. \A g \in Sessions : session'[g].step # "drafted"
      BY <1>7, <1>8, <2>1
    <3> QED BY <1>1, <1>12, <3>1 DEF ClaimInv, FromRecords, RecordedAs
  <2> QED BY <2>2, <2>3, <2>4
<1> QED
  BY <1>1, <1>2, <1>9, <1>10, <1>11, <1>12 DEF ClaimInv

LEMMA AllocateKeepsInv ==
  ASSUME ClaimInv, NEW f \in Sessions, Allocate(f)
  PROVE  ClaimInv'
<1> DEFINE n == Len(allocations)
           a == [ cycle |-> session[f].cycle, amount |-> session[f].terms.amount,
                  fate |-> "locked", chosen |-> FALSE ]
           s == [session[f] EXCEPT !.step = "allocated"]
<1>1. /\ session[f].step = "prepared" /\ allocations' = Append(allocations, a)
      /\ Goes(f, s) /\ UNCHANGED <<now, payer, lane, claimable>>
  BY DEF Allocate, Steps
<1>2. ClaimTypeOK /\ now \in Nat
  BY DEF ClaimInv
<1>3. session[f] \in [step : {"prepared", "allocated"}, cycle : Nat \ {0}, terms : ClaimTerms]
  BY <1>1, <1>2, SessionShape
<1>4. /\ s \in FundingSession /\ s.step = "allocated" /\ s.cycle = session[f].cycle
      /\ s.terms = session[f].terms
  BY <1>3 DEF FundingSession
<1>5. a \in Allocation /\ a.fate = "locked"
  BY <1>3 DEF Allocation, ClaimTerms
<1> HIDE DEF s, a
<1>6. /\ session' \in [Sessions -> FundingSession] /\ session'[f] = s
      /\ \A g \in Sessions \ {f} : session'[g] = session[g]
  BY <1>1, <1>2, <1>4, OneGoesOn
<1>7. allocations \in Seq(Allocation) /\ n \in Nat /\ DOMAIN allocations = 1 .. n
  BY <1>2, ClaimFacts
<1>8. /\ allocations' \in Seq(Allocation) /\ DOMAIN allocations' = 1 .. (n + 1)
      /\ \A i \in 1 .. n : allocations'[i] = allocations[i]
      /\ allocations'[n + 1] = a
  <2>1. allocations' \in Seq(Allocation) /\ Len(allocations') = n + 1
    BY <1>1, <1>5, <1>7
  <2>2. DOMAIN allocations' = 1 .. (n + 1)
    BY <2>1, LenProperties
  <2> QED BY <1>1, <1>5, <1>7, <2>1, <2>2
<1>9. /\ DOMAIN allocations \subseteq DOMAIN allocations'
      /\ \A i \in DOMAIN allocations : allocations'[i] = allocations[i]
      /\ \A i \in DOMAIN allocations' : i \in DOMAIN allocations \/ allocations'[i].fate = "locked"
  BY <1>5, <1>7, <1>8
<1> HIDE DEF n
<1>10. ClaimTypeOK'
  BY <1>1, <1>2, <1>6, <1>8 DEF ClaimTypeOK
<1>11. ClaimRefers'
  <2>1. \A g \in Sessions :
          /\ session'[g].step \in {"prepared", "allocated"} =>
               Regular(session'[g].cycle, session'[g].terms)
          /\ session'[g].step \in {"recorded", "drafted", "created"} =>
               session'[g].allocation \in DOMAIN allocations
    BY <1>1, <1>4, <1>6 DEF ClaimInv, ClaimRefers
  <2> QED BY <1>1, <1>9, <2>1 DEF ClaimInv, ClaimRefers, Regular
<1>12. HistoryNumbered'
  BY <1>1, <1>9 DEF ClaimInv, HistoryNumbered
<1>13. ClaimsAreDeliveries'
  <2>1. \A k \in DOMAIN lane.history : lane.history[k].update > 0 =>
          lane.history[k].update \in DOMAIN allocations
    BY HistoryRefers
  <2>2. \A k \in DOMAIN lane.history : lane.history[k].update > 0 =>
          allocations'[lane.history[k].update] = allocations[lane.history[k].update]
    BY <1>9, <2>1
  <2> QED BY <1>1, <2>2 DEF ClaimInv, ClaimsAreDeliveries
<1>14. ASSUME payer.serial PROVE (OneAtATime /\ OneRecordEach /\ FromRecords)'
  <2>1. OneAtATime'
    BY <1>1, <1>6, <1>14 DEF ClaimInv, OneAtATime
  <2>2. OneRecordEach'
    <3>1. \A g \in Sessions : session'[g].step \in {"prepared", "allocated"} =>
            \A k \in DOMAIN lane.claims : lane.claims[k].cycle # session'[g].cycle
      BY <1>1, <1>4, <1>6, <1>14 DEF ClaimInv, OneRecordEach
    <3> QED BY <1>1, <1>14, <3>1 DEF ClaimInv, OneRecordEach, Claimed
  <2>3. FromRecords'
    <3>1. \A g \in Sessions : session'[g].step = "drafted" => session'[g] = session[g]
      BY <1>4, <1>6
    <3> QED BY <1>1, <1>9, <1>14, <3>1 DEF ClaimInv, FromRecords, RecordedAs
  <2> QED BY <2>1, <2>2, <2>3
<1> QED
  BY <1>1, <1>2, <1>10, <1>11, <1>12, <1>13, <1>14 DEF ClaimInv

\* A session goes on, and nothing it held before is looked for any more.
LEMMA LaneKeepsHistory ==
  ASSUME ClaimInv, NEW claims \in Seq(ClaimRecord), lane' = [lane EXCEPT !.claims = claims],
         UNCHANGED <<payer, allocations>>
  PROVE  /\ lane' \in LaneRow /\ lane'.claims = claims /\ lane'.history = lane.history
         /\ HistoryNumbered' /\ ClaimsAreDeliveries'
         /\ \A v : Claimed(v)' <=> Claimed(v)
<1>1. lane \in LaneRow
  BY ClaimFacts DEF ClaimInv
<1>2. /\ lane' \in LaneRow /\ lane'.claims = claims /\ lane'.history = lane.history
      /\ lane'.settled = lane.settled
  BY <1>1 DEF LaneRow
<1>3. HistoryNumbered'
  BY <1>2 DEF ClaimInv, HistoryNumbered
<1>4. ClaimsAreDeliveries'
  BY <1>2 DEF ClaimInv, ClaimsAreDeliveries
<1>5. \A v : Claimed(v)' <=> Claimed(v)
  BY <1>2 DEF Claimed
<1> QED
  BY <1>2, <1>3, <1>4, <1>5

LEMMA RecordAllocationKeepsInv ==
  ASSUME ClaimInv, NEW f \in Sessions, recordReceiverAllocation(f)
  PROVE  ClaimInv'
<1>1. /\ session[f].step = "allocated"
      /\ UNCHANGED <<now, payer, allocations, claimable>>
  BY DEF recordReceiverAllocation
<1> DEFINE s == session[f]
           entry(i) == [ cycle |-> s.cycle, allocation |-> i, terms |-> s.terms,
                         status |-> "allocated", contract |-> NotCreated ]
<1>2. PICK i \in DOMAIN allocations :
        /\ allocations[i].cycle = s.cycle
        /\ \/ /\ recordOf(i, s.cycle) = {}
              /\ lane' = [lane EXCEPT !.claims = Append(@, entry(i))]
           \/ \E k \in recordOf(i, s.cycle) :
                lane' = [lane EXCEPT !.claims[k].allocation = i, !.claims[k].terms = s.terms]
        /\ Goes(f, [step |-> "recorded", allocation |-> i, cycle |-> s.cycle])
  BY DEF recordReceiverAllocation
<1>3. ClaimTypeOK /\ now \in Nat
  BY DEF ClaimInv
<1>4. s \in [step : {"prepared", "allocated"}, cycle : Nat \ {0}, terms : ClaimTerms]
  BY <1>1, <1>3, SessionShape
<1>5. i \in Nat \ {0} /\ lane \in LaneRow
      /\ lane.claims \in Seq(ClaimRecord)
      /\ DOMAIN lane.claims = 1 .. Len(lane.claims) /\ Len(lane.claims) \in Nat
      /\ \A k \in DOMAIN lane.claims : lane.claims[k] \in ClaimRecord
  <2>1. DOMAIN allocations = 1 .. Len(allocations) /\ Len(allocations) \in Nat
    BY <1>3, ClaimFacts
  <2>3. i \in DOMAIN allocations
    OBVIOUS
  <2>2. i \in Nat \ {0}
    BY <2>3, <2>1
  <2> QED BY <1>3, <2>2, ClaimFacts
<1> DEFINE new == [step |-> "recorded", allocation |-> i, cycle |-> s.cycle]
<1>6. new \in FundingSession /\ new.step = "recorded" /\ new.allocation = i
  BY <1>4, <1>5 DEF FundingSession
<1> HIDE DEF new
<1>7. /\ session' \in [Sessions -> FundingSession] /\ session'[f] = new
      /\ \A g \in Sessions \ {f} : session'[g] = session[g]
  BY <1>2, <1>3, <1>6, OneGoesOn DEF new
<1>8. Regular(s.cycle, s.terms)
  BY <1>1 DEF ClaimInv, ClaimRefers
\* The row's records but the one at p, which is the session's.
<1> DEFINE Others(claims, p) ==
             /\ claims \in Seq(ClaimRecord) /\ lane' = [lane EXCEPT !.claims = claims]
             /\ DOMAIN claims = DOMAIN lane.claims \cup {p}
             /\ \A l \in DOMAIN lane.claims \ {p} : claims[l] = lane.claims[l]
             /\ claims[p].allocation = i /\ claims[p].cycle = s.cycle /\ claims[p].terms = s.terms
<1>9. \A k \in recordOf(i, s.cycle) : k \in DOMAIN lane.claims /\ lane.claims[k].cycle = s.cycle
  BY <1>2 DEF recordOf, ClaimInv, ClaimRefers
<1>10. \E claims, p :
         /\ Others(claims, p)
         /\ payer.serial => p \notin DOMAIN lane.claims /\ claims[p].status # "claimed"
  <2>1. CASE /\ recordOf(i, s.cycle) = {}
             /\ lane' = [lane EXCEPT !.claims = Append(@, entry(i))]
    <3> DEFINE e == entry(i)
               n == Len(lane.claims)
               cs == Append(lane.claims, e)
    <3>1. /\ e \in ClaimRecord /\ e.allocation = i /\ e.cycle = s.cycle /\ e.terms = s.terms
          /\ e.status # "claimed"
      BY <1>4, <1>5 DEF ClaimRecord, NotCreated
    <3> HIDE DEF e
    <3>2. lane' = [lane EXCEPT !.claims = cs]
      BY <1>5, <2>1 DEF e, LaneRow
    <3>3. cs \in Seq(ClaimRecord) /\ Len(cs) = n + 1
      BY <1>5, <3>1
    <3>4. DOMAIN cs = 1 .. (n + 1)
      BY <3>3, LenProperties
    <3>5. (\A l \in 1 .. n : cs[l] = lane.claims[l]) /\ cs[n + 1] = e
      BY <1>5, <3>1
    <3> HIDE DEF cs
    <3>6. n + 1 \notin DOMAIN lane.claims /\ DOMAIN cs = DOMAIN lane.claims \cup {n + 1}
      BY <1>5, <3>4
    <3>7. Others(cs, n + 1)
      BY <1>5, <3>1, <3>2, <3>3, <3>5, <3>6
    <3> QED BY <3>1, <3>5, <3>6, <3>7
  <2>2. ASSUME NEW k \in recordOf(i, s.cycle),
               lane' = [lane EXCEPT !.claims[k].allocation = i, !.claims[k].terms = s.terms]
        PROVE  \E claims, p :
                 /\ Others(claims, p)
                 /\ payer.serial => p \notin DOMAIN lane.claims /\ claims[p].status # "claimed"
    <3> DEFINE e == [lane.claims[k] EXCEPT !.allocation = i, !.terms = s.terms]
               cs == [lane.claims EXCEPT ![k] = e]
    <3>1. k \in DOMAIN lane.claims /\ lane.claims[k].cycle = s.cycle
      BY <1>9
    <3>2. /\ e \in ClaimRecord /\ e.allocation = i /\ e.cycle = s.cycle /\ e.terms = s.terms
      BY <1>4, <1>5, <3>1 DEF ClaimRecord
    <3>3. lane' = [lane EXCEPT !.claims = cs]
      BY <1>5, <2>2, <3>1 DEF LaneRow
    <3> HIDE DEF e
    <3>4. /\ cs \in Seq(ClaimRecord) /\ DOMAIN cs = DOMAIN lane.claims
          /\ cs[k] = e /\ \A l \in DOMAIN lane.claims \ {k} : cs[l] = lane.claims[l]
      BY <1>5, <3>1, <3>2, ExceptSeq
    <3> HIDE DEF cs
    <3>5. DOMAIN cs = DOMAIN lane.claims \cup {k}
      BY <3>1, <3>4
    <3>6. Others(cs, k)
      BY <3>2, <3>3, <3>4, <3>5
    <3>7. ~payer.serial
      BY <1>1, <3>1 DEF ClaimInv, OneRecordEach
    <3> QED BY <3>6, <3>7
  <2> QED BY <1>2, <2>1, <2>2
<1>11. PICK claims, p :
         /\ Others(claims, p)
         /\ payer.serial => p \notin DOMAIN lane.claims /\ claims[p].status # "claimed"
  BY <1>10
<1>12. /\ lane' \in LaneRow /\ lane'.claims = claims
       /\ HistoryNumbered' /\ ClaimsAreDeliveries' /\ \A v : Claimed(v)' <=> Claimed(v)
  BY <1>1, <1>11, LaneKeepsHistory
<1>13. ClaimTypeOK'
  BY <1>1, <1>3, <1>7, <1>12 DEF ClaimTypeOK, LaneRow
<1>14. ClaimRefers'
  <2>1. \A k \in DOMAIN claims :
          /\ claims[k].allocation \in DOMAIN allocations
          /\ allocations[claims[k].allocation].cycle = claims[k].cycle
          /\ Regular(claims[k].cycle, claims[k].terms)
    <3> SUFFICES ASSUME NEW k \in DOMAIN claims
                 PROVE  /\ claims[k].allocation \in DOMAIN allocations
                        /\ allocations[claims[k].allocation].cycle = claims[k].cycle
                        /\ Regular(claims[k].cycle, claims[k].terms)
      OBVIOUS
    <3>1. CASE k = p
      BY <1>2, <1>8, <1>11, <3>1
    <3>2. CASE k # p
      <4>1. k \in DOMAIN lane.claims /\ claims[k] = lane.claims[k]
        BY <1>11, <3>2
      <4> QED BY <4>1 DEF ClaimInv, ClaimRefers
    <3> QED BY <3>1, <3>2
  <2>2. \A g \in Sessions :
          /\ session'[g].step \in {"prepared", "allocated"} =>
               Regular(session'[g].cycle, session'[g].terms)
          /\ session'[g].step \in {"recorded", "drafted", "created"} =>
               session'[g].allocation \in DOMAIN allocations
    BY <1>2, <1>6, <1>7 DEF ClaimInv, ClaimRefers
  <2> QED BY <1>1, <1>12, <2>1, <2>2 DEF ClaimInv, ClaimRefers, Regular
<1>15. ASSUME payer.serial PROVE (OneAtATime /\ OneRecordEach /\ FromRecords)'
  <2>1. OneAtATime'
    BY <1>1, <1>7, <1>15 DEF ClaimInv, OneAtATime
  <2>2. \A g \in Sessions \ {f} : session'[g].step = "closed"
    BY <1>1, <1>7, <1>15 DEF ClaimInv, OneAtATime
  <2>3. OneRecordEach'
    <3>1. \A k \in DOMAIN lane.claims : lane.claims[k].cycle # s.cycle
      BY <1>1, <1>15 DEF ClaimInv, OneRecordEach
    <3>2. \A k, l \in DOMAIN claims : claims[k].cycle = claims[l].cycle => k = l
      BY <1>11, <1>15, <3>1 DEF ClaimInv, OneRecordEach
    <3>3. \A k \in DOMAIN claims : claims[k].status = "claimed" => Claimed(claims[k].allocation)
      BY <1>11, <1>15 DEF ClaimInv, OneRecordEach
    <3>4. \A g \in Sessions : session'[g].step \notin {"prepared", "allocated"}
      BY <1>6, <1>7, <2>2
    <3> QED BY <1>12, <3>2, <3>3, <3>4 DEF OneRecordEach
  <2>4. FromRecords'
    <3>1. \A j, t : RecordedAs(j, t) => RecordedAs(j, t)'
      BY <1>11, <1>12, <1>15 DEF RecordedAs
    <3>2. \A g \in Sessions : session'[g].step # "drafted"
      BY <1>6, <1>7, <2>2
    <3> QED BY <1>1, <1>15, <3>1, <3>2 DEF ClaimInv, FromRecords
  <2> QED BY <2>1, <2>3, <2>4
<1> QED
  BY <1>1, <1>3, <1>12, <1>13, <1>14, <1>15 DEF ClaimInv

LEMMA PrepareClaimKeepsInv ==
  ASSUME ClaimInv, NEW f \in Sessions, prepareReceiverClaim(f)
  PROVE  ClaimInv'
<1>1. /\ session[f].step = "recorded"
      /\ UNCHANGED <<now, payer, lane, allocations, claimable>>
  BY DEF prepareReceiverClaim
<1>2. PICK k \in DOMAIN lane.claims :
        /\ lane.claims[k].allocation = session[f].allocation
        /\ Goes(f, [ step |-> "drafted", allocation |-> session[f].allocation,
                     cycle |-> lane.claims[k].cycle, terms |-> lane.claims[k].terms ])
  BY DEF prepareReceiverClaim, OpenRecord
<1> DEFINE new == [ step |-> "drafted", allocation |-> session[f].allocation,
                    cycle |-> lane.claims[k].cycle, terms |-> lane.claims[k].terms ]
<1>3. ClaimTypeOK /\ now \in Nat
  BY DEF ClaimInv
<1>4. session[f] \in [step : {"recorded", "created"}, allocation : Nat \ {0}, cycle : Nat \ {0}]
      /\ lane.claims[k] \in ClaimRecord
  BY <1>1, <1>3, ClaimFacts, SessionShape
<1>5. /\ new \in FundingSession /\ new.step = "drafted" /\ new.allocation = session[f].allocation
      /\ new.terms = lane.claims[k].terms
  BY <1>4 DEF FundingSession, ClaimRecord
<1> HIDE DEF new
<1>6. /\ session' \in [Sessions -> FundingSession] /\ session'[f] = new
      /\ \A g \in Sessions \ {f} : session'[g] = session[g]
  BY <1>2, <1>3, <1>5, OneGoesOn DEF new
<1>7. ClaimTypeOK'
  BY <1>1, <1>3, <1>6 DEF ClaimTypeOK
<1>8. ClaimRefers'
  <2>1. \A g \in Sessions :
          /\ session'[g].step \in {"prepared", "allocated"} =>
               Regular(session'[g].cycle, session'[g].terms)
          /\ session'[g].step \in {"recorded", "drafted", "created"} =>
               session'[g].allocation \in DOMAIN allocations
    BY <1>1, <1>5, <1>6 DEF ClaimInv, ClaimRefers
  <2> QED BY <1>1, <2>1 DEF ClaimInv, ClaimRefers, Regular
<1>9. HistoryNumbered' /\ ClaimsAreDeliveries'
  BY <1>1 DEF ClaimInv, HistoryNumbered, ClaimsAreDeliveries
<1>10. ASSUME payer.serial PROVE (OneAtATime /\ OneRecordEach /\ FromRecords)'
  <2>1. OneAtATime'
    BY <1>1, <1>6, <1>10 DEF ClaimInv, OneAtATime
  <2>2. OneRecordEach'
    BY <1>1, <1>5, <1>6, <1>10 DEF ClaimInv, OneRecordEach, Claimed
  <2>3. FromRecords'
    <3>1. RecordedAs(new.allocation, new.terms)
      BY <1>2, <1>5 DEF RecordedAs
    <3>2. \A g \in Sessions : session'[g].step = "drafted" =>
            RecordedAs(session'[g].allocation, session'[g].terms)
      BY <1>6, <1>10, <3>1 DEF ClaimInv, FromRecords
    <3> QED BY <1>1, <1>10, <3>2 DEF ClaimInv, FromRecords, RecordedAs
  <2> QED BY <2>1, <2>2, <2>3
<1> QED
  BY <1>1, <1>3, <1>7, <1>8, <1>9, <1>10 DEF ClaimInv

LEMMA CreateClaimKeepsInv ==
  ASSUME ClaimInv, NEW f \in Sessions, CreateClaim(f)
  PROVE  ClaimInv'
<1> DEFINE c == [ active |-> TRUE, allocation |-> session[f].allocation,
                  cycle |-> session[f].cycle, terms |-> session[f].terms ]
           new == [ step |-> "created", allocation |-> session[f].allocation,
                    cycle |-> session[f].cycle ]
           n == Len(claimable)
<1>1. /\ session[f].step = "drafted" /\ claimable' = Append(claimable, c) /\ Goes(f, new)
      /\ UNCHANGED <<now, payer, lane, allocations>>
  BY DEF CreateClaim
<1>2. ClaimTypeOK /\ now \in Nat
  BY DEF ClaimInv
<1>3. session[f] \in [ step : {"drafted"}, allocation : Nat \ {0}, cycle : Nat \ {0},
                       terms : ClaimTerms ]
  BY <1>1, <1>2, SessionShape
<1>4. /\ c \in ClaimContract /\ c.allocation = session[f].allocation /\ c.terms = session[f].terms
      /\ new \in FundingSession /\ new.step = "created" /\ new.allocation = session[f].allocation
  BY <1>3 DEF ClaimContract, FundingSession
<1> HIDE DEF c, new
<1>5. /\ session' \in [Sessions -> FundingSession] /\ session'[f] = new
      /\ \A g \in Sessions \ {f} : session'[g] = session[g]
  BY <1>1, <1>2, <1>4, OneGoesOn
<1>6. /\ claimable' \in Seq(ClaimContract) /\ DOMAIN claimable' = 1 .. (n + 1)
      /\ \A d \in DOMAIN claimable' :
           \/ claimable'[d] = c
           \/ d \in DOMAIN claimable /\ claimable'[d] = claimable[d]
  <2>1. claimable \in Seq(ClaimContract) /\ n \in Nat /\ DOMAIN claimable = 1 .. n
    BY <1>2, ClaimFacts
  <2>2. claimable' \in Seq(ClaimContract) /\ Len(claimable') = n + 1
    BY <1>1, <1>4, <2>1
  <2>3. DOMAIN claimable' = 1 .. (n + 1)
    BY <2>2, LenProperties
  <2>4. (\A d \in 1 .. n : claimable'[d] = claimable[d]) /\ claimable'[n + 1] = c
    BY <1>1, <1>4, <2>1
  <2> QED BY <2>1, <2>2, <2>3, <2>4
<1> HIDE DEF n
<1>7. ClaimTypeOK'
  BY <1>1, <1>2, <1>5, <1>6 DEF ClaimTypeOK
<1>8. session[f].allocation \in DOMAIN allocations
  BY <1>1 DEF ClaimInv, ClaimRefers
<1>9. ClaimRefers'
  <2>1. \A g \in Sessions :
          /\ session'[g].step \in {"prepared", "allocated"} =>
               Regular(session'[g].cycle, session'[g].terms)
          /\ session'[g].step \in {"recorded", "drafted", "created"} =>
               session'[g].allocation \in DOMAIN allocations
    BY <1>4, <1>5, <1>8 DEF ClaimInv, ClaimRefers
  <2>2. \A d \in DOMAIN claimable' : claimable'[d].allocation \in DOMAIN allocations
    BY <1>4, <1>6, <1>8 DEF ClaimInv, ClaimRefers
  <2> QED BY <1>1, <2>1, <2>2 DEF ClaimInv, ClaimRefers, Regular
<1>10. HistoryNumbered' /\ ClaimsAreDeliveries'
  BY <1>1 DEF ClaimInv, HistoryNumbered, ClaimsAreDeliveries
<1>11. ASSUME payer.serial PROVE (OneAtATime /\ OneRecordEach /\ FromRecords)'
  <2>1. OneAtATime'
    BY <1>1, <1>5, <1>11 DEF ClaimInv, OneAtATime
  <2>2. OneRecordEach'
    BY <1>1, <1>4, <1>5, <1>11 DEF ClaimInv, OneRecordEach, Claimed
  <2>3. FromRecords'
    <3>1. \A d \in DOMAIN claimable' : RecordedAs(claimable'[d].allocation, claimable'[d].terms)
      <4>1. FromRecords
        BY <1>11 DEF ClaimInv
      <4>2. RecordedAs(c.allocation, c.terms)
        BY <1>1, <1>4, <4>1 DEF FromRecords
      <4>3. \A d \in DOMAIN claimable : RecordedAs(claimable[d].allocation, claimable[d].terms)
        BY <4>1 DEF FromRecords
      <4> QED BY <1>6, <4>2, <4>3
    <3>2. \A g \in Sessions : session'[g].step = "drafted" =>
            RecordedAs(session'[g].allocation, session'[g].terms)
      BY <1>4, <1>5, <1>11 DEF ClaimInv, FromRecords
    <3> QED BY <1>1, <1>11, <3>1, <3>2 DEF ClaimInv, FromRecords, RecordedAs
  <2> QED BY <2>1, <2>2, <2>3
<1> QED
  BY <1>1, <1>2, <1>7, <1>9, <1>10, <1>11 DEF ClaimInv

\* A session that ends leaves what it did.
LEMMA ClosingKeepsInv ==
  ASSUME ClaimTypeOK, ClaimRefers, NEW f \in Sessions, Goes(f, Closed),
         UNCHANGED <<payer, lane, allocations, claimable>>
  PROVE  /\ session' \in [Sessions -> FundingSession]
         /\ \A g \in Sessions : session'[g].step = "closed" \/ session'[g] = session[g]
         /\ ClaimRefers'
<1>1. Closed \in FundingSession /\ Closed.step = "closed"
  BY DEF Closed, FundingSession
<1> HIDE DEF Closed
<1>2. /\ session' \in [Sessions -> FundingSession] /\ session'[f] = Closed
      /\ \A g \in Sessions \ {f} : session'[g] = session[g]
  BY <1>1, OneGoesOn
<1>3. \A g \in Sessions : session'[g].step = "closed" \/ session'[g] = session[g]
  BY <1>1, <1>2
<1>4. \A g \in Sessions :
          /\ session'[g].step \in {"prepared", "allocated"} =>
               Regular(session'[g].cycle, session'[g].terms)
          /\ session'[g].step \in {"recorded", "drafted", "created"} =>
               session'[g].allocation \in DOMAIN allocations
  BY <1>3 DEF ClaimRefers
<1> QED
  BY <1>2, <1>3, <1>4 DEF ClaimRefers, Regular

LEMMA AbortKeepsInv ==
  ASSUME ClaimInv, NEW f \in Sessions, Abort(f)
  PROVE  ClaimInv'
<1>1. Goes(f, Closed) /\ UNCHANGED <<now, payer, lane, allocations, claimable>>
  BY DEF Abort
<1>2. ClaimTypeOK /\ now \in Nat /\ ClaimRefers
  BY DEF ClaimInv
<1>3. /\ session' \in [Sessions -> FundingSession] /\ ClaimRefers'
      /\ \A g \in Sessions : session'[g].step = "closed" \/ session'[g] = session[g]
  BY <1>1, <1>2, ClosingKeepsInv
<1>4. ClaimTypeOK'
  BY <1>1, <1>2, <1>3 DEF ClaimTypeOK
<1>5. HistoryNumbered' /\ ClaimsAreDeliveries'
  BY <1>1 DEF ClaimInv, HistoryNumbered, ClaimsAreDeliveries
<1>6. ASSUME payer.serial PROVE (OneAtATime /\ OneRecordEach /\ FromRecords)'
  <2>1. OneAtATime'
    BY <1>1, <1>3, <1>6 DEF ClaimInv, OneAtATime
  <2>2. OneRecordEach'
    BY <1>1, <1>3, <1>6 DEF ClaimInv, OneRecordEach, Claimed
  <2>3. FromRecords'
    BY <1>1, <1>3, <1>6 DEF ClaimInv, FromRecords, RecordedAs
  <2> QED BY <2>1, <2>2, <2>3
<1> QED
  BY <1>1, <1>2, <1>3, <1>4, <1>5, <1>6 DEF ClaimInv

LEMMA RecordClaimContractKeepsInv ==
  ASSUME ClaimInv, NEW f \in Sessions, recordReceiverClaim(f)
  PROVE  ClaimInv'
<1>1. Goes(f, Closed) /\ UNCHANGED <<now, payer, allocations, claimable>>
  BY DEF recordReceiverClaim
<1>2. PICK c \in DOMAIN claimable, k \in DOMAIN lane.claims :
        /\ OpenRecord(k, session[f].allocation)
        /\ lane' = [lane EXCEPT !.claims[k].contract = c, !.claims[k].status = "claim_ready"]
  BY DEF recordReceiverClaim
<1> DEFINE e == [lane.claims[k] EXCEPT !.contract = c, !.status = "claim_ready"]
           cs == [lane.claims EXCEPT ![k] = e]
<1>3. ClaimTypeOK /\ now \in Nat /\ ClaimRefers
  BY DEF ClaimInv
<1>4. /\ lane \in LaneRow /\ lane.claims \in Seq(ClaimRecord)
      /\ DOMAIN lane.claims = 1 .. Len(lane.claims) /\ lane.claims[k] \in ClaimRecord
      /\ DOMAIN claimable = 1 .. Len(claimable) /\ Len(claimable) \in Nat
  BY <1>3, ClaimFacts
<1>5. c \in Nat
  BY <1>4
<1>6. /\ e \in ClaimRecord /\ e.allocation = lane.claims[k].allocation
      /\ e.terms = lane.claims[k].terms /\ e.cycle = lane.claims[k].cycle
      /\ e.status # "claimed"
  BY <1>4, <1>5 DEF ClaimRecord
<1>7. lane' = [lane EXCEPT !.claims = cs]
  BY <1>2, <1>4 DEF LaneRow
<1> HIDE DEF e
<1>8. /\ cs \in Seq(ClaimRecord) /\ DOMAIN cs = DOMAIN lane.claims
      /\ cs[k] = e /\ \A l \in DOMAIN lane.claims \ {k} : cs[l] = lane.claims[l]
  BY <1>4, <1>6, ExceptSeq
<1> HIDE DEF cs
<1>9. /\ lane' \in LaneRow /\ lane'.claims = cs
      /\ HistoryNumbered' /\ ClaimsAreDeliveries' /\ \A v : Claimed(v)' <=> Claimed(v)
  BY <1>1, <1>7, <1>8, LaneKeepsHistory
<1>10. \A l \in DOMAIN cs :
         /\ cs[l].allocation = lane.claims[l].allocation /\ cs[l].cycle = lane.claims[l].cycle
         /\ cs[l].terms = lane.claims[l].terms
         /\ cs[l].status = "claimed" => lane.claims[l].status = "claimed"
  BY <1>6, <1>8
<1>11. /\ session' \in [Sessions -> FundingSession]
       /\ \A g \in Sessions : session'[g].step = "closed" \/ session'[g] = session[g]
  <2>1. Closed \in FundingSession /\ Closed.step = "closed"
    BY DEF Closed, FundingSession
  <2> HIDE DEF Closed
  <2>2. /\ session' \in [Sessions -> FundingSession] /\ session'[f] = Closed
        /\ \A g \in Sessions \ {f} : session'[g] = session[g]
    BY <1>1, <1>3, <2>1, OneGoesOn
  <2> QED BY <2>1, <2>2
<1>12. ClaimTypeOK'
  BY <1>1, <1>3, <1>9, <1>11 DEF ClaimTypeOK, LaneRow
<1>13. ClaimRefers'
  <2>1. \A g \in Sessions :
          /\ session'[g].step \in {"prepared", "allocated"} =>
               Regular(session'[g].cycle, session'[g].terms)
          /\ session'[g].step \in {"recorded", "drafted", "created"} =>
               session'[g].allocation \in DOMAIN allocations
    BY <1>3, <1>11 DEF ClaimRefers
  <2>2. \A l \in DOMAIN cs :
          /\ cs[l].allocation \in DOMAIN allocations
          /\ allocations[cs[l].allocation].cycle = cs[l].cycle
          /\ Regular(cs[l].cycle, cs[l].terms)
    BY <1>3, <1>8, <1>10 DEF ClaimRefers
  <2> QED BY <1>1, <1>3, <1>9, <2>1, <2>2 DEF ClaimRefers, Regular
<1>14. ASSUME payer.serial PROVE (OneAtATime /\ OneRecordEach /\ FromRecords)'
  <2>1. OneAtATime'
    BY <1>11, <1>14 DEF ClaimInv, OneAtATime
  <2>2. OneRecordEach'
    <3>1. OneRecordEach
      BY <1>14 DEF ClaimInv
    <3>2. \A l, m \in DOMAIN cs : cs[l].cycle = cs[m].cycle => l = m
      BY <1>8, <1>10, <3>1 DEF OneRecordEach
    <3>3. \A g \in Sessions : session'[g].step \in {"prepared", "allocated"} =>
            \A l \in DOMAIN cs : cs[l].cycle # session'[g].cycle
      BY <1>8, <1>10, <1>11, <3>1 DEF OneRecordEach
    <3>4. \A l \in DOMAIN cs : cs[l].status = "claimed" => Claimed(cs[l].allocation)
      BY <1>8, <1>10, <3>1 DEF OneRecordEach
    <3> QED BY <1>9, <3>2, <3>3, <3>4 DEF OneRecordEach
  <2>3. FromRecords'
    <3>1. \A j, t : RecordedAs(j, t) => RecordedAs(j, t)'
      BY <1>8, <1>9, <1>10 DEF RecordedAs
    <3> QED BY <1>1, <1>11, <1>14, <3>1 DEF ClaimInv, FromRecords
  <2> QED BY <2>1, <2>2, <2>3
<1> QED
  BY <1>1, <1>3, <1>9, <1>12, <1>13, <1>14 DEF ClaimInv

\* One allocation ends, and with it one claim contract.
LEMMA AllocationEnds ==
  ASSUME ClaimInv, NEW c \in DOMAIN claimable, NEW a \in Allocation,
         claimable[c].allocation \in DOMAIN allocations,
         LET i == claimable[c].allocation
         IN  /\ allocations[i].fate = "locked"
             /\ a.cycle = allocations[i].cycle /\ a.amount = allocations[i].amount
             /\ allocations' = [allocations EXCEPT ![i] = a]
             /\ a.fate = "executed" =>
                  /\ claimable[c].terms.amount = a.amount
                  /\ claimable[c].terms.chosen = a.chosen
                  /\ claimable[c].terms.unlockAt <= now,
         claimable' = [claimable EXCEPT ![c].active = FALSE],
         UNCHANGED <<now, payer, lane, session>>
  PROVE  ClaimInv'
<1> DEFINE i == claimable[c].allocation
<1>1. ClaimTypeOK /\ now \in Nat
  BY DEF ClaimInv
<1>2. /\ allocations \in Seq(Allocation) /\ DOMAIN allocations = 1 .. Len(allocations)
      /\ claimable \in Seq(ClaimContract) /\ DOMAIN claimable = 1 .. Len(claimable)
      /\ claimable[c] \in ClaimContract
  BY <1>1, ClaimFacts
<1>3. /\ allocations' \in Seq(Allocation) /\ DOMAIN allocations' = DOMAIN allocations
      /\ allocations'[i] = a
      /\ \A j \in DOMAIN allocations \ {i} : allocations'[j] = allocations[j]
  BY <1>2, ExceptSeq
<1> DEFINE d == [claimable[c] EXCEPT !.active = FALSE]
<1>4. d \in ClaimContract /\ d.allocation = claimable[c].allocation /\ d.terms = claimable[c].terms
  BY <1>2 DEF ClaimContract
<1>5. claimable' = [claimable EXCEPT ![c] = d]
  OBVIOUS
<1> HIDE DEF d
<1>6. /\ claimable' \in Seq(ClaimContract) /\ DOMAIN claimable' = DOMAIN claimable
      /\ \A b \in DOMAIN claimable : /\ claimable'[b].allocation = claimable[b].allocation
                                     /\ claimable'[b].terms = claimable[b].terms
  <2>1. /\ claimable' \in Seq(ClaimContract) /\ DOMAIN claimable' = DOMAIN claimable
        /\ claimable'[c] = d
        /\ \A b \in DOMAIN claimable \ {c} : claimable'[b] = claimable[b]
    <3> DEFINE new == [claimable EXCEPT ![c] = d]
    <3>1. claimable \in Seq(ClaimContract) /\ c \in 1 .. Len(claimable) /\ d \in ClaimContract
      BY <1>2, <1>4
    <3>2. new \in Seq(ClaimContract)
      BY <3>1, ExceptSeq
    <3>3. DOMAIN new = DOMAIN claimable /\ new[c] = d
          /\ \A b \in DOMAIN claimable \ {c} : new[b] = claimable[b]
      OBVIOUS
    <3> QED BY <1>5, <3>2, <3>3
  <2> QED BY <1>4, <2>1
<1>7. \A j \in DOMAIN allocations :
        /\ allocations'[j].cycle = allocations[j].cycle
        /\ allocations'[j].amount = allocations[j].amount
        /\ allocations[j].fate = "executed" => allocations'[j] = allocations[j]
  BY <1>3
<1>8. ClaimTypeOK'
  BY <1>1, <1>3, <1>6 DEF ClaimTypeOK
<1>9. ClaimRefers'
  BY <1>3, <1>6, <1>7 DEF ClaimInv, ClaimRefers, Regular
<1>10. HistoryNumbered'
  BY <1>3 DEF ClaimInv, HistoryNumbered
<1>11. ClaimsAreDeliveries'
  <2>a. \A k \in DOMAIN lane.history : lane.history[k].update > 0 =>
          lane.history[k].update \in DOMAIN allocations
    BY HistoryRefers
  <2>b. \A k \in DOMAIN lane.history : lane.history[k].update > 0 =>
          allocations[lane.history[k].update].fate = "executed"
    BY DEF ClaimInv, ClaimsAreDeliveries
  <2>1. \A k \in DOMAIN lane.history : lane.history[k].update > 0 =>
          /\ lane.history[k].update \in DOMAIN allocations
          /\ allocations[lane.history[k].update].fate = "executed"
    BY <2>a, <2>b
  <2>2. \A k \in DOMAIN lane.history : lane.history[k].update > 0 =>
          allocations'[lane.history[k].update] = allocations[lane.history[k].update]
    BY <1>7, <2>1
  <2> QED BY <2>2 DEF ClaimInv, ClaimsAreDeliveries
<1>12. ASSUME payer.serial PROVE (OneAtATime /\ OneRecordEach /\ FromRecords)'
  <2>1. OneAtATime' /\ OneRecordEach'
    BY <1>12 DEF ClaimInv, OneAtATime, OneRecordEach, Claimed
  <2>2. FromRecords'
    <3>1. FromRecords
      BY <1>12 DEF ClaimInv
    <3>2. \A b \in DOMAIN claimable' : RecordedAs(claimable'[b].allocation, claimable'[b].terms)
      BY <1>6, <3>1 DEF FromRecords
    <3>3. ASSUME NEW j \in DOMAIN allocations, allocations'[j].fate = "executed"
          PROVE  \E t \in ClaimTerms :
                   /\ RecordedAs(j, t)
                   /\ t.amount = allocations'[j].amount /\ t.chosen = allocations'[j].chosen
                   /\ t.unlockAt <= now
      <4>1. CASE j = i
        <5>1. claimable[c].terms \in ClaimTerms
          BY <1>2 DEF ClaimContract
        <5>2. RecordedAs(i, claimable[c].terms)
          BY <3>1 DEF FromRecords
        <5>3. a.fate = "executed"
          BY <1>3, <3>3, <4>1
        <5> QED BY <1>3, <4>1, <5>1, <5>2, <5>3
      <4>2. CASE j # i
        <5>1. allocations'[j] = allocations[j]
          BY <1>3, <4>2
        <5> QED BY <3>1, <3>3, <5>1 DEF FromRecords
      <4> QED BY <4>1, <4>2
    <3> QED BY <1>3, <3>1, <3>2, <3>3 DEF FromRecords, RecordedAs
  <2> QED BY <2>1, <2>2
<1> QED
  BY <1>1, <1>8, <1>9, <1>10, <1>11, <1>12 DEF ClaimInv

LEMMA ClaimKeepsInv ==
  ASSUME ClaimInv, NEW c \in DOMAIN claimable, Claim(c)
  PROVE  ClaimInv'
<1> DEFINE i == claimable[c].allocation
           a == [allocations[i] EXCEPT !.fate = "executed", !.chosen = claimable[c].terms.chosen]
<1>1. i \in DOMAIN allocations
  BY DEF ClaimInv, ClaimRefers
<1>2. allocations[i] \in Allocation /\ claimable[c] \in ClaimContract
  BY <1>1, ClaimFacts DEF ClaimInv
<1>3. /\ allocations[i].fate = "locked" /\ allocations[i].amount = claimable[c].terms.amount
      /\ claimable[c].terms.unlockAt <= now
      /\ claimable' = [claimable EXCEPT ![c].active = FALSE]
      /\ UNCHANGED <<now, payer, lane, session>>
  BY DEF Claim
<1>4. allocations' = [allocations EXCEPT ![i] = a]
  BY DEF Claim
<1>5. claimable[c].terms.chosen \in BOOLEAN
  BY <1>2 DEF ClaimContract, ClaimTerms
<1>6. /\ a \in Allocation /\ a.cycle = allocations[i].cycle /\ a.amount = allocations[i].amount
      /\ a.chosen = claimable[c].terms.chosen
  BY <1>2, <1>5 DEF Allocation
<1> HIDE DEF a
<1> QED
  BY <1>1, <1>3, <1>4, <1>6, AllocationEnds

LEMMA WithdrawKeepsInv ==
  ASSUME ClaimInv, NEW c \in DOMAIN claimable, SenderWithdraw(c)
  PROVE  ClaimInv'
<1> DEFINE i == claimable[c].allocation
           a == [allocations[i] EXCEPT !.fate = "withdrawn"]
<1>1. i \in DOMAIN allocations
  BY DEF ClaimInv, ClaimRefers
<1>2. allocations[i] \in Allocation
  BY <1>1, ClaimFacts DEF ClaimInv
<1>3. /\ allocations[i].fate = "locked"
      /\ claimable' = [claimable EXCEPT ![c].active = FALSE]
      /\ UNCHANGED <<now, payer, lane, session>>
  BY DEF SenderWithdraw
<1>4. allocations' = [allocations EXCEPT ![i] = a]
  BY DEF SenderWithdraw
<1>5. /\ a \in Allocation /\ a.cycle = allocations[i].cycle /\ a.amount = allocations[i].amount
      /\ a.fate # "executed"
  BY <1>2 DEF Allocation
<1> HIDE DEF a
<1> QED
  BY <1>1, <1>3, <1>4, <1>5, AllocationEnds

LEMMA RecordClaimKeepsInv ==
  ASSUME ClaimInv, NEW k \in DOMAIN lane.claims, NEW i \in DOMAIN allocations, recordClaim(k, i)
  PROVE  ClaimInv'
<1> DEFINE r == lane.claims[k]
           e == [r EXCEPT !.status = "claimed"]
           cs == [lane.claims EXCEPT ![k] = e]
<1>1. /\ CanRecordClaim(k, i)
      /\ lane' = [CreditedLane(lane, i, r.terms.amount, r.cycle) EXCEPT !.claims[k].status = "claimed"]
      /\ UNCHANGED <<now, payer, allocations, claimable, session>>
  BY DEF recordClaim
<1>2. ClaimTypeOK /\ now \in Nat /\ ClaimRefers
  BY DEF ClaimInv
<1>3. /\ lane \in LaneRow /\ lane.claims \in Seq(ClaimRecord)
      /\ DOMAIN lane.claims = 1 .. Len(lane.claims) /\ r \in ClaimRecord
  BY <1>2, ClaimFacts
<1>4. i \in Nat \ {0} /\ i \in Int
  <2>1. DOMAIN allocations = 1 .. Len(allocations) /\ Len(allocations) \in Nat
    BY <1>2, ClaimFacts
  <2> QED BY <2>1
<1>5. /\ r.terms.amount \in Nat \ {0} /\ r.cycle \in Nat
      /\ e \in ClaimRecord /\ e.allocation = r.allocation
      /\ e.terms = r.terms /\ e.cycle = r.cycle
  BY <1>3 DEF ClaimRecord, ClaimTerms
<1>6. lane' = [CreditedLane(lane, i, r.terms.amount, r.cycle) EXCEPT !.claims = cs]
  <2>1. CreditedLane(lane, i, r.terms.amount, r.cycle).claims = lane.claims
    BY <1>3 DEF CreditedLane, LaneRow
  <2>2. CreditedLane(lane, i, r.terms.amount, r.cycle) =
          [ lane EXCEPT !.settled = lane.settled + r.terms.amount,
                        !.cycles = IF lane.cycles < r.cycle THEN r.cycle ELSE lane.cycles,
                        !.history = Append(lane.history, [update |-> i, amount |-> r.terms.amount]) ]
    BY <1>3 DEF CreditedLane, LaneRow
  <2>3. "claims" \in DOMAIN CreditedLane(lane, i, r.terms.amount, r.cycle)
    BY <1>3, <2>2 DEF LaneRow
  <2> QED BY <1>1, <2>1, <2>3
<1>7. /\ ~Claimed(i) /\ r.allocation = i /\ allocations[i].fate = "executed"
      /\ r.terms.amount <= allocations[i].amount
  <2>1. allocations[i].amount \in Nat /\ r.terms.amount \in Nat
    BY <1>2, <1>5, ClaimFacts DEF Allocation
  <2> QED BY <1>1, <2>1 DEF CanRecordClaim
<1> HIDE DEF e
<1>8. /\ cs \in Seq(ClaimRecord) /\ DOMAIN cs = DOMAIN lane.claims
      /\ cs[k] = e /\ \A l \in DOMAIN lane.claims \ {k} : cs[l] = lane.claims[l]
  BY <1>3, <1>5, ExceptSeq
<1> HIDE DEF cs
<1>9. /\ ClaimTypeOK' /\ HistoryNumbered' /\ ClaimsAreDeliveries' /\ lane'.claims = cs
      /\ Claimed(i)' /\ \A v : Claimed(v) => Claimed(v)'
  <2>1. \A l \in DOMAIN lane.history : lane.history[l].update # i
    BY <1>7 DEF Claimed
  <2> HIDE DEF r
  <2>2. /\ i \in DOMAIN allocations \cup {-Len(lane.history) - 1}
        /\ i > 0 => /\ allocations[i].fate = "executed"
                   /\ r.terms.amount <= allocations[i].amount
    BY <1>7
  <2>3. UNCHANGED <<payer, allocations, claimable, session>>
    BY <1>1
  <2> QED BY <1>4, <1>5, <1>6, <1>8, <2>1, <2>2, <2>3, CreditKeepsBooks
<1>10. \A l \in DOMAIN cs :
         /\ cs[l].allocation = lane.claims[l].allocation /\ cs[l].cycle = lane.claims[l].cycle
         /\ cs[l].terms = lane.claims[l].terms
         /\ l = k \/ cs[l] = lane.claims[l]
  BY <1>5, <1>8
<1>11. ClaimRefers'
  <2>1. \A l \in DOMAIN cs :
          /\ cs[l].allocation \in DOMAIN allocations
          /\ allocations[cs[l].allocation].cycle = cs[l].cycle
          /\ Regular(cs[l].cycle, cs[l].terms)
    BY <1>2, <1>8, <1>10 DEF ClaimRefers
  <2>2. UNCHANGED <<payer, allocations, claimable, session>>
    BY <1>1
  <2>3. lane'.claims = cs /\ ClaimRefers
    BY <1>2, <1>9
  <2> HIDE DEF cs
  <2> QED BY <2>1, <2>2, <2>3 DEF ClaimRefers, Regular
<1>12. ASSUME payer.serial PROVE (OneAtATime /\ OneRecordEach /\ FromRecords)'
  <2>1. OneAtATime'
    BY <1>1, <1>12 DEF ClaimInv, OneAtATime
  <2>2. OneRecordEach'
    <3>1. OneRecordEach
      BY <1>12 DEF ClaimInv
    <3>2. \A l, m \in DOMAIN cs : cs[l].cycle = cs[m].cycle => l = m
      BY <1>8, <1>10, <3>1 DEF OneRecordEach
    <3>3. \A g \in Sessions : session[g].step \in {"prepared", "allocated"} =>
            \A l \in DOMAIN cs : cs[l].cycle # session[g].cycle
      BY <1>8, <1>10, <3>1 DEF OneRecordEach
    <3>4. ASSUME NEW l \in DOMAIN cs, NEW v, cs[l].status = "claimed", v = cs[l].allocation
          PROVE  Claimed(v)'
      <4>1. l \in DOMAIN lane.claims /\ v = lane.claims[l].allocation
        BY <1>8, <1>10, <3>4
      <4>2. CASE l = k
        BY <1>7, <1>9, <4>1, <4>2
      <4>3. CASE l # k
        <5>1. lane.claims[l].status = "claimed"
          BY <1>8, <3>4, <4>1, <4>3
        <5> QED BY <1>9, <3>1, <4>1, <5>1 DEF OneRecordEach
      <4> QED BY <4>2, <4>3
    <3>5. \A v : \A l \in DOMAIN cs : cs[l].status = "claimed" /\ v = cs[l].allocation => Claimed(v)'
      BY <3>4
    <3>6. (\A l \in DOMAIN lane.claims : lane.claims[l].status = "claimed" =>
             Claimed(lane.claims[l].allocation))'
      BY <1>9, <3>5 DEF Claimed
    <3>7. /\ \A l, m \in DOMAIN lane'.claims :
                 lane'.claims[l].cycle = lane'.claims[m].cycle => l = m
          /\ \A g \in Sessions : session'[g].step \in {"prepared", "allocated"} =>
               \A l \in DOMAIN lane'.claims : lane'.claims[l].cycle # session'[g].cycle
      <4>1. lane'.claims = cs /\ session' = session
        BY <1>1, <1>9
      <4>2. \A l, m \in DOMAIN lane'.claims :
              lane'.claims[l].cycle = lane'.claims[m].cycle => l = m
        BY <3>2, <4>1
      <4>3. \A g \in Sessions : session'[g].step \in {"prepared", "allocated"} =>
              \A l \in DOMAIN lane'.claims : lane'.claims[l].cycle # session'[g].cycle
        BY <3>3, <4>1
      <4> QED BY <4>2, <4>3
    <3> QED BY <3>6, <3>7 DEF OneRecordEach
  <2>3. FromRecords'
    <3>1. \A j, t : RecordedAs(j, t) => RecordedAs(j, t)'
      BY <1>8, <1>9, <1>10 DEF RecordedAs
    <3> QED BY <1>1, <1>12, <3>1 DEF ClaimInv, FromRecords
  <2> QED BY <2>1, <2>2, <2>3
<1> QED
  BY <1>1, <1>2, <1>9, <1>11, <1>12 DEF ClaimInv

LEMMA ClaimStep ==
  ASSUME ClaimInv, [ClaimNext]_claimVars
  PROVE  ClaimInv'
<1>1. CASE now < MaxPeriods /\ Tick /\ UNCHANGED <<payer, lane, allocations, claimable, session>>
  BY <1>1, ClaimTick
<1>2. CASE OtherCycle
  BY <1>2, OtherCycleKeepsInv
<1>3. CASE stopLane
  BY <1>3, StopLaneKeepsInv
<1>4. ASSUME NEW f \in Sessions,
             \/ \E req \in Requests : prepareReceiverAllocation(f, req)
             \/ Allocate(f) \/ recordReceiverAllocation(f)
             \/ prepareReceiverClaim(f) \/ CreateClaim(f) \/ recordReceiverClaim(f)
             \/ Abort(f)
      PROVE  ClaimInv'
  BY <1>4, PrepareAllocationKeepsInv, AllocateKeepsInv, RecordAllocationKeepsInv,
     PrepareClaimKeepsInv, CreateClaimKeepsInv, RecordClaimContractKeepsInv, AbortKeepsInv
<1>5. ASSUME NEW c \in DOMAIN claimable, Claim(c) \/ SenderWithdraw(c) PROVE ClaimInv'
  BY <1>5, ClaimKeepsInv, WithdrawKeepsInv
<1>6. ASSUME NEW k \in DOMAIN lane.claims, NEW i \in DOMAIN allocations, recordClaim(k, i)
      PROVE  ClaimInv'
  BY <1>6, RecordClaimKeepsInv
<1>7. CASE UNCHANGED claimVars
  <2>1. UNCHANGED <<now, payer, lane, allocations, claimable, session>>
    BY <1>7 DEF claimVars
  <2>2. now' \in Nat /\ ClaimTypeOK' /\ ClaimRefers' /\ HistoryNumbered' /\ ClaimsAreDeliveries'
    BY <2>1 DEF ClaimInv, ClaimTypeOK, ClaimRefers, Regular, HistoryNumbered, ClaimsAreDeliveries
  <2>3. ASSUME payer.serial PROVE (OneAtATime /\ OneRecordEach /\ FromRecords)'
    BY <2>1, <2>3 DEF ClaimInv, OneAtATime, OneRecordEach, Claimed, FromRecords, RecordedAs
  <2> QED BY <2>1, <2>2, <2>3 DEF ClaimInv
<1> QED
  BY <1>1, <1>2, <1>3, <1>4, <1>5, <1>6, <1>7 DEF ClaimNext

\* What one period pays, over and over.
LEMMA TotalOfPeriods ==
  ASSUME NEW n \in Nat, NEW rate \in Nat
  PROVE  Summable([c \in 1 .. n |-> rate]) /\ Total([c \in 1 .. n |-> rate]) = rate * n
<1> DEFINE f == [c \in 1 .. n |-> rate]
<1>1. /\ IsFiniteSet(1 .. n) /\ Cardinality(1 .. n) = n
      /\ IsFiniteSet(1 .. rate) /\ Cardinality(1 .. rate) = rate
  BY FS_Interval
<1>2. Summable(f)
  BY <1>1 DEF Summable
<1>3. Units(f) = (1 .. n) \X (1 .. rate)
  BY DEF Units
<1>4. Cardinality((1 .. n) \X (1 .. rate)) = n * rate
  <2> DEFINE S == 1 .. n
             T == 1 .. rate
  <2>1. IsFiniteSet(S) /\ IsFiniteSet(T) /\ Cardinality(S) = n /\ Cardinality(T) = rate
    BY <1>1
  <2> HIDE DEF S, T
  <2>2. Cardinality(S \X T) = Cardinality(S) * Cardinality(T)
    BY <2>1, FS_Product
  <2> QED BY <2>1, <2>2 DEF S, T
<1>5. n * rate = rate * n
  OBVIOUS
<1> QED
  BY <1>2, <1>3, <1>4, <1>5 DEF Total

LEMMA ClaimInvIsSound ==
  ASSUME ClaimInv PROVE ClaimsSound
<1>1. ClaimTypeOK /\ ClaimsAreDeliveries /\ now \in Nat
  BY DEF ClaimInv
<1>2. ASSUME payer.serial, NEW i \in DOMAIN allocations, allocations[i].fate = "executed"
      PROVE  Claimed(i) \/ \E k \in DOMAIN lane.claims : CanRecordClaim(k, i)
  <2>1. OneRecordEach /\ FromRecords
    BY <1>2 DEF ClaimInv
  <2>2. PICK t \in ClaimTerms : RecordedAs(i, t) /\ t.amount = allocations[i].amount
    BY <1>2, <2>1 DEF FromRecords
  <2>3. PICK k \in DOMAIN lane.claims : lane.claims[k].allocation = i /\ lane.claims[k].terms = t
    BY <2>2 DEF RecordedAs
  <2>4. allocations[i].amount \in Nat
    BY <1>1, ClaimFacts DEF Allocation
  <2>5. allocations[i].amount >= lane.claims[k].terms.amount
    BY <2>2, <2>3, <2>4
  <2>6. CASE lane.claims[k].status = "claimed"
    BY <2>1, <2>3, <2>6 DEF OneRecordEach
  <2>7. CASE lane.claims[k].status # "claimed"
    BY <1>2, <2>3, <2>5, <2>7 DEF CanRecordClaim
  <2> QED BY <2>6, <2>7
<1>3. ASSUME payer.serial, ~payer.catchUp PROVE OnePeriodEach
  <2> DEFINE f == [i \in Unchosen |-> allocations[i].amount]
             g == [c \in 1 .. now |-> PeriodRate]
             h == [i \in Unchosen |-> allocations[i].cycle]
  <2>1. OneRecordEach /\ FromRecords /\ ClaimRefers
    BY <1>3 DEF ClaimInv
  <2>2. /\ DOMAIN allocations = 1 .. Len(allocations) /\ Len(allocations) \in Nat
        /\ PeriodRate \in Nat
        /\ \A i \in DOMAIN allocations : allocations[i].amount \in Nat
                                        /\ allocations[i].cycle \in Nat \ {0}
    BY <1>1, ClaimFacts DEF Allocation
  <2>3. ASSUME NEW i \in Unchosen
        PROVE  \E k \in DOMAIN lane.claims :
                 /\ lane.claims[k].allocation = i /\ lane.claims[k].cycle = allocations[i].cycle
                 /\ allocations[i].amount <= PeriodRate /\ allocations[i].cycle <= now
    <3>1. i \in DOMAIN allocations /\ allocations[i].fate = "executed" /\ ~allocations[i].chosen
      BY DEF Unchosen
    <3>2. PICK t \in ClaimTerms :
            /\ RecordedAs(i, t)
            /\ t.amount = allocations[i].amount /\ t.chosen = allocations[i].chosen
            /\ t.unlockAt <= now
      BY <2>1, <3>1 DEF FromRecords
    <3>3. PICK k \in DOMAIN lane.claims : lane.claims[k].allocation = i /\ lane.claims[k].terms = t
      BY <3>2 DEF RecordedAs
    <3>4. /\ allocations[i].cycle = lane.claims[k].cycle
          /\ t.amount <= PeriodRate /\ lane.claims[k].cycle <= t.unlockAt
      BY <1>3, <2>1, <3>1, <3>2, <3>3 DEF ClaimRefers, Regular
    <3>5. allocations[i].cycle <= now
      BY <1>1, <2>2, <3>1, <3>2, <3>4 DEF ClaimTerms
    <3> QED BY <3>2, <3>3, <3>4, <3>5
  <2>4. Summable(f)
    <3>1. Unchosen \subseteq DOMAIN allocations /\ IsFiniteSet(DOMAIN allocations)
      BY <2>2, FS_Interval DEF Unchosen
    <3>2. IsFiniteSet(Unchosen)
      BY <3>1, FS_Subset
    <3> QED BY <2>2, <3>1, <3>2 DEF Summable
  <2>5. Summable(g) /\ Total(g) = PeriodRate * now
    BY <1>1, <2>2, TotalOfPeriods
  <2>6. h \in [DOMAIN f -> DOMAIN g]
    BY <1>1, <2>2, <2>3 DEF Unchosen
  <2>7. \A i, j \in DOMAIN f : h[i] = h[j] => i = j
    BY <2>1, <2>3 DEF OneRecordEach
  <2>8. \A i \in DOMAIN f : f[i] <= g[h[i]]
    BY <2>3, <2>6
  <2>9. Total(f) <= Total(g)
    <3> HIDE DEF f, g, h
    <3> QED BY <2>4, <2>5, <2>6, <2>7, <2>8, TotalInjects
  <2> QED BY <2>5, <2>9 DEF OnePeriodEach
<1> QED
  BY <1>1, <1>2, <1>3 DEF ClaimsSound, EveryClaimCounts

\* The row counts distinct executed allocations and adds up; one funding session at a
\* time leaves every claimed allocation counted or countable; and without catching up
\* what is claimed, where no caller chose amount or instant, never passes the rate for
\* every period gone by
\* (fundReceiverClaimV1ViaWallet, ReceiverClaimV1.Claim, recordClaimImpl).
THEOREM ClaimsAreSound == ClaimSpec => []ClaimsSound
<1>1. ClaimInit => ClaimInv
  BY ClaimInitInv
<1>2. ClaimInv /\ [ClaimNext]_claimVars => ClaimInv'
  BY ClaimStep
<1>3. ClaimInv => ClaimsSound
  BY ClaimInvIsSound
<1> QED
  BY <1>1, <1>2, <1>3, PTL DEF ClaimSpec
==============================================================================
