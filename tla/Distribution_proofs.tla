------------------------ MODULE Distribution_proofs ------------------------
(***************************************************************************)
(* The receivers of a distribution are never paid ahead of time and the    *)
(* record is backed by what the chain holds, for any receivers, schedule,  *)
(* fundings and deadlines, and whatever is prepared, signed, executed and  *)
(* recorded late, twice or out of order.                                   *)
(*                                                                         *)
(* Only the record's own allocation can be settled, and only once before   *)
(* it is recorded: a plan is executable as long as the allocation it names *)
(* is live, all executable plans name the same one, and none of them knows *)
(* its successor.  So the chain is ahead of the record by one settlement   *)
(* at most, and that one was checked against the schedule when planned.    *)
(***************************************************************************)
EXTENDS Distribution, FiniteSetTheorems, SequenceTheorems, Arithmetic_proofs

Statuses ==
  { "AwaitingFunding", "AwaitingRecipients", "DistributionActive", "DistributionPaused",
    "DistributionCompleted", "DistributionCancelled" }

Record ==
  [ status : Statuses, totalFunded : Nat, totalGrossSettled : Nat,
    currentAllocationCid : Nat, currentSettlementDeadline : Nat, lastFundingId : Nat,
    fundingIds : SUBSET Nat, settlementIds : SUBSET Nat,
    recipientAuthorizations : SUBSET Consent, recipientAuthorizationIds : SUBSET (Nat \X Nat) ]

Typed ==
  /\ now \in Nat /\ now <= MaxTime
  /\ rec \in Record
  /\ IsFiniteSet(rec.fundingIds) /\ IsFiniteSet(rec.settlementIds)
  /\ drafts \subseteq Draft /\ alloc \in Seq(Allocation)
  /\ consents \subseteq Consent /\ plans \subseteq Plan

settledOf == {i \in DOMAIN alloc : alloc[i].state = "settled"}
cur == rec.currentAllocationCid
Funded == rec.status \in {"AwaitingRecipients", "DistributionActive", "DistributionPaused"}

\* What the status says of the funding.
StatusFits ==
  /\ rec.totalGrossSettled <= rec.totalFunded
  /\ rec.status = "AwaitingFunding" => rec.totalGrossSettled = rec.totalFunded
  /\ Funded <=> cur # NoCid
  /\ Funded => rec.totalGrossSettled < rec.totalFunded

\* The record and the chain: what is settled and not recorded is the one current
\* allocation, and what is current holds the rest of the latest funding.
Booked ==
  /\ Cardinality(rec.settlementIds) = rec.totalGrossSettled
  /\ rec.settlementIds \subseteq settledOf
  /\ \A i, j \in settledOf \ rec.settlementIds : i = j
  /\ ~Closed => \A i \in settledOf \ rec.settlementIds : i = cur
  /\ \A i \in settledOf : alloc[i].id \in rec.fundingIds
  /\ cur # NoCid =>
       /\ cur \in DOMAIN alloc
       /\ cur \notin rec.settlementIds
       /\ alloc[cur].amount = outstanding
       /\ alloc[cur].id = rec.lastFundingId
       /\ rec.lastFundingId \in rec.fundingIds

\* A plan that can still be executed names the current allocation, pays a period
\* that was due, and leaves what the record would leave.
Executable(p) == alloc[p.cid].state = "live"
Planned ==
  /\ \A p \in plans : p.cid \in DOMAIN alloc /\ alloc[p.cid].id \in rec.fundingIds
  /\ \A p, q \in plans : Executable(p) /\ Executable(q) => p.cid = q.cid
  /\ \A p \in plans : Executable(p) =>
       /\ ~Closed => p.cid = cur
       /\ settledOf = rec.settlementIds
       /\ p.settledAt <= now
       /\ rec.totalGrossSettled + 1 <= accruedDistributionGross(p.settledAt)
       /\ p.next = outstanding - 1

\* The successor of an allocation whose settlement is not recorded yet is what the
\* record will take over, and nobody has planned with it.
SuccessorWaits ==
  cur \in settledOf /\ alloc[cur].next # NoCid =>
    LET n == alloc[cur].next IN
    /\ n \in DOMAIN alloc /\ n \notin settledOf
    /\ alloc[n].amount = outstanding - 1
    /\ alloc[n].id = rec.lastFundingId
    /\ \A p \in plans : p.cid # n

\* Whoever consented did so under the id of this funding or under one recorded
\* before.
Consented ==
  /\ authorizationCount \in Nat
  /\ rec.status = "AwaitingRecipients" => IsFiniteSet(rec.recipientAuthorizations)
  /\ \A a \in rec.recipientAuthorizations :
       /\ a.id \in rec.recipientAuthorizationIds
       /\ a.id[1] = rec.lastFundingId
  /\ \A a, b \in rec.recipientAuthorizations : a.receiver = b.receiver => a = b
  /\ ~Closed => \A c \in consents :
       \/ c.id \in rec.recipientAuthorizationIds
       \/ /\ rec.status = "AwaitingRecipients" /\ ~allReceiversAuthorized
          /\ c.id = defaultAuthorizationId(authorizationCount + 1)

\* A default id is the number of the funding it was prepared for.
Numbered(x) ==
  x.id \notin OwnIds =>
    /\ 1 <= x.id /\ x.id <= fundingCount + 1
    /\ x.id = fundingCount + 1 => FitsSchedule(x.amount)
Scheduled ==
  OwnIds \cap rec.fundingIds = {} =>
    /\ rec.fundingIds = 1 .. fundingCount
    /\ EndTime # 0 => rec.totalFunded <= scheduledPeriods
    /\ \A d \in drafts : Numbered(d)
    /\ \A i \in DOMAIN alloc : alloc[i].root => Numbered(alloc[i])

DistributionInv ==
  /\ Typed /\ StatusFits /\ Booked /\ Planned /\ SuccessorWaits /\ Consented /\ Scheduled
  /\ NeverPaidAhead

----------------------------------------------------------------------------
(* The operators the actions are built from *)

\* The schedule's periods never fall as time passes.
LEMMA PeriodsNeverFall ==
  ASSUME NEW a \in Nat, NEW b \in Nat, a <= b
  PROVE  /\ accruedDistributionGross(a) \in Nat
         /\ accruedDistributionGross(b) \in Nat
         /\ accruedDistributionGross(a) <= accruedDistributionGross(b)
<1> DEFINE Upto(t) == IF EndTime # 0 /\ EndTime < t THEN EndTime ELSE t
           Periods(t) == IF t <= StartTime THEN 0 ELSE (t - StartTime) \div PeriodSeconds
<1>1. Upto(a) \in Nat /\ Upto(b) \in Nat /\ Upto(a) <= Upto(b)
  BY DistributionAssumption, SMT
<1>2. ASSUME NEW t \in Nat PROVE accruedDistributionGross(t) = Periods(Upto(t))
  BY DEF accruedDistributionGross
<1>3. ASSUME NEW x \in Nat, NEW y \in Nat, x <= y
      PROVE  Periods(x) \in Nat /\ Periods(y) \in Nat /\ Periods(x) <= Periods(y)
  <2>1. CASE x <= StartTime
    <3>1. CASE y <= StartTime
      BY <2>1, <3>1
    <3>2. CASE ~(y <= StartTime)
      <4>1. y - StartTime \in Nat
        BY <3>2, DistributionAssumption, SMT
      <4>2. (y - StartTime) \div PeriodSeconds \in Nat
        BY <4>1, DivMod, DistributionAssumption
      <4> QED BY <2>1, <3>2, <4>2, SMT
    <3> QED BY <3>1, <3>2
  <2>2. CASE ~(x <= StartTime)
    <3>1. /\ ~(y <= StartTime)
          /\ x - StartTime \in Nat /\ y - StartTime \in Nat
          /\ x - StartTime <= y - StartTime
      BY <1>3, <2>2, DistributionAssumption, SMT
    <3>2. /\ (x - StartTime) \div PeriodSeconds \in Nat
          /\ (y - StartTime) \div PeriodSeconds \in Nat
          /\ (x - StartTime) \div PeriodSeconds <= (y - StartTime) \div PeriodSeconds
      BY <3>1, DivMod, DivModMonotone, DistributionAssumption
    <3> QED BY <2>2, <3>1, <3>2
  <2> QED BY <2>1, <2>2
<1> HIDE DEF Upto, Periods
<1> QED BY <1>1, <1>2, <1>3

\* The allocations are a finite sequence, and so are those that are settled.
LEMMA AllocFacts ==
  ASSUME alloc \in Seq(Allocation)
  PROVE  /\ Len(alloc) \in Nat /\ DOMAIN alloc = 1 .. Len(alloc)
         /\ \A i \in DOMAIN alloc : alloc[i] \in Allocation
         /\ IsFiniteSet(settledOf)
<1>1. Len(alloc) \in Nat /\ DOMAIN alloc = 1 .. Len(alloc)
  BY LenProperties
<1>2. \A i \in DOMAIN alloc : alloc[i] \in Allocation
  BY <1>1, ElementOfSeq
<1>3. IsFiniteSet(1 .. Len(alloc))
  BY <1>1, FS_Interval
<1>4. settledOf \in SUBSET (1 .. Len(alloc))
  BY <1>1 DEF settledOf
<1>5. IsFiniteSet(settledOf)
  BY <1>3, <1>4, FS_Subset
<1> QED BY <1>1, <1>2, <1>5

\* A new allocation leaves the others alone.
LEMMA Appended ==
  ASSUME NEW s \in Seq(Allocation), NEW a \in Allocation
  PROVE  /\ Append(s, a) \in Seq(Allocation)
         /\ DOMAIN Append(s, a) = DOMAIN s \cup {Len(s) + 1}
         /\ Append(s, a)[Len(s) + 1] = a
         /\ \A i \in DOMAIN s : Append(s, a)[i] = s[i]
         /\ Len(s) + 1 \notin DOMAIN s /\ Len(s) + 1 \in Nat \ {0}
<1>1. /\ Append(s, a) \in Seq(Allocation) /\ Len(Append(s, a)) = Len(s) + 1
      /\ \A i \in 1 .. Len(s) : Append(s, a)[i] = s[i]
      /\ Append(s, a)[Len(s) + 1] = a
  BY AppendProperties
<1>2. /\ Len(s) \in Nat /\ DOMAIN s = 1 .. Len(s)
      /\ DOMAIN Append(s, a) = 1 .. Len(Append(s, a))
  BY <1>1, LenProperties
<1>3. 1 .. (Len(s) + 1) = (1 .. Len(s)) \cup {Len(s) + 1}
  BY <1>2, SMT
<1> QED BY <1>1, <1>2, <1>3, SMT

\* What has been paid is what is settled.
LEMMA PaidIsSettled == paid = Cardinality(settledOf)
BY DEF paid, settledOf

----------------------------------------------------------------------------
(* Initially, and as time passes *)

LEMMA DistributionInitInv ==
  ASSUME Init PROVE DistributionInv
<1>1. rec = NewRecord /\ now = 0 /\ drafts = {} /\ alloc = <<>> /\ consents = {} /\ plans = {}
  BY DEF Init
<1>2. NoCid = 0 /\ MaxTime \in Nat
  BY ServiceAssumption, DistributionAssumption
<1>3. IsFiniteSet({}) /\ Cardinality({}) = 0
  BY FS_EmptySet
<1>4. alloc \in Seq(Allocation) /\ DOMAIN alloc = {}
  BY <1>1, EmptySeq, SMT
<1>5. Typed
  BY <1>1, <1>2, <1>3, <1>4, SMT DEF Typed, Record, NewRecord, Statuses
<1>6. settledOf = {}
  BY <1>4 DEF settledOf
<1>7. StatusFits /\ SuccessorWaits
  BY <1>1, <1>2, <1>6, SMT DEF StatusFits, SuccessorWaits, Funded, cur, NewRecord
<1>8. Booked /\ Planned
  BY <1>1, <1>3, <1>6 DEF Booked, Planned, cur, NewRecord
<1>9. Consented
  BY <1>1, <1>3, SMT DEF Consented, authorizationCount, NewRecord
<1>10. Scheduled
  <2>1. rec.fundingIds = {} /\ fundingCount = 0 /\ rec.totalFunded = 0
    BY <1>1, <1>3 DEF NewRecord, fundingCount
  <2>2. EndTime # 0 => 0 <= scheduledPeriods
    <3> SUFFICES ASSUME EndTime # 0 PROVE 0 <= scheduledPeriods
      OBVIOUS
    <3>1. EndTime - StartTime \in Nat
      BY DistributionAssumption, SMT
    <3> QED BY <3>1, DivMod, DistributionAssumption, SMT DEF scheduledPeriods
  <2>3. 1 .. 0 = {}
    BY SMT
  <2> QED BY <1>1, <1>4, <2>1, <2>2, <2>3 DEF Scheduled
<1>11. NeverPaidAhead
  BY <1>1, <1>3, <1>6, PaidIsSettled, PeriodsNeverFall, SMT DEF NeverPaidAhead
<1> QED BY <1>5, <1>7, <1>8, <1>9, <1>10, <1>11 DEF DistributionInv

LEMMA TickKeepsInv ==
  ASSUME DistributionInv, Tick PROVE DistributionInv'
<1>1. now < MaxTime /\ now' = now + 1 /\ UNCHANGED <<rec, drafts, alloc, consents, plans>>
  BY DEF Tick
<1>2. now \in Nat /\ now' \in Nat /\ now <= now'
  BY <1>1, SMT DEF DistributionInv, Typed
<1>3. Typed'
  BY <1>1, DistributionAssumption, SMT DEF DistributionInv, Typed
<1>4. StatusFits' /\ Booked' /\ SuccessorWaits'
  BY <1>1 DEF DistributionInv, StatusFits, Funded, cur, Booked, settledOf, Closed,
              outstanding, SuccessorWaits
<1>5. Planned'
  <2>1. \A p \in plans : p.settledAt \in Nat
    BY DEF DistributionInv, Typed, Plan
  <2>2. \A p \in plans : p.settledAt <= now => p.settledAt <= now'
    BY <1>1, <1>2, <2>1, SMT
  <2> QED BY <1>1, <2>2 DEF DistributionInv, Planned, Executable, Closed, cur, settledOf, outstanding
<1>6. Consented' /\ Scheduled'
  BY <1>1 DEF DistributionInv, Consented, authorizationCount, Closed, allReceiversAuthorized,
              defaultAuthorizationId, Scheduled, Numbered, fundingCount, FitsSchedule
<1>7. NeverPaidAhead'
  <2>1. paid' = paid /\ paid <= accruedDistributionGross(now)
    BY <1>1 DEF paid, DistributionInv, NeverPaidAhead
  <2>2. paid \in Nat
    BY AllocFacts, PaidIsSettled, FS_CardinalityType DEF DistributionInv, Typed
  <2>3. /\ accruedDistributionGross(now) \in Nat /\ accruedDistributionGross(now') \in Nat
        /\ accruedDistributionGross(now) <= accruedDistributionGross(now')
    BY <1>2, PeriodsNeverFall
  <2> QED BY <2>1, <2>2, <2>3, SMT DEF NeverPaidAhead
<1> QED BY <1>3, <1>4, <1>5, <1>6, <1>7 DEF DistributionInv

----------------------------------------------------------------------------
(* What is prepared *)

\* The payer's default id is the number of the next funding.
LEMMA PrepareFundingKeepsInv ==
  ASSUME DistributionInv,
         NEW amount \in Fundings, NEW deadline \in Deadlines,
         NEW id \in OwnIds \cup {fundingCount + 1}, PrepareFunding(id, amount, deadline)
  PROVE  DistributionInv'
<1> DEFINE d == [id |-> id, amount |-> amount, deadline |-> deadline]
<1>1. /\ drafts' = drafts \cup {d} /\ FitsSchedule(amount)
      /\ UNCHANGED <<now, rec, alloc, consents, plans>>
  BY DEF PrepareFunding
<1>2. fundingCount \in Nat
  BY FS_CardinalityType DEF DistributionInv, Typed, fundingCount
<1>3. d \in Draft
  BY <1>2, ServiceAssumption, SMT DEF Draft
<1>4. Typed'
  BY <1>1, <1>3 DEF DistributionInv, Typed
<1>5. /\ StatusFits' /\ Booked' /\ SuccessorWaits' /\ Planned' /\ Consented' /\ NeverPaidAhead'
  BY <1>1 DEF DistributionInv, StatusFits, Funded, cur, Booked, settledOf, Closed,
              outstanding, SuccessorWaits, Planned, Executable, Consented, authorizationCount,
              allReceiversAuthorized, defaultAuthorizationId, NeverPaidAhead, paid
<1>6. Scheduled'
  <2>1. id \notin OwnIds => id = fundingCount + 1
    OBVIOUS
  <2>2. Numbered(d)
    BY <1>1, <1>2, <2>1, SMT DEF Numbered
  <2>3. \A x : Numbered(x)' <=> Numbered(x)
    BY <1>1 DEF Numbered, fundingCount, FitsSchedule
  <2>4. \A x \in drafts' : x \in drafts \/ x = d
    BY <1>1
  <2> QED BY <1>1, <2>2, <2>3, <2>4 DEF DistributionInv, Scheduled, fundingCount
<1> QED BY <1>4, <1>5, <1>6 DEF DistributionInv

\* A receiver that is asked has not authorized yet.
LEMMA AuthorizeKeepsInv ==
  ASSUME DistributionInv, NEW r \in Receivers, Authorize(r) PROVE DistributionInv'
<1> DEFINE c == [ receiver |-> r, id |-> defaultAuthorizationId(authorizationCount + 1),
                  rolls |-> 0 ]
<1>1. /\ consents' = consents \cup {c} /\ rec.status = "AwaitingRecipients"
      /\ \A a \in rec.recipientAuthorizations : a.receiver # r
      /\ UNCHANGED <<now, rec, drafts, alloc, plans>>
  BY DEF Authorize
<1>2. authorizationCount \in Nat /\ rec.lastFundingId \in Nat
  BY DEF DistributionInv, Typed, Record, Consented
<1>3. c \in Consent
  BY <1>2, SMT DEF Consent, defaultAuthorizationId
<1>4. Typed'
  BY <1>1, <1>3 DEF DistributionInv, Typed
<1>5. /\ StatusFits' /\ Booked' /\ SuccessorWaits' /\ Planned' /\ Scheduled' /\ NeverPaidAhead'
  BY <1>1 DEF DistributionInv, StatusFits, Funded, cur, Booked, settledOf, Closed,
              outstanding, SuccessorWaits, Planned, Executable, Scheduled, Numbered,
              fundingCount, FitsSchedule, NeverPaidAhead, paid
<1>6. ~allReceiversAuthorized
  BY <1>1 DEF allReceiversAuthorized
<1>7. Consented'
  <2>1. \A x \in consents' : x \in consents \/ x = c
    BY <1>1
  <2>2. c.id = defaultAuthorizationId(authorizationCount + 1)
    OBVIOUS
  <2> HIDE DEF c
  <2> QED BY <1>1, <1>6, <2>1, <2>2 DEF DistributionInv, Consented, authorizationCount,
             allReceiversAuthorized, defaultAuthorizationId, Closed
<1> QED BY <1>4, <1>5, <1>7 DEF DistributionInv

\* A settlement is planned with the current allocation, when a period is due.
LEMMA PrepareSettlementKeepsInv ==
  ASSUME DistributionInv, PrepareSettlement PROVE DistributionInv'
<1> DEFINE p == [ cid |-> cur, auths |-> rec.recipientAuthorizations,
                  rolled |-> SettledBefore, next |-> outstanding - 1, settledAt |-> now ]
<1>1. /\ plans' = plans \cup {p} /\ rec.status = "DistributionActive"
      /\ cur # NoCid /\ PeriodDue /\ outstanding >= 1
      /\ UNCHANGED <<now, rec, drafts, alloc, consents>>
  BY DEF PrepareSettlement, cur
<1>2. rec \in Record /\ now \in Nat /\ plans \subseteq Plan
  BY DEF DistributionInv, Typed
<1>3. outstanding \in Int /\ outstanding - 1 \in Nat
  BY <1>1, <1>2, SMT DEF outstanding, Record
<1>4. p \in Plan
  BY <1>2, <1>3 DEF Plan, Record, SettledBefore, cur
<1>5. Typed'
  BY <1>1, <1>4 DEF DistributionInv, Typed
<1>6. /\ StatusFits' /\ Booked' /\ Consented' /\ Scheduled' /\ NeverPaidAhead'
  BY <1>1 DEF DistributionInv, StatusFits, Funded, cur, Booked, settledOf, Closed,
              outstanding, Consented, authorizationCount, allReceiversAuthorized,
              defaultAuthorizationId, Scheduled, Numbered,
              fundingCount, FitsSchedule, NeverPaidAhead, paid
<1>7. /\ p.cid = cur /\ p.settledAt = now /\ p.next = outstanding - 1
  OBVIOUS
<1> HIDE DEF p
<1>8. /\ cur \in DOMAIN alloc /\ alloc[cur].id \in rec.fundingIds
      /\ ~Closed
      /\ \A i \in settledOf \ rec.settlementIds : i = cur
  BY <1>1 DEF DistributionInv, Booked, Closed
<1>9. rec.totalGrossSettled + 1 <= accruedDistributionGross(now)
  <2>1. accruedDistributionGross(now) \in Nat
    BY <1>2, PeriodsNeverFall, SMT
  <2> QED BY <1>1, <1>2, <2>1, SMT DEF PeriodDue, Record
<1>10. Planned'
  <2>1. \A q \in plans' : q \in plans \/ q = p
    BY <1>1
  <2>2. Executable(p) => settledOf = rec.settlementIds
    BY <1>7, <1>8 DEF Executable, settledOf, DistributionInv, Booked
  <2>3. now <= now
    BY <1>2, SMT
  <2>4. \A q \in plans : Executable(q) => q.cid = cur
    BY <1>8 DEF DistributionInv, Planned
  <2>5. /\ \A q \in plans' : q.cid \in DOMAIN alloc /\ alloc[q.cid].id \in rec.fundingIds
        /\ \A q, s \in plans' : Executable(q) /\ Executable(s) => q.cid = s.cid
        /\ \A q \in plans' : Executable(q) =>
             /\ q.cid = cur
             /\ settledOf = rec.settlementIds
             /\ q.settledAt <= now
             /\ rec.totalGrossSettled + 1 <= accruedDistributionGross(q.settledAt)
             /\ q.next = outstanding - 1
    BY <1>7, <1>8, <1>9, <2>1, <2>2, <2>3, <2>4 DEF DistributionInv, Planned
  <2> QED BY <1>1, <2>5 DEF Planned, Executable, Closed, cur, settledOf, outstanding
<1>11. SuccessorWaits'
  <2>1. \A q \in plans' : q \in plans \/ q.cid = cur
    BY <1>1, <1>7
  <2> QED BY <1>1, <2>1 DEF DistributionInv, SuccessorWaits, cur, settledOf, outstanding
<1> QED BY <1>5, <1>6, <1>10, <1>11 DEF DistributionInv

----------------------------------------------------------------------------
(* The payer's wallet *)

LEMMA AllocateKeepsInv ==
  ASSUME DistributionInv, NEW d \in drafts, Allocate(d) PROVE DistributionInv'
<1> DEFINE a == [ id |-> d.id, amount |-> d.amount, deadline |-> d.deadline, root |-> TRUE,
                  state |-> "live", settledAt |-> 0, next |-> NoCid ]
           n == Len(alloc) + 1
<1>1. /\ drafts' = drafts \ {d} /\ alloc' = Append(alloc, a)
      /\ UNCHANGED <<now, rec, consents, plans>>
  BY DEF Allocate
<1>2. a \in Allocation /\ alloc \in Seq(Allocation)
  BY ServiceAssumption DEF DistributionInv, Typed, Draft, Allocation
<1>3. /\ alloc' \in Seq(Allocation)
      /\ DOMAIN alloc' = DOMAIN alloc \cup {n}
      /\ alloc'[n] = a
      /\ \A i \in DOMAIN alloc : alloc'[i] = alloc[i]
      /\ n \notin DOMAIN alloc
  BY <1>1, <1>2, Appended
<1>4. a.state = "live" /\ a.id = d.id /\ a.amount = d.amount
  OBVIOUS
<1> HIDE DEF a, n
<1>5. settledOf' = settledOf
  BY <1>3, <1>4 DEF settledOf
<1>6. Typed'
  BY <1>1, <1>3 DEF DistributionInv, Typed
<1>7. StatusFits' /\ Consented'
  BY <1>1 DEF DistributionInv, StatusFits, Funded, cur, Consented, authorizationCount,
              allReceiversAuthorized, defaultAuthorizationId, Closed
<1>8. Booked'
  <2>1. \A i \in settledOf : i \in DOMAIN alloc
    BY DEF settledOf
  <2> QED BY <1>1, <1>3, <1>5, <2>1 DEF DistributionInv, Booked, cur, Closed, outstanding
<1>9. Planned' /\ SuccessorWaits'
  <2>1. \A p \in plans : p.cid \in DOMAIN alloc
    BY DEF DistributionInv, Planned
  <2>2. \A p \in plans : Executable(p)' <=> Executable(p)
    BY <1>1, <1>3, <2>1 DEF Executable
  <2>3. Planned'
    BY <1>1, <1>3, <1>5, <2>1, <2>2 DEF DistributionInv, Planned, cur, Closed, outstanding
  <2>4. SuccessorWaits'
    <3>1. cur \in settledOf => cur \in DOMAIN alloc
      BY DEF settledOf
    <3> QED BY <1>1, <1>3, <1>5, <3>1 DEF DistributionInv, SuccessorWaits, cur, outstanding
  <2> QED BY <2>3, <2>4
<1>10. Scheduled'
  <2>1. \A x : Numbered(x)' <=> Numbered(x)
    BY <1>1 DEF Numbered, fundingCount, FitsSchedule
  <2>2. Numbered(d) => Numbered(a)
    BY <1>4 DEF Numbered
  <2> QED BY <1>1, <1>3, <2>1, <2>2 DEF DistributionInv, Scheduled, fundingCount
<1>11. NeverPaidAhead'
  BY <1>1, <1>5, PaidIsSettled DEF DistributionInv, NeverPaidAhead, paid, settledOf
<1> QED BY <1>6, <1>7, <1>8, <1>9, <1>10, <1>11 DEF DistributionInv

\* An allocation taken back is not settled, and no plan with it is executable.
LEMMA PayerWithdrawKeepsInv ==
  ASSUME DistributionInv, NEW i \in DOMAIN alloc, PayerWithdraw(i) PROVE DistributionInv'
<1> DEFINE a == [alloc[i] EXCEPT !.state = "withdrawn"]
<1>1. /\ alloc[i].state = "live" /\ alloc' = [alloc EXCEPT ![i].state = "withdrawn"]
      /\ UNCHANGED <<now, rec, drafts, consents, plans>>
  BY DEF PayerWithdraw
<1>2. alloc \in Seq(Allocation) /\ alloc[i] \in Allocation /\ DOMAIN alloc = 1 .. Len(alloc)
  BY AllocFacts DEF DistributionInv, Typed
<1>3. alloc' = [alloc EXCEPT ![i] = a]
  BY <1>1
<1>4. /\ a \in Allocation /\ a.state = "withdrawn"
      /\ a.id = alloc[i].id /\ a.amount = alloc[i].amount /\ a.root = alloc[i].root
      /\ a.next = alloc[i].next
  BY <1>2 DEF Allocation
<1> HIDE DEF a
<1>5. /\ alloc' \in Seq(Allocation) /\ DOMAIN alloc' = DOMAIN alloc
      /\ \A j \in DOMAIN alloc : alloc'[j] = IF j = i THEN a ELSE alloc[j]
  BY <1>2, <1>3, <1>4, ExceptSeq
<1>6. \A j \in DOMAIN alloc :
        /\ alloc'[j].id = alloc[j].id /\ alloc'[j].amount = alloc[j].amount
        /\ alloc'[j].root = alloc[j].root /\ alloc'[j].next = alloc[j].next
        /\ alloc'[j].state = "settled" <=> alloc[j].state = "settled"
        /\ alloc'[j].state = "live" => alloc[j].state = "live"
  BY <1>1, <1>4, <1>5
<1>7. settledOf' = settledOf
  BY <1>5, <1>6 DEF settledOf
<1>8. Typed'
  BY <1>1, <1>5 DEF DistributionInv, Typed
<1>9. StatusFits' /\ Consented'
  BY <1>1 DEF DistributionInv, StatusFits, Funded, cur, Consented, authorizationCount,
              allReceiversAuthorized, defaultAuthorizationId, Closed
<1>10. Booked'
  <2>1. \A j \in settledOf : j \in DOMAIN alloc
    BY DEF settledOf
  <2> QED BY <1>1, <1>5, <1>6, <1>7, <2>1 DEF DistributionInv, Booked, cur, Closed, outstanding
<1>11. Planned'
  <2>1. \A p \in plans : p.cid \in DOMAIN alloc
    BY DEF DistributionInv, Planned
  <2>2. \A p \in plans : Executable(p)' => Executable(p)
    BY <1>1, <1>6, <2>1 DEF Executable
  <2> QED BY <1>1, <1>5, <1>6, <1>7, <2>1, <2>2
          DEF DistributionInv, Planned, cur, Closed, outstanding
<1>12. SuccessorWaits'
  <2>1. cur \in settledOf => cur \in DOMAIN alloc
    BY DEF settledOf
  <2> QED BY <1>1, <1>5, <1>6, <1>7, <2>1 DEF DistributionInv, SuccessorWaits, cur, outstanding
<1>13. Scheduled'
  <2>1. \A x : Numbered(x)' <=> Numbered(x)
    BY <1>1 DEF Numbered, fundingCount, FitsSchedule
  <2>2. \A j \in DOMAIN alloc : Numbered(alloc[j]) => Numbered(alloc'[j])
    BY <1>6 DEF Numbered
  <2> QED BY <1>1, <1>5, <1>6, <2>1, <2>2 DEF DistributionInv, Scheduled, fundingCount
<1>14. NeverPaidAhead'
  BY <1>1, <1>7, PaidIsSettled DEF DistributionInv, NeverPaidAhead, paid, settledOf
<1> QED BY <1>8, <1>9, <1>10, <1>11, <1>12, <1>13, <1>14 DEF DistributionInv

----------------------------------------------------------------------------
(* What is recorded *)

\* The id recorded is the next one of this funding, so it is the id of every consent
\* not recorded before: the next number is given out again only after it.
LEMMA RecordAuthorizationKeepsInv ==
  ASSUME DistributionInv, NEW a \in consents, RecordAuthorization(a) PROVE DistributionInv'
<1> DEFINE ids == rec.recipientAuthorizationIds
           auths == rec.recipientAuthorizations
<1>1. /\ rec.status = "AwaitingRecipients" /\ a.id \notin ids
      /\ \A b \in auths : b.receiver # a.receiver
      /\ rec' = [ rec EXCEPT !.recipientAuthorizations = auths \cup {a},
                             !.recipientAuthorizationIds = ids \cup {a.id} ]
      /\ UNCHANGED <<now, drafts, alloc, consents, plans>>
  BY DEF RecordAuthorization, RecordDistributionRecipientAuthorization, UnusedId, IdsWith
<1>2. rec \in Record /\ a \in Consent /\ a.id \in Nat \X Nat
  BY DEF DistributionInv, Typed, Consent
<1>3. /\ rec' \in Record
      /\ rec'.recipientAuthorizations = auths \cup {a}
      /\ rec'.recipientAuthorizationIds = ids \cup {a.id}
      /\ rec'.status = rec.status /\ rec'.totalFunded = rec.totalFunded
      /\ rec'.totalGrossSettled = rec.totalGrossSettled
      /\ rec'.currentAllocationCid = rec.currentAllocationCid
      /\ rec'.lastFundingId = rec.lastFundingId /\ rec'.fundingIds = rec.fundingIds
      /\ rec'.settlementIds = rec.settlementIds
  BY <1>1, <1>2 DEF Record
<1> HIDE DEF ids, auths
<1>4. Typed'
  BY <1>1, <1>3 DEF DistributionInv, Typed
<1>5. /\ StatusFits' /\ Booked' /\ SuccessorWaits' /\ Planned' /\ Scheduled' /\ NeverPaidAhead'
  BY <1>1, <1>3 DEF DistributionInv, StatusFits, Funded, cur, Booked, settledOf, Closed,
              outstanding, SuccessorWaits, Planned, Executable, Scheduled, Numbered,
              fundingCount, FitsSchedule, NeverPaidAhead, paid
<1>6. IsFiniteSet(auths) /\ ~Closed
  BY <1>1 DEF DistributionInv, Consented, auths, Closed
<1>7. IsFiniteSet(auths \cup {a}) /\ Cardinality(auths \cup {a}) \in Nat
  BY <1>6, FS_AddElement, FS_CardinalityType
\* A consent whose id is not recorded has the next id of this funding.
<1>8. /\ a.id = defaultAuthorizationId(authorizationCount + 1)
      /\ \A c \in consents : c.id \in ids \cup {a.id}
  BY <1>1, <1>6 DEF DistributionInv, Consented, ids
<1>9. a.id[1] = rec.lastFundingId
  BY <1>8 DEF defaultAuthorizationId
<1>10. Consented'
  <2>1. \A b \in auths \cup {a} : b.id \in ids \cup {a.id} /\ b.id[1] = rec.lastFundingId
    BY <1>9 DEF DistributionInv, Consented, ids, auths
  <2>2. \A b, c \in auths \cup {a} : b.receiver = c.receiver => b = c
    BY <1>1 DEF DistributionInv, Consented, auths
  <2> QED BY <1>1, <1>3, <1>7, <1>8, <2>1, <2>2 DEF Consented, authorizationCount
<1> QED BY <1>4, <1>5, <1>10 DEF DistributionInv

LEMMA ActivateKeepsInv ==
  ASSUME DistributionInv, Activate PROVE DistributionInv'
<1>1. /\ rec.status = "AwaitingRecipients" /\ allReceiversAuthorized
      /\ rec' = [rec EXCEPT !.status = "DistributionActive"]
      /\ UNCHANGED <<now, drafts, alloc, consents, plans>>
  BY DEF Activate, ActivateDistribution
<1>2. rec \in Record
  BY DEF DistributionInv, Typed
<1>3. /\ rec' \in Record /\ rec'.status = "DistributionActive"
      /\ rec'.recipientAuthorizations = rec.recipientAuthorizations
      /\ rec'.recipientAuthorizationIds = rec.recipientAuthorizationIds
      /\ rec'.totalFunded = rec.totalFunded
      /\ rec'.totalGrossSettled = rec.totalGrossSettled
      /\ rec'.currentAllocationCid = rec.currentAllocationCid
      /\ rec'.lastFundingId = rec.lastFundingId /\ rec'.fundingIds = rec.fundingIds
      /\ rec'.settlementIds = rec.settlementIds
  BY <1>1, <1>2 DEF Record, Statuses
<1>4. Typed'
  BY <1>1, <1>3 DEF DistributionInv, Typed
<1>5. /\ StatusFits' /\ Booked' /\ SuccessorWaits' /\ Planned' /\ Scheduled' /\ NeverPaidAhead'
  BY <1>1, <1>3 DEF DistributionInv, StatusFits, Funded, cur, Booked, settledOf, Closed,
              outstanding, SuccessorWaits, Planned, Executable, Scheduled, Numbered,
              fundingCount, FitsSchedule, NeverPaidAhead, paid
<1>6. Consented'
  BY <1>1, <1>3 DEF DistributionInv, Consented, authorizationCount, Closed
<1> QED BY <1>4, <1>5, <1>6 DEF DistributionInv

\* The operator pauses, resumes, completes or cancels.
LEMMA ChangeStateKeepsInv ==
  ASSUME DistributionInv, ChangeState PROVE DistributionInv'
<1>1. rec \in Record /\ UNCHANGED <<now, drafts, alloc, consents, plans>>
  BY DEF DistributionInv, Typed, ChangeState
<1>2. CASE PauseDistribution \/ ResumeDistribution
  <2>1. PICK s \in {"DistributionActive", "DistributionPaused"} :
          rec.status \in {"DistributionActive", "DistributionPaused"}
            /\ rec' = [rec EXCEPT !.status = s]
    BY <1>2 DEF PauseDistribution, ResumeDistribution
  <2>2. /\ rec' \in Record /\ rec'.status = s
        /\ rec'.recipientAuthorizations = rec.recipientAuthorizations
        /\ rec'.recipientAuthorizationIds = rec.recipientAuthorizationIds
        /\ rec'.totalFunded = rec.totalFunded
        /\ rec'.totalGrossSettled = rec.totalGrossSettled
        /\ rec'.currentAllocationCid = rec.currentAllocationCid
        /\ rec'.lastFundingId = rec.lastFundingId /\ rec'.fundingIds = rec.fundingIds
        /\ rec'.settlementIds = rec.settlementIds
    BY <1>1, <2>1 DEF Record, Statuses
  <2>3. Typed'
    BY <1>1, <2>2 DEF DistributionInv, Typed
  <2>4. /\ StatusFits' /\ Booked' /\ SuccessorWaits' /\ Planned' /\ Scheduled' /\ NeverPaidAhead'
    BY <1>1, <2>1, <2>2 DEF DistributionInv, StatusFits, Funded, cur, Booked, settledOf, Closed,
                outstanding, SuccessorWaits, Planned, Executable, Scheduled, Numbered,
                fundingCount, FitsSchedule, NeverPaidAhead, paid
  <2>5. Consented'
    BY <1>1, <2>1, <2>2 DEF DistributionInv, Consented, authorizationCount, Closed
  <2> QED BY <2>3, <2>4, <2>5 DEF DistributionInv
<1>3. CASE CompleteDistribution \/ CancelDistribution
  <2>1. PICK s \in {"DistributionCompleted", "DistributionCancelled"} :
          ~Closed /\ rec' = ClosedAs(s)
    BY <1>3 DEF CompleteDistribution, CancelDistribution, Closed
  <2>2. /\ rec' \in Record /\ rec'.status = s
        /\ rec'.recipientAuthorizations = {} /\ rec'.currentAllocationCid = NoCid
        /\ rec'.recipientAuthorizationIds = rec.recipientAuthorizationIds
        /\ rec'.totalFunded = rec.totalFunded
        /\ rec'.totalGrossSettled = rec.totalGrossSettled
        /\ rec'.lastFundingId = rec.lastFundingId /\ rec'.fundingIds = rec.fundingIds
        /\ rec'.settlementIds = rec.settlementIds
    BY <1>1, <2>1, ServiceAssumption DEF Record, Statuses, ClosedAs
  <2>3. Typed'
    BY <1>1, <2>2 DEF DistributionInv, Typed
  <2>4. StatusFits' /\ Booked' /\ Planned' /\ Scheduled' /\ NeverPaidAhead'
    BY <1>1, <2>1, <2>2 DEF DistributionInv, StatusFits, Funded, cur, Booked, settledOf, Closed,
                outstanding, Planned, Executable, Scheduled, Numbered,
                fundingCount, FitsSchedule, NeverPaidAhead, paid
  <2>5. SuccessorWaits'
    <3>1. NoCid \notin DOMAIN alloc
      BY AllocFacts, ServiceAssumption, SMT DEF DistributionInv, Typed
    <3> QED BY <1>1, <2>2, <3>1 DEF SuccessorWaits, cur, settledOf
  <2>6. Consented'
    BY <1>1, <2>2, FS_EmptySet, SMT DEF Consented, authorizationCount, Closed
  <2> QED BY <2>3, <2>4, <2>5, <2>6 DEF DistributionInv
<1> QED BY <1>2, <1>3 DEF ChangeState

\* A funding is recorded when nothing is current; what becomes current was neither
\* settled nor planned with, as its id was not recorded before.
LEMMA RecordFundingKeepsInv ==
  ASSUME DistributionInv, NEW i \in DOMAIN alloc, RecordFunding(i) PROVE DistributionInv'
<1> DEFINE a == alloc[i]
<1>1. /\ rec.status = "AwaitingFunding" /\ a.amount > 0 /\ a.root
      /\ rec.currentAllocationCid = NoCid /\ rec.totalGrossSettled = rec.totalFunded
      /\ a.id \notin rec.fundingIds
      /\ rec' = [ rec EXCEPT !.totalFunded = rec.totalFunded + a.amount,
                             !.currentAllocationCid = i,
                             !.lastFundingId = a.id, !.fundingIds = rec.fundingIds \cup {a.id},
                             !.recipientAuthorizations = {},
                             !.currentSettlementDeadline = a.deadline,
                             !.status = "AwaitingRecipients" ]
      /\ UNCHANGED <<now, drafts, alloc, consents, plans>>
  BY DEF RecordFunding, RecordDistributionFunding, Exhausted, committedAmount
<1>2. /\ rec \in Record /\ a \in Allocation /\ i \in Nat /\ i # NoCid
      /\ DOMAIN alloc = 1 .. Len(alloc) /\ NoCid \notin DOMAIN alloc
  BY AllocFacts, ServiceAssumption, SMT DEF DistributionInv, Typed
<1>3. rec.totalFunded + a.amount \in Nat /\ a.id \in Nat /\ a.deadline \in Nat
  BY <1>2, SMT DEF Record, Allocation
<1>4. /\ rec' \in Record /\ rec'.status = "AwaitingRecipients"
      /\ rec'.recipientAuthorizations = {} /\ rec'.currentAllocationCid = i
      /\ rec'.recipientAuthorizationIds = rec.recipientAuthorizationIds
      /\ rec'.totalFunded = rec.totalFunded + a.amount
      /\ rec'.totalGrossSettled = rec.totalGrossSettled
      /\ rec'.lastFundingId = a.id /\ rec'.fundingIds = rec.fundingIds \cup {a.id}
      /\ rec'.settlementIds = rec.settlementIds
  BY <1>1, <1>2, <1>3, Zenon DEF Record, Statuses
<1>5. IsFiniteSet(rec'.fundingIds) /\ fundingCount \in Nat /\ fundingCount' = fundingCount + 1
  BY <1>1, <1>4, FS_AddElement, FS_CardinalityType DEF DistributionInv, Typed, fundingCount
<1>6. Typed'
  BY <1>1, <1>4, <1>5 DEF DistributionInv, Typed
<1>7. /\ a.amount \in Nat \ {0} /\ rec.totalFunded \in Nat /\ rec.totalGrossSettled \in Nat
      /\ ~Closed /\ ~Closed'
  BY <1>1, <1>2, <1>4, SMT DEF Record, Allocation, Closed
<1>8. StatusFits'
  <2>1. /\ rec.totalGrossSettled < rec.totalFunded + a.amount
        /\ rec.totalGrossSettled <= rec.totalFunded + a.amount
    BY <1>1, <1>7, SMT
  <2> QED BY <1>2, <1>4, <2>1 DEF StatusFits, Funded, cur
<1>9. settledOf' = settledOf /\ settledOf = rec.settlementIds /\ i \notin settledOf
  <2>1. settledOf' = settledOf
    BY <1>1 DEF settledOf
  <2>2. settledOf \subseteq DOMAIN alloc
    BY DEF settledOf
  <2> QED BY <1>1, <1>2, <1>7, <2>1, <2>2 DEF DistributionInv, Booked, cur
<1>10. a.amount = outstanding'
  BY <1>1, <1>4, <1>7, SMT DEF outstanding
<1>11. Booked'
  BY <1>1, <1>4, <1>9, <1>10 DEF DistributionInv, Booked, cur
<1>12. \A p \in plans : p.cid # i /\ ~Executable(p)
  BY <1>1, <1>2, <1>7 DEF DistributionInv, Planned, cur
<1>13. Planned'
  <2>1. \A p \in plans : ~Executable(p)'
    BY <1>1, <1>12 DEF Executable
  <2> QED BY <1>1, <1>4, <2>1 DEF DistributionInv, Planned
<1>14. SuccessorWaits'
  BY <1>4, <1>9 DEF SuccessorWaits, cur
<1>15. Consented'
  BY <1>1, <1>4, <1>7, FS_EmptySet, SMT DEF DistributionInv, Consented, authorizationCount
<1>16. Scheduled'
  <2> SUFFICES ASSUME OwnIds \cap rec'.fundingIds = {} PROVE Scheduled'
    BY DEF Scheduled
  <2>1. /\ OwnIds \cap rec.fundingIds = {} /\ a.id \notin OwnIds
    BY <1>4
  <2>2. /\ rec.fundingIds = 1 .. fundingCount /\ Numbered(a)
        /\ \A d \in drafts : Numbered(d)
        /\ \A j \in DOMAIN alloc : alloc[j].root => Numbered(alloc[j])
    BY <1>1, <2>1 DEF DistributionInv, Scheduled
  <2>3. a.id = fundingCount + 1
    BY <1>1, <1>3, <1>5, <2>1, <2>2, SMT DEF Numbered
  <2>4. FitsSchedule(a.amount)
    BY <2>1, <2>2, <2>3 DEF Numbered
  <2>5. rec'.fundingIds = 1 .. (fundingCount + 1)
    BY <1>4, <1>5, <2>2, <2>3, SMT
  <2> DEFINE After(x) ==
        x.id \notin OwnIds =>
          /\ 1 <= x.id /\ x.id <= fundingCount' + 1
          /\ x.id = fundingCount' + 1 =>
               (EndTime # 0 => rec'.totalFunded + x.amount <= scheduledPeriods)
  <2>6. \A x : x.id \in Nat /\ Numbered(x) => After(x)
    <3> SUFFICES ASSUME NEW x, x.id \in Nat, Numbered(x), x.id \notin OwnIds
                 PROVE  /\ 1 <= x.id /\ x.id <= fundingCount' + 1
                        /\ x.id # fundingCount' + 1
      OBVIOUS
    <3> QED BY <1>5, SMT DEF Numbered
  <2>7. /\ \A d \in drafts : d.id \in Nat
        /\ \A j \in DOMAIN alloc : alloc[j].id \in Nat
    BY AllocFacts DEF DistributionInv, Typed, Draft, Allocation
  <2> HIDE DEF After
  <2>8. /\ \A d \in drafts : After(d)
        /\ \A j \in DOMAIN alloc : alloc[j].root => After(alloc[j])
    BY <2>2, <2>6, <2>7
  <2>9. /\ \A d \in drafts' : Numbered(d)'
        /\ \A j \in DOMAIN alloc' : alloc'[j].root => Numbered(alloc[j])'
    BY <1>1, <2>8 DEF Numbered, FitsSchedule, After
  <2>10. scheduledPeriods' = scheduledPeriods
    BY DEF scheduledPeriods
  <2> QED BY <1>4, <1>5, <2>4, <2>5, <2>9, <2>10 DEF Scheduled, FitsSchedule
<1>17. NeverPaidAhead'
  BY <1>1, <1>9, PaidIsSettled DEF DistributionInv, NeverPaidAhead, paid, settledOf
<1> QED BY <1>6, <1>8, <1>11, <1>13, <1>14, <1>15, <1>16, <1>17 DEF DistributionInv

----------------------------------------------------------------------------
(* A period is settled, and then recorded *)

\* What a settlement does to the allocations: it settles the plan's, and leaves
\* what is left of the runway in a new one that is not a root.
LEMMA Settles ==
  ASSUME DistributionInv, NEW p \in plans, SettleBatch(p)
  PROVE  LET n == Len(alloc) + 1 IN
         /\ alloc' \in Seq(Allocation)
         /\ n \notin DOMAIN alloc /\ n # NoCid
         /\ p.cid \in DOMAIN alloc /\ p.cid \in DOMAIN alloc'
         /\ DOMAIN alloc' = IF p.next > 0 THEN DOMAIN alloc \cup {n} ELSE DOMAIN alloc
         /\ \A i \in DOMAIN alloc :
              /\ alloc'[i].id = alloc[i].id /\ alloc'[i].amount = alloc[i].amount
              /\ alloc'[i].root = alloc[i].root
              /\ i # p.cid => alloc'[i] = alloc[i]
         /\ alloc'[p.cid].state = "settled"
         /\ alloc'[p.cid].next = IF p.next > 0 THEN n ELSE NoCid
         /\ p.next > 0 =>
              /\ alloc'[n].id = alloc[p.cid].id /\ alloc'[n].amount = p.next
              /\ alloc'[n].state = "live" /\ ~alloc'[n].root
<1> DEFINE c == p.cid
           n == Len(alloc) + 1
           done == [ alloc[c] EXCEPT !.state = "settled", !.settledAt = p.settledAt,
                                     !.next = IF p.next > 0 THEN n ELSE NoCid ]
           spent == [alloc EXCEPT ![c] = done]
           rest == [alloc[c] EXCEPT !.amount = p.next, !.root = FALSE]
<1>1. /\ alloc \in Seq(Allocation) /\ c \in DOMAIN alloc /\ alloc[c] \in Allocation
      /\ DOMAIN alloc = 1 .. Len(alloc) /\ Len(alloc) \in Nat
      /\ p \in Plan /\ p.next \in Nat /\ p.settledAt \in Nat
      /\ alloc[c].state = "live"
  BY AllocFacts DEF DistributionInv, Typed, Planned, Plan, SettleBatch
<1>2. n \in Nat /\ n # NoCid /\ n \notin DOMAIN alloc
  BY <1>1, ServiceAssumption, SMT
<1>3. /\ done \in Allocation /\ done.state = "settled"
      /\ done.id = alloc[c].id /\ done.amount = alloc[c].amount /\ done.root = alloc[c].root
      /\ done.next = IF p.next > 0 THEN n ELSE NoCid
  <2>1. (IF p.next > 0 THEN n ELSE NoCid) \in Nat
    BY <1>2, ServiceAssumption
  <2> HIDE DEF n
  <2> QED BY <1>1, <2>1 DEF Allocation
<1>4. /\ rest \in Allocation /\ rest.state = "live" /\ rest.id = alloc[c].id
      /\ rest.amount = p.next /\ ~rest.root
  BY <1>1 DEF Allocation
<1>5. alloc' = IF p.next = 0 THEN spent ELSE Append(spent, rest)
  <2>1. spent = [ alloc EXCEPT ![c].state = "settled", ![c].settledAt = p.settledAt,
                               ![c].next = IF p.next > 0 THEN n ELSE NoCid ]
    BY <1>1
  <2> HIDE DEF spent, done
  <2> QED BY <2>1 DEF SettleBatch
<1> HIDE DEF done, rest
<1>6. /\ spent \in Seq(Allocation) /\ Len(spent) = Len(alloc) /\ DOMAIN spent = DOMAIN alloc
      /\ \A i \in DOMAIN alloc : spent[i] = IF i = c THEN done ELSE alloc[i]
  BY <1>1, <1>3, ExceptSeq
<1> HIDE DEF spent, c
<1>7. CASE p.next = 0
  <2>1. ~(p.next > 0) /\ alloc' = spent
    BY <1>5, <1>7, SMT
  <2> QED BY <1>1, <1>2, <1>3, <1>6, <2>1 DEF c
<1>8. CASE p.next # 0
  <2>1. p.next > 0 /\ alloc' = Append(spent, rest)
    BY <1>1, <1>5, <1>8, SMT
  <2>2. /\ alloc' \in Seq(Allocation) /\ DOMAIN alloc' = DOMAIN spent \cup {n}
        /\ alloc'[n] = rest /\ \A i \in DOMAIN spent : alloc'[i] = spent[i]
    BY <1>4, <1>6, <2>1, Appended
  <2> HIDE DEF n
  <2>3. /\ alloc'[c] = done /\ \A i \in DOMAIN alloc : i # c => alloc'[i] = alloc[i]
    BY <1>1, <1>6, <2>2
  <2> QED BY <1>1, <1>2, <1>3, <1>4, <1>6, <2>1, <2>2, <2>3 DEF c, n
<1> QED BY <1>7, <1>8

LEMMA SettleBatchKeepsInv ==
  ASSUME DistributionInv, NEW p \in plans, SettleBatch(p) PROVE DistributionInv'
<1> DEFINE c == p.cid
           n == Len(alloc) + 1
<1>1. /\ Executable(p) /\ plans' = {q \in plans : q.cid # c}
      /\ consents' = (consents \ p.auths) \cup (IF p.next > 0 THEN Roll(p.auths) ELSE {})
      /\ p.auths \subseteq consents
      /\ UNCHANGED <<now, rec, drafts>>
  BY DEF SettleBatch, Executable
<1>2. /\ alloc' \in Seq(Allocation)
      /\ n \notin DOMAIN alloc /\ n # NoCid /\ c \in DOMAIN alloc /\ c \in DOMAIN alloc'
      /\ DOMAIN alloc' = IF p.next > 0 THEN DOMAIN alloc \cup {n} ELSE DOMAIN alloc
      /\ \A i \in DOMAIN alloc :
           /\ alloc'[i].id = alloc[i].id /\ alloc'[i].amount = alloc[i].amount
           /\ alloc'[i].root = alloc[i].root
           /\ i # c => alloc'[i] = alloc[i]
      /\ alloc'[c].state = "settled"
      /\ alloc'[c].next = IF p.next > 0 THEN n ELSE NoCid
      /\ p.next > 0 =>
           /\ alloc'[n].id = alloc[c].id /\ alloc'[n].amount = p.next
           /\ alloc'[n].state = "live" /\ ~alloc'[n].root
  BY Settles
<1> HIDE DEF c, n
<1>3. settledOf' = settledOf \cup {c} /\ c \notin settledOf
  BY <1>1, <1>2 DEF settledOf, Executable, c
<1>4. /\ settledOf = rec.settlementIds /\ (~Closed => c = cur)
      /\ p.settledAt <= now /\ p.next = outstanding - 1
      /\ rec.totalGrossSettled + 1 <= accruedDistributionGross(p.settledAt)
      /\ alloc[c].id \in rec.fundingIds
  BY <1>1 DEF DistributionInv, Planned, c
<1>5. plans' \subseteq plans /\ \A q \in plans' : ~Executable(q)'
  <2>1. \A q \in plans' : q \in plans /\ q.cid # c /\ q.cid \in DOMAIN alloc
    BY <1>1 DEF DistributionInv, Planned
  <2>2. \A q \in plans' : alloc'[q.cid] = alloc[q.cid]
    BY <1>2, <2>1
  <2>3. \A q \in plans' : ~Executable(q)
    BY <1>1, <2>1 DEF DistributionInv, Planned, c
  <2>4. \A q \in plans' : alloc'[q.cid].state # "live"
    BY <2>2, <2>3 DEF Executable
  <2> QED BY <1>1, <2>4 DEF Executable
\* Consents are consumed, or rolled under the same id.
<1>6. consents' \subseteq Consent /\ \A x \in consents' : \E y \in consents : x.id = y.id
  <2>1. \A y \in consents : y \in Consent
    BY DEF DistributionInv, Typed
  <2>2. \A y \in p.auths : [y EXCEPT !.rolls = @ + 1] \in Consent
                             /\ [y EXCEPT !.rolls = @ + 1].id = y.id
    <3> TAKE y \in p.auths
    <3>1. y \in Consent /\ y.rolls + 1 \in Nat
      BY <1>1, <2>1, SMT DEF Consent
    <3> QED BY <3>1 DEF Consent
  <2>3. \A x \in Roll(p.auths) : x \in Consent /\ \E y \in consents : x.id = y.id
    BY <1>1, <2>2 DEF Roll
  <2>4. \A x \in consents' : x \in consents \/ x \in Roll(p.auths)
    BY <1>1
  <2> QED BY <2>1, <2>3, <2>4
<1>7. Typed'
  BY <1>1, <1>2, <1>5, <1>6 DEF DistributionInv, Typed
<1>8. StatusFits'
  BY <1>1 DEF DistributionInv, StatusFits, Funded, cur
<1>9. Booked'
  <2>1. /\ rec.settlementIds \subseteq settledOf'
        /\ \A i, j \in settledOf' \ rec.settlementIds : i = j
        /\ ~Closed => \A i \in settledOf' \ rec.settlementIds : i = cur
    BY <1>3, <1>4
  <2>2. \A i \in settledOf' : alloc'[i].id \in rec.fundingIds
    <3>1. \A i \in settledOf' : i \in DOMAIN alloc /\ alloc[i].id \in rec.fundingIds
      BY <1>2, <1>3, <1>4 DEF DistributionInv, Booked, settledOf
    <3> QED BY <1>2, <3>1
  <2>3. cur \in DOMAIN alloc => cur \in DOMAIN alloc' /\ alloc'[cur].amount = alloc[cur].amount
                                  /\ alloc'[cur].id = alloc[cur].id
    BY <1>2
  <2> QED BY <1>1, <2>1, <2>2, <2>3 DEF DistributionInv, Booked, cur, Closed, outstanding
<1>10. Planned'
  <2>1. \A q \in plans' : q.cid \in DOMAIN alloc' /\ alloc'[q.cid].id \in rec.fundingIds
    BY <1>2, <1>5 DEF DistributionInv, Planned
  <2> QED BY <1>1, <1>5, <2>1 DEF Planned
<1>11. SuccessorWaits'
  <2> SUFFICES ASSUME cur \in settledOf', alloc'[cur].next # NoCid
               PROVE  LET m == alloc'[cur].next IN
                      /\ m \in DOMAIN alloc' /\ m \notin settledOf'
                      /\ alloc'[m].amount = outstanding - 1
                      /\ alloc'[m].id = rec.lastFundingId
                      /\ \A q \in plans' : q.cid # m
    BY <1>1 DEF SuccessorWaits, cur, outstanding
  <2>1. cur \in DOMAIN alloc /\ cur # NoCid
    <3>1. NoCid \notin DOMAIN alloc
      BY AllocFacts, ServiceAssumption, SMT DEF DistributionInv, Typed
    <3> QED BY <1>2, <1>3, <3>1 DEF settledOf
  <2>2. cur \notin rec.settlementIds
    BY <2>1 DEF DistributionInv, Booked
  <2>3. cur = c /\ alloc[cur].id = rec.lastFundingId
    BY <1>3, <1>4, <2>1, <2>2 DEF DistributionInv, Booked
  <2>4. p.next > 0 /\ alloc'[cur].next = n
    BY <1>2, <2>3
  <2>5. \A i \in settledOf' : i \in DOMAIN alloc
    BY <1>2, <1>3 DEF settledOf
  <2> QED BY <1>2, <1>4, <1>5, <2>3, <2>4, <2>5 DEF DistributionInv, Planned
<1>12. Consented'
  <2>1. ~Closed => \A x \in consents' :
          \/ x.id \in rec.recipientAuthorizationIds
          \/ /\ rec.status = "AwaitingRecipients" /\ ~allReceiversAuthorized
             /\ x.id = defaultAuthorizationId(authorizationCount + 1)
    BY <1>6 DEF DistributionInv, Consented
  <2> QED BY <1>1, <2>1 DEF DistributionInv, Consented, authorizationCount,
             allReceiversAuthorized, defaultAuthorizationId, Closed
<1>13. Scheduled'
  <2>1. \A x : Numbered(x)' <=> Numbered(x)
    BY <1>1 DEF Numbered, fundingCount, FitsSchedule
  <2>2. \A j \in DOMAIN alloc : Numbered(alloc[j]) => Numbered(alloc'[j])
    BY <1>2 DEF Numbered
  <2>3. \A j \in DOMAIN alloc' : alloc'[j].root => j \in DOMAIN alloc /\ alloc[j].root
    BY <1>2
  <2> QED BY <1>1, <2>1, <2>2, <2>3 DEF DistributionInv, Scheduled, fundingCount
\* The one settlement not recorded was due when it was planned, so it is now.
<1>14. NeverPaidAhead'
  <2>1. IsFiniteSet(settledOf)
    BY AllocFacts DEF DistributionInv, Typed
  <2>2. Cardinality(settledOf') = Cardinality(settledOf) + 1
    BY <1>3, <2>1, FS_AddElement
  <2>3. /\ Cardinality(settledOf) = rec.totalGrossSettled /\ rec.totalGrossSettled \in Nat
        /\ now \in Nat /\ p.settledAt \in Nat
    BY <1>4 DEF DistributionInv, Booked, Typed, Record, Plan
  <2>4. /\ accruedDistributionGross(p.settledAt) \in Nat /\ accruedDistributionGross(now) \in Nat
        /\ accruedDistributionGross(p.settledAt) <= accruedDistributionGross(now)
    BY <1>4, <2>3, PeriodsNeverFall
  <2>5. paid' = Cardinality(settledOf')
    BY DEF paid, settledOf
  <2>6. accruedDistributionGross(now)' = accruedDistributionGross(now)
    BY <1>1 DEF accruedDistributionGross
  <2> QED BY <1>4, <2>2, <2>3, <2>4, <2>5, <2>6, SMT DEF NeverPaidAhead
<1> QED BY <1>7, <1>8, <1>9, <1>10, <1>11, <1>12, <1>13, <1>14 DEF DistributionInv

\* The settlement recorded is the one not recorded yet: the record moves on to the
\* successor, which waited for it.
LEMMA RecordSettlementKeepsInv ==
  ASSUME DistributionInv, NEW i \in DOMAIN alloc, RecordSettlement(i) PROVE DistributionInv'
<1> DEFINE more == rec.totalGrossSettled + 1 < rec.totalFunded
           n == alloc[i].next
           auths == IF outstanding - 1 > 0 THEN Roll(rec.recipientAuthorizations) ELSE {}
<1>1. /\ alloc[i].state = "settled" /\ rec.status = "DistributionActive"
      /\ i \notin rec.settlementIds
      /\ rec.totalGrossSettled + 1 <= rec.totalFunded
      /\ more <=> n # NoCid
      /\ IF more THEN sameAuthorizationShape(auths) ELSE auths = {}
      /\ rec' = [ rec EXCEPT !.totalGrossSettled = rec.totalGrossSettled + 1,
                             !.settlementIds = rec.settlementIds \cup {i},
                             !.currentAllocationCid = n,
                             !.recipientAuthorizations = auths,
                             !.currentSettlementDeadline =
                               IF more THEN rec.currentSettlementDeadline ELSE 0,
                             !.status =
                               IF more THEN "DistributionActive" ELSE "AwaitingFunding" ]
      /\ UNCHANGED <<now, drafts, alloc, consents, plans>>
  BY DEF RecordSettlement, RecordDistributionSettlement, Unrecorded
<1>2. /\ rec \in Record /\ alloc[i] \in Allocation /\ n \in Nat /\ i \in Nat /\ NoCid = 0
      /\ NoCid \notin DOMAIN alloc
      /\ rec.totalGrossSettled \in Nat /\ rec.totalFunded \in Nat
      /\ rec.totalGrossSettled + 1 \in Nat
  <2>1. rec \in Record /\ alloc[i] \in Allocation /\ DOMAIN alloc = 1 .. Len(alloc)
    BY AllocFacts DEF DistributionInv, Typed
  <2>2. n \in Nat
    BY <2>1 DEF Allocation
  <2>3. rec.totalGrossSettled \in Nat /\ rec.totalFunded \in Nat
    BY <2>1 DEF Record
  <2>4. i \in Nat /\ NoCid = 0 /\ NoCid \notin DOMAIN alloc
    BY <2>1, ServiceAssumption
  <2> HIDE DEF n
  <2> QED BY <2>1, <2>2, <2>3, <2>4
<1>3. auths \subseteq Consent
  <2>1. ASSUME NEW y \in rec.recipientAuthorizations
        PROVE  [y EXCEPT !.rolls = @ + 1] \in Consent
    <3>1. y \in Consent /\ y.rolls + 1 \in Nat
      BY <1>2, SMT DEF Record, Consent
    <3> QED BY <3>1 DEF Consent
  <2> QED BY <2>1 DEF Roll
<1> HIDE DEF auths, n, more
<1>4. /\ rec' \in Record
      /\ rec'.status = (IF more THEN "DistributionActive" ELSE "AwaitingFunding")
      /\ rec'.recipientAuthorizations = auths /\ rec'.currentAllocationCid = n
      /\ rec'.recipientAuthorizationIds = rec.recipientAuthorizationIds
      /\ rec'.totalFunded = rec.totalFunded
      /\ rec'.totalGrossSettled = rec.totalGrossSettled + 1
      /\ rec'.lastFundingId = rec.lastFundingId /\ rec'.fundingIds = rec.fundingIds
      /\ rec'.settlementIds = rec.settlementIds \cup {i}
  BY <1>1, <1>2, <1>3, Zenon DEF Record, Statuses
<1>5. ~Closed /\ ~Closed'
  BY <1>1, <1>4 DEF Closed
<1>6. i \in settledOf /\ i = cur /\ cur # NoCid
  <2>1. i \in settledOf
    BY <1>1 DEF settledOf
  <2> QED BY <1>1, <1>2, <1>5, <2>1 DEF DistributionInv, Booked
<1>7. settledOf' = settledOf /\ settledOf = rec.settlementIds \cup {i}
  BY <1>1, <1>6 DEF settledOf, DistributionInv, Booked
<1>8. more =>
        /\ n # NoCid /\ n \in DOMAIN alloc /\ n \notin settledOf
        /\ alloc[n].amount = outstanding - 1
        /\ alloc[n].id = rec.lastFundingId
        /\ \A p \in plans : p.cid # n
  BY <1>1, <1>6 DEF DistributionInv, SuccessorWaits, n
<1>9. ~more => n = NoCid /\ rec.totalGrossSettled + 1 = rec.totalFunded
  BY <1>1, <1>2, SMT DEF more
<1>10. /\ IsFiniteSet(rec'.settlementIds)
       /\ Cardinality(rec'.settlementIds) = rec'.totalGrossSettled
  <2> DEFINE ids == rec.settlementIds
  <2>1. IsFiniteSet(ids) /\ Cardinality(ids) = rec.totalGrossSettled
    BY DEF DistributionInv, Typed, Booked
  <2>2. i \notin ids /\ rec'.settlementIds = ids \cup {i}
    BY <1>1, <1>4
  <2> HIDE DEF ids
  <2>3. IsFiniteSet(ids \cup {i}) /\ Cardinality(ids \cup {i}) = Cardinality(ids) + 1
    BY <2>1, <2>2, FS_AddElement
  <2> QED BY <1>4, <2>1, <2>2, <2>3
<1>11. Typed'
  BY <1>1, <1>4, <1>10 DEF DistributionInv, Typed
<1>12. StatusFits'
  <2>1. Funded' <=> more
    BY <1>4 DEF Funded
  <2>2. cur' = n
    BY <1>4 DEF cur
  <2>3. more => rec.totalGrossSettled + 1 < rec.totalFunded
    BY DEF more
  <2> QED BY <1>1, <1>4, <1>8, <1>9, <2>1, <2>2, <2>3 DEF StatusFits
<1>13. outstanding' = outstanding - 1
  BY <1>2, <1>4, SMT DEF outstanding
<1>14. Booked'
  <2>1. /\ rec'.settlementIds \subseteq settledOf'
        /\ settledOf' \ rec'.settlementIds = {}
    BY <1>4, <1>7
  <2>2. \A j \in settledOf' : alloc'[j].id \in rec'.fundingIds
    BY <1>1, <1>4, <1>7 DEF DistributionInv, Booked
  <2>3. cur' # NoCid =>
          /\ cur' \in DOMAIN alloc' /\ cur' \notin rec'.settlementIds
          /\ alloc'[cur'].amount = outstanding' /\ alloc'[cur'].id = rec'.lastFundingId
          /\ rec'.lastFundingId \in rec'.fundingIds
    BY <1>1, <1>4, <1>6, <1>7, <1>8, <1>9, <1>13 DEF DistributionInv, Booked, cur
  <2> QED BY <1>10, <2>1, <2>2, <2>3 DEF Booked
\* An executable plan would name the current allocation, which is settled.
<1>15. \A p \in plans : ~Executable(p)
  BY <1>1, <1>5, <1>6 DEF DistributionInv, Planned, Executable
<1>16. Planned'
  <2>1. \A p \in plans' : ~Executable(p)'
    BY <1>1, <1>15 DEF Executable
  <2> QED BY <1>1, <1>4, <2>1 DEF DistributionInv, Planned
<1>17. SuccessorWaits'
  <2>1. cur' \notin settledOf'
    <3>1. NoCid \notin settledOf
      BY <1>2 DEF settledOf
    <3> QED BY <1>4, <1>7, <1>8, <1>9, <3>1 DEF cur
  <2> QED BY <2>1 DEF SuccessorWaits
<1>18. Consented'
  <2>1. Cardinality(auths) \in Nat
    <3>1. CASE more
      BY <1>1, <3>1 DEF sameAuthorizationShape, DistributionInv, Consented
    <3>2. CASE ~more
      BY <1>1, <3>2, FS_EmptySet, SMT
    <3> QED BY <3>1, <3>2
  <2>2. /\ rec.recipientAuthorizations \subseteq Consent
        /\ \A y \in rec.recipientAuthorizations :
             y.id \in rec.recipientAuthorizationIds /\ y.id[1] = rec.lastFundingId
        /\ \A x, y \in rec.recipientAuthorizations : x.receiver = y.receiver => x = y
    BY <1>2 DEF Record, DistributionInv, Consented
  <2>3. \A x \in auths : \E y \in rec.recipientAuthorizations :
          x = [y EXCEPT !.rolls = @ + 1] /\ x.id = y.id /\ x.receiver = y.receiver
    <3>1. \A y \in rec.recipientAuthorizations :
            /\ [y EXCEPT !.rolls = @ + 1].id = y.id
            /\ [y EXCEPT !.rolls = @ + 1].receiver = y.receiver
      BY <2>2 DEF Consent
    <3> QED BY <3>1 DEF auths, Roll
  <2>4. \A x \in auths : x.id \in rec.recipientAuthorizationIds /\ x.id[1] = rec.lastFundingId
    BY <2>2, <2>3
  <2>5. \A x, y \in auths : x.receiver = y.receiver => x = y
    BY <2>2, <2>3
  <2>6. \A c \in consents : c.id \in rec.recipientAuthorizationIds
    BY <1>1, <1>5 DEF DistributionInv, Consented
  <2> QED BY <1>1, <1>4, <2>1, <2>4, <2>5, <2>6 DEF Consented, authorizationCount
<1>19. Scheduled'
  BY <1>1, <1>4 DEF DistributionInv, Scheduled, Numbered, fundingCount, FitsSchedule
<1>20. NeverPaidAhead'
  BY <1>1, <1>7, PaidIsSettled DEF DistributionInv, NeverPaidAhead, paid, settledOf
<1> QED BY <1>11, <1>12, <1>14, <1>16, <1>17, <1>18, <1>19, <1>20 DEF DistributionInv

----------------------------------------------------------------------------
(* The theorems *)

LEMMA DistributionStepKeepsInv ==
  ASSUME DistributionInv, [Next]_vars PROVE DistributionInv'
<1>1. CASE Funding
  <2>1. ASSUME NEW amount \in Fundings, NEW deadline \in Deadlines,
               NEW id \in OwnIds \cup {fundingCount + 1}, PrepareFunding(id, amount, deadline)
        PROVE  DistributionInv'
    BY <2>1, PrepareFundingKeepsInv
  <2>2. ASSUME NEW d \in drafts, Allocate(d) PROVE DistributionInv'
    BY <2>2, AllocateKeepsInv
  <2>3. ASSUME NEW i \in DOMAIN alloc, RecordFunding(i) \/ PayerWithdraw(i)
        PROVE  DistributionInv'
    BY <2>3, RecordFundingKeepsInv, PayerWithdrawKeepsInv
  <2> QED BY <1>1, <2>1, <2>2, <2>3 DEF Funding
<1>2. CASE Authorization
  BY <1>2, AuthorizeKeepsInv, RecordAuthorizationKeepsInv, ActivateKeepsInv DEF Authorization
<1>3. CASE Settlement
  BY <1>3, PrepareSettlementKeepsInv, SettleBatchKeepsInv, RecordSettlementKeepsInv DEF Settlement
<1>4. CASE Tick \/ ChangeState
  BY <1>4, TickKeepsInv, ChangeStateKeepsInv
<1>5. CASE UNCHANGED vars
  BY <1>5 DEF vars, DistributionInv, Typed, StatusFits, Funded, cur, Booked, settledOf, Closed,
              outstanding, SuccessorWaits, Planned, Executable, Consented, authorizationCount,
              allReceiversAuthorized, defaultAuthorizationId, Scheduled, Numbered,
              fundingCount, FitsSchedule, NeverPaidAhead, paid
<1> QED BY <1>1, <1>2, <1>3, <1>4, <1>5 DEF Next

LEMMA DistributionInvHolds == Spec => []DistributionInv
<1>1. Init => DistributionInv
  BY DistributionInitInv
<1>2. DistributionInv /\ [Next]_vars => DistributionInv'
  BY DistributionStepKeepsInv
<1> QED BY <1>1, <1>2, PTL DEF Spec

\* What is settled is what is recorded, and one more at most.
LEMMA InvBacksTheRecord ==
  ASSUME DistributionInv PROVE RecordIsBacked
<1>1. Typed /\ rec \in Record /\ alloc \in Seq(Allocation)
  BY DEF DistributionInv, Typed
<1>2. TypeOK
  <2>1. rec.totalGrossSettled \in 0 .. rec.totalFunded /\ now \in 0 .. MaxTime
    BY <1>1, DistributionAssumption, SMT DEF Record, DistributionInv, Typed, StatusFits
  <2> QED BY <1>1, <2>1 DEF TypeOK, Record, Typed, DistributionInv, Booked, Consented, cur
<1>3. RecordMatchesChain
  <2>1. /\ IsFiniteSet(settledOf) /\ IsFiniteSet(rec.settlementIds)
        /\ Cardinality(rec.settlementIds) = rec.totalGrossSettled
        /\ rec.totalGrossSettled \in Nat
    BY <1>1, AllocFacts DEF Typed, DistributionInv, Booked, Record
  <2>2. CASE settledOf = rec.settlementIds
    BY <2>1, <2>2, PaidIsSettled, SMT DEF RecordMatchesChain
  <2>3. CASE settledOf # rec.settlementIds
    <3>1. PICK i \in settledOf : i \notin rec.settlementIds
      BY <2>3 DEF DistributionInv, Booked
    <3>2. settledOf = rec.settlementIds \cup {i}
      BY <3>1 DEF DistributionInv, Booked
    <3>3. Cardinality(settledOf) = rec.totalGrossSettled + 1
      BY <2>1, <3>1, <3>2, FS_AddElement
    <3> QED BY <2>1, <3>3, PaidIsSettled, SMT DEF RecordMatchesChain
  <2> QED BY <2>2, <2>3
<1>4. FundingIsBacked
  BY DEF DistributionInv, Booked, cur, outstanding, FundingIsBacked
<1>5. WithinSchedule /\ AuthorizedForThisFunding
  BY DEF DistributionInv, Scheduled, WithinSchedule, Consented, AuthorizedForThisFunding
<1> QED BY <1>2, <1>3, <1>4, <1>5 DEF RecordIsBacked

\* However old the prepared settlement that is executed, and however late it is
\* recorded, the receivers are never paid for a period that has not elapsed.
THEOREM NoPeriodPaidAhead == Spec => []NeverPaidAhead
<1>1. DistributionInv => NeverPaidAhead
  BY DEF DistributionInv
<1> QED BY <1>1, DistributionInvHolds, PTL

\* Whatever is prepared, signed, executed and recorded late, twice or out of order:
\* the record is behind the chain by one settlement at most, names an allocation of
\* just the rest of the latest funding, and counts the consents given for it.
THEOREM RecordStaysBacked == Spec => []RecordIsBacked
<1>1. DistributionInv => RecordIsBacked
  BY InvBacksTheRecord
<1> QED BY <1>1, DistributionInvHolds, PTL
============================================================================
