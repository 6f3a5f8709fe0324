-------------------------- MODULE StreamFlow_proofs --------------------------
(***************************************************************************)
(* Proofs about an open-ended stream, for every rate, funding and sequence *)
(* of choices, however far back the parties date their instants.           *)
(***************************************************************************)
EXTENDS StreamFlow, FiniteSetTheorems, TLAPS

\* The contract satisfies its ensure clause, a pause began in the past, and
\* nothing is refunded before the stream stops.
Bookkeeping ==
  /\ ~created => /\ status = "FlowActive" /\ totalWithdrawn = 0
                 /\ fundedAmount = 0 /\ deposited = 0
  /\ created => flowRate > 0
  /\ status = "FlowPaused" => pausedAt \in Nat /\ pausedAt <= now
  /\ status # "FlowStopped" => refunded = 0

IInv == TypeOK /\ Bookkeeping /\ Conservation /\ NeverOverdrawn

LEMMA ProductMonotone ==
  ASSUME NEW r \in Int, NEW a \in Int, NEW b \in Int, r > 0, a <= b
  PROVE  r * a <= r * b
<1>1. r * (b - a) >= 0
  BY SMT
<1>2. r * (b - a) = (r * b) - (r * a)
  BY SMT
<1> QED BY <1>1, <1>2

\* The most the rate allows by now.
LEMMA CapIsNat ==
  ASSUME IInv
  PROVE  MaxOf(0, flowRate * (now - startTime)) \in Nat
<1>1. flowRate \in Int /\ now \in Int /\ startTime \in Int
  BY FlowAssumption DEF IInv, TypeOK
<1>2. flowRate * (now - startTime) \in Int
  BY <1>1
<1> QED BY <1>2 DEF MaxOf

\* Pauses only ever slow the clock down.
LEMMA ElapsedBound ==
  ASSUME IInv, created, NEW t \in Int, t <= now
  PROVE  /\ flowElapsedMicros(t) \in Int
         /\ flowElapsedMicros(t) <= now - startTime
<1>1. /\ now \in Int /\ startTime \in Int /\ cumulativePausedDuration \in Nat
      /\ status = "FlowPaused" => pausedAt \in Nat /\ pausedAt <= now
  BY FlowAssumption DEF IInv, TypeOK, Bookkeeping
<1> QED BY <1>1 DEF flowElapsedMicros

LEMMA AccruedBound ==
  ASSUME IInv, created, NEW t \in Int, t <= now
  PROVE  /\ accrued(t) \in Nat
         /\ accrued(t) <= MaxOf(0, flowRate * (now - startTime))
<1> DEFINE e == flowElapsedMicros(t)
<1>1. e \in Int /\ e <= now - startTime
  BY ElapsedBound
<1>2. flowRate \in Int /\ flowRate > 0 /\ now \in Int /\ startTime \in Int
  BY FlowAssumption DEF IInv, TypeOK, Bookkeeping
<1>3. flowRate * e <= flowRate * (now - startTime) /\ flowRate * e \in Int
  <2>1. now - startTime \in Int
    BY <1>2
  <2> QED BY <1>1, <1>2, <2>1, ProductMonotone
<1>4. flowRate * (now - startTime) \in Int
  BY <1>2
<1>5. e > 0 => flowRate * e > 0
  BY <1>1, <1>2, SMT
<1> HIDE DEF e
<1>6. accrued(t) = IF e <= 0 THEN 0 ELSE flowRate * e
  BY DEF accrued, flowAccrued, e
<1> QED BY <1>1, <1>3, <1>4, <1>5, <1>6 DEF MaxOf

\* What a claim adds keeps the total within the accrual and the funding.
LEMMA ClaimBound ==
  ASSUME IInv, created, NEW t \in Int, t <= now
  PROVE  /\ flowWithdrawable(t) \in Nat
         /\ totalWithdrawn + flowWithdrawable(t) <= fundedAmount
         /\ totalWithdrawn + flowWithdrawable(t)
              <= MaxOf(0, flowRate * (now - startTime))
<1>1. /\ accrued(t) \in Nat /\ accrued(t) <= MaxOf(0, flowRate * (now - startTime))
  BY AccruedBound
<1>2. /\ fundedAmount \in Nat /\ totalWithdrawn \in Nat /\ totalWithdrawn <= fundedAmount
      /\ totalWithdrawn <= MaxOf(0, flowRate * (now - startTime))
  BY DEF IInv, TypeOK, NeverOverdrawn
<1> DEFINE cap == MaxOf(0, flowRate * (now - startTime))
           claim == MaxOf(0, MinOf(accrued(t), fundedAmount) - totalWithdrawn)
<1>3. cap \in Nat
  BY CapIsNat
<1> HIDE DEF cap
<1>4. /\ claim \in Nat
      /\ totalWithdrawn + claim <= fundedAmount /\ totalWithdrawn + claim <= cap
  <2>1. accrued(t) <= cap /\ totalWithdrawn <= cap
    BY <1>1, <1>2 DEF cap
  <2>2. accrued(t) \in Nat /\ fundedAmount \in Nat /\ totalWithdrawn \in Nat
        /\ totalWithdrawn <= fundedAmount
    BY <1>1, <1>2
  <2> HIDE <1>1, <1>2
  <2> DEFINE a == accrued(t)
  <2>3. a \in Nat /\ a <= cap
    BY <2>1, <2>2
  <2> HIDE DEF a
  <2>4. claim = MaxOf(0, MinOf(a, fundedAmount) - totalWithdrawn)
    BY DEF a
  <2> HIDE DEF claim
  <2> QED BY <1>3, <2>1, <2>2, <2>3, <2>4 DEF MinOf, MaxOf
<1> QED BY <1>4 DEF flowWithdrawable, cap

----------------------------------------------------------------------------
LEMMA InitIInv == Init => IInv
<1> SUFFICES ASSUME Init PROVE IInv
  OBVIOUS
<1>1. TypeOK /\ Bookkeeping /\ Conservation
  <2>1. TypeOK
    BY DEF Init, TypeOK
  <2>2. Bookkeeping
    BY DEF Init, Bookkeeping
  <2>3. Conservation
    BY DEF Init, Conservation
  <2> QED BY <2>1, <2>2, <2>3
<1>2. flowRate * (now - startTime) \in Int
  <2>1. flowRate \in Int /\ now \in Int /\ startTime \in Int
    BY FlowAssumption DEF Init
  <2> QED BY <2>1
<1>3. NeverOverdrawn
  BY <1>2 DEF Init, NeverOverdrawn, MaxOf
<1> QED BY <1>1, <1>3 DEF IInv

LEMMA CreateStep == ASSUME IInv, Create_Flow PROVE IInv'
BY FlowAssumption DEF IInv, TypeOK, Bookkeeping, Conservation, NeverOverdrawn,
   Create_Flow, Ensure, terms, clock, MaxOf

LEMMA TopUpStep == ASSUME IInv, TopUp_Flow PROVE IInv'
<1>1. PICK a \in TopUps : /\ a > 0 /\ fundedAmount' = fundedAmount + a
                          /\ deposited' = deposited + a
  BY DEF TopUp_Flow
<1>2. a \in Int /\ Open
  BY FlowAssumption DEF TopUp_Flow
<1>3. UNCHANGED <<now, created, terms, totalWithdrawn, numIterations, refunded, clock>>
  BY DEF TopUp_Flow
<1> QED BY <1>1, <1>2, <1>3 DEF IInv, TypeOK, Bookkeeping, Conservation, NeverOverdrawn,
        Open, terms, clock, MaxOf

LEMMA WithdrawStep ==
  ASSUME IInv, NEW t \in Int, Withdraw_Flow(t)
  PROVE  IInv'
<1>1. created /\ status # "FlowStopped" /\ t <= now
  BY DEF Withdraw_Flow, Open, NotInFuture
<1> DEFINE amount == flowWithdrawable(t)
<1>2. /\ amount \in Nat /\ totalWithdrawn + amount <= fundedAmount
      /\ totalWithdrawn + amount <= MaxOf(0, flowRate * (now - startTime))
  BY <1>1, ClaimBound
<1>3. /\ totalWithdrawn' = totalWithdrawn + amount /\ numIterations' = numIterations + 1
      /\ UNCHANGED <<now, created, terms, fundedAmount, deposited, refunded, clock>>
  BY DEF Withdraw_Flow
<1> HIDE DEF amount
<1>4. TypeOK'
  BY <1>2, <1>3 DEF IInv, TypeOK, terms, clock
<1>5. Bookkeeping'
  BY <1>1, <1>3 DEF IInv, Bookkeeping, terms, clock
<1>6. Conservation'
  BY <1>1, <1>3 DEF IInv, Conservation, clock
<1>7. NeverOverdrawn'
  BY <1>2, <1>3 DEF IInv, NeverOverdrawn, terms
<1> QED BY <1>4, <1>5, <1>6, <1>7 DEF IInv

LEMMA PauseStep ==
  ASSUME IInv, NEW t \in Nat, Pause_Flow(t)
  PROVE  IInv'
BY DEF IInv, TypeOK, Bookkeeping, Conservation, NeverOverdrawn, Pause_Flow,
   terms, money

LEMMA ResumeStep ==
  ASSUME IInv, NEW t \in Nat, Resume_Flow(t)
  PROVE  IInv'
<1>1. pausedAt \in Nat /\ created /\ status = "FlowPaused" /\ t >= pausedAt
  BY DEF IInv, Bookkeeping, Resume_Flow, AfterPause
<1>2. cumulativePausedDuration' \in Nat /\ pausedInstants' \subseteq Nat
  BY <1>1 DEF IInv, TypeOK, Resume_Flow, CumulativeAfter
<1>3. status' = "FlowActive" /\ pausedAt' = None
  BY DEF Resume_Flow
<1>4. UNCHANGED <<now, created, terms, money>>
  BY DEF Resume_Flow
<1> QED BY <1>1, <1>2, <1>3, <1>4 DEF IInv, TypeOK, Bookkeeping, Conservation,
        NeverOverdrawn, terms, money

LEMMA StopStep ==
  ASSUME IInv, NEW t \in Int, Stop_Flow(t)
  PROVE  /\ IInv'
         /\ fundedAmount' = totalWithdrawn'
         /\ totalWithdrawn' >= totalWithdrawn
         /\ refunded' >= refunded
<1>1. created /\ status # "FlowStopped" /\ t <= now
  BY DEF Stop_Flow, Open
<1> DEFINE owed == flowWithdrawable(t)
<1>2. /\ owed \in Nat /\ totalWithdrawn + owed <= fundedAmount
      /\ totalWithdrawn + owed <= MaxOf(0, flowRate * (now - startTime))
  BY <1>1, ClaimBound
<1>3. /\ status' = "FlowStopped" /\ pausedAt' = None
      /\ totalWithdrawn' = totalWithdrawn + owed
      /\ fundedAmount' = totalWithdrawn + owed
      /\ refunded' = refunded + remainingFunded(owed)
      /\ UNCHANGED <<now, created, terms, numIterations, deposited,
                     cumulativePausedDuration, pausedInstants>>
  BY DEF Stop_Flow
<1> HIDE DEF owed
<1>4. /\ fundedAmount \in Nat /\ totalWithdrawn \in Nat /\ refunded = 0
      /\ deposited = fundedAmount + refunded /\ deposited \in Nat
  BY <1>1 DEF IInv, TypeOK, Bookkeeping, Conservation
<1>5. /\ refunded' = (fundedAmount - totalWithdrawn) - owed
      /\ refunded' \in Nat
  BY <1>2, <1>3, <1>4 DEF remainingFunded, MaxOf
<1>6. TypeOK'
  BY <1>2, <1>3, <1>4, <1>5 DEF IInv, TypeOK, terms
<1>7. Bookkeeping'
  BY <1>1, <1>3 DEF IInv, Bookkeeping, terms
<1>8. Conservation'
  BY <1>2, <1>3, <1>4, <1>5 DEF Conservation
<1>9. NeverOverdrawn'
  BY <1>2, <1>3, <1>4 DEF NeverOverdrawn, terms
<1> QED BY <1>2, <1>3, <1>4, <1>5, <1>6, <1>7, <1>8, <1>9 DEF IInv

LEMMA TickStep == ASSUME IInv, Tick PROVE IInv'
<1>1. /\ now' = now + 1 /\ UNCHANGED <<created, terms, money, clock>>
  BY DEF Tick
<1>2. TypeOK' /\ Bookkeeping' /\ Conservation'
  BY <1>1 DEF IInv, TypeOK, Bookkeeping, Conservation, terms, money, clock
<1>3. NeverOverdrawn'
  <2>1. CASE ~created
    <3>1. /\ totalWithdrawn' = 0 /\ fundedAmount' = 0
          /\ flowRate' \in Int /\ now' \in Int /\ startTime' \in Int
      BY <1>1, <2>1, FlowAssumption DEF IInv, TypeOK, Bookkeeping, terms, money
    <3>2. flowRate' * (now' - startTime') \in Int
      BY <3>1
    <3>3. MaxOf(0, flowRate' * (now' - startTime')) \in Nat
      BY <3>2 DEF MaxOf
    <3> QED BY <3>1, <3>3 DEF NeverOverdrawn
  <2>2. CASE created
    <3>1. /\ flowRate \in Int /\ flowRate > 0 /\ now \in Int /\ startTime \in Int
          /\ totalWithdrawn \in Nat
      BY <2>2, FlowAssumption DEF IInv, TypeOK, Bookkeeping
    <3>2. /\ flowRate * (now - startTime) <= flowRate * ((now + 1) - startTime)
          /\ flowRate * (now - startTime) \in Int
          /\ flowRate * ((now + 1) - startTime) \in Int
      <4>1. now - startTime \in Int /\ (now + 1) - startTime \in Int
        BY <3>1
      <4>2. now - startTime <= (now + 1) - startTime
        BY <3>1
      <4> QED BY <3>1, <4>1, <4>2, ProductMonotone
    <3> DEFINE before == flowRate * (now - startTime)
               after == flowRate * ((now + 1) - startTime)
    <3>3. /\ totalWithdrawn <= MaxOf(0, before) /\ totalWithdrawn <= fundedAmount
          /\ before \in Int /\ after \in Int /\ before <= after
      BY <3>2 DEF IInv, NeverOverdrawn
    <3> HIDE DEF before, after
    <3>4. totalWithdrawn <= MaxOf(0, after)
      BY <3>1, <3>3 DEF MaxOf
    <3>5. flowRate' * (now' - startTime') = after
      <4>1. flowRate' = flowRate /\ startTime' = startTime /\ now' = now + 1
        BY <1>1 DEF terms
      <4> QED BY <4>1 DEF after
    <3>6. UNCHANGED <<totalWithdrawn, fundedAmount>>
      BY <1>1 DEF money
    <3> QED BY <3>3, <3>4, <3>5, <3>6 DEF NeverOverdrawn, MaxOf
  <2> QED BY <2>1, <2>2
<1> QED BY <1>2, <1>3 DEF IInv

LEMMA DatedIsNat == ASSUME IInv PROVE Dated \subseteq Nat
BY FlowAssumption DEF Dated, IInv, TypeOK

LEMMA NextIInv == IInv /\ [Next]_vars => IInv'
<1> SUFFICES ASSUME IInv, [Next]_vars PROVE IInv'
  OBVIOUS
<1>1. CASE Create_Flow
  BY <1>1, CreateStep
<1>2. CASE TopUp_Flow
  BY <1>2, TopUpStep
<1>3. CASE Withdraw
  BY <1>3, WithdrawStep, FlowAssumption DEF Withdraw
<1>4. CASE Pause
  BY <1>4, PauseStep, DatedIsNat DEF Pause
<1>5. CASE Resume
  BY <1>5, ResumeStep, DatedIsNat DEF Resume
<1>6. CASE Stop
  BY <1>6, StopStep, DatedIsNat DEF Stop
<1>7. CASE Tick
  BY <1>7, TickStep
<1>8. CASE UNCHANGED vars
  BY <1>8 DEF IInv, TypeOK, Bookkeeping, Conservation, NeverOverdrawn, vars, terms,
     money, clock
<1> QED BY <1>1, <1>2, <1>3, <1>4, <1>5, <1>6, <1>7, <1>8 DEF Next

LEMMA Inductive == Spec => []IInv
BY InitIInv, NextIInv, PTL DEF Spec

\* Every reachable flow contract has its type.
THEOREM TypeCorrect == Spec => []TypeOK
<1>1. IInv => TypeOK
  BY DEF IInv
<1> QED BY <1>1, Inductive, PTL

\* The balance the contract shows is what the sender really put in and has
\* not got back, whatever the parties state as instants.
THEOREM FundsConserved == Spec => []Conservation
<1>1. IInv => Conservation
  BY DEF IInv
<1> QED BY <1>1, Inductive, PTL

\* However the parties date their choices, the recipient never draws more
\* than the rate allows for the time that really passed, nor more than was
\* funded.
THEOREM RecipientNeverOverdraws == Spec => []NeverOverdrawn
<1>1. IInv => NeverOverdrawn
  BY DEF IInv
<1> QED BY <1>1, Inductive, PTL

----------------------------------------------------------------------------
\* The accrual clock, when the sender dates its pauses at ledger time.
LEMMA AccruedMonotone ==
  ASSUME NEW r \in Int, r > 0, flowRate = r, NEW a \in Int, NEW b \in Int, a <= b
  PROVE  flowAccrued(a) <= flowAccrued(b)
<1>1. r * a <= r * b /\ r * a \in Int /\ r * b \in Int
  BY ProductMonotone
<1>2. b > 0 => r * b > 0
  BY SMT
<1> QED BY <1>1, <1>2 DEF flowAccrued

LEMMA PromptStays == [Next]_vars => prompt' = prompt
BY DEF Next, Create_Flow, TopUp_Flow, Withdraw, Withdraw_Flow, Pause, Pause_Flow,
   Resume, Resume_Flow, Stop, Stop_Flow, Tick, vars, terms

LEMMA ClockStep ==
  ASSUME prompt, IInv, [Next]_vars, Open, status' # "FlowStopped"
  PROVE  /\ flowElapsedMicros(now) \in Int
         /\ flowElapsedMicros(now)' \in Int
         /\ flowElapsedMicros(now)' >= flowElapsedMicros(now)
         /\ status = "FlowPaused" => flowElapsedMicros(now)' = flowElapsedMicros(now)
         /\ created' /\ flowRate' = flowRate
<1>1. /\ now \in Nat /\ startTime \in Int /\ cumulativePausedDuration \in Nat
      /\ status = "FlowPaused" => pausedAt \in Nat
      /\ created /\ status # "FlowStopped"
      /\ status \in {"FlowActive", "FlowPaused", "FlowStopped"}
  BY FlowAssumption DEF IInv, TypeOK, Bookkeeping, Open
<1>2. \A t \in Dated : t = now
  BY <1>1 DEF Dated
<1>3. CASE TopUp_Flow
  BY <1>1, <1>3 DEF TopUp_Flow, flowElapsedMicros, terms, clock
<1>4. CASE Withdraw
  BY <1>1, <1>4 DEF Withdraw, Withdraw_Flow, flowElapsedMicros, terms, clock
<1>5. CASE Pause
  BY <1>1, <1>2, <1>5 DEF Pause, Pause_Flow, flowElapsedMicros, terms
<1>6. CASE Resume
  BY <1>1, <1>2, <1>6 DEF Resume, Resume_Flow, CumulativeAfter, flowElapsedMicros, terms
<1>7. CASE Tick
  BY <1>1, <1>7 DEF Tick, flowElapsedMicros, terms, clock
<1>8. CASE UNCHANGED vars
  BY <1>1, <1>8 DEF vars, flowElapsedMicros, terms, clock
<1>9. ~Create_Flow /\ ~Stop
  BY <1>1 DEF Create_Flow, Stop, Stop_Flow
<1> QED BY <1>3, <1>4, <1>5, <1>6, <1>7, <1>8, <1>9 DEF Next

LEMMA AccruedStep ==
  ASSUME prompt, IInv, [Next]_vars, Open, status' # "FlowStopped"
  PROVE  /\ accrued(now)' >= accrued(now)
         /\ status = "FlowPaused" => accrued(now)' = accrued(now)
<1> DEFINE a == flowElapsedMicros(now)
           b == flowElapsedMicros(now)'
<1>1. /\ a \in Int /\ b \in Int /\ a <= b
      /\ status = "FlowPaused" => a = b
      /\ flowRate' = flowRate
  BY ClockStep
<1>2. flowRate \in Int /\ flowRate > 0
  BY FlowAssumption DEF IInv, TypeOK, Bookkeeping, Open
<1>3. accrued(now) = flowAccrued(a) /\ accrued(now)' = flowAccrued(b)
  BY <1>1 DEF accrued, flowAccrued
<1> HIDE DEF a, b
<1>4. flowAccrued(a) <= flowAccrued(b) /\ flowAccrued(a) \in Int /\ flowAccrued(b) \in Int
  <2>1. flowRate * a \in Int /\ flowRate * b \in Int
    BY <1>1, <1>2
  <2> QED BY <1>1, <1>2, <2>1, AccruedMonotone DEF flowAccrued
<1> QED BY <1>1, <1>3, <1>4

\* If pauses are dated at ledger time, a pause freezes the accrual and nothing
\* else lowers it.
THEOREM PausesFreeze == Spec => PauseFreezesAccrual
<1>1. IInv /\ [Next]_vars =>
        [prompt /\ Open /\ status' # "FlowStopped" =>
           IF status = "FlowPaused"
           THEN accrued(now)' = accrued(now)
           ELSE accrued(now)' >= accrued(now)]_vars
  BY AccruedStep
<1> QED BY <1>1, Inductive, PTL DEF Spec, PauseFreezesAccrual

LEMMA DrawnStep ==
  ASSUME prompt, IInv, DrawnHasAccrued, [Next]_vars
  PROVE  DrawnHasAccrued'
<1> SUFFICES ASSUME Open' PROVE totalWithdrawn' <= accrued(now)'
  BY DEF DrawnHasAccrued
<1>1. CASE ~created
  <2>1. totalWithdrawn' = 0 /\ created'
    BY <1>1 DEF IInv, Bookkeeping, Open, Next, Create_Flow, TopUp_Flow, Withdraw,
       Withdraw_Flow, Pause, Pause_Flow, Resume, Resume_Flow, Stop, Stop_Flow, Tick,
       vars, money
  <2>2. IInv'
    BY NextIInv
  <2>3. now' \in Int /\ now' <= now'
    BY <2>2 DEF IInv, TypeOK
  <2>4. accrued(now)' \in Nat
    <3>1. flowElapsedMicros(now)' \in Int
      BY <2>2, FlowAssumption DEF IInv, TypeOK, flowElapsedMicros
    <3>2. flowRate' \in Int /\ flowRate' > 0
      BY <2>1, <2>2, FlowAssumption DEF IInv, TypeOK, Bookkeeping
    <3> DEFINE e == flowElapsedMicros(now)'
               r == flowRate'
    <3>3. accrued(now)' = IF e <= 0 THEN 0 ELSE r * e
      BY DEF accrued, flowAccrued
    <3>4. e \in Int /\ r \in Int /\ r > 0
      BY <3>1, <3>2
    <3> HIDE DEF e, r
    <3>5. e > 0 => r * e \in Nat
      BY <3>4, SMT
    <3> QED BY <3>3, <3>4, <3>5
  <2> QED BY <2>1, <2>4
<1>2. CASE created
  <2>1. Open /\ status' # "FlowStopped"
    BY <1>2 DEF Open, Next, Create_Flow, TopUp_Flow, Withdraw, Withdraw_Flow, Pause,
       Pause_Flow, Resume, Resume_Flow, Stop, Stop_Flow, Tick, vars, clock
  <2>2. accrued(now)' >= accrued(now) /\ totalWithdrawn <= accrued(now)
    BY <2>1, AccruedStep DEF DrawnHasAccrued
  <2>3. /\ accrued(now) \in Nat /\ accrued(now)' \in Int /\ totalWithdrawn \in Nat
    <3>1. now \in Int /\ now <= now /\ totalWithdrawn \in Nat
      BY DEF IInv, TypeOK
    <3>2. accrued(now) \in Nat
      BY <1>2, <3>1, AccruedBound
    <3>3. flowElapsedMicros(now)' \in Int /\ flowRate' \in Int
      BY <2>1, ClockStep, FlowAssumption DEF IInv, TypeOK
    <3>4. flowRate' * flowElapsedMicros(now)' \in Int
      BY <3>3
    <3> QED BY <3>1, <3>2, <3>4 DEF accrued, flowAccrued
  <2>4. CASE Withdraw
    <3>1. PICK t \in 0..MaxTime : Withdraw_Flow(t)
      BY <2>4 DEF Withdraw
    <3>2. t \in Int /\ t <= now /\ totalWithdrawn' = totalWithdrawn + flowWithdrawable(t)
      BY <3>1, FlowAssumption DEF Withdraw_Flow, NotInFuture
    <3>3. accrued(t) <= accrued(now) /\ accrued(t) \in Nat
      <4>1. /\ flowElapsedMicros(t) \in Int /\ flowElapsedMicros(now) \in Int
            /\ flowElapsedMicros(t) <= flowElapsedMicros(now)
        BY <3>2, FlowAssumption DEF IInv, TypeOK, Bookkeeping, flowElapsedMicros
      <4>2. flowRate \in Int /\ flowRate > 0
        BY <1>2, FlowAssumption DEF IInv, TypeOK, Bookkeeping
      <4> QED BY <1>2, <3>2, <4>1, <4>2, AccruedMonotone, AccruedBound DEF accrued
    <3>4. totalWithdrawn + flowWithdrawable(t) <= accrued(now)
      <4> DEFINE a == accrued(t)
                 n == accrued(now)
      <4>1. a \in Nat /\ n \in Nat /\ a <= n /\ totalWithdrawn <= n /\ totalWithdrawn \in Nat
            /\ fundedAmount \in Nat
        BY <2>2, <2>3, <3>3 DEF IInv, TypeOK
      <4>2. flowWithdrawable(t) = MaxOf(0, MinOf(a, fundedAmount) - totalWithdrawn)
        BY DEF flowWithdrawable
      <4> HIDE DEF a, n
      <4>3. totalWithdrawn + MaxOf(0, MinOf(a, fundedAmount) - totalWithdrawn) <= n
        BY <4>1 DEF MinOf, MaxOf
      <4> QED BY <4>2, <4>3 DEF n
    <3> QED BY <2>2, <2>3, <3>2, <3>4
  <2>5. CASE ~Withdraw
    <3>1. totalWithdrawn' = totalWithdrawn
      BY <1>2, <2>1, <2>5 DEF Next, Create_Flow, TopUp_Flow, Pause, Pause_Flow, Resume,
         Resume_Flow, Stop, Stop_Flow, Tick, vars, money
    <3> QED BY <2>2, <2>3, <3>1
  <2> QED BY <2>4, <2>5
<1> QED BY <1>1, <1>2 DEF IInv, TypeOK

\* If pauses are dated at ledger time, what the recipient of an open stream
\* has drawn has accrued by the contract's own clock.
THEOREM RecipientDrawsWhatAccrued == Spec => []DrawnHasAccrued
<1>1. Init => DrawnHasAccrued
  BY DEF Init, DrawnHasAccrued, Open
<1>2. IInv /\ DrawnHasAccrued /\ [Next]_vars => DrawnHasAccrued'
  BY DrawnStep, PromptStays DEF DrawnHasAccrued
<1> QED BY <1>1, <1>2, Inductive, PTL DEF Spec

\* The recipient draws what has accrued and is backed, and nothing else.
THEOREM DrawsOnlyWhatIsOwed == Spec => []DrawsOnlyItsOwn
<1> QED BY TypeCorrect, FundsConserved, RecipientNeverOverdraws,
           RecipientDrawsWhatAccrued, PTL DEF DrawsOnlyItsOwn

----------------------------------------------------------------------------
(* The clock.  With a prompt sender each finished pause lies before the    *)
(* next one begins, so pauses are disjoint and their lengths add up to the *)
(* number of instants they cover.                                          *)

PausesAreOver ==
  prompt =>
    /\ IsFiniteSet(pausedInstants)
    /\ cumulativePausedDuration = Cardinality(pausedInstants)
    /\ \A i \in pausedInstants : i < IF status = "FlowPaused" THEN pausedAt ELSE now

LEMMA PausesStep ==
  ASSUME IInv, PausesAreOver, [Next]_vars PROVE PausesAreOver'
<1> SUFFICES ASSUME prompt' PROVE PausesAreOver'
  BY DEF PausesAreOver
<1>1. /\ prompt /\ now \in Nat /\ cumulativePausedDuration \in Nat /\ pausedInstants \subseteq Nat
      /\ status = "FlowPaused" => pausedAt \in Nat /\ pausedAt <= now
      /\ status \in {"FlowActive", "FlowPaused", "FlowStopped"}
  BY PromptStays DEF IInv, TypeOK, Bookkeeping
<1>2. /\ IsFiniteSet(pausedInstants)
      /\ cumulativePausedDuration = Cardinality(pausedInstants)
      /\ \A i \in pausedInstants : i < IF status = "FlowPaused" THEN pausedAt ELSE now
  BY <1>1 DEF PausesAreOver
<1>3. \A i \in pausedInstants : i < now
  BY <1>1, <1>2
<1>4. \A t \in Dated : t = now
  BY <1>1 DEF Dated
<1>5. CASE UNCHANGED <<now, clock>>
  BY <1>2, <1>5 DEF PausesAreOver, clock
<1>6. CASE Pause
  BY <1>2, <1>3, <1>4, <1>6 DEF Pause, Pause_Flow, PausesAreOver
<1>7. CASE Resume
  <2> DEFINE pause == pausedAt .. (now - 1)
  <2>1. /\ status = "FlowPaused" /\ status' = "FlowActive" /\ now' = now
        /\ cumulativePausedDuration' = cumulativePausedDuration + (now - pausedAt)
        /\ pausedInstants' = pausedInstants \cup pause
    BY <1>4, <1>7 DEF Resume, Resume_Flow, CumulativeAfter
  <2>2. pausedAt \in Nat /\ pausedAt <= now
    BY <1>1, <2>1
  <2>3. IsFiniteSet(pause) /\ Cardinality(pause) = now - pausedAt
    <3>1. /\ IsFiniteSet(pause)
          /\ Cardinality(pause) = IF pausedAt > now - 1 THEN 0 ELSE (now - 1) - pausedAt + 1
      BY <1>1, <2>2, FS_Interval
    <3> HIDE DEF pause
    <3> QED BY <1>1, <2>2, <3>1
  <2>4. pausedInstants \cap pause = {}
    BY <1>1, <1>2, <2>1, <2>2
  <2>5. \A i \in pause : i < now
    BY <1>1, <2>2
  <2> HIDE DEF pause
  <2>6. /\ IsFiniteSet(pausedInstants \cup pause)
        /\ Cardinality(pausedInstants \cup pause)
             = Cardinality(pausedInstants) + Cardinality(pause) - Cardinality(pausedInstants \cap pause)
    BY <1>2, <2>3, FS_Union
  <2>7. Cardinality(pausedInstants \cap pause) = 0
    BY <2>4, FS_EmptySet
  <2>8. cumulativePausedDuration' = Cardinality(pausedInstants')
    BY <1>1, <1>2, <2>1, <2>2, <2>3, <2>6, <2>7
  <2>9. \A i \in pausedInstants' : i < now'
    BY <1>3, <2>1, <2>5
  <2> QED BY <2>1, <2>6, <2>8, <2>9 DEF PausesAreOver
<1>8. CASE Stop
  <2>1. /\ status' = "FlowStopped" /\ now' = now
        /\ UNCHANGED <<cumulativePausedDuration, pausedInstants>>
    BY <1>8 DEF Stop, Stop_Flow
  <2> QED BY <1>2, <1>3, <2>1 DEF PausesAreOver
<1>9. CASE Tick
  <2>1. now' = now + 1 /\ UNCHANGED clock
    BY <1>9 DEF Tick
  <2> QED BY <1>1, <1>2, <1>3, <2>1 DEF PausesAreOver, clock
<1>10. CASE Create_Flow \/ TopUp_Flow \/ Withdraw \/ UNCHANGED vars
  <2>1. UNCHANGED <<now, clock>>
    BY <1>10 DEF Create_Flow, TopUp_Flow, Withdraw, Withdraw_Flow, vars
  <2> QED BY <1>5, <2>1
<1> QED BY <1>6, <1>7, <1>8, <1>9, <1>10 DEF Next

\* If pauses and resumes are dated at ledger time, the clock excludes each paused
\* instant once (StreamFlow.daml, cumulativePausedDuration).
THEOREM PromptClockExcludesPauses == Spec => []PromptClockIsExact
<1>1. Init => PausesAreOver
  BY FS_EmptySet DEF Init, PausesAreOver
<1>2. IInv /\ PausesAreOver /\ [Next]_vars => PausesAreOver'
  BY PausesStep
<1>3. PausesAreOver => PromptClockIsExact
  BY DEF PausesAreOver, PromptClockIsExact, ClockExcludesEachPauseOnce
<1> QED BY <1>1, <1>2, <1>3, Inductive, PTL DEF Spec

----------------------------------------------------------------------------
\* Refinement: each choice is a funding, a payment, the closing settlement or
\* none of them.
LEMMA NextRefines == IInv /\ [Next]_vars => [Payment!Next]_(Payment!funds)
<1> SUFFICES ASSUME IInv, [Next]_vars PROVE [Payment!Next]_(Payment!funds)
  OBVIOUS
<1>0. /\ fundedAmount \in Nat /\ totalWithdrawn \in Nat /\ deposited \in Nat
      /\ refunded \in Nat /\ deposited = fundedAmount + refunded
      /\ totalWithdrawn <= fundedAmount
      /\ status # "FlowStopped" => refunded = 0
      /\ ~created => status = "FlowActive" /\ deposited = 0
  BY DEF IInv, TypeOK, Conservation, NeverOverdrawn, Bookkeeping
<1>1. CASE Create_Flow
  <2>1. /\ deposited' \in Int /\ deposited' >= 0
        /\ UNCHANGED <<totalWithdrawn, refunded, status>>
    BY <1>1, FlowAssumption DEF Create_Flow, Ensure, clock
  <2> QED BY <1>0, <1>1, <2>1 DEF Create_Flow, Payment!Next, Payment!Fund, Payment!funds
<1>2. CASE TopUp_Flow
  <2>1. /\ deposited' > deposited /\ status # "FlowStopped"
        /\ UNCHANGED <<totalWithdrawn, refunded, status>>
    BY <1>0, <1>2, FlowAssumption DEF TopUp_Flow, Open, clock
  <2> QED BY <2>1 DEF Payment!Next, Payment!Fund
<1>3. CASE Withdraw
  <2>1. PICK t \in 0..MaxTime : Withdraw_Flow(t)
    BY <1>3 DEF Withdraw
  <2>2. t \in Int
    BY FlowAssumption
  <2>3. /\ created /\ status # "FlowStopped" /\ t <= now
        /\ flowWithdrawable(t) > 0
        /\ totalWithdrawn' = totalWithdrawn + flowWithdrawable(t)
        /\ UNCHANGED <<deposited, refunded, status>>
    BY <2>1 DEF Withdraw_Flow, Open, NotInFuture, clock
  <2>4. /\ flowWithdrawable(t) \in Nat
        /\ totalWithdrawn + flowWithdrawable(t) <= fundedAmount
    BY <2>2, <2>3, ClaimBound
  <2> QED BY <1>0, <2>3, <2>4 DEF Payment!Next, Payment!Pay
<1>4. CASE Pause
  BY <1>4 DEF Pause, Pause_Flow, money, Payment!funds
<1>5. CASE Resume
  BY <1>5 DEF Resume, Resume_Flow, money, Payment!funds
<1>6. CASE Stop
  <2>1. PICK t \in Dated : Stop_Flow(t)
    BY <1>6 DEF Stop
  <2>2. t \in Int
    BY <2>1, DatedIsNat
  <2>3. /\ IInv' /\ fundedAmount' = totalWithdrawn'
        /\ totalWithdrawn' >= totalWithdrawn /\ refunded' >= refunded
    BY <2>1, <2>2, StopStep
  <2>4. /\ status # "FlowStopped" /\ status' = "FlowStopped" /\ UNCHANGED deposited
    BY <2>1 DEF Stop_Flow, Open
  <2>5. totalWithdrawn' + refunded' = deposited'
    BY <2>3 DEF IInv, Conservation
  <2> QED BY <2>3, <2>4, <2>5 DEF Payment!Next, Payment!Close
<1>7. CASE Tick \/ UNCHANGED vars
  BY <1>7 DEF Tick, vars, money, clock, Payment!funds
<1> QED BY <1>1, <1>2, <1>3, <1>4, <1>5, <1>6, <1>7 DEF Next

\* Every behaviour of an open-ended stream is a behaviour of a funded payment.
THEOREM Refinement == Spec => ImplementsFundedPayment
<1>1. Init => Payment!Init
  BY DEF Init, Payment!Init
<1> QED BY <1>1, NextRefines, Inductive, PTL DEF Spec, ImplementsFundedPayment, Payment!Spec
============================================================================
