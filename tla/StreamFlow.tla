----------------------------- MODULE StreamFlow -----------------------------
(***************************************************************************)
(* The StreamFlow template: an open-ended stream that accrues at a rate,   *)
(* is topped up by its sender, and whose accrual clock can be paused.      *)
(*                                                                         *)
(* Callers supply the instants at which a withdrawal, pause, resume or     *)
(* stop is priced.  The contract only checks that they are not ahead of    *)
(* ledger time; Lags says how far back the sender's instants may lie, and  *)
(* a prompt sender's are at ledger time.                                   *)
(***************************************************************************)
EXTENDS Integers, FiniteSets

CONSTANTS
  FlowRates,     \* rates, in minimal units per instant
  StartTimes,    \* when accrual may begin
  Fundings,      \* initial fundings
  TopUps,        \* amounts of a top-up
  Lags,          \* how far before ledger time a pause, resume or stop may be dated
  MaxElapsed,    \* the 100-year bound of flowAccrued
  MaxTime,       \* bound: ledger time stops here
  MaxFunded,     \* bound: funding stops here
  MaxPaused      \* bound: accumulated pauses stop here

ASSUME FlowAssumption ==
  /\ FlowRates \subseteq Int
  /\ StartTimes \subseteq Int
  /\ Fundings \subseteq Int
  /\ TopUps \subseteq Int
  /\ Lags \subseteq Nat
  /\ MaxElapsed \in Nat
  /\ MaxTime \in Nat
  /\ MaxFunded \in Nat
  /\ MaxPaused \in Nat

VARIABLES
  now,                \* ledger time
  created,            \* the contract exists
  flowRate, startTime,
  prompt,             \* the sender dates its choices at ledger time
  fundedAmount, totalWithdrawn, status, pausedAt,
  cumulativePausedDuration, numIterations,
  deposited, refunded,   \* what the sender really put in and got back
  pausedInstants      \* the instants inside a finished pause

terms == <<flowRate, startTime, prompt>>
money == <<fundedAmount, totalWithdrawn, numIterations, deposited, refunded>>
clock == <<status, pausedAt, cumulativePausedDuration, pausedInstants>>
vars == <<now, created, terms, money, clock>>

None == -1

Init ==
  /\ now = 0
  /\ created = FALSE
  /\ flowRate \in FlowRates
  /\ startTime \in StartTimes
  /\ prompt \in BOOLEAN
  /\ fundedAmount = 0 /\ totalWithdrawn = 0 /\ numIterations = 0
  /\ status = "FlowActive" /\ pausedAt = None /\ cumulativePausedDuration = 0
  /\ deposited = 0 /\ refunded = 0
  /\ pausedInstants = {}

----------------------------------------------------------------------------
MinOf(a, b) == IF a <= b THEN a ELSE b
MaxOf(a, b) == IF a >= b THEN a ELSE b

\* While paused the clock stands still at pausedAt.
RunsWhilePaused(t) == (t - startTime) - cumulativePausedDuration
flowElapsedMicros(t) ==
  ((t - startTime) - cumulativePausedDuration)
    - (IF status = "FlowPaused" THEN t - pausedAt ELSE 0)

flowAccrued(elapsed) == IF elapsed <= 0 THEN 0 ELSE flowRate * elapsed

\* A stream too old for the bound aborts every choice that prices it.
CanCompute(t) == flowElapsedMicros(t) <= MaxElapsed

accrued(t) == flowAccrued(flowElapsedMicros(t))

flowWithdrawable(t) == MaxOf(0, MinOf(accrued(t), fundedAmount) - totalWithdrawn)

\* The template's `ensure`, over the contract that is created.
Ensure ==
  /\ flowRate > 0
  /\ fundedAmount' >= 0
  /\ totalWithdrawn' >= 0 /\ totalWithdrawn' <= fundedAmount'
  /\ status' = "FlowPaused" <=> pausedAt' # None

AnyTime(t) == TRUE
StrictlyPast(t) == t < now
NotInFuture(t) == t <= now

AlwaysOpen == created
Open == created /\ status # "FlowStopped"

----------------------------------------------------------------------------
\* All three signatories create the contract together.
Create_Flow ==
  /\ ~created
  /\ created' = TRUE
  /\ \E f \in Fundings : fundedAmount' = f /\ deposited' = f
  /\ UNCHANGED <<now, terms, totalWithdrawn, numIterations, refunded, clock>>
  /\ Ensure

TopUp_Flow ==
  /\ Open
  /\ \E topUpAmount \in TopUps :
       /\ topUpAmount > 0
       /\ fundedAmount + topUpAmount <= MaxFunded
       /\ fundedAmount' = fundedAmount + topUpAmount
       /\ deposited' = deposited + topUpAmount
  /\ UNCHANGED <<now, created, terms, totalWithdrawn, numIterations, refunded, clock>>
  /\ Ensure

\* A paused stream still pays what accrued before the pause.
Withdraw_Flow(withdrawTime) ==
  /\ Open
  /\ NotInFuture(withdrawTime)
  /\ CanCompute(withdrawTime)
  /\ flowWithdrawable(withdrawTime) > 0
  /\ totalWithdrawn' = totalWithdrawn + flowWithdrawable(withdrawTime)
  /\ numIterations' = numIterations + 1
  /\ UNCHANGED <<now, created, terms, fundedAmount, deposited, refunded, clock>>
  /\ Ensure

Pause_Flow(pauseTime) ==
  /\ created /\ status = "FlowActive"
  /\ pauseTime <= now
  /\ status' = "FlowPaused"
  /\ pausedAt' = pauseTime
  /\ UNCHANGED <<now, created, terms, money, cumulativePausedDuration, pausedInstants>>
  /\ Ensure

AfterPause(t) == t >= pausedAt

\* The finished pause joins the time the clock excludes.
ForgetsEarlierPauses(pause) == pause
CumulativeAfter(pause) == cumulativePausedDuration + pause

Resume_Flow(resumeTime) ==
  /\ created /\ status = "FlowPaused"
  /\ resumeTime <= now
  /\ AfterPause(resumeTime)
  /\ CumulativeAfter(resumeTime - pausedAt) <= MaxPaused
  /\ status' = "FlowActive"
  /\ pausedAt' = None
  /\ cumulativePausedDuration' = CumulativeAfter(resumeTime - pausedAt)
  /\ pausedInstants' = pausedInstants \cup pausedAt..(resumeTime - 1)
  /\ UNCHANGED <<now, created, terms, money>>
  /\ Ensure

\* All three parties agree; the split they state must be the contract's own.
RefundsUnaccrued(owed) == MaxOf(0, fundedAmount - owed)
remainingFunded(owed) == MaxOf(0, (fundedAmount - totalWithdrawn) - owed)

Stop_Flow(stopTime) ==
  LET owed == flowWithdrawable(stopTime)
  IN  /\ Open
      /\ stopTime <= now
      /\ CanCompute(stopTime)
      /\ status' = "FlowStopped"
      /\ pausedAt' = None
      /\ totalWithdrawn' = totalWithdrawn + owed
      /\ fundedAmount' = totalWithdrawn + owed
      /\ refunded' = refunded + remainingFunded(owed)
      /\ UNCHANGED <<now, created, terms, numIterations, deposited,
                     cumulativePausedDuration, pausedInstants>>
      /\ Ensure

Tick ==
  /\ now < MaxTime
  /\ now' = now + 1
  /\ UNCHANGED <<created, terms, money, clock>>

----------------------------------------------------------------------------
\* The sender's instants, as late as Lags allows.
Dated == { t \in {now - lag : lag \in Lags} : t >= 0 /\ (prompt => t = now) }

Withdraw == \E t \in 0..MaxTime : Withdraw_Flow(t)
Pause == \E t \in Dated : Pause_Flow(t)
Resume == \E t \in Dated : Resume_Flow(t)
Stop == \E t \in Dated : Stop_Flow(t)

Next ==
  \/ Create_Flow \/ TopUp_Flow \/ Withdraw
  \/ Pause \/ Resume \/ Stop
  \/ Tick

Spec == Init /\ [][Next]_vars

\* Ledger time does not stop, and the recipient keeps claiming what it can.
FairSpec == Spec /\ WF_vars(Tick) /\ WF_vars(Withdraw_Flow(now))

----------------------------------------------------------------------------
TypeOK ==
  /\ now \in Nat
  /\ created \in BOOLEAN
  /\ flowRate \in FlowRates /\ startTime \in StartTimes /\ prompt \in BOOLEAN
  /\ fundedAmount \in Nat /\ totalWithdrawn \in Nat /\ numIterations \in Nat
  /\ status \in {"FlowActive", "FlowPaused", "FlowStopped"}
  /\ pausedAt \in Nat \cup {None}
  /\ cumulativePausedDuration \in Nat
  /\ deposited \in Nat /\ refunded \in Nat
  /\ pausedInstants \subseteq Nat

\* The balance the contract claims to hold is what the sender really put in
\* and has not got back, through top-ups and the final settlement.
Conservation ==
  /\ deposited = fundedAmount + refunded
  /\ status = "FlowStopped" => fundedAmount = totalWithdrawn

\* Whatever instants the parties state, the recipient never draws more than
\* the rate allows for the time that has really passed since the start, nor
\* more than was funded.
NeverOverdrawn ==
  /\ totalWithdrawn <= MaxOf(0, flowRate * (now - startTime))
  /\ totalWithdrawn <= fundedAmount

\* The accrual clock excludes each paused instant, and excludes it once: time
\* accrued plus time paused is the time since the start.  StreamFlow.daml calls
\* cumulativePausedDuration the total time spent paused across all pauses.
ClockExcludesEachPauseOnce ==
  status # "FlowStopped" =>
    cumulativePausedDuration = Cardinality(pausedInstants)

\* So it does when the sender dates its pauses and resumes at ledger time.
PromptClockIsExact == prompt => ClockExcludesEachPauseOnce

\* With a prompt sender, what was drawn from an open stream has accrued by the
\* contract's own clock.
DrawnHasAccrued == prompt /\ Open => totalWithdrawn <= accrued(now)

\* The recipient draws what has accrued, by real time and by the clock, and what
\* it drew is still backed by what the sender put in.
DrawsOnlyItsOwn == TypeOK /\ Conservation /\ NeverOverdrawn /\ DrawnHasAccrued

\* A prompt pause freezes the clock: it neither takes back what accrued before
\* it nor lets anything accrue until the stream resumes.
PauseFreezesAccrual ==
  [][prompt /\ Open /\ status' # "FlowStopped" =>
       IF status = "FlowPaused"
       THEN accrued(now)' = accrued(now)
       ELSE accrued(now)' >= accrued(now)]_vars

\* A stream that stays active ends up having paid everything that accrued and
\* is funded: no top-up or pause before can leave the claim stuck.
EverythingIsClaimed ==
  <>[](created /\ status = "FlowActive")
    => <>[](flowWithdrawable(MaxTime) = 0)

\* Refinement: the flow implements the promise of a funded payment.
Payment == INSTANCE FundedPayment WITH
  paid <- totalWithdrawn,
  closed <- status = "FlowStopped"

ImplementsFundedPayment == Payment!Spec
============================================================================
