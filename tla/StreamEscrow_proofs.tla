------------------------- MODULE StreamEscrow_proofs -------------------------
(***************************************************************************)
(* Proofs about one prefunded stream, for every schedule, every sequence   *)
(* of choices and every value of the constants.                            *)
(*                                                                         *)
(* The heart of the argument is NeverOverpaid: it needs the curves to be   *)
(* monotone (a withdrawal may be priced in the past) and the renewal's own *)
(* guard (a stretched curve may not fall below the old one at ledger       *)
(* time).  The other invariants are the bookkeeping around it.             *)
(*                                                                         *)
(* The last section is about the run that evaluates the arithmetic itself: *)
(* what it shows of small schedules and distributions holds of all.        *)
(***************************************************************************)
EXTENDS StreamEscrow, MCAccrual, Arithmetic_proofs

\* A contract on the ledger satisfies its ensure clause; before it exists no
\* money has moved; nothing is refunded before the contract is cancelled.
Bookkeeping ==
  /\ phase # "live" => /\ escrow = 0 /\ deposited = 0 /\ paid = 0 /\ refunded = 0
                       /\ state = initialStreamState
  /\ phase = "live" => Ensure(config, state, escrow)
  /\ refunded >= 0
  /\ phase = "live" /\ state.status # "Cancelled" => refunded = 0

\* An active contract has not been paid in full: the withdrawal that pays the
\* rest completes it, and a renewal always adds to the deposit.
ActiveOwes == Active => state.totalWithdrawn < config.totalDeposited

IInv ==
  /\ TypeOK
  /\ Bookkeeping
  /\ Conservation
  /\ HoldsTheRemainder
  /\ CompletedIsPaid
  /\ ActiveOwes
  /\ NeverOverpaid

----------------------------------------------------------------------------
\* Curves of a well-formed configuration.
LEMMA AccruedRange ==
  ASSUME NEW cfg \in StreamConfig, NEW t \in Int,
         cfg.totalDeposited > 0, cfg.startTime < cfg.endTime
  PROVE  computeAccrued(cfg, t) \in 0..cfg.totalDeposited
<1>1. /\ cfg.vestingMode \in VestingMode /\ cfg.totalDeposited \in Nat
      /\ cfg.startTime \in Int /\ cfg.endTime \in Int
  BY DEF StreamConfig
<1> QED BY <1>1, AccrualRange DEF computeAccrued

LEMMA AccruedMonotone ==
  ASSUME NEW cfg \in StreamConfig, NEW t \in Int, NEW u \in Int, t <= u,
         cfg.totalDeposited > 0, cfg.startTime < cfg.endTime,
         validVestingMode(cfg.vestingMode)
  PROVE  computeAccrued(cfg, t) <= computeAccrued(cfg, u)
<1>1. /\ cfg.vestingMode \in VestingMode /\ cfg.totalDeposited \in Nat
      /\ cfg.startTime \in Int /\ cfg.endTime \in Int
  BY DEF StreamConfig
<1> QED BY <1>1, AccrualMonotone DEF computeAccrued

\* Updating the terms on a record of its type.
LEMMA TermsUpdate ==
  ASSUME NEW cfg \in StreamConfig, NEW d \in Int, NEW e \in Int
  PROVE  /\ [cfg EXCEPT !.totalDeposited = d, !.endTime = e] \in StreamConfig
         /\ [cfg EXCEPT !.totalDeposited = d, !.endTime = e].totalDeposited = d
BY DEF StreamConfig

----------------------------------------------------------------------------
\* One lemma per action that touches the contract.
LEMMA InitIInv == Init => IInv
<1> SUFFICES ASSUME Init PROVE IInv
  OBVIOUS
<1> USE EscrowAssumption DEF Init
<1>1. TypeOK
  <2>1. NoRequest \in RenewRequest /\ initialStreamState \in StreamState
    BY DEF NoRequest, RenewRequest, initialStreamState, StreamState
  <2> QED BY <2>1 DEF TypeOK
<1>2. Bookkeeping
  BY DEF Bookkeeping
<1>3. Conservation /\ HoldsTheRemainder /\ CompletedIsPaid /\ ActiveOwes /\ NeverOverpaid
  BY DEF Conservation, HoldsTheRemainder, CompletedIsPaid, ActiveOwes, NeverOverpaid, Active
<1> QED BY <1>1, <1>2, <1>3 DEF IInv

\* Requests move no money and leave the terms alone.
LEMMA RequestStep ==
  ASSUME IInv, Propose \/ DropRequest
  PROVE  IInv'
<1>1. /\ phase # "live" /\ phase' \in {"requested", "dropped"}
      /\ UNCHANGED <<now, config, state, escrow, cid, renewal, deposited, paid, refunded>>
  BY DEF Propose, DropRequest
<1> QED
  BY <1>1 DEF IInv, TypeOK, Bookkeeping, Conservation, HoldsTheRemainder,
              CompletedIsPaid, ActiveOwes, NeverOverpaid, Active

LEMMA AcceptStep ==
  ASSUME IInv, AcceptStream
  PROVE  IInv'
<1>1. /\ phase = "requested" /\ phase' = "live" /\ config' = config
      /\ state' = initialStreamState /\ escrow' = config.totalDeposited
      /\ cid' = cid + 1 /\ deposited' = deposited + config.totalDeposited
      /\ UNCHANGED <<now, renewal, paid, refunded>>
      /\ Ensure(config, initialStreamState, config.totalDeposited)
  BY DEF AcceptStream, Create
<1>2. /\ TypeOK /\ deposited = 0 /\ paid = 0 /\ refunded = 0
  BY <1>1 DEF IInv, Bookkeeping
<1>3. config \in StreamConfig /\ config.totalDeposited \in Int /\ config.totalDeposited > 0
  BY <1>1, <1>2 DEF TypeOK, StreamConfig, Ensure
<1>4. initialStreamState \in StreamState
  BY DEF initialStreamState, StreamState
<1>5. TypeOK'
  BY <1>1, <1>2, <1>3, <1>4 DEF TypeOK
<1>6. Bookkeeping'
  BY <1>1, <1>2, <1>3 DEF Bookkeeping, Ensure
<1>7. (Conservation /\ HoldsTheRemainder /\ CompletedIsPaid /\ ActiveOwes)'
  BY <1>1, <1>2, <1>3
  DEF Conservation, HoldsTheRemainder, CompletedIsPaid, ActiveOwes, initialStreamState
<1>8. NeverOverpaid'
  <2>1. computeAccrued(config, now) \in 0..config.totalDeposited
    BY <1>1, <1>2, <1>3, AccruedRange DEF TypeOK, Ensure
  <2>2. computeAccrued(config, now)' = computeAccrued(config, now)
    BY <1>1
  <2> QED BY <1>1, <2>1, <2>2 DEF NeverOverpaid, initialStreamState
<1> QED BY <1>5, <1>6, <1>7, <1>8 DEF IInv

LEMMA WithdrawStep ==
  ASSUME IInv, NEW t \in Int, Withdraw_Stream(t)
  PROVE  IInv'
<1> DEFINE accrued == computeAccrued(config, t)
           amount == withdrawable(accrued, state.totalWithdrawn)
           newTotal == state.totalWithdrawn + amount
           D == config.totalDeposited
<1>1. /\ phase = "live" /\ state.status = "Active" /\ amount > 0
      /\ state' = [state EXCEPT !.totalWithdrawn = newTotal,
                                !.status = IF newTotal >= D THEN "Completed" ELSE "Active"]
      /\ escrow' = escrow - amount /\ paid' = paid + amount
      /\ cid' = cid + 1 /\ config' = config
      /\ UNCHANGED <<now, phase, renewal, deposited, refunded>>
      /\ Ensure(config', state', escrow')
  BY DEF Withdraw_Stream, Create, Active, StatusAfter
<1>2. /\ TypeOK /\ config \in StreamConfig /\ state \in StreamState
      /\ now \in Nat /\ t <= now
  BY DEF IInv, TypeOK, Withdraw_Stream, NotInFuture
<1>3. /\ D \in Int /\ D > 0 /\ state.totalWithdrawn \in Int /\ state.totalWithdrawn >= 0
      /\ config.startTime < config.endTime /\ validVestingMode(config.vestingMode)
  BY <1>1, <1>2 DEF IInv, Bookkeeping, Ensure, StreamConfig, StreamState
<1>4. accrued \in 0..D /\ computeAccrued(config, now) \in 0..D
      /\ accrued <= computeAccrued(config, now)
  BY <1>2, <1>3, AccruedRange, AccruedMonotone
<1> HIDE DEF accrued
<1>5. amount = accrued - state.totalWithdrawn /\ newTotal = accrued /\ amount \in Int
  BY <1>1, <1>3, <1>4 DEF withdrawable, MaxOf
<1> HIDE DEF amount, newTotal
<1>6. /\ state'.totalWithdrawn = accrued
      /\ state'.status = IF accrued >= D THEN "Completed" ELSE "Active"
      /\ state' \in StreamState
  <2> DEFINE status == IF newTotal >= D THEN "Completed" ELSE "Active"
  <2>1. newTotal \in Int /\ status \in {"Active", "Completed", "Cancelled"}
    BY <1>3, <1>4, <1>5
  <2>2. state' = [state EXCEPT !.totalWithdrawn = newTotal, !.status = status]
    BY <1>1
  <2> HIDE DEF status
  <2>3. state' \in StreamState
    BY <1>2, <2>1, <2>2 DEF StreamState
  <2>4. state'.totalWithdrawn = newTotal /\ state'.status = status
    BY <1>2, <2>2 DEF StreamState
  <2> QED BY <1>5, <2>3, <2>4 DEF status
<1>7. TypeOK'
  BY <1>1, <1>2, <1>5, <1>6 DEF TypeOK
<1>8. Bookkeeping'
  BY <1>1, <1>6 DEF IInv, Bookkeeping
<1>9. HoldsTheRemainder' /\ CompletedIsPaid' /\ ActiveOwes'
  BY <1>1, <1>2, <1>3, <1>4, <1>5, <1>6
  DEF IInv, HoldsTheRemainder, CompletedIsPaid, ActiveOwes, Active, TypeOK
<1>10. Conservation'
  BY <1>1, <1>2, <1>5 DEF IInv, Conservation, TypeOK, Ensure
<1>11. NeverOverpaid'
  BY <1>1, <1>4, <1>6 DEF NeverOverpaid, Active
<1> QED BY <1>7, <1>8, <1>9, <1>10, <1>11 DEF IInv

LEMMA CancelStep ==
  ASSUME IInv, SettleCancel
  PROVE  IInv'
<1> DEFINE accrued == computeAccrued(config, now)
           D == config.totalDeposited
           tw == state.totalWithdrawn
<1>1. /\ phase = "live" /\ state.status = "Active"
      /\ state' = [state EXCEPT !.totalWithdrawn = accrued, !.status = "Cancelled"]
      /\ escrow' = 0
      /\ paid' = paid + MaxOf(0, accrued - tw)
      /\ refunded' = refunded + MaxOf(0, D - accrued)
      /\ cid' = cid + 1 /\ config' = config
      /\ UNCHANGED <<now, phase, renewal, deposited>>
      /\ Ensure(config', state', escrow')
  BY DEF SettleCancel, Create, Active, recipientAmount, senderRefund
<1>2. /\ TypeOK /\ config \in StreamConfig /\ state \in StreamState /\ now \in Int
  BY DEF IInv, TypeOK
<1>3. /\ D \in Int /\ D > 0 /\ tw \in Int /\ tw >= 0
      /\ config.startTime < config.endTime /\ refunded = 0
  BY <1>1, <1>2 DEF IInv, Bookkeeping, Ensure, StreamConfig, StreamState
<1>4. accrued \in 0..D
  BY <1>2, <1>3, AccruedRange
<1>5. tw <= accrued /\ escrow = D - tw /\ deposited = paid + refunded + escrow
  BY <1>1 DEF IInv, NeverOverpaid, Active, HoldsTheRemainder, Conservation
<1> HIDE DEF accrued
<1>6. paid' = paid + (accrued - tw) /\ refunded' = D - accrued
  BY <1>1, <1>2, <1>3, <1>4, <1>5 DEF MaxOf, TypeOK
<1>7. /\ state'.status = "Cancelled" /\ state'.totalWithdrawn = accrued
      /\ state' \in StreamState
  <2>1. state' = [state EXCEPT !.totalWithdrawn = accrued, !.status = "Cancelled"]
    BY <1>1
  <2>2. accrued \in Int
    BY <1>3, <1>4
  <2>3. state' \in StreamState
    BY <1>2, <2>1, <2>2 DEF StreamState
  <2>4. state'.totalWithdrawn = accrued /\ state'.status = "Cancelled"
    BY <1>2, <2>1 DEF StreamState
  <2> QED BY <2>3, <2>4
<1>8. TypeOK'
  BY <1>1, <1>2, <1>3, <1>4, <1>6, <1>7 DEF TypeOK
<1>9. Bookkeeping'
  BY <1>1, <1>3, <1>4, <1>6, <1>7 DEF Bookkeeping
<1>10. Conservation'
  BY <1>1, <1>2, <1>3, <1>4, <1>5, <1>6 DEF Conservation, TypeOK
<1>11. (HoldsTheRemainder /\ CompletedIsPaid /\ ActiveOwes /\ NeverOverpaid)'
  BY <1>1, <1>7 DEF HoldsTheRemainder, CompletedIsPaid, ActiveOwes, NeverOverpaid, Active
<1> QED BY <1>8, <1>9, <1>10, <1>11 DEF IInv

LEMMA RenewStep ==
  ASSUME IInv, NEW d \in Int, NEW e \in Int, NEW t \in Int,
         Renew_Stream(d, e, t), renewal' \in RenewRequest
  PROVE  IInv'
<1> DEFINE cfg == Renewed(d, e, t)
           tw == IF state.status = "Completed" THEN 0 ELSE state.totalWithdrawn
<1>1. /\ phase = "live" /\ state.status \in {"Active", "Completed"} /\ d > 0
      /\ config' = cfg
      /\ state' = [totalWithdrawn |-> tw, status |-> "Active",
                   renewalCount |-> state.renewalCount + 1]
      /\ escrow' = escrow + d /\ deposited' = deposited + d /\ cid' = cid + 1
      /\ UNCHANGED <<now, phase, paid, refunded>>
      /\ Ensure(cfg, state', escrow')
      /\ state.status = "Active" => computeAccrued(cfg, now) >= computeAccrued(config, now)
  BY DEF Renew_Stream, Create, RenewableStatus, KeepsEntitlement
<1>2. /\ TypeOK /\ config \in StreamConfig /\ state \in StreamState /\ now \in Int
  BY DEF IInv, TypeOK
<1>3. /\ cfg \in StreamConfig
      /\ cfg.totalDeposited = IF state.status = "Completed" THEN d
                              ELSE config.totalDeposited + d
  <2>1. CASE state.status = "Completed"
    <3>1. cfg = [config EXCEPT !.startTime = t, !.totalDeposited = d, !.endTime = e]
      BY <2>1 DEF Renewed
    <3> HIDE DEF cfg
    <3> QED BY <1>2, <2>1, <3>1 DEF StreamConfig
  <2>2. CASE state.status # "Completed"
    <3>1. cfg = [config EXCEPT !.totalDeposited = config.totalDeposited + d, !.endTime = e]
      BY <2>2 DEF Renewed
    <3> HIDE DEF cfg
    <3>2. config.totalDeposited + d \in Int
      BY <1>2 DEF StreamConfig
    <3> QED BY <1>2, <2>2, <3>1, <3>2, TermsUpdate
  <2> QED BY <2>1, <2>2
<1>4. /\ state' \in StreamState /\ state'.status = "Active" /\ state'.totalWithdrawn = tw
  BY <1>1, <1>2 DEF StreamState
<1>5. TypeOK'
  BY <1>1, <1>2, <1>3, <1>4 DEF TypeOK
<1>6. Bookkeeping'
  BY <1>1, <1>4 DEF IInv, Bookkeeping
<1>7. Conservation'
  BY <1>1, <1>2 DEF IInv, Conservation, TypeOK
<1>8. HoldsTheRemainder' /\ CompletedIsPaid' /\ ActiveOwes'
  BY <1>1, <1>2, <1>3, <1>4
  DEF IInv, HoldsTheRemainder, CompletedIsPaid, ActiveOwes, Active, TypeOK,
      StreamConfig, StreamState
<1>9. NeverOverpaid'
  <2>1. /\ computeAccrued(cfg, now) \in 0..cfg.totalDeposited
        /\ computeAccrued(config, now) \in 0..config.totalDeposited
    <3>1. cfg.totalDeposited > 0 /\ cfg.startTime < cfg.endTime
      BY <1>1 DEF Ensure
    <3>2. config.totalDeposited > 0 /\ config.startTime < config.endTime
      BY <1>1 DEF IInv, Bookkeeping, Ensure
    <3> QED BY <1>2, <1>3, <3>1, <3>2, AccruedRange
  <2>2. computeAccrued(config, now)' = computeAccrued(cfg, now)
    BY <1>1
  <2>3. state.status = "Active" => state.totalWithdrawn <= computeAccrued(config, now)
    BY <1>1 DEF IInv, NeverOverpaid, Active
  <2>4. state.totalWithdrawn \in Int
    BY <1>2 DEF StreamState
  <2> HIDE DEF cfg
  <2>5. tw <= computeAccrued(cfg, now)
    <3>1. CASE state.status = "Completed"
      BY <3>1, <2>1, <1>3
    <3>2. CASE state.status = "Active"
      BY <3>2, <1>1, <2>1, <2>3, <2>4, <1>3, <1>2 DEF StreamConfig
    <3> QED BY <1>1, <3>1, <3>2
  <2> QED BY <1>4, <2>2, <2>5 DEF NeverOverpaid
<1> QED BY <1>5, <1>6, <1>7, <1>8, <1>9 DEF IInv

LEMMA TickStep ==
  ASSUME IInv, Tick
  PROVE  IInv'
<1>1. /\ now' = now + 1
      /\ UNCHANGED <<phase, config, state, escrow, cid, renewal, deposited, paid, refunded>>
  BY DEF Tick
<1>2. TypeOK /\ config \in StreamConfig /\ state \in StreamState /\ now \in Nat
  BY DEF IInv, TypeOK
<1>3. (TypeOK /\ Bookkeeping /\ Conservation /\ HoldsTheRemainder /\ CompletedIsPaid
       /\ ActiveOwes)'
  BY <1>1, <1>2 DEF IInv, TypeOK, Bookkeeping, Conservation, HoldsTheRemainder,
                    CompletedIsPaid, ActiveOwes, Active
<1>4. NeverOverpaid'
  <2> SUFFICES ASSUME Active PROVE state.totalWithdrawn <= computeAccrued(config, now + 1)
    <3>1. computeAccrued(config, now)' = computeAccrued(config, now + 1)
      BY <1>1
    <3> QED BY <1>1, <3>1 DEF NeverOverpaid, Active
  <2>1. /\ config.totalDeposited > 0 /\ config.startTime < config.endTime
        /\ validVestingMode(config.vestingMode)
    BY DEF Active, IInv, Bookkeeping, Ensure
  <2>2. /\ computeAccrued(config, now) <= computeAccrued(config, now + 1)
        /\ computeAccrued(config, now) \in 0..config.totalDeposited
        /\ computeAccrued(config, now + 1) \in 0..config.totalDeposited
    BY <1>2, <2>1, AccruedRange, AccruedMonotone, now <= now + 1
  <2>3. state.totalWithdrawn <= computeAccrued(config, now) /\ state.totalWithdrawn \in Int
    BY <1>2 DEF IInv, NeverOverpaid, StreamState
  <2>4. config.totalDeposited \in Int
    BY <1>2 DEF StreamConfig
  <2> QED BY <2>2, <2>3, <2>4
<1> QED BY <1>3, <1>4 DEF IInv

\* The rest moves no money: a renewal request is raised or archived.
LEMMA RenewalRequestStep ==
  ASSUME IInv, RequestRenewal \/ ArchiveRenewal \/ UNCHANGED vars
  PROVE  IInv'
<1>1. /\ UNCHANGED <<now, phase, config, state, escrow, cid, deposited, paid, refunded>>
      /\ renewal' \in RenewRequest
  <2>1. renewal \in RenewRequest /\ cid \in Nat /\ NoRequest \in RenewRequest
    BY DEF IInv, TypeOK, NoRequest, RenewRequest
  <2> QED BY <2>1, EscrowAssumption DEF RequestRenewal, ArchiveRenewal, vars, RenewRequest
<1> QED
  BY <1>1 DEF IInv, TypeOK, Bookkeeping, Conservation, HoldsTheRemainder,
              CompletedIsPaid, ActiveOwes, NeverOverpaid, Active

----------------------------------------------------------------------------
LEMMA NextIInv == IInv /\ [Next]_vars => IInv'
<1> SUFFICES ASSUME IInv, [Next]_vars PROVE IInv'
  OBVIOUS
<1>1. CASE Propose \/ DropRequest
  BY <1>1, RequestStep
<1>2. CASE AcceptStream
  BY <1>2, AcceptStep
<1>3. CASE Withdraw
  <2>1. PICK t \in 0..MaxTime : Withdraw_Stream(t)
    BY <1>3 DEF Withdraw
  <2>2. t \in Int
    BY EscrowAssumption
  <2> QED BY <2>1, <2>2, WithdrawStep
<1>4. CASE Cancel_Stream \/ MutualCancel_Stream
  BY <1>4, CancelStep DEF Cancel_Stream, MutualCancel_Stream
<1>5. CASE DirectRenewal
  <2>1. PICK d \in Deposits, e \in EndTimes, t \in 0..MaxTime : Renew_Stream(d, e, t)
    BY <1>5 DEF DirectRenewal
  <2>2. renewal' \in RenewRequest /\ d \in Int /\ e \in Int /\ t \in Int
    BY <1>5, EscrowAssumption DEF DirectRenewal, IInv, TypeOK
  <2> QED BY <2>1, <2>2, RenewStep
<1>6. CASE ExecuteRenewal
  <2>1. /\ Renew_Stream(renewal.additionalDeposit, renewal.newEndTime, now)
        /\ renewal' = NoRequest
    BY <1>6 DEF ExecuteRenewal
  <2>2. /\ renewal.additionalDeposit \in Int /\ renewal.newEndTime \in Int /\ now \in Int
        /\ NoRequest \in RenewRequest
    BY DEF IInv, TypeOK, RenewRequest, NoRequest
  <2> QED BY <2>1, <2>2, RenewStep
<1>7. CASE Tick
  BY <1>7, TickStep
<1>8. CASE RequestRenewal \/ ArchiveRenewal \/ UNCHANGED vars
  BY <1>8, RenewalRequestStep
<1> QED BY <1>1, <1>2, <1>3, <1>4, <1>5, <1>6, <1>7, <1>8 DEF Next

LEMMA Inductive == Spec => []IInv
BY InitIInv, NextIInv, PTL DEF Spec

\* Every reachable value of every variable has its type.
THEOREM TypeCorrect == Spec => []TypeOK
<1>1. IInv => TypeOK
  BY DEF IInv
<1> QED BY Inductive, <1>1, PTL

\* The recipient of an active stream never holds more than has vested.
THEOREM RecipientNeverOverpaid == Spec => []NeverOverpaid
<1>1. IInv => NeverOverpaid
  BY DEF IInv
<1> QED BY Inductive, <1>1, PTL

\* Complete_Stream can never be exercised: an active contract still owes.
THEOREM CompleteNeverEnabled == Spec => []CompleteUnreachable
<1>1. IInv => CompleteUnreachable
  <2> SUFFICES ASSUME IInv, Active, state.totalWithdrawn = config.totalDeposited
               PROVE  FALSE
    BY DEF CompleteUnreachable, CanComplete
  <2>1. config.totalDeposited \in Int
    BY DEF IInv, TypeOK, StreamConfig
  <2> QED BY <2>1 DEF IInv, ActiveOwes
<1> QED BY Inductive, <1>1, PTL

\* The books balance: no unit of the sender's money is created, lost or stranded.
THEOREM FundsConserved == Spec => []FundsAccounted
<1>1. IInv => Conservation /\ HoldsTheRemainder
  BY DEF IInv
<1> QED BY Inductive, TypeCorrect, CompleteNeverEnabled, <1>1, PTL DEF FundsAccounted

----------------------------------------------------------------------------
(* Entitlement.  In an active contract it is what was paid and the rest of *)
(* what accrued; a step that pays moves it from one to the other, and only *)
(* time and a renewal move the curve.                                      *)

EntitlementIs ==
  /\ paid \in Int /\ Entitlement \in Int
  /\ IF Active
     THEN /\ computeAccrued(config, now) \in 0 .. config.totalDeposited
          /\ state.totalWithdrawn \in Nat /\ config.totalDeposited \in Nat
          /\ state.totalWithdrawn <= computeAccrued(config, now)
          /\ Entitlement = paid + (computeAccrued(config, now) - state.totalWithdrawn)
     ELSE Entitlement = paid

LEMMA EntitlementFromInv == IInv => EntitlementIs
<1> SUFFICES ASSUME IInv PROVE EntitlementIs
  OBVIOUS
<1>1. paid \in Int /\ config \in StreamConfig /\ state \in StreamState /\ now \in Int
  BY DEF IInv, TypeOK
<1>2. CASE Active
  <2>1. /\ config.totalDeposited > 0 /\ config.startTime < config.endTime
        /\ state.totalWithdrawn >= 0
    BY <1>2 DEF IInv, Bookkeeping, Ensure, Active
  <2>2. config.totalDeposited \in Int /\ state.totalWithdrawn \in Int
    BY <1>1 DEF StreamConfig, StreamState
  <2>3. computeAccrued(config, now) \in 0 .. config.totalDeposited
    BY <1>1, <2>1, AccruedRange
  <2>4. state.totalWithdrawn <= computeAccrued(config, now)
    BY <1>2 DEF IInv, NeverOverpaid
  <2> DEFINE a == computeAccrued(config, now)
             w == state.totalWithdrawn
  <2>5. Entitlement = paid + withdrawable(a, w)
    BY <1>2 DEF Entitlement
  <2>6. withdrawable(a, w) = a - w
    BY <2>2, <2>3, <2>4 DEF withdrawable, MaxOf
  <2> HIDE DEF a, w
  <2>7. Entitlement = paid + (a - w) /\ a \in Int /\ w \in Int
    BY <2>2, <2>3, <2>5, <2>6 DEF a, w
  <2>8. Entitlement \in Int
    BY <1>1, <2>7
  <2> QED BY <1>1, <1>2, <2>1, <2>2, <2>3, <2>4, <2>7, <2>8 DEF EntitlementIs, a, w
<1>3. CASE ~Active
  BY <1>1, <1>3 DEF EntitlementIs, Entitlement
<1> QED BY <1>2, <1>3

LEMMA EntitlementKept ==
  ASSUME IInv, [Next]_vars, IInv'
  PROVE  Entitlement' >= Entitlement
<1>1. EntitlementIs
  BY EntitlementFromInv
<1>2. EntitlementIs'
  <2>1. (IInv => EntitlementIs)'
    BY EntitlementFromInv, PTL
  <2> QED BY <2>1
<1>3. /\ config \in StreamConfig /\ state \in StreamState /\ now \in Nat
      /\ Active => /\ config.totalDeposited > 0 /\ config.startTime < config.endTime
                   /\ validVestingMode(config.vestingMode)
  BY DEF IInv, TypeOK, Bookkeeping, Ensure, Active
<1>4. CASE UNCHANGED <<now, phase, config, state, paid>>
  <2>1. Entitlement' = Entitlement
    BY <1>4 DEF Entitlement, Active
  <2> QED BY <1>1, <2>1 DEF EntitlementIs
<1>5. CASE paid' = paid /\ ~Active
  <2>1. Entitlement = paid
    BY <1>1, <1>5 DEF EntitlementIs
  <2>2. Entitlement' >= paid'
    <3>1. CASE Active'
      BY <1>2, <3>1 DEF EntitlementIs
    <3>2. CASE ~Active'
      BY <1>2, <3>2 DEF EntitlementIs
    <3> QED BY <3>1, <3>2
  <2> QED BY <1>5, <2>1, <2>2
<1>6. ASSUME NEW t \in Int, Withdraw_Stream(t) PROVE Entitlement' >= Entitlement
  <2> DEFINE w == state.totalWithdrawn
             amount == withdrawable(computeAccrued(config, t), w)
  <2>1. /\ Active /\ config' = config /\ now' = now /\ phase' = phase
        /\ amount > 0 /\ paid' = paid + amount
        /\ state' = [state EXCEPT !.totalWithdrawn = w + amount, !.status = StatusAfter(w + amount)]
    BY <1>6 DEF Withdraw_Stream, Create
  <2>2. state'.totalWithdrawn = w + amount /\ state'.status = StatusAfter(w + amount)
    BY <1>3, <2>1 DEF StreamState
  <2>3. computeAccrued(config, now)' = computeAccrued(config, now)
    BY <2>1
  <2>4. amount \in Int
    <3>1. computeAccrued(config, t) \in 0 .. config.totalDeposited
      BY <1>3, <2>1, AccruedRange
    <3>2. w \in Int /\ config.totalDeposited \in Int
      BY <1>3 DEF StreamState, StreamConfig
    <3> QED BY <3>1, <3>2 DEF withdrawable, MaxOf
  <2> HIDE DEF amount
  <2>5. CASE w + amount >= config.totalDeposited
    <3>1. ~Active'
      BY <2>2, <2>5 DEF StatusAfter, Active
    <3> QED BY <1>1, <1>2, <2>1, <2>4, <2>5, <3>1 DEF EntitlementIs
  <2>6. CASE ~(w + amount >= config.totalDeposited)
    <3>1. Active'
      BY <2>1, <2>2, <2>6 DEF StatusAfter, Active
    <3>2. Entitlement' = paid' + (computeAccrued(config, now) - (w + amount))
      BY <1>2, <2>2, <2>3, <3>1 DEF EntitlementIs
    <3> QED BY <1>1, <2>1, <2>4, <3>2 DEF EntitlementIs
  <2> QED BY <2>5, <2>6
<1>7. ASSUME SettleCancel PROVE Entitlement' >= Entitlement
  <2> DEFINE a == computeAccrued(config, now)
  <2>1. /\ Active /\ phase' = phase /\ paid' = paid + MaxOf(0, a - state.totalWithdrawn)
        /\ state' = [state EXCEPT !.totalWithdrawn = a, !.status = "Cancelled"]
    BY <1>7 DEF SettleCancel, Create, recipientAmount
  <2>2. state'.status = "Cancelled"
    BY <1>3, <2>1 DEF StreamState
  <2>3. ~Active'
    BY <2>2 DEF Active
  <2> QED BY <1>1, <1>2, <2>1, <2>3 DEF EntitlementIs, MaxOf
<1>8. ASSUME NEW d, NEW e, NEW t, Renew_Stream(d, e, t) PROVE Entitlement' >= Entitlement
  <2> DEFINE cfg == Renewed(d, e, t)
  <2>1. /\ paid' = paid /\ config' = cfg /\ now' = now /\ phase = "live" /\ phase' = phase
        /\ state.status = "Active" => computeAccrued(cfg, now) >= computeAccrued(config, now)
        /\ state' = [ totalWithdrawn |-> IF state.status = "Completed" THEN 0
                                         ELSE state.totalWithdrawn,
                      status |-> "Active",
                      renewalCount |-> state.renewalCount + 1 ]
    BY <1>8 DEF Renew_Stream, Create, KeepsEntitlement
  <2>2. computeAccrued(config, now)' = computeAccrued(cfg, now)
    BY <2>1
  <2>3. CASE Active
    <3>1. Active' /\ state'.totalWithdrawn = state.totalWithdrawn
      BY <2>1, <2>3 DEF Active
    <3>2. computeAccrued(cfg, now) >= computeAccrued(config, now)
      BY <2>1, <2>3 DEF Active
    <3> HIDE DEF cfg
    <3>3. /\ Entitlement' = paid' + (computeAccrued(cfg, now) - state.totalWithdrawn)
          /\ computeAccrued(cfg, now) \in 0 .. (config.totalDeposited)'
          /\ (config.totalDeposited)' \in Nat
      BY <1>2, <2>2, <3>1 DEF EntitlementIs
    <3> QED BY <1>1, <2>1, <2>3, <3>2, <3>3 DEF EntitlementIs
  <2>4. CASE ~Active
    BY <1>5, <2>1, <2>4
  <2> QED BY <2>3, <2>4
<1>9. ASSUME Tick PROVE Entitlement' >= Entitlement
  <2>1. now' = now + 1 /\ UNCHANGED <<phase, config, state, paid>>
    BY <1>9 DEF Tick
  <2>2. CASE Active
    <3>1. computeAccrued(config, now) <= computeAccrued(config, now + 1)
      BY <1>3, <2>2, AccruedMonotone, now <= now + 1
    <3>2. computeAccrued(config, now)' = computeAccrued(config, now + 1) /\ Active'
      BY <2>1, <2>2 DEF Active
    <3>3. /\ Entitlement' = paid + (computeAccrued(config, now + 1) - state.totalWithdrawn)
          /\ computeAccrued(config, now + 1) \in 0 .. config.totalDeposited
      BY <1>2, <2>1, <3>2 DEF EntitlementIs
    <3> QED BY <1>1, <2>2, <3>1, <3>3 DEF EntitlementIs
  <2>3. CASE ~Active
    BY <1>5, <2>1, <2>3
  <2> QED BY <2>2, <2>3
<1>10. CASE Propose \/ DropRequest \/ RequestRenewal \/ ArchiveRenewal \/ UNCHANGED vars
  <2>1. paid' = paid /\ (~Active \/ UNCHANGED <<now, phase, config, state, paid>>)
    BY <1>10 DEF Propose, DropRequest, RequestRenewal, ArchiveRenewal, vars, Active
  <2> QED BY <1>4, <1>5, <2>1
<1>11. CASE AcceptStream
  <2>1. paid' = paid /\ ~Active
    BY <1>11 DEF AcceptStream, Active
  <2> QED BY <1>5, <2>1
<1> QED
  <2>1. CASE Withdraw
    <3>1. PICK t \in 0 .. MaxTime : Withdraw_Stream(t)
      BY <2>1 DEF Withdraw
    <3>2. t \in Int
      BY EscrowAssumption
    <3> QED BY <1>6, <3>1, <3>2
  <2>2. CASE Cancel_Stream \/ MutualCancel_Stream
    BY <1>7, <2>2 DEF Cancel_Stream, MutualCancel_Stream
  <2>3. CASE DirectRenewal
    BY <1>8, <2>3 DEF DirectRenewal
  <2>4. CASE ExecuteRenewal
    BY <1>8, <2>4 DEF ExecuteRenewal
  <2> QED BY <1>9, <1>10, <1>11, <2>1, <2>2, <2>3, <2>4 DEF Next

\* What the recipient was paid and may still withdraw never falls: not by a
\* withdrawal priced in the past, a cancellation or a renewal, whatever the curve
\* (Escrow.daml, Renew_Stream).
THEOREM EntitlementIsKept == Spec => EntitlementNeverFalls
<1>1. IInv /\ [Next]_vars /\ IInv' => [Entitlement' >= Entitlement]_vars
  BY EntitlementKept
<1> QED BY Inductive, <1>1, PTL DEF Spec, EntitlementNeverFalls

----------------------------------------------------------------------------
\* Refinement: the steps of the contract are steps of a funded payment.
LEMMA InitRefines == Init => Payment!Init
BY DEF Init, Payment!Init

LEMMA FundRefines ==
  ASSUME IInv, deposited' > deposited, UNCHANGED <<paid, refunded>>,
         phase \in {"requested", "live"}, state.status # "Cancelled",
         phase' = "live", state'.status = "Active"
  PROVE  Payment!Fund
BY DEF Payment!Fund

LEMMA WithdrawRefines ==
  ASSUME IInv, NEW t \in Int, Withdraw_Stream(t)
  PROVE  Payment!Pay
<1> DEFINE amount == withdrawable(computeAccrued(config, t), state.totalWithdrawn)
           newTotal == state.totalWithdrawn + amount
<1>1. /\ phase = "live" /\ state.status = "Active" /\ amount > 0
      /\ state' = [state EXCEPT !.totalWithdrawn = newTotal,
                                !.status = StatusAfter(newTotal)]
      /\ paid' = paid + amount /\ phase' = phase
      /\ UNCHANGED <<deposited, refunded>>
  BY DEF Withdraw_Stream, Create, Active
<1>2. IInv'
  BY WithdrawStep
<1>3. /\ paid \in Int /\ paid' \in Int /\ refunded \in Int /\ escrow' \in Int
      /\ deposited \in Int /\ state \in StreamState
  BY <1>2 DEF IInv, TypeOK
<1>4. state'.status = StatusAfter(newTotal)
  BY <1>1, <1>3 DEF StreamState
<1>5. state'.status # "Cancelled"
  BY <1>4 DEF StatusAfter
<1>6. paid' <= deposited'
  BY <1>1, <1>2, <1>3 DEF IInv, Conservation, Bookkeeping
<1>7. paid' > paid
  <2>1. amount \in Int
    <3>1. /\ config \in StreamConfig /\ config.totalDeposited > 0
          /\ config.startTime < config.endTime
      BY <1>1 DEF IInv, TypeOK, Bookkeeping, Ensure
    <3>2. computeAccrued(config, t) \in 0..config.totalDeposited
      BY <3>1, AccruedRange
    <3>3. config.totalDeposited \in Int /\ state.totalWithdrawn \in Int
      BY <1>3, <3>1 DEF StreamConfig, StreamState
    <3> QED BY <3>2, <3>3 DEF withdrawable, MaxOf
  <2> HIDE DEF amount
  <2> QED BY <1>1, <1>3, <2>1
<1> QED BY <1>1, <1>5, <1>6, <1>7 DEF Payment!Pay

LEMMA CancelRefines ==
  ASSUME IInv, SettleCancel
  PROVE  Payment!Close
<1> DEFINE accrued == computeAccrued(config, now)
<1>1. /\ phase = "live" /\ state.status = "Active" /\ escrow' = 0
      /\ state' = [state EXCEPT !.totalWithdrawn = accrued, !.status = "Cancelled"]
      /\ paid' = paid + MaxOf(0, accrued - state.totalWithdrawn)
      /\ refunded' = refunded + MaxOf(0, config.totalDeposited - accrued)
      /\ UNCHANGED <<phase, deposited>>
  BY DEF SettleCancel, Create, Active, recipientAmount, senderRefund
<1>2. IInv'
  BY CancelStep
<1>3. /\ state \in StreamState /\ config \in StreamConfig /\ now \in Int
      /\ paid \in Int /\ refunded \in Int /\ deposited \in Int
      /\ paid' \in Int /\ refunded' \in Int
  BY <1>2 DEF IInv, TypeOK
<1>4. state'.status = "Cancelled"
  BY <1>1, <1>3 DEF StreamState
<1>5. /\ config.totalDeposited \in Int /\ state.totalWithdrawn \in Int
      /\ accrued \in 0..config.totalDeposited
  <2>1. config.totalDeposited > 0 /\ config.startTime < config.endTime
    BY <1>1 DEF IInv, Bookkeeping, Ensure
  <2> QED BY <1>3, <2>1, AccruedRange DEF StreamConfig, StreamState
<1> HIDE DEF accrued
<1>6. paid' >= paid /\ refunded' >= refunded
  BY <1>1, <1>3, <1>5 DEF MaxOf
<1>7. paid' + refunded' = deposited
  BY <1>1, <1>2, <1>3 DEF IInv, Conservation
<1> QED BY <1>1, <1>4, <1>6, <1>7 DEF Payment!Close

LEMMA RenewRefines ==
  ASSUME IInv, NEW d \in Int, NEW e, NEW t, Renew_Stream(d, e, t)
  PROVE  Payment!Fund
<1>1. /\ phase = "live" /\ phase' = "live" /\ state.status \in {"Active", "Completed"}
      /\ state'.status = "Active" /\ d > 0 /\ deposited' = deposited + d
      /\ UNCHANGED <<paid, refunded>>
  BY DEF Renew_Stream, Create, RenewableStatus
<1>2. deposited' > deposited
  BY <1>1 DEF IInv, TypeOK
<1> QED BY <1>1, <1>2, FundRefines

LEMMA AcceptRefines ==
  ASSUME IInv, AcceptStream
  PROVE  Payment!Fund
<1>1. /\ phase = "requested" /\ phase' = "live" /\ state'.status = "Active"
      /\ deposited' = deposited + config.totalDeposited /\ config.totalDeposited > 0
      /\ UNCHANGED <<paid, refunded>>
  BY DEF AcceptStream, Create, Ensure, initialStreamState
<1>2. deposited' > deposited
  BY <1>1 DEF IInv, TypeOK, StreamConfig
<1>3. state.status # "Cancelled"
  BY <1>1 DEF IInv, Bookkeeping, initialStreamState
<1> QED BY <1>1, <1>2, <1>3, FundRefines

LEMMA NextRefines == IInv /\ [Next]_vars => [Payment!Next]_(Payment!funds)
<1> SUFFICES ASSUME IInv, [Next]_vars PROVE [Payment!Next]_(Payment!funds)
  OBVIOUS
<1>1. CASE Withdraw
  <2>1. PICK t \in 0..MaxTime : Withdraw_Stream(t)
    BY <1>1 DEF Withdraw
  <2>2. t \in Int
    BY EscrowAssumption
  <2> QED BY <2>1, <2>2, WithdrawRefines DEF Payment!Next
<1>2. CASE Cancel_Stream \/ MutualCancel_Stream
  BY <1>2, CancelRefines DEF Cancel_Stream, MutualCancel_Stream, Payment!Next
<1>3. CASE DirectRenewal
  <2>1. PICK d \in Deposits, e \in EndTimes, t \in 0..MaxTime : Renew_Stream(d, e, t)
    BY <1>3 DEF DirectRenewal
  <2> QED BY <2>1, EscrowAssumption, RenewRefines DEF Payment!Next
<1>4. CASE ExecuteRenewal
  <2>1. renewal.additionalDeposit \in Int
    BY DEF IInv, TypeOK, RenewRequest
  <2> QED BY <1>4, <2>1, RenewRefines DEF ExecuteRenewal, Payment!Next
<1>5. CASE AcceptStream
  BY <1>5, AcceptRefines DEF Payment!Next
<1>6. CASE Propose \/ DropRequest
  <2>1. /\ phase # "live" /\ phase' # "live" /\ UNCHANGED <<deposited, paid, refunded>>
    BY <1>6 DEF Propose, DropRequest
  <2> QED BY <2>1 DEF Payment!funds
<1>7. CASE RequestRenewal \/ ArchiveRenewal \/ Tick \/ UNCHANGED vars
  <2>1. UNCHANGED <<phase, state, deposited, paid, refunded>>
    BY <1>7 DEF RequestRenewal, ArchiveRenewal, Tick, vars
  <2> QED BY <2>1 DEF Payment!funds
<1> QED BY <1>1, <1>2, <1>3, <1>4, <1>5, <1>6, <1>7 DEF Next

\* Every behaviour of the contract is a behaviour of a funded payment.
THEOREM Refinement == Spec => ImplementsFundedPayment
<1>1. Init => Payment!Init
  BY InitRefines
<1>2. IInv /\ [Next]_vars => [Payment!Next]_(Payment!funds)
  BY NextRefines
<1> QED BY <1>1, <1>2, Inductive, PTL DEF Spec, ImplementsFundedPayment, Payment!Spec

----------------------------------------------------------------------------
(* The arithmetic run: its inputs are schedules and splits that the        *)
(* contracts accept, and stepped schedules whose interval they refuse.     *)

ScheduleOK ==
  /\ curve \in VestingMode
  /\ curve.kind = "Stepped" => curve.amountPerStep > 0
  /\ curve.kind = "RenewableTerm" => curve.termDuration > 0
  /\ locked \in Nat /\ opens \in Int /\ closes \in Int /\ opens < closes

SplitOK ==
  /\ division \in {"percentage", "fixed"}
  /\ shares \in Seq(Nat) /\ shares # <<>>
  /\ division = "percentage" => SumOfLegs(shares) = Whole

InputsOK ==
  /\ reading \in Nat
  /\ division = "none" => ScheduleOK
  /\ division # "none" => SplitOK

LEMMA PickedInputsOK == PickInputs => InputsOK
<1> SUFFICES ASSUME PickInputs PROVE InputsOK
  OBVIOUS
<1>1. reading \in Nat
  BY DEF PickInputs
<1>2. CASE Schedule
  <2>1. /\ curve \in VestingMode
        /\ (curve.kind = "Stepped" => curve.amountPerStep > 0)
        /\ (curve.kind = "RenewableTerm" => curve.termDuration > 0)
    <3>1. CASE curve \in {Linear, RenewableTerm(1)}
      BY <3>1 DEF Linear, RenewableTerm, VestingMode
    <3>2. CASE \E c \in Instants : curve = CliffLinear(c)
      BY <3>2 DEF CliffLinear, VestingMode, Instants
    <3>3. CASE \E i \in -1..3, a \in 1..3 : curve = Stepped(i, a)
      BY <3>3 DEF Stepped, VestingMode
    <3> QED BY <1>2, <3>1, <3>2, <3>3 DEF Schedule, Modes
  <2>2. locked \in Nat /\ opens \in Int /\ closes \in Int /\ opens < closes
    BY <1>2, InputAssumption DEF Schedule, Instants
  <2> QED BY <1>1, <1>2, <2>1, <2>2 DEF InputsOK, ScheduleOK, Schedule
<1>3. CASE Split
  <2>1. PICK n \in 1..MaxLegs : shares \in [1..n -> 1..Whole]
    BY <1>3 DEF Split, Divisions
  <2>2. n \in Nat /\ n # 0
    BY <2>1, InputAssumption
  <2>3. shares \in [1..n -> Nat]
    BY <2>1, SplitAssumption
  <2>4. shares \in Seq(Nat) /\ Len(shares) = n
    BY <2>2, <2>3
  <2>5. shares # <<>>
    BY <2>2, <2>4
  <2> QED BY <1>1, <1>3, <2>4, <2>5 DEF InputsOK, SplitOK, Split
<1> QED BY <1>2, <1>3 DEF PickInputs

LEMMA InputsStayOK == InputsOK /\ [RunUp]_<<inputs, reading>> => InputsOK'
  BY DEF InputsOK, ScheduleOK, SplitOK, RunUp, inputs

\* Every schedule the run may pick, at every instant, has the curve it should have:
\* linearAccrual, cliffLinearAccrual and steppedAccrual agree with their references.
THEOREM RunCurvesAreExact == ArithmeticSpec => []CurveIsExact
<1>1. InputsOK => CurveIsExact
  <2> SUFFICES ASSUME InputsOK, division = "none"
               PROVE  ExactAt(curve, locked, opens, closes, reading)
    BY DEF CurveIsExact
  <2>1. ScheduleOK /\ reading \in Int
    BY DEF InputsOK
  <2>2. CASE curve.kind = "Stepped" /\ ~(curve.stepInterval > 0)
    BY <2>2 DEF ExactAt
  <2>3. CASE curve.kind = "Stepped" => curve.stepInterval > 0
    BY <2>1, <2>3, CurvesAreExact DEF ScheduleOK, validVestingMode
  <2> QED BY <2>2, <2>3
<1> QED BY <1>1, PickedInputsOK, InputsStayOK, PTL DEF ArithmeticSpec

\* What a client shows as withdrawable is never more than a millisecond away from
\* what the ledger pays (calculator.ts against Accrual.daml).
THEOREM RunDisplayIsClose == ArithmeticSpec => []DisplayIsClose
<1>1. InputsOK => DisplayIsClose
  BY DisplayKeepsUp DEF InputsOK, ScheduleOK, DisplayIsClose
<1> QED BY <1>1, PickedInputsOK, InputsStayOK, PTL DEF ArithmeticSpec

\* A gross amount is split alike by calculateDistributionAmounts and by the contract's
\* distributionAmounts, and a percentage gets its rounded share.
THEOREM RunSplitsAreFair == ArithmeticSpec => []SplitsAreFair
<1>1. InputsOK => SplitsAreFair
  BY SplitsAlwaysAgree, SharesAlwaysHonoured DEF InputsOK, SplitOK, SplitsAreFair
<1> QED BY <1>1, PickedInputsOK, InputsStayOK, PTL DEF ArithmeticSpec
============================================================================
