---------------------------- MODULE StreamEscrow ----------------------------
(***************************************************************************)
(* The life of one prefunded stream on the ledger: the propose/accept      *)
(* workflow of Workflow.CreateStream, the StreamEscrow template with its   *)
(* consuming choices, and the RenewRequest of Workflow.RenewStream that    *)
(* names the escrow contract it will renew.                                *)
(*                                                                         *)
(* A choice that archives the contract and creates its successor gives it  *)
(* a new contract id; whoever still holds the old id can exercise nothing. *)
(* A failed assertion or a false `ensure` aborts the whole transaction, so *)
(* each is a guard of the action.                                          *)
(***************************************************************************)
EXTENDS Accrual

CONSTANTS
  Configs,        \* the stream terms a sender may propose
  Deposits,       \* additional deposits a renewal may bring
  EndTimes,       \* end times a renewal may ask for
  MaxTime,        \* bound: ledger time stops here
  MaxRenewals     \* bound: renewals of one stream

StreamConfig ==
  [ totalDeposited : Int, startTime : Int, endTime : Int,
    vestingMode : VestingMode, cancellable : BOOLEAN ]

ASSUME EscrowAssumption ==
  /\ Configs \subseteq StreamConfig
  /\ Deposits \subseteq Int
  /\ EndTimes \subseteq Int
  /\ MaxTime \in Nat
  /\ MaxRenewals \in Nat

VARIABLES
  now,            \* ledger time
  phase,          \* "idle", then "requested", then "live"; or "dropped"
  config,         \* the terms on the request, then on the escrow contract
  state,          \* totalWithdrawn, status, renewalCount
  escrow,         \* the amount the contract still holds
  cid,            \* contract id of the current StreamEscrow
  renewal,        \* the pending RenewRequest, if any
  deposited, paid, refunded   \* what the parties really moved, over all terms

vars == <<now, phase, config, state, escrow, cid, renewal,
          deposited, paid, refunded>>

StreamState ==
  [ totalWithdrawn : Int, status : {"Active", "Completed", "Cancelled"},
    renewalCount : Nat ]

RenewRequest == [ streamCid : Nat, additionalDeposit : Int, newEndTime : Int ]

NoRequest == [streamCid |-> 0, additionalDeposit |-> 0, newEndTime |-> 0]

initialStreamState == [totalWithdrawn |-> 0, status |-> "Active", renewalCount |-> 0]

Init ==
  /\ now = 0
  /\ phase = "idle"
  /\ config \in Configs
  /\ state = initialStreamState
  /\ escrow = 0
  /\ cid = 0
  /\ renewal = NoRequest
  /\ deposited = 0 /\ paid = 0 /\ refunded = 0

----------------------------------------------------------------------------
computeAccrued(cfg, t) ==
  accruedAt(cfg.vestingMode, cfg.totalDeposited, cfg.startTime, cfg.endTime, t)

CanCompute(cfg, t) ==
  Computable(cfg.vestingMode, cfg.totalDeposited, cfg.startTime, cfg.endTime, t)

\* The template's `ensure`: the transaction aborts unless the contract it
\* creates satisfies it.
Ensure(cfg, st, held) ==
  /\ cfg.totalDeposited > 0
  /\ cfg.startTime < cfg.endTime
  /\ st.totalWithdrawn >= 0 /\ st.totalWithdrawn <= cfg.totalDeposited
  /\ validVestingMode(cfg.vestingMode)
  /\ held >= 0

\* Archive the contract, if there is one, and create its successor.
Create(cfg, st, held) ==
  /\ Ensure(cfg, st, held)
  /\ config' = cfg
  /\ state' = st
  /\ escrow' = held
  /\ cid' = cid + 1

----------------------------------------------------------------------------
(* Workflow.CreateStream *)

\* The sender creates the request: its own `ensure` does not look at the
\* vesting mode.
Propose ==
  /\ phase = "idle"
  /\ config.totalDeposited > 0
  /\ config.startTime < config.endTime
  /\ phase' = "requested"
  /\ UNCHANGED <<now, config, state, escrow, cid, renewal, deposited, paid, refunded>>

AcceptStream ==
  /\ phase = "requested"
  /\ Create(config, initialStreamState, config.totalDeposited)
  /\ phase' = "live"
  /\ deposited' = deposited + config.totalDeposited
  /\ UNCHANGED <<now, renewal, paid, refunded>>

\* DeclineStream by the recipient, WithdrawRequest by the sender.
DropRequest ==
  /\ phase = "requested"
  /\ phase' = "dropped"
  /\ UNCHANGED <<now, config, state, escrow, cid, renewal, deposited, paid, refunded>>

----------------------------------------------------------------------------
(* Choices of the StreamEscrow template *)

Active == phase = "live" /\ state.status = "Active"

\* Callers supply instants; a choice only accepts one that ledger time reached.
AnyTime(t) == TRUE
StrictlyPast(t) == t < now
NotInFuture(t) == t <= now

StatusAfter(newTotal) ==
  IF newTotal >= config.totalDeposited THEN "Completed" ELSE "Active"

\* The recipient states the instant the withdrawal is priced at; it may lie in
\* the past, never in the future of the ledger.
Withdraw_Stream(withdrawTime) ==
  LET accrued == computeAccrued(config, withdrawTime)
      amount == withdrawable(accrued, state.totalWithdrawn)
      newTotal == state.totalWithdrawn + amount
  IN  /\ Active
      /\ NotInFuture(withdrawTime)
      /\ CanCompute(config, withdrawTime)
      /\ amount > 0
      /\ checkInvariant(config.totalDeposited, accrued, state.totalWithdrawn)
      /\ Create(config,
                [state EXCEPT !.totalWithdrawn = newTotal,
                              !.status = StatusAfter(newTotal)],
                escrow - amount)
      /\ paid' = paid + amount
      /\ UNCHANGED <<now, phase, renewal, deposited, refunded>>

recipientAmount(accrued) == MaxOf(0, accrued - state.totalWithdrawn)

RefundUndrawn(accrued) == MaxOf(0, config.totalDeposited - state.totalWithdrawn)
senderRefund(accrued) == MaxOf(0, config.totalDeposited - accrued)

\* Both cancellations price the settlement at ledger time.
SettleCancel ==
  LET accrued == computeAccrued(config, now)
  IN  /\ Active
      /\ CanCompute(config, now)
      /\ checkInvariant(config.totalDeposited, accrued, state.totalWithdrawn)
      /\ Create(config,
                [state EXCEPT !.totalWithdrawn = accrued, !.status = "Cancelled"],
                0)
      /\ paid' = paid + recipientAmount(accrued)
      /\ refunded' = refunded + senderRefund(accrued)
      /\ UNCHANGED <<now, phase, renewal, deposited>>

Cancel_Stream == config.cancellable /\ SettleCancel

MutualCancel_Stream == SettleCancel

\* The archived contract's terms, extended.  A completed term starts afresh at
\* renewTime; an active one keeps its start and its curve is stretched.
RenewedKeepingTerm(additionalDeposit, newEndTime, renewTime) ==
  [config EXCEPT !.totalDeposited = @ + additionalDeposit, !.endTime = newEndTime]
Renewed(additionalDeposit, newEndTime, renewTime) ==
  IF state.status = "Completed"
  THEN [config EXCEPT !.startTime = renewTime,
                      !.totalDeposited = additionalDeposit,
                      !.endTime = newEndTime]
  ELSE [config EXCEPT !.totalDeposited = @ + additionalDeposit,
                      !.endTime = newEndTime]

\* An active renewal may not price the curve below what has accrued.
KeepsWithdrawn(renewed) == computeAccrued(renewed, now) >= state.totalWithdrawn
KeepsEntitlement(renewed) ==
  computeAccrued(renewed, now) >= computeAccrued(config, now)

RenewableStatus == {"Active", "Completed"}

Renew_Stream(additionalDeposit, newEndTime, renewTime) ==
  LET renewed == Renewed(additionalDeposit, newEndTime, renewTime)
  IN  /\ phase = "live"
      /\ state.renewalCount < MaxRenewals
      /\ isRenewable(config.vestingMode)
      /\ state.status \in RenewableStatus
      /\ additionalDeposit > 0
      /\ newEndTime > config.endTime
      /\ renewTime <= newEndTime
      /\ NotInFuture(renewTime)
      /\ renewed.totalDeposited <= MaxDecimal
      /\ escrow + additionalDeposit <= MaxDecimal
      /\ state.status = "Active" =>
           /\ CanCompute(config, now) /\ CanCompute(renewed, now)
           /\ KeepsEntitlement(renewed)
      /\ Create(renewed,
                [ totalWithdrawn |-> IF state.status = "Completed" THEN 0
                                     ELSE state.totalWithdrawn,
                  status |-> "Active",
                  renewalCount |-> state.renewalCount + 1 ],
                escrow + additionalDeposit)
      /\ deposited' = deposited + additionalDeposit
      /\ UNCHANGED <<now, phase, paid, refunded>>

DirectRenewal ==
  /\ \E d \in Deposits, e \in EndTimes, t \in 0..MaxTime : Renew_Stream(d, e, t)
  /\ UNCHANGED renewal

\* The guard of Complete_Stream.  Withdraw_Stream itself completes a contract
\* that has been paid in full, so no reachable state satisfies this guard
\* (CompleteUnreachable) and Next leaves the choice out.
CanComplete(completeTime) ==
  /\ Active
  /\ NotInFuture(completeTime)
  /\ CanCompute(config, completeTime)
  /\ computeAccrued(config, completeTime) >= config.totalDeposited
  /\ state.totalWithdrawn = config.totalDeposited

----------------------------------------------------------------------------
(* Workflow.RenewStream: the request keeps the contract id it was made for *)

RequestRenewal ==
  /\ phase = "live"
  /\ renewal = NoRequest
  /\ \E d \in Deposits, e \in EndTimes :
        /\ d > 0
        /\ renewal' = [streamCid |-> cid, additionalDeposit |-> d, newEndTime |-> e]
  /\ UNCHANGED <<now, phase, config, state, escrow, cid, deposited, paid, refunded>>

\* ExecuteRenewal fetches the named contract: it must still be the current one.
ExecuteRenewal ==
  /\ renewal # NoRequest
  /\ renewal.streamCid = cid
  /\ Renew_Stream(renewal.additionalDeposit, renewal.newEndTime, now)
  /\ renewal' = NoRequest

\* The sender archives a request that can no longer be executed, or that it
\* no longer wants.
ArchiveRenewal ==
  /\ renewal # NoRequest
  /\ renewal' = NoRequest
  /\ UNCHANGED <<now, phase, config, state, escrow, cid, deposited, paid, refunded>>

Tick ==
  /\ now < MaxTime
  /\ now' = now + 1
  /\ UNCHANGED <<phase, config, state, escrow, cid, renewal, deposited, paid, refunded>>

----------------------------------------------------------------------------
Withdraw == \E t \in 0..MaxTime : Withdraw_Stream(t)

Next ==
  \/ Propose \/ AcceptStream \/ DropRequest
  \/ Withdraw \/ Cancel_Stream \/ MutualCancel_Stream \/ DirectRenewal
  \/ RequestRenewal \/ ExecuteRenewal \/ ArchiveRenewal
  \/ Tick

Spec == Init /\ [][Next]_vars

\* Ledger time never stops, and the recipient's wallet or the settlement
\* service keeps asking for whatever can be withdrawn.
FairSpec == Spec /\ WF_vars(Tick) /\ WF_vars(Withdraw_Stream(now))

----------------------------------------------------------------------------
TypeOK ==
  /\ now \in Nat
  /\ phase \in {"idle", "requested", "live", "dropped"}
  /\ config \in StreamConfig
  /\ state \in StreamState
  /\ escrow \in Int
  /\ cid \in Nat
  /\ renewal \in RenewRequest
  /\ deposited \in Int /\ paid \in Int /\ refunded \in Int

\* Every unit the sender put in is held by the contract, was paid to the
\* recipient or was refunded: across withdrawals, both cancellations and
\* renewals of active and of completed terms nothing is created or lost.
Conservation ==
  /\ deposited = paid + refunded + escrow
  /\ escrow >= 0

\* A completed term was paid in full.
CompletedIsPaid ==
  phase = "live" /\ state.status = "Completed" =>
    state.totalWithdrawn = config.totalDeposited

\* What the contract holds is exactly what the current term has not paid out;
\* a closed contract holds nothing that could be stranded.
HoldsTheRemainder ==
  phase = "live" =>
    escrow = IF state.status = "Active"
             THEN config.totalDeposited - state.totalWithdrawn ELSE 0

\* The recipient of an active stream never holds more than has vested at
\* ledger time, even when withdrawals are priced in the past and the curve was
\* stretched by a renewal in between.
NeverOverpaid ==
  Active => state.totalWithdrawn <= computeAccrued(config, now)

\* No sequence of withdrawals and renewals leaves an active contract that has
\* been paid in full: the choice Complete_Stream can never be exercised.
CompleteUnreachable == \A t \in 0..MaxTime : ~CanComplete(t)

\* The books of the contract balance at every step: money in is money held, paid
\* or refunded, the contract holds exactly the rest of its term, and none is left
\* for an active contract that has nothing to pay.
FundsAccounted == TypeOK /\ Conservation /\ HoldsTheRemainder /\ CompleteUnreachable

\* A renewal never takes entitlement away: the recipient's total (already
\* received plus vested and not yet withdrawn) never falls, except that time
\* does not run backwards.
Entitlement == paid + (IF Active THEN withdrawable(computeAccrued(config, now),
                                                   state.totalWithdrawn) ELSE 0)
EntitlementNeverFalls == [][Entitlement' >= Entitlement]_vars

\* With the recipient asking again and again, every stream that was accepted
\* is in the end paid in full or cancelled.
EventuallySettled ==
  [](phase = "live" => <>(state.status # "Active"))

\* Refinement: the contract implements the promise of a funded payment.
Payment == INSTANCE FundedPayment WITH
  closed <- phase = "live" /\ state.status = "Cancelled"

ImplementsFundedPayment == Payment!Spec
============================================================================
