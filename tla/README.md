# Payment Streams: a TLA+ verification project

Payment Streams (CantonStreams) pays money continuously. A sender commits a
deposit or a flow rate, the recipient's entitlement grows with time along a
vesting curve, and withdrawals, renewals, pauses and cancellations move the
money. Daml contracts on a Canton ledger hold the agreements; a TypeScript
proxy, an executor and an SDK move tokens and keep local books of what they
moved.

## 1. Inventory

### Ledger contracts (`packages/daml`)

| Part | State | Operations | What makes it correct |
|---|---|---|---|
| Vesting curves (`Stream/Accrual.daml`) | none | `accruedAt` and its curves, `withdrawable`, `refundable`, `checkInvariant` | within `0..deposit`, never falls, the split is exact |
| `StreamEscrow` and its requests (`Stream/Escrow.daml`, `Workflow/CreateStream.daml`, `Workflow/RenewStream.daml`) | config, withdrawn total, status, held amount; the request's captured contract id | propose, accept, decline; withdraw, cancel, mutual cancel, renew, complete; execute a renewal | money is conserved, nobody is overpaid, a renewal takes nothing back |
| `StreamFlow` (`Stream/StreamFlow.daml`) | funded, withdrawn, status, pause start, cumulative pause | top up, withdraw, pause, resume, stop | bounded by the funding; a pause stops the clock and nothing else |
| `StreamAdmin`, `StreamFlowAdmin`, `MilestoneAdmin`, `StreamRecord`, `StreamMandate`, `OperatorEscrow` | ledgered totals of settlements that happened in tokens | sync or record an iteration, mark cancelled or completed | what is recorded never exceeds the deposit; a settlement is recorded once |
| `MilestoneEscrow`, `DistributionStream` | milestones or shares with their approvals | approve, release; fund, join, pause, sync | a milestone or share is paid once |
| `DelegatedPolicy` | caps, cooldown, execution history | execute, revoke | an executor never exceeds what was delegated |
| `UnifiedStream`, `BatchCreate`, `Group`, `Activity`, `v1-shim`, `AllocationBridge` | workflow state, views | promote, batch, group | a promotion consumes its request |

### Off-ledger services

| Part | State | Operations | What makes it correct |
|---|---|---|---|
| Proxy operator-escrow lane (`proxy/src/escrow.ts`, over `v1-lane.ts`) | a JSON store of escrow rows with `released` and release records; the pooled holdings of the custody party; transfer offers on chain | create, release (API and streamer), refund, reconcile, reclaim, solvency interlock | no obligation is paid twice or lost; one escrow never spends another's deposit |
| Proxy stream lane (`proxy/src/v1-lane.ts`) | stream rows, pending offers and pending records | create, settle, stop, recover offers, sync contracts | a cycle is settled once and recorded once |
| Store lock (`proxy/src/store-lock.ts`) | a lock file with its holder's token and pid | acquire, steal a stale lock, release | at most one writer of a store |
| Auto withdraw (`proxy/src/auto-withdraw.ts`, `settlement-journal.ts`) | settlement journal, in-flight map | settle in two phases, recover after a restart | a withdrawal whose transfer succeeded is recorded, and not transferred again |
| Transfer-event subscriber (`proxy/src/transfer-events-subscriber.ts`) | per-asset offsets, expiry timers | poll, emit, save offset | no event is lost across a restart |
| Distribution service (`proxy/src/distribution.ts`) | distribution rows | plan and pay shares | each share is paid once |
| Executor (`executor/src`) | in-flight guard persisted to a file, offset file | run a cycle: watch, evaluate, look up balances, exercise | an execution whose outcome is unknown is not repeated |
| SDK (`sdk/src`) | none that outlives a call, except the settlement orchestrator | commands, queries, transports, retry, settlement adapters | a retried submission has one effect |

The parts meet in three ways. Services exercise choices on contracts by contract
id, and a choice that replaces its contract makes every other holder of the old
id stale. Services move tokens by submitting transfers, each under a command id
the ledger deduplicates on; a transfer to a party without a standing
preapproval is only an offer, which the receiver accepts, rejects or lets
expire. And services share JSON store files, guarded by the store lock.

Two kinds of difficulty run through all of it. On the ledger, callers supply
instants, so a choice may be priced in the past and a pause may be dated
backwards; arithmetic is decimal with a limited range; and a long sequence of
legal choices must never leave a contract whose every choice aborts. Off the
ledger, a transfer commits before the store is saved, a process may die between
the two, receivers and the clock act in every gap, and a stale lock is removed
by whoever judges it stale. `PROJECT.json` lists these hazards one by one, each
at its line with the properties that cover it.

## 2. Plan and what became of it

The modules, in the order they were written; a module listed with others extends
them or is checked with them.

1. `Accrual`: the vesting curves, as pure operators; `SdkAmounts`, the SDK's
   copies in milliseconds of them, and of how a gross amount is split.
2. `FundedPayment`: the abstract promise of a prefunded payment (fund, pay, one
   closing settlement that accounts for every unit). `StreamEscrow` and
   `StreamFlow` implement it, each by a refinement mapping.
3. `StreamEscrow` and `StreamFlow`, with their request and renewal workflows and
   their pausable clock.
4. `EscrowLane`: rows, custody pool, offers and on-ledger record of the proxy's
   escrow lane.
5. `StoreLock`: the lock under which every store is mutated. It is why the lane
   modules let one operation save at a time.
6. `DistributionStream`, the contract, with its split of a gross amount;
   `Distribution`, the routes, signatures and allocations around it.
   `Distribution` extends `DistributionStream`.
7. `StreamLane`, which composes the proxy's stream rows with the two contracts
   that record a stream, `StreamAdmin` and `StreamRecord`.
8. `AutoWithdraw`: the two-phase withdrawal worker and its journal.
9. The recording and authorizing contracts with their callers: `AdminRecorder`
   (over `StreamAdmin`), `StreamFlowAdmin`, `StreamMandate`, `MilestoneAdmin`,
   `UnifiedStream`, `DelegatedPolicy`. All but `MilestoneAdmin` share `StreamTime`.
10. `ReceiverClaim`: the wallet-funded settlement of the stream lane.
11. `Subscriber`: the polling loops and their checkpoint file.
12. Proof modules: `Arithmetic_proofs` (curves, display, splits and sums), one each for
    `StreamEscrow`, `StreamFlow`, `EscrowLane`, `Distribution` and `AutoWithdraw`,
    `StreamLane_proofs` for the stream lane and the lock of its store, and
    `Records_proofs` for the recording and authorizing contracts, the receiver claims
    and the subscriber.

`Sums` has the totals the modules speak of. A fold is out of the provers' reach, so
a total of natural numbers is counted: `Total(f)` is the cardinality of
`Units(f)`, the set that has `f[i]` units for each `i`. TLC and the provers read the
same definition.

What would come next: the executor, once the commands it submits match the choices of
the contracts (section 9).

## 3. Modules and code

### `Accrual`

`accruedAt` and one operator per curve of `Stream/Accrual.daml`. Amounts are
integers counted in minimal units of `Decimal`, instants are integers, and the
decimal division rounds half to even (`HalfEvenDiv`). A decimal operation that
overflows aborts the transaction, so `Computable` says when a curve can be
evaluated, and every choice that evaluates one has it as a guard (`Priced` in
`StreamAdmin`). `withdrawable`, `refundable` and `checkInvariant` keep their names.

### `StreamEscrow`

| Variable | In the code |
|---|---|
| `now` | ledger time (`assertNotInFuture`) |
| `phase` | whether a `CreateStreamRequest` or a `StreamEscrow` exists |
| `config`, `state`, `escrow` | the contract's `config`, `state` (withdrawn, status, renewal count) and held amount |
| `cid` | the contract id: every consuming choice that recreates the contract gives it another |
| `renewal` | a pending `RenewRequest`, with the `streamCid` it captured |
| `deposited`, `paid`, `refunded` | history: what the parties moved, over all terms |

`Propose`, `AcceptStream` and `DropRequest` are the workflow; `Withdraw_Stream`,
`Cancel_Stream`, `MutualCancel_Stream` and `Renew_Stream` the choices, each with
every assertion and the template's `ensure` (`Ensure`) as guards, since a failed
one aborts the transaction. `RequestRenewal`, `ExecuteRenewal` and
`ArchiveRenewal` are the renewal request. `Complete_Stream` appears as its guard
(`CanComplete`) only: it is never enabled, which is checked and proved.

### `StreamFlow`

The contract's fields are variables of the same names. `prompt`, chosen at the
start, says whether the sender dates its choices at ledger time; a sender that
is not prompt dates them up to `Lags` back. The recipient may state any instant
that has been reached. `deposited`, `refunded` and `pausedInstants` (the
instants inside a finished pause) are history. There is one action per choice.

### `EscrowLane`

| Variable | In the code |
|---|---|
| `xfer` | per escrow, the transfers committed on chain: kind, cycle (the command id), amount, `executeBefore`, fate |
| `record` | the `OperatorEscrow` contract, written after the transfer, best effort |
| `row` | the store's row: status, `released`, `nextDueAt`, stalls, legs |
| `op` | the operation that holds the store lock, and how far it got |

The pool's free balance and what the active rows owe are computed from `xfer`
and `row`, as the code does from holdings and rows. An operation is a chain of
steps: begin (guards, interlock), commit (the transfer), record (the contract),
finish (save the row, unlock). `GiveUp` ends it after any of them, which is a
lost answer, a failed step or a dead process. `AcceptOffer`, `RejectOffer`,
`SweepOffer` and `Tick` act in every gap. `reconcile` infers the fate of an
offer from its absence and its deadline, as the code does: it never reads
`fate` except to ask whether the offer is still open. The reclaim pass is one
action per withdrawal. `StreamerReleases` is the streamer's tick, which leaves
out rows whose deliveries keep stalling; an API caller is not so held back.

### `StoreLock`

`file` is the lock file, `store` the set of mutations the store holds, `seen`
what each process loaded, `pc` where it is. Each file-system call is one action
(`Link`, `Inspect`, `Reclaim`, `Load`, `SaveStore`, `CheckToken`, `Unlink`).
`Throw` is a mutation that fails before saving. `Crash` may happen anywhere. With
`Timely`, a critical section ends before its record is stale.

### `DistributionStream`, `SdkAmounts`, `Distribution`

`DistributionStream` has the contract's payload as `rec`, with one action per
choice; amounts count whole periods, since every funding and settlement the proxy
makes is a multiple of `grossAmountPerPeriod`. It computes the legs of one gross
amount as the contract does with `Decimal`; `SdkAmounts` computes them as the SDK
does with decimal.js and its limited precision (`Precise`).

| Variable of `Distribution` | In the code |
|---|---|
| `rec` | the one active `DistributionStreamRecord` |
| `drafts` | fundings a route prepared and the payer has not signed |
| `alloc` | the payer's allocations in the token registry |
| `consents` | the receivers' allocations, by which they authorize |
| `plans` | settlements prepared and not yet executed |

Preparing only reads; what was prepared is signed after any number of other
requests. Recording reads the record and exercises a choice on the contract id it
read, so it is one step. A settlement may roll the receivers' allocations over.

### `StreamLane`, with `StreamAdmin` and `StreamRecord`

| Variable | In the code |
|---|---|
| `chain` | transfers: stream, amount, command id, direct or offer, fate |
| `row` | the store's row: status, settled, cycles, history, pending offers |
| `prepared` | transfers wallets were handed by `prepareSettle` |
| `admin`, `record` | the payloads of the two recording contracts |
| `op` | what each worker of the proxy is in the middle of |

`BeginSettle`, `reconcileOutstandingOffers`, `settleCycle`, `Save`, `SyncContracts`
are the steps of one settlement under the store lock. The reconciliation asks the
ledger about one outstanding offer per step, in the order of the row, since an offer
may be accepted or returned between two questions; the first offer that is still
live, or that the ledger does not answer for, ends the operation. What was found out
is then saved, in one write, and the contracts are exercised after it
(`ReconcileThen`, `SyncThen`). `ProxyCrash` may come between any two steps. Wallets
submit what they were handed at any time (`WalletTransfer`) and report it later,
repeatedly or never (`recordSettle`, `recordAcceptTransfer`,
`recordWithdrawTransfer`, which takes any update that consumed the offer). `recoverPendingOffers` adopts offers found on chain.

### `AutoWithdraw`

`pc` is the await the worker is at; `journal` is the map in memory and `disk` the
file, which differ after a failed write. `escrow` is the withdrawn contract as its
choice `Withdraw_TokenStandard` leaves it, `transfers` the external transfers the
worker sent. One cycle is `Discover`, `Recover` for each journaled settlement,
`FindCandidates`, then for each stream `Prepare`, `JournalTransfer`, `Transfer`,
`Wait`, `Claim`, `JournalRecord`, `Submit`. `Stop` and `Reconcile` are the operator
following `docs/OPERATIONS.md` section 5.3 for an entry that exhausted its attempts.
A failure that several retries of one request may have is one failure of one
request, which may land and not answer.

### `AdminRecorder`, `StreamFlowAdmin`, `StreamMandate`, `MilestoneAdmin`, `DelegatedPolicy`

Each has the payload of its contract as a variable (`admin`, `flow`, `mandate`,
`milestones`, `policy` with the state contracts `quota`) and one action per choice;
beside it stands what a property compares the payload with: iterations, legs or
requests that really happened. `AdminRecorder` and `StreamFlowAdmin` model callers
too, the SDK's builders with their replay guard and the routes that read, compute
and exercise on what they read. In `DelegatedPolicy` any number of state
contracts may exist, and the executor names one. A state's list of instants is kept
as a set of pairs of an instant and the number of its log, so that two executions at one
instant are two members; the code only filters the list and takes its length.

### `UnifiedStream`

`proposal` is the contract at its stage (request, accepted, full), `consent` who
accepted which terms in which role. Terms are numbered. `Authorized` is the ledger's
rule that a contract is created only with the authority of all its signatories.

### `ReceiverClaim`

`lane` is the row, `allocations` and `claimable` the contracts on chain, `session`
where each run of `fundReceiverClaimV1ViaWallet` stands and what it was handed. A
session prepares, allocates, records, prepares the claim, creates it, records it,
and may stop after any of them. `Claim` and `SenderWithdraw` are the choices of
`ReceiverClaimV1`. `OtherCycle` is a cycle settled by another path of the lane,
`stopLane` its stop. The `terms` a session is given travel from the session to the
row's record, and from there to the contract. A request may force a cycle and name its amount and its times, as a
caller of the code may. `payer` is chosen at the start: whether it funds one cycle at a
time, and its agreement's `arrearsPolicy` and `termEnd`.

### `Subscriber`

`file` and `tmp` are the checkpoint file and the temporary file all loops write it
through; `loop` is what each loop has in hand, `current` which loop polls an asset.
A round is `Poll`, `Fetch` (which emits), `Load`, `Open`, `Write`, `Rename`, with
every other loop running in between. A stopped subscriber leaves the loop it was in
to finish beside its successor (`StopStart`). An opened file is empty until written;
two loops that write the same temporary file leave it torn; a file that cannot be
parsed is read as no file, which is how `OffsetStore.load` treats it. `handling` and
`handled` are the events whose handlers run and have ended, `lost` those whose handler
a crash ended.

### Variants

Some definitions stand beside a mutated form (`AnyTime`, `RefundUndrawn`,
`NeedsAge`, `KeepsSnapshot`, ...). No specification uses these: each is a plausible
bug in the definition it precedes, and `PROJECT.json` names the property that
finds it.

## 4. What the runs show

Most listed properties are conjunctions of parts that the modules state and name
one by one.

| Run | What it shows | Bounds |
|---|---|---|
| `escrow` | One stream conserves funds, never overpays, takes no entitlement back, settles, and implements `FundedPayment` | instants to 7, two renewals, four vesting modes, cancellable or not |
| `flow` | A paused, topped-up, backdated flow stays within funding and real time, pays all that is claimable, and implements `FundedPayment` | instants to 6, sender's dates up to 3 back, funding to 8 |
| `lane` | With a proxy that dies anywhere and offers that lapse, a cycle is paid once, rows, chain and records agree, and no escrow spends another's deposit | two escrows (deposits 3 and 2, rate 2, so one pays in two unequal cycles), 3 transfers each, time to 1 |
| `lane_live` | A cycle that is due is released whatever another escrow's payee does, and lapsed funds come home, when the process stays up | time to 1, 4 transfers, one payee without a preapproval, who may reject, no automatic sweep |
| `store_lock` | One writer, atomic mutations, a dead holder is replaced | two processes, two mutations each, time to 3 |
| `distribution` | Nothing is paid ahead; the record follows the chain, is backed and within the schedule; receivers that sign get the distribution active; settlements get recorded | two receivers, two periods, two fundings prepared, time to 3 |
| `stream_lane` | A row counts what was delivered, each delivery once; the proxy pays no more than its row leaves, under a command that is new when the row knows its last payment; a stop is final | two streams, one hosted and one paid by a wallet, two workers, two transfers, time to 2, command ids forgotten after 1 |
| `lane_repays` | Ends in a counterexample, section 8 | one stream, three transfers, time to 2 |
| `lane_double_credit` | Ends in a counterexample, section 8 | one worker, two streams of one pair |
| `auto_withdraw` | No stream is sent more than it accrued; no transfer is lost from journal and ledger both; in the end everything accrued is recorded | two streams of one recipient, two faults, time to 2, all four configurations |
| `records` | Admin index, flow index, mandate, milestones, unified request, policy, receiver claims and event checkpoints, each against its callers; a curve agrees with a reference definition, the client's display is within a millisecond of it, and contract and SDK split a gross amount alike, each leg its rounded share | below |
| `unified_promotion` | Ends in a counterexample, section 8 | requests with an operator or a trigger party |

Why these bounds are enough to mean something:

- `escrow`: time runs past every end time a renewal may ask for. Two renewals
  allow one of an active term after one of a completed term, and a request made
  for a contract id that has since been replaced. `MaxDecimal` is above
  every product of a first term, and below some of a twice renewed one, so that
  the guard on overflow is exercised here too.
- `flow`: two pauses that overlap when backdated fit, and funding can be both
  below and above what accrues.
- `lane`: `MaxTime` 1 suffices because the cadence and the offer window are 1: a
  second cycle falls due, an offer lapses, a row is reconciled after that. Three
  transfers are a deposit and two more, so a retry after a crash, two cycles, or a
  release and a refund; longer histories are in `lane_live`, which needs no more time either: its
  fourth transfer is an offer sent anew after one that lapsed or was rejected.
- `lane` sets `DedupWindow` beyond the clock: `OneTransferPerCycle` rests on the
  participant still refusing the command id when a crashed cycle is retried. With
  a window of 0 it fails, as it should. It sets `ReceiverRejects` to FALSE:
  `CompletedMeansDelivered` does not hold otherwise (section 8). `NoOverpayment`
  is about rows that are faithful to the chain; a row stops being so by a late
  reconciliation or by a crash between commit and save.
- `store_lock` has two processes. With three and a crash, exclusion fails
  (section 8): one holder dies and two waiters both judge it.
- `distribution`: two drafts are what it takes for a funding to be recorded while
  another is under way; two periods let a settlement roll over and a second one
  be prepared from a record that is out of date. `OwnIds` is empty, so fundings
  take the default id (section 8 says what other ids do).
- `stream_lane`: two transfers are a payment with its retry, or an offer of each
  stream; s2 catches up arrears and s1 skips them; s1 has an end. `HistoryMax` is
  never reached. `Forces` is FALSE: a forced settlement is paid ahead by design.
  `DedupWindow` is 1 and time runs to 2, so a command id may be used again within the
  run; what that leads to is why `NeverPaysAhead` compares a payment with the row and
  not with the chain (section 8).
- `auto_withdraw`: the curve is 0, 1, 3, so that a second withdrawal differs from the
  first; two faults let a second failure meet the recovery from the first.
  `MaxAttempts` is 1, so that recovery runs out of attempts within the bound.
  `Coordinated` assumes that the escrow's other parties leave the contract alone while
  a withdrawal is under way. Neither the code nor a document asks that of them, and
  without it `NeverPaidTwice` fails (section 8). Only s1 has other parties.
- `records`: the parts share ledger time and nothing else, so `about` picks one at
  the start and the others rest. Time to 5 is past the end of the mandate's term and
  of the policy's period; three iterations, two route handlers, three milestones of
  which two have one name, two state contracts, three versions of the terms. Unified
  requests are those whose roles the two wallets hold, as any other can never be
  promoted. Receiver claims: two allocations, two periods, two sessions, a
  settle window of one tick, and payers that are serial with either arrears policy or
  with a term that ends after one period, or that overlap sessions, for whom time ends
  after one period: sessions collide on the allocation of one cycle. A request names
  nothing, is forced, is unlocked at once, or names twice the rate in a long window; of
  these a payer that overlaps sessions may choose only the last (`OverlapChooses`).
  Events: two assets with one event each, three loops, so that a restarted asset's old
  loop writes beside two live ones, and three polls, restarts or crashes, with handlers
  running or not. `MaxDecimal` is 10, which pricing the admin's linear stream (deposit 4,
  term 4) exceeds before its term is over. Curves and splits: deposits and instants to 7, which has every
  rounding tie, cliff and step position, step intervals of zero and below (which the
  client refuses); gross amounts to 16 in three legs.

`CHECK_DEADLOCK FALSE` is set wherever the model may stop: the clock's bound is
reached and nothing remains to be done. `auto_withdraw` is checked for deadlock.

## 5. Fairness

- `StreamEscrow`, `StreamFlow`: weak fairness of `Tick` (ledger time advances)
  and of the recipient's withdrawal at ledger time. The proxy's auto-withdraw
  loop, or the recipient's wallet, asks again and again. Nothing is assumed of the
  sender: it may never cancel, renew, top up or resume.
- `EscrowLane` (`LiveSpec` of `MCEscrowLane`): the process stays up and the
  streamer's interval keeps firing, hence strong fairness of its releases to payees
  with a preapproval and of its reclaims: other operations may take the lock in between, so
  weak fairness would not do. `CommitRelease` and `WithdrawOffer` are tried on every pass and assumed
  not to be refused for ever. `EndOfOperation` is weakly fair: an operation that
  holds the lock ends. Time passes however late the streamer is. Nothing is assumed of
  `reconcile`, which runs only when a client asks for it, so an acceptance may be
  read too late; `DueCyclesAreReleased` excepts a pool that this has left short
  (section 8). Receivers are under no fairness at all: they may accept, reject, or
  leave an offer until it lapses.
- `StoreLock`: a live process keeps running (`Runs`); nobody is obliged to ask
  for the lock.
- `Distribution`: receivers sign what they are asked to, and the operator reports
  authorizations and settlements; strong fairness, as a concurrent record makes a
  prepared one out of date. Time is under no fairness, and the payer neither.
- `AutoWithdraw`: the loop reschedules itself after each cycle (weak fairness of
  the worker's steps), a supervisor restarts a dead process, wallets accept offers and time
  passes. For an entry that ran out of attempts the code has no way forward by
  itself: `docs/OPERATIONS.md` section 5.3 has the operator stop the worker, look at the
  ledger and edit the journal, hence strong fairness of `Stop` and `Reconcile`.
- `StreamLane`, `ReceiverClaim`, `Subscriber` and the contracts state no liveness:
  nothing obliges a wallet or an operator to act.

## 6. What is proved

Each theorem holds for every value of the constants that satisfies the named
assumptions of its module and of those it extends: these say only that amounts and
instants are integers, bounds are natural numbers, and terms are well formed.

`Arithmetic_proofs`. `AccrualRange`: a curve lies between 0 and the deposit.
`AccrualMonotone`: it never falls as time passes. `CheckInvariantHolds`: the
assertion of the choices holds whenever what was withdrawn is within what
accrued. They rest on the rounding lemmas of `HalfEvenDiv`. `WhenComputable` draws the
line the overflow of section 8 crosses: a linear curve can be evaluated at every
instant exactly when the deposit times the microseconds up to the last one before the
end fits a Decimal (behind a cliff only if the cliff is before the end), and a stepped
curve that cannot be evaluated never can be again. Three more state for all
inputs what `records` checks on small ones, through the operators that the
invariants of the run are written with:

- `CurvesAreExact` (`ExactAt`): the linear curves are the exact share rounded once,
  half to even, and the clamps of the code change nothing inside the term; a stepped
  curve pays the steps whose instants have passed and no other.
- `DisplayKeepsUp` (`ShownAt`): what a client shows as withdrawable lies between what
  the ledger would have paid a millisecond ago and what it pays a millisecond later.
  The client cuts start, end, cliff and now to milliseconds, so it divides by another
  length of the term; it throws for a step interval that is not positive, and shows
  nothing; the proof compares the two fractions (`HalfEvenDivOrders`).
- `SplitsAreAlwaysFair` (`SplitsAgree`, `SharesHonoured`): below the digits decimal.js
  keeps, client and contract compute the same legs; each is off its exact share by half
  a unit at most, and the last by half a unit for every other leg.

The module ends with the lemmas about `Total`: that of a function with one more point,
of a function changed at one point, of disjoint parts, of a part, of a renaming, of a
multiple, of a sum, of equal amounts. The counted definition makes each a fact about
cardinalities, which needs no induction.

`StreamEscrow_proofs`. The inductive invariant adds to `TypeOK`, `Conservation`,
`HoldsTheRemainder` and `NeverOverpaid`:
`Bookkeeping` (nothing has moved before the contract exists, and a live contract
satisfied `ensure`), `CompletedIsPaid` (a completed term may be renewed, which
starts from an empty contract) and `ActiveOwes` (an active contract is not paid
in full). `NeverOverpaid` is where the curves come in: a tick needs
`AccrualMonotone`, a backdated withdrawal needs it too, and a renewal needs the
contract's own guard that the stretched curve is worth no less now. From it:
`TypeCorrect`, `FundsConserved`, `RecipientNeverOverpaid`, `CompleteNeverEnabled`, `EntitlementIsKept` (no step lowers
what the recipient has and may draw: for a withdrawal the two parts move
together, for a renewal it is the contract's guard, and a cancellation pays out
what it takes from the second) and `Refinement` into `FundedPayment`. The module ends
with the three invariants of `records` that are about arithmetic, for any bounds (`RunCurvesAreExact`,
`RunDisplayIsClose`, `RunSplitsAreFair`): the inputs the run picks are well formed
(`InputsOK`), and the theorems of `Arithmetic_proofs` speak of all of those.

`StreamFlow_proofs`. Invariant: `TypeOK`, `Bookkeeping`, `Conservation`,
`NeverOverdrawn`. `TypeCorrect`, `FundsConserved`, `RecipientNeverOverdraws` and
`Refinement` hold whatever instants the sender states. `PausesFreeze`,
`RecipientDrawsWhatAccrued` and, from it, `DrawsOnlyWhatIsOwed` use that `prompt`
never changes and that the clock of a prompt sender never runs backwards.
`PromptClockExcludesPauses`: the instants of finished pauses of a prompt sender all lie
before the one under way, so a resume adds an interval disjoint from them and the
contract's sum stays their number.

`StreamLane_proofs`, the lock. `SingleWriter` and `MutationsAreAtomic` hold of any
number of processes, wherever they die and however long they take, in every behaviour
in which no waiter removes the lock of a live process (`LiveLocksStay`). The
invariant speaks of live processes: file and holder name each other, and a holder
between load and save has seen the current store. A release is shown to remove only
the lock that is its own, and a save to start from what the last one left; atomicity
also needs that a mutation on its way is not in the store yet (`FreshInv`).
`LiveLocksStay` is not something the code ensures. It fails when a second waiter has
judged the same dead holder, and when a record has aged while its holder waited or
worked. A lemma (`CalmLocksStay`) gives one case in which it holds, the one the run checks: sections
end in time with the wait before them, and either no process dies or they are two
(`Calm`). There a waiter that finds the lock dead is right about its holder
(`DeadIsDead`), and that holder was its only rival.

`StreamLane_proofs`, the lane. For any streams, rates, policies, workers and number of
transfers, with crashes between any two steps. Three invariants, each on top of the
one before:

- `OpInv`: one operation is under way, and what it holds in hand agrees with the row it
  will overwrite. `LaneStopsAreFinal` follows, without assumptions.
- `BookInv`: every entry of a row's history is a delivery for that stream, every pending
  record an offer of it, updates and offers are distinct, `settled` is the sum of the
  history (`Backed`), and a contract together with what is still to be recorded on it
  is at most as far as the row (`OpBooks`). `LaneRowsAreBacked` follows.
- `PayInv`: every command was sent for a cycle that is over or is the next one, under an
  attempt number that the row's other pending records account for (`OwnCommands`), and
  an operation that goes on to pay has a reading of its row that has only grown since,
  on which no offer waits (`OpPays`). `LaneNeverPaysAhead` follows: a payment of the proxy
  and all that its row counts by then, whoever paid it, are within what has accrued,
  and the next command is a new one if the row knows every transfer of its stream. It
  does not say that the proxy's payments stay within accrual, because they do not
  (section 8, `lane_repays`).

The last two assume `OwnOffers`, that nobody recovers offers or no two streams pay between
the same parties (the run `lane_double_credit` shows that this is needed), and
`HistoryFits`, that no history reaches the length at which it is cut (an update that was cut out
could be recorded again). The last assumes besides that nobody forces a settlement, which pays
a period ahead by design. None assumes that the participant remembers command ids.

`Records_proofs` has one part per contract.

- `MandateIsSafe`: the payload does not say when its pulls were made, so the bound on
  their sum is derived from one on their number. The invariant (`PullsAreSpaced`)
  keeps a full cadence between the start and each pull but the first; from the
  number of pulls and the cap on each follows the bound on the total at ledger
  time, by a lemma on integer division.
- `AdminIsSound`: for any set of streams and schedules, an index is within its curve,
  has recorded a prefix of the iterations that were settled, is completed exactly when it
  holds its deposit, and refuses the next iteration only where evaluating the curve
  overflows (`Priced`). The choice checks the cap when it runs; that it still holds
  later is `AccrualMonotone`, and that an honest record is not refused otherwise rests
  on the iterations together staying within the curve.
- `FlowIsSound`: for any routes in flight. Draws are bounded by the rate times the time
  since the start, pauses included, which is all the contract keeps (it has no record
  of when it was paused). What a route has read is an earlier
  contract or the active one, hence a record is lost to nobody; that no earned amount is
  refused rests on the time the flow ran being within the time since its start.
- `MilestonesAreSound`: a batch matches exactly what it lists and nothing confirmed.
  That a settled leg can still be confirmed needs the strengthening `NamesTogether`:
  milestones of one name are confirmed together or not at all.
- `FullMeansConsent`: for any parties, roles and number of counter-proposals, a request
  at its last stage names no role whose party did not accept those terms. The contract
  keeps who accepted, not what; the invariant gives each stage its share of the
  consent, and rests on a request that still may change its terms having no
  acceptance but the sender's.
- `PolicyIsSound`: the list a state keeps is pruned at each execution; the invariant
  (`Remembers`) says that it still has every execution of the present window. The bound
  for several states splits a window by state and adds up cardinalities: one quota for
  each state signed and each reset made, which is more than the one quota the comments
  speak of (section 8). Besides, every execution is in scope, under the amount cap and in
  the life of the policy.
- `NoEventIsSkipped`: for any assets, any log and any number of loops, no checkpoint
  passes an event that was not given to a handler, whenever the process dies. The property speaks of the file only, and
  is not inductive: the invariant says the same of what every loop holds, of the
  offset it asked from, the offset it is going to save, and the map it is going to
  write, through whichever of the two files its descriptor is open on. The offset of one asset
  may go back, which replays events; it never goes ahead of what was emitted. What a
  crash takes from the handlers that were running (`lost`) is not covered (section 8).

- `ClaimsAreSound`: for any sessions, rate and settle window. What is on the row and in
  a session refers to what is on chain, under the same reference (`ClaimRefers`), and
  other settlements have numbers of their own (`HistoryNumbered`): with these the row
  counts distinct deliveries whichever sessions overlap. What a payer with one session
  at a time has besides is one record per cycle (`OneRecordEach`) and that everything
  signed or claimed is still recorded with the terms it was signed for (`FromRecords`):
  a session that would overwrite a record is handed a cycle no record has. Claims whose
  amount and instant nobody forced or named pay one period for each period gone by
  at most (`OnePeriodEach`): their cycles are injected into those periods. Nothing bounds a
  claim whose amount the caller named (section 8).

`EscrowLane_proofs`. For any escrows, deposits, rates and cadences. The invariant
(`LaneInvariant`) speaks of each escrow. `Store` is what holds of its rows whatever
operation runs: each leg stands for a transfer of its own (`LegsFit`), legs add up
to what is released and, with a committed transfer that no leg stands for yet, fit
into the deposit (`WithinDeposit`), and releases are a cadence apart (`DueLater`,
`Paced`). `Course` is where the operation that holds the lock stands (`OpFits`). That
`WithinDeposit` is inductive although a row may lose a committed transfer rests on
such a transfer being the last: the next operation for the escrow sees the pool
without it, or retries the same cycle. From it:

- `PayoutsAreBounded`, in every behaviour in which a release is asked for again only
  while the participant remembers the command ids of transfers that were made and
  never saved (`RetriesRefused`): the next operation of the escrow that gets so far
  must come within the deduplication period. The code sets no such limit, and then a
  cycle may be paid twice; `PayoutsKeepPace` is the part that holds regardless.
- `RowsAreTrue`, assuming that receivers let offers lapse and do not reject them
  (section 8); `BooksAreKept` is the part that holds regardless.
- `OthersStayCovered`, an action property without assumptions: the pool covers the active
  rows from the interlock to the transfer (`Interlocked`), since only the holder of the
  lock takes from it.

`Distribution_proofs`. `NoPeriodPaidAhead` and `RecordStaysBacked`, for any receivers,
schedule, fundings and deadlines. Every plan that can still be executed names one
and the same allocation (`Planned`) and no plan names its successor (`SuccessorWaits`),
so the chain is ahead of the record by one settlement at most (`Booked`), and that one
was checked against the schedule when it was planned.

`AutoWithdraw_proofs`. `StreamIsPaidOnce` and `NoTransferIsLost` assume `Coordinated`,
that no other party exercises a choice on an escrow while a withdrawal of it is under way
or journaled. Nothing ensures it, and without it the first one fails (section 8). The `Books` relate journal, file and entries under
replay to the contracts they settle; the `Ledger` has the transfers of a stream pay
disjoint stretches of its accrual, in order; the `Worker` says what each stage may rely
on: before funds move, every earlier transfer of the stream is recorded and the file
holds the settlement. `PaysDisjointly` turns the stretches into the bound on the sum,
by an injection of the units paid into the units accrued.

## 7. What is only model-checked

- Liveness (`EventuallySettled`, `EverythingIsClaimed`, `DueCyclesAreReleased`,
  `LapsedFundsComeBack`, `DeadHolderIsReplaced`, `RecipientsActivate`,
  `SettlementsAreRecorded`, `EverythingIsWithdrawn`): fairness and `ENABLED` are out
  of the prover's reach.

## 8. Where code and documentation disagree

Three runs end in a counterexample:

1. `lane_double_credit`: **one accepted offer is credited to two streams**
   (`v1-lane.ts:3789`). `recoverPendingOffersImpl` adopts every live offer between
   payer and recipient, whatever stream it was made for, and the reconciliation does
   not ask `updateIdRecordedElsewhere`; `v1-lane.ts:2600` says an update may back at
   most one recorded cycle across all streams.
2. `unified_promotion`: **a request with an operator or a trigger party cannot be
   promoted** (`UnifiedStream.daml:265`). `Promote` lacks the authority of parties
   that only acted on earlier contracts; `UnifiedStream.daml:26` says the contract
   transitions once all have accepted.
3. `lane_repays`: **a failure after a transfer committed leads to a re-payment**
   (`v1-lane.ts:3135`). A crash between transfer and save loses the payment from the
   row, and the retry is refused only as long as it has the same command id; if a
   wallet's payment is recorded in between, that takes the lost one's cycle number, and
   the proxy pays again under the next one. At a rate of 2, cycle 1 paid and lost, a
   wallet's 1 reported, and 1 more paid under cycle 2 make 3 by the proxy alone where 2
   had accrued. `v1-lane.ts:3174` says that a failure after the transfer committed must
   never lead to a re-payment.

Further configurations are kept beside the listed runs; each is run with
`tlc -config <name>.cfg <module>` and ends in a counterexample:

| Configuration (module) | Statement | What the code does |
|---|---|---|
| `MCStreamEscrowOverflow` (`MCStreamEscrow`) | `Types.daml:34-41`: a wedged stream can never be created | `Accrual.daml:36`, `:81` multiply before dividing: for a large deposit withdraw and cancel abort until the end of the term |
| `MCStreamFlowBackdated` (`StreamFlow`) | the field is the total time spent paused | `StreamFlow.daml:327`: a backdated pause overlaps an earlier one and is subtracted twice |
| `MCEscrowLaneLate` (`MCEscrowLane`) | `escrow.ts:1364`: past `executeBefore` an accept can no longer succeed | `escrow.ts:1363`: an acceptance read late is taken for a lapse, and the cycle is owed again |
| `MCEscrowLaneRejected` (`MCEscrowLane`) | `escrow.ts:1367-1369`: it can only have been accepted | `escrow.ts:1370`: a rejection is taken for an acceptance |
| `MCEscrowLaneStranded` (`MCEscrowLane`) | `docs/SECURITY-FINDINGS.md:59`: the payer's refund can still recover the funds | `escrow.ts:1384` reopens completed rows only; a release that lapses after the refund stays in custody |
| `MCStoreLockOvertaken` (`StoreLock`) | `store-lock.ts:51-52`: a live holder is waited on, never overtaken | `store-lock.ts:75`: two waiters judge one dead holder, and the second removes the first one's fresh lock |
| `MCDistributionRolled` (`Distribution`) | `CHANGELOG.md:26`: each rolled recipient allocation is given its own receiver legs | `index.ts:2588` takes an allocation for rolled as soon as the record counts any settlement: recipients that signed anew for a second funding are given legs their allocations already have |
| `MCAutoWithdrawReplaced` (`MCAutoWithdraw`) | nothing is paid twice, `Coordinated` or not | `auto-withdraw.ts:632`: a record whose contract is gone is taken as landed, though another choice replaced it |
| `MCAutoWithdrawAdopted` (`MCAutoWithdraw`) | a withdrawal stands for a transfer that arrived | a pending transfer of one stream is adopted for another of the same recipient (`auto-withdraw.ts:1375`) |

Observed while reading, and not the subject of a configuration:

- Contracts. `Types.daml:21-22` has the cliff curve start from zero at the cliff;
  `Accrual.daml:60` computes it linearly from the start of the term, and `Accrual`
  follows the code. `CreateStream.daml:30` does not check `validVestingMode`; the
  escrow's `ensure` does, at acceptance. In `MilestoneEscrow` the consuming choices
  archive their contract again (lines 203, 226, 261), so each aborts.
  `StreamRecord.RecordCycle` refuses a catch-up payment larger than one rate.
  `Revoke` of a mandate may be repeated. Several state contracts of one policy
  each give a full quota (`DelegatedPolicy.daml:129`), where the comments (80-81, 194)
  have one state per policy. A unified request that
  lists an operator twice can never be fully accepted.
- Escrow lane. Stalled deliveries are counted over the row's life until one is
  accepted (`escrow.ts:1596`). The cap is tested against what is owed at creation (1033).
  A deposit submitted by the proxy that lands as an offer makes an active row
  before the funds arrive (1061).
- Stream lane. The defaults of `createStream` (`v1-lane.ts:2778`, `:2792`) give
  the admin record a curve under which `Sync_Iteration` of a full cycle is refused for most
  of the term. `recordWithdrawTransfer` takes any update that consumes the offer for a
  withdrawal (4064): the update of its acceptance marks a delivered offer withdrawn, and
  the cycle is paid again (the model's action does the same). A direct transfer whose answer was lost blocks `settle` until the
  deduplication period ends, and would then be made again (2228). Offer recovery numbers
  cycles by what it finds (3789-3793). A history is cut at 500 entries (3726), and an
  older update could be recorded again.
- Receiver claims. Two sessions between prepare and record get one cycle and one
  reference: the second record overwrites the first, and a claim delivered on the
  first cannot be recorded (`EveryClaimCounts` is therefore required of serial payers
  only). Under `catch-up`, the default, an allocation not yet claimed does not count,
  and a second funding locks the same arrears again (`OnePeriodEach` fails even
  serially). Past the end of a term the last period stays due while its allocation is
  unclaimed and is funded again, so even one period each is more than accrued. A caller
  that names the amount has it taken in place of what is due (`v1-lane.ts:3290-3292`). Other settlement paths pay a cycle that is already allocated.
  The `withdrawn` status of a claim record is never set; a forced prepare works on a
  stopped stream; the dashboard asks to retry a record step it does not offer.
- Distribution. Funding ids of the payer's own let a second, older draft overfund
  the schedule (`index.ts:2303`, `:2307`). A funding whose deadline passed while
  recipients were authorizing or the distribution was active has no way back,
  though the message (`index.ts:2444`) says to release and fund again. A deadline
  equal to the last due date is accepted. The SDK's 20 digits make its legs differ
  from the contract's for very large amounts; a remainder by percentage can be
  negative for very small ones.
- Auto withdraw. With in-process signing, record entries are never recovered
  without an operator. A transfer it adopts is claimed before it is journaled
  (827-837). A failed write leaves an entry in memory only. Without a host wallet a
  withdrawal is recorded before the recipient has accepted.
- Subscriber. A handler that still runs at a crash loses its event, as handlers are not
  awaited and the offset may be saved by then, though
  `transfer-events-subscriber.ts:635-639` says that saving after emitting drops none
  (`lost` in the model). Saves that interleave can drop another asset's checkpoint or leave a
  torn file: it is then read from the beginning, so events are replayed more than the
  once `transfer-events-subscriber.ts:637` speaks of. A failed handler is not retried,
  though the log says it will be. An old expiry timer's `cancel` cancels its
  successor, and a delay beyond 2^31 - 1 ms fires at once; the timers have no caller.
- Executor. The command it submits does not have the fields `ExecutePolicy` asks for,
  and its fallback choice does not exist.

## 9. What is not modelled

`PROJECT.json` lists every part with its status and reason. In short:

- `MilestoneEscrow`: every consuming choice of it aborts (section 8), so nothing of it can happen.
- The executor and the SDK's settlement orchestrator with its adapters: the first submits commands
  the ledger refuses, the second asserts that templates are available which are
  not shipped and fails closed. Neither changes any state as it stands.
- Parts with no state or only views: the stream interface, `Activity`, `BatchCreate`,
  `Group`, ledger clients, SDK commands and queries, transports and their retry
  loop, signing and asset registries.
- Front ends (dashboard, command line): what a wallet does with a prepared
  transaction is modelled where it matters, in `StreamLane`, `Distribution` and `ReceiverClaim`.
- HTTP routing, authentication and configuration; payload construction for the allocation
  standard, whose interpreter is outside the repository; the deferred daml-finance
  templates, which the package does not build.

These front ends, clients and builders are most of the repository's lines; that is why the
map covers a small share of them, while the parts that keep state are modelled.

Within what is modelled: names, formatting, logging, memo fields and views are
left out; so are the solvency monitor of the lane (it only logs), the lock's
fallback to a file's modification time, the streams of assets whose
recordings are trusted, the legacy auto-withdraw cycle (it calls the
orchestrator), the raw-transaction fallback of the subscriber (never reached) and
its expiry timers (no caller), and asset-specific amounts (one asset, one pool).
