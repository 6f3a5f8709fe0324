---------------------------- MODULE AutoWithdraw ----------------------------
(***************************************************************************)
(* The auto-withdraw worker (proxy/src/auto-withdraw.ts, interactive       *)
(* cycle) and its settlement journal (proxy/src/settlement-journal.ts).    *)
(* For each stream with something withdrawable it moves the funds in an    *)
(* external transfer and then records the withdrawal on the ledger; the    *)
(* journal carries the settlement over a crash between the two.            *)
(*                                                                         *)
(* Each await of the code is a boundary between two steps: meanwhile time  *)
(* passes, wallets accept or let offers expire, and the worker may die.    *)
(* One worker runs, and its cycles never overlap.  Bounded retries of one  *)
(* request are one request, which may land or not and answer or not.       *)
(***************************************************************************)
EXTENDS StreamTime, Sequences, FiniteSets

CONSTANTS
  Streams,
  recipient,     \* of each stream
  Curve,         \* what each stream has accrued at each time, the same for all
  Configs,       \* how the worker may be configured: [signing, host : BOOLEAN]
  MaxAttempts,   \* SETTLEMENT_RECOVERY_MAX_ATTEMPTS
  Replaceable,   \* streams whose escrow other parties act on
  Coordinated,   \* whether the escrow's other parties leave it alone while a
                 \* withdrawal of it is under way or journaled: an assumption,
                 \* which neither the code nor the docs ensure
  MaxFaults      \* bound: requests, file writes and processes that fail

ASSUME AutoWithdrawAssumption ==
  /\ Curve \in [0 .. MaxTime -> Nat] /\ Curve[0] = 0
  /\ \A t \in 1 .. MaxTime : Curve[t - 1] <= Curve[t]
  /\ Configs \subseteq [signing : BOOLEAN, host : BOOLEAN]
  /\ Replaceable \subseteq Streams
  /\ MaxAttempts \in Nat /\ MaxFaults \in Nat /\ Coordinated \in BOOLEAN

VARIABLES
  config,      \* chosen at the start: whether a signing provider signs, and
               \* whether a host wallet accepts for the recipients
  escrow,      \* on the ledger: the active contract of each stream
  transfers,   \* the external transfers of the escrow operator, in order
  journal,     \* SettlementJournal.entries, in memory
  disk,        \* the journal's file
  pc,          \* where the worker is, "down" when it does not run
  time,        \* the cycle's now
  seen,        \* the streams as the cycle discovered them
  unrecovered, \* the journal entries the cycle still has to recover
  eligible,    \* the candidates the cycle still has to serve
  job,         \* the withdrawal under way
  faults

worker == <<pc, time, seen, unrecovered, eligible, job>>
vars == <<now, config, escrow, transfers, journal, disk, worker, faults>>

None == 0
NoJob == [stream |-> "none", amount |-> 0, time |-> 0, pending |-> None]

Init ==
  /\ now = 0
  /\ config \in Configs
  /\ escrow = [s \in Streams |-> [cid |-> 1, totalWithdrawn |-> 0, recorded |-> {}]]
  /\ transfers = <<>>
  /\ journal = {} /\ disk = {}
  /\ pc = "idle" /\ time = 0
  /\ seen = escrow
  /\ unrecovered = {} /\ eligible = {} /\ job = NoJob
  /\ faults = 0

Goto(from, to) == pc = from /\ pc' = to

Fails == faults < MaxFaults /\ faults' = faults + 1
Works == UNCHANGED faults

----------------------------------------------------------------------------
(* The ledger and the wallets *)

withdrawable(contract, t) == Curve[t] - contract.totalWithdrawn

\* Withdraw_TokenStandard validates the amount against the time it is for.
Accepts(e) ==
  /\ escrow[e.stream].cid = e.cid
  /\ e.time <= now
  /\ e.amount = withdrawable(escrow[e.stream], e.time)
Gone(e) == escrow[e.stream].cid # e.cid

Withdraw_TokenStandard(e) ==
  /\ Accepts(e)
  /\ escrow' = [ escrow EXCEPT ![e.stream].cid = @ + 1,
                               ![e.stream].totalWithdrawn = @ + e.amount,
                               ![e.stream].recorded = @ \cup {e.time} ]

underWay(s) ==
  \/ pc \notin {"down", "preparing"} /\ job.stream = s
  \/ \E e \in journal \cup disk : e.stream = s

\* Another party's choice replaces the contract and withdraws nothing; once each.
OtherExercise(s) ==
  /\ Coordinated => ~underWay(s)
  /\ escrow[s].cid = Cardinality(escrow[s].recorded) + 1
  /\ escrow' = [escrow EXCEPT ![s].cid = @ + 1]
  /\ UNCHANGED <<now, config, transfers, journal, disk, worker, faults>>

WalletAccepts(i) ==
  /\ transfers[i].state = "pending"
  /\ transfers' = [transfers EXCEPT ![i].state = "accepted"]
  /\ UNCHANGED <<now, config, escrow, journal, disk, worker, faults>>

OfferExpires(i) ==
  /\ transfers[i].state = "pending"
  /\ Fails
  /\ transfers' = [transfers EXCEPT ![i].state = "expired"]
  /\ UNCHANGED <<now, config, escrow, journal, disk, worker>>

----------------------------------------------------------------------------
(* The journal *)

Ref(e) == <<e.stream, e.time>>
Others(entries, e) == {x \in entries : Ref(x) # Ref(e)}
Kept(entries, e) == entries
Removed(entries, e) == Others(entries, e)
Bumped(entries, e) ==
  { IF Ref(x) = Ref(e) THEN [x EXCEPT !.attempts = @ + 1] ELSE x : x \in entries }

\* The map in memory changes first; a failed write leaves the file as it was.
Flush(entries) == journal' = entries /\ disk' = entries
FlushFails(entries) == journal' = entries /\ UNCHANGED disk /\ Fails

\* The entry that carries the withdrawal under way.
Entry(phase) ==
  [ stream |-> job.stream, time |-> job.time, amount |-> job.amount,
    cid |-> seen[job.stream].cid, phase |-> phase, attempts |-> 0 ]
Put(phase) == Others(journal, job) \cup {Entry(phase)}

----------------------------------------------------------------------------
(* The cycle: discover, recover, then serve every candidate *)

Recoverable(e) ==
  /\ e.phase = "record"
  /\ e.attempts < MaxAttempts
  /\ config.signing

Discover ==
  /\ Goto("idle", "recovering")
  /\ time' = now
  /\ seen' = escrow
  /\ unrecovered' = {e \in journal : Recoverable(e)}
  /\ UNCHANGED <<now, config, escrow, transfers, journal, disk, eligible, job, faults>>

\* recoverPendingSettlements resubmits a record with its command and contract
\* ids; a contract that is gone is taken as a record that landed.
Recover(e) ==
  /\ pc = "recovering"
  /\ unrecovered' = unrecovered \ {e}
  /\ \/ /\ Withdraw_TokenStandard(e) \/ (Gone(e) /\ UNCHANGED escrow)
        /\ \/ Flush(Removed(journal, e)) /\ Works
           \/ FlushFails(Removed(journal, e))
     \/ /\ Withdraw_TokenStandard(e) \/ UNCHANGED escrow
        /\ Fails
        /\ Flush(Bumped(journal, e))
  /\ UNCHANGED <<now, config, transfers, pc, time, seen, eligible, job>>

NoneBlocked == {}
blockedStreamIds == {e.stream : e \in journal}

FindCandidates ==
  /\ Goto("recovering", "serving")
  /\ unrecovered = {}
  /\ eligible' = {s \in Streams \ blockedStreamIds : withdrawable(seen[s], time) > 0}
  /\ UNCHANGED <<now, config, escrow, transfers, journal, disk, time, seen, unrecovered, job, faults>>

EndCycle ==
  /\ Goto("serving", "idle")
  /\ eligible = {}
  /\ UNCHANGED <<now, config, escrow, transfers, journal, disk, time, seen, unrecovered, eligible, job, faults>>

----------------------------------------------------------------------------
(* executeInteractiveWithdraw *)

\* What failed is left to a later cycle.
GiveUp == pc' = "serving" /\ job' = NoJob

\* Pending transfers are known by their parties and amounts only.
recoverablePending(s) ==
  { i \in DOMAIN transfers :
      /\ transfers[i].state = "pending"
      /\ recipient[transfers[i].stream] = recipient[s]
      /\ transfers[i].amount <= withdrawable(seen[s], time) }
strongest(s) ==
  { i \in recoverablePending(s) :
      \A j \in recoverablePending(s) : transfers[j].amount <= transfers[i].amount }

\* resolveWithdrawTimeForRecoveredAmount
withdrawTimes(s, amount) ==
  {t \in 0 .. time : withdrawable(seen[s], t) = amount}
resolved(s, amount) ==
  IF time \in withdrawTimes(s, amount) THEN time
  ELSE CHOOSE t \in withdrawTimes(s, amount) :
         \A u \in withdrawTimes(s, amount) : t <= u

Pick(s) ==
  /\ Goto("serving", "preparing")
  /\ eligible' = eligible \ {s}
  /\ IF config.host /\ recoverablePending(s) # {}
     THEN \E i \in strongest(s) :
            /\ withdrawTimes(s, transfers[i].amount) # {}
            /\ job' = [ stream |-> s, amount |-> transfers[i].amount,
                        time |-> resolved(s, transfers[i].amount), pending |-> i ]
     ELSE job' = [ stream |-> s, amount |-> withdrawable(seen[s], time),
                   time |-> time, pending |-> None ]
  /\ UNCHANGED <<now, config, escrow, transfers, journal, disk, time, seen, unrecovered, faults>>

\* No time explains the amount of the pending transfer it found.
PickFails(s) ==
  /\ pc = "serving"
  /\ config.host
  /\ \E i \in strongest(s) : withdrawTimes(s, transfers[i].amount) = {}
  /\ eligible' = eligible \ {s}
  /\ UNCHANGED <<now, config, escrow, transfers, journal, disk, pc, time, seen, unrecovered, job, faults>>

\* The ledger validates the withdrawal before any funds move.
Prepare ==
  /\ pc = "preparing"
  /\ \/ /\ Accepts(Entry("transfer")) /\ Works
        /\ pc' = IF job.pending = None THEN "journaling" ELSE "claiming"
        /\ UNCHANGED job
     \/ ~Accepts(Entry("transfer")) /\ GiveUp /\ Works
     \/ GiveUp /\ Fails
  /\ UNCHANGED <<now, config, escrow, transfers, journal, disk, time, seen, unrecovered, eligible>>

NothingJournaled ==
  /\ Goto("journaling", "transferring")
  /\ UNCHANGED <<now, config, escrow, transfers, journal, disk, time, seen, unrecovered, eligible, job, faults>>
JournalTransfer ==
  /\ pc = "journaling"
  /\ \/ Flush(Put("transfer")) /\ pc' = "transferring" /\ UNCHANGED job /\ Works
     \/ FlushFails(Put("transfer")) /\ GiveUp
  /\ UNCHANGED <<now, config, escrow, transfers, time, seen, unrecovered, eligible>>

Sent(state) ==
  transfers' = Append(transfers, [ stream |-> job.stream, time |-> job.time,
                                   amount |-> job.amount, state |-> state ])

\* Without a host wallet the record follows whether or not the receiver accepted.
Transfer ==
  /\ pc = "transferring"
  /\ \/ /\ Sent("accepted") /\ Works
        /\ pc' = "recording" /\ UNCHANGED job
     \/ /\ Sent("pending") /\ Works
        /\ pc' = IF config.host THEN "waiting" ELSE "recording"
        /\ UNCHANGED job
     \/ /\ Fails /\ GiveUp
        /\ Sent("accepted") \/ Sent("pending") \/ UNCHANGED transfers
  /\ UNCHANGED <<now, config, escrow, journal, disk, time, seen, unrecovered, eligible>>

\* waitForRecipientPendingTransfer: the offer it just made, if it is still one.
Wait ==
  /\ pc = "waiting"
  /\ \/ /\ transfers[Len(transfers)].state = "pending" /\ Works
        /\ job' = [job EXCEPT !.pending = Len(transfers)]
        /\ pc' = "claiming"
     \/ transfers[Len(transfers)].state # "pending" /\ GiveUp /\ Works
     \/ GiveUp /\ Fails
  /\ UNCHANGED <<now, config, escrow, transfers, journal, disk, time, seen, unrecovered, eligible>>

\* claimPendingTransfer
Claim ==
  LET claimed == transfers[job.pending].state = "pending"
                 /\ transfers' = [transfers EXCEPT ![job.pending].state = "accepted"]
  IN /\ pc = "claiming"
     /\ \/ claimed /\ pc' = "recording" /\ UNCHANGED job /\ Works
        \/ transfers[job.pending].state # "pending" /\ UNCHANGED transfers /\ GiveUp /\ Works
        \/ (claimed \/ UNCHANGED transfers) /\ GiveUp /\ Fails
     /\ UNCHANGED <<now, config, escrow, journal, disk, time, seen, unrecovered, eligible>>

JournalRecord ==
  /\ pc = "recording"
  /\ \/ Flush(Put("record")) /\ pc' = "submitting" /\ UNCHANGED job /\ Works
     \/ FlushFails(Put("record")) /\ GiveUp
  /\ UNCHANGED <<now, config, escrow, transfers, time, seen, unrecovered, eligible>>

\* The record, signed by the provider or in process.
Submit ==
  LET e == Entry("record")
  IN /\ pc = "submitting"
     /\ GiveUp
     /\ \/ /\ Withdraw_TokenStandard(e)
           /\ \/ Flush(Removed(journal, e)) /\ Works
              \/ FlushFails(Removed(journal, e))
        \/ ~Accepts(e) /\ UNCHANGED escrow /\ Flush(Bumped(journal, e)) /\ Works
        \/ /\ Withdraw_TokenStandard(e) \/ UNCHANGED escrow
           /\ Fails
           /\ Flush(Bumped(journal, e))
     /\ UNCHANGED <<now, config, transfers, time, seen, unrecovered, eligible>>

----------------------------------------------------------------------------
(* The process, and the operator who reconciles by hand *)

Down ==
  /\ pc' = "down" /\ journal' = {}
  /\ unrecovered' = {} /\ eligible' = {} /\ job' = NoJob
  /\ UNCHANGED <<now, config, escrow, transfers, disk, time, seen>>

Crash == pc # "down" /\ Fails /\ Down

\* The entries the worker only logs.
stuck(entries) == {e \in entries : ~Recoverable(e)}

\* The journal is cached: its file can be edited only while the worker is stopped.
Stop == pc = "idle" /\ stuck(journal) # {} /\ Works /\ Down

Restart ==
  /\ Goto("down", "idle")
  /\ journal' = disk          \* ensureLoaded
  /\ UNCHANGED <<now, config, escrow, transfers, disk, time, seen, unrecovered, eligible, job, faults>>

transferOf(e) ==
  {i \in DOMAIN transfers : <<transfers[i].stream, transfers[i].time>> = Ref(e)}
executed(e) == e.phase = "record" \/ \E i \in transferOf(e) : transfers[i].state = "accepted"

\* docs/OPERATIONS.md 5.3: once it is known whether the transfer executed,
\* complete the record or treat the transfer as not done; remove the entry.
Reconcile(e) ==
  /\ pc = "down"
  /\ \A i \in transferOf(e) : e.phase = "transfer" => transfers[i].state # "pending"
  /\ IF executed(e) /\ ~Gone(e) THEN Withdraw_TokenStandard(e) ELSE UNCHANGED escrow
  /\ disk' = disk \ {e}
  /\ UNCHANGED <<now, config, transfers, journal, worker, faults>>

----------------------------------------------------------------------------
WorkerNext ==
  \/ Discover
  \/ \E e \in unrecovered : Recover(e)
  \/ FindCandidates
  \/ \E s \in eligible : Pick(s) \/ PickFails(s)
  \/ Prepare \/ JournalTransfer \/ Transfer \/ Wait \/ Claim \/ JournalRecord \/ Submit
  \/ EndCycle

EnvironmentNext ==
  \/ Tick /\ UNCHANGED <<config, escrow, transfers, journal, disk, worker, faults>>
  \/ \E s \in Replaceable : OtherExercise(s)
  \/ \E i \in DOMAIN transfers : WalletAccepts(i) \/ OfferExpires(i)

Next ==
  \/ WorkerNext \/ EnvironmentNext
  \/ Crash \/ Stop \/ Restart
  \/ \E e \in stuck(disk) : Reconcile(e)

\* The loop reschedules itself after every cycle; a supervisor restarts a worker
\* that died; the operator follows the runbook; time passes and wallets answer.
Fairness ==
  /\ WF_vars(WorkerNext) /\ WF_vars(Restart) /\ SF_vars(Stop)
  /\ SF_vars(\E e \in stuck(disk) : Reconcile(e))
  /\ WF_vars(Tick /\ UNCHANGED <<config, escrow, transfers, journal, disk, worker, faults>>)
  /\ WF_vars(\E i \in DOMAIN transfers : WalletAccepts(i))

Spec == Init /\ [][Next]_vars
LiveSpec == Spec /\ Fairness

----------------------------------------------------------------------------
EntryType ==
  [ stream : Streams, time : Nat, amount : Nat, cid : Nat,
    phase : {"transfer", "record"}, attempts : Nat ]
TypeOK ==
  /\ journal \subseteq EntryType /\ disk \subseteq EntryType
  /\ \A s \in Streams : escrow[s].totalWithdrawn \in Nat
  /\ transfers \in Seq([ stream : Streams, time : Nat, amount : Nat,
                         state : {"pending", "accepted", "expired"} ])
  /\ job = NoJob \/ job.stream \in Streams

\* The units of the stream's transfers, each counted once for every transfer
\* that carries it.
units(s) ==
  UNION { {i} \X (1 .. transfers[i].amount) :
            i \in {j \in DOMAIN transfers :
                     transfers[j].stream = s /\ transfers[j].state # "expired"} }
paid(s) == Cardinality(units(s))

\* Whatever fails between the transfer and its record, the worker never sends a
\* stream more than it has accrued: a settlement whose outcome is open blocks the
\* stream, and a stale discovery is refused before funds move.
NeverPaidTwice ==
  /\ TypeOK
  /\ \A s \in Streams : paid(s) <= Curve[now]

\* Every transfer that was sent and did not expire is recorded on the ledger or
\* held in the journal's file: no crash and no failed write loses one.
TransfersAreTraceable ==
  \A i \in DOMAIN transfers : transfers[i].state # "expired" =>
    \/ transfers[i].time \in escrow[transfers[i].stream].recorded
    \/ \E e \in disk : i \in transferOf(e)

\* A withdrawal stands for a transfer that reached the stream's recipient.
RecordsAreDelivered ==
  \A s \in Streams : escrow[s].totalWithdrawn <= paid(s)

\* Everything accrued is recorded in the end, whatever failed on the way.
EverythingIsWithdrawn ==
  <>[](\A s \in Streams : escrow[s].totalWithdrawn = Curve[MaxTime])
============================================================================
