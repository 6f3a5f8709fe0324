----------------------------- MODULE StreamLane -----------------------------
(***************************************************************************)
(* The proxy's V1 stream lane (proxy/src/v1-lane.ts): rows of a JSON store, *)
(* transfers on chain, and the two contracts that record a stream, the     *)
(* payer's StreamAdmin and the operator's StreamRecord.                    *)
(*                                                                         *)
(* A transfer is direct, or only an offer that the recipient accepts or    *)
(* that returns to the payer.  The row may only count what was delivered.  *)
(* Three parties move the same stream: the proxy, which settles with the   *)
(* authority of a payer it hosts; wallets, which submit prepared transfers *)
(* and report them later or never; and the chain.  The proxy holds the     *)
(* store lock from loading the whole file to saving it, transfers in       *)
(* between, and may die at any point.                                      *)
(*                                                                         *)
(* Chain updates are numbered: i creates transfer i, -i ends offer i.      *)
(* Streams pay the scan-verified asset (CC); another asset's recordings    *)
(* are trusted, and not modelled.                                          *)
(***************************************************************************)
EXTENDS StreamAdmin, StreamRecord, Sequences, FiniteSets, Sums

CONSTANTS
  Workers,      \* requests the proxy may be serving
  Hosted,       \* the streams the proxy may settle itself; wallets pay the others
  Pair,         \* payer and recipient of each stream
  Lands,        \* how a transfer of each stream may land: "direct", "offer"
  WithAdmin,    \* the streams created with a StreamAdmin record
  CatchUp,      \* the streams whose arrearsPolicy is catch-up
  TermEnd,      \* of each stream, 0 when it is open-ended
  Window,       \* executeBeforeSeconds
  DedupWindow,  \* how long the participant refuses a used command id
  HistoryMax,   \* 500: longest history of a row
  Unreliable,   \* the proxy may die mid-operation, a recording may fail
  Recovers,     \* somebody asks for the recovery of offers
  Forces,       \* somebody settles by force, which may pay one period early
  MaxTransfers, \* bound: transfers on chain
  MaxPrepared,  \* bound: prepared transfers wallets hold
  MaxNamed      \* bound: largest amount a request names

ASSUME LaneAssumption ==
  /\ Hosted \subseteq Streams /\ WithAdmin \subseteq Streams /\ CatchUp \subseteq Streams
  /\ RatePerPeriod \in [Streams -> Nat \ {0}]
  /\ Lands \in [Streams -> SUBSET {"direct", "offer"}]
  /\ TermEnd \in [Streams -> Nat]
  /\ Window \in Nat /\ DedupWindow \in Nat /\ HistoryMax \in Nat \ {0}
  /\ MaxTransfers \in Nat /\ MaxNamed \in Nat

VARIABLES
  chain,     \* transfers, in order
  row,       \* the store: agreement and state of each stream
  prepared,  \* transfers wallets were handed and may submit at any time
  op         \* what each worker is in the middle of

laneVars == <<now, admin, record, chain, row, prepared, op>>
contracts == <<admin, record>>

Idle == [phase |-> "idle"]
NoCommand == <<>>
NoRow ==
  [ status |-> "none", rate |-> 0, settled |-> 0, cycles |-> 0,
    history |-> <<>>, pending |-> <<>> ]

LaneInit ==
  /\ now = 0
  /\ admin = [s \in Streams |-> [mkStreamAdmin EXCEPT !.status = "Cancelled"]]
  /\ record = [s \in Streams |-> [createStreamRecord EXCEPT !.status = "Cancelled"]]
  /\ chain = <<>>
  /\ row = [s \in Streams |-> NoRow]
  /\ prepared = {}
  /\ op = [w \in Workers |-> Idle]

----------------------------------------------------------------------------
(* Pure parts *)

accruedAmount(s, r) ==
  r.rate * (IF TermEnd[s] # 0 /\ TermEnd[s] < now THEN TermEnd[s] ELSE now)

dueAmount(s, r) ==
  LET arrears == accruedAmount(s, r) - r.settled
  IN  IF r.status = "stopped" \/ arrears <= 0 THEN 0
      ELSE IF s \in CatchUp THEN arrears
      ELSE MinOf(arrears, r.rate)

\* A row's history keeps its last HistoryMax entries.
Pushed(history, u, amount) ==
  LET h == Append(history, [update |-> u, amount |-> amount])
  IN  IF Len(h) > HistoryMax THEN SubSeq(h, Len(h) - HistoryMax + 1, Len(h)) ELSE h

Credited(r, u, amount) ==
  [r EXCEPT !.settled = @ + amount, !.cycles = @ + 1, !.history = Pushed(@, u, amount)]

\* creditAcceptedOffer of the k-th pending record.
creditAcceptedOffer(r, k, u) ==
  [ r EXCEPT !.settled = @ + r.pending[k].amount,
             !.cycles = MaxOf(@, r.pending[k].cycle),
             !.history = Pushed(@, u, r.pending[k].amount),
             !.pending[k].status = "accepted" ]

PendingRecord(offer, amount, cycle) ==
  [offer |-> offer, amount |-> amount, cycle |-> cycle, status |-> "pending"]

OfferIsPayment(r, offer, amount) == Credited(r, offer, amount)
WithPending(r, offer, amount) ==
  IF \E k \in DOMAIN r.pending : r.pending[k].offer = offer THEN r
  ELSE [r EXCEPT !.pending = Append(@, PendingRecord(offer, amount, r.cycles + 1))]

InHistory(r, u) == \E k \in DOMAIN r.history : r.history[k].update = u
updateIdRecordedElsewhere(s, u) == \E t \in Streams \ {s} : InHistory(row[t], u)

Outstanding(r) == { k \in DOMAIN r.pending : r.pending[k].status = "pending" }

attempt(r) == Cardinality({ k \in DOMAIN r.pending : r.pending[k].cycle = r.cycles + 1 })
commandId(s, r) == <<s, r.cycles + 1, attempt(r)>>

Deduplicated(cmd) ==
  \E i \in DOMAIN chain : chain[i].cmd = cmd /\ now < chain[i].at + DedupWindow

----------------------------------------------------------------------------
(* The chain *)

Transferred(s, amount, cmd) ==
  /\ Len(chain) < MaxTransfers
  /\ \E land \in Lands[s] :
       chain' = Append(chain,
         [ stream |-> s, amount |-> amount, cmd |-> cmd, at |-> now, land |-> land,
           fate |-> IF land = "direct" THEN "delivered" ELSE "open" ])

\* acceptTransferHosted, or the recipient's wallet, before executeBefore.
AcceptOffer(i) ==
  /\ chain[i].fate = "open" /\ now < chain[i].at + Window
  /\ chain' = [chain EXCEPT ![i].fate = "accepted"]
  /\ UNCHANGED <<now, contracts, row, prepared, op>>

\* The payer withdraws the offer or the recipient rejects it.
ReturnOffer(i) ==
  /\ chain[i].fate = "open"
  /\ chain' = [chain EXCEPT ![i].fate = "returned"]
  /\ UNCHANGED <<now, contracts, row, prepared, op>>

\* A wallet submits what it was handed: whenever it likes, and more than once.
WalletTransfer ==
  /\ \E p \in prepared : Transferred(p.stream, p.amount, NoCommand)
  /\ UNCHANGED <<now, contracts, row, prepared, op>>

----------------------------------------------------------------------------
(* The proxy.  A worker takes the store lock before it loads the file.     *)

AnyTime(w) == op[w] = Idle
Free(w) == \A v \in Workers : op[v] = Idle

Do(w, o) == op' = [op EXCEPT ![w] = o]
\* What was credited is recorded on the contracts, then the operation goes on.
SyncThen(w, s, syncs, next) ==
  Do(w, IF syncs = <<>> THEN next
        ELSE [phase |-> "sync", s |-> s, syncs |-> syncs, next |-> next])
ToSync(u, amount, cycle) == [update |-> u, amount |-> amount, cycle |-> cycle]

\* createStream makes the contracts (the admin record on request, the cycle
\* record best-effort), then the row.  What it made twice after a crash counts
\* once: the most advanced contract of a stream is the one that is used.
createStream(w, s) ==
  /\ Free(w)
  /\ row[s].status = "none"
  /\ admin' = IF s \in WithAdmin THEN [admin EXCEPT ![s] = mkStreamAdmin] ELSE admin
  /\ record' \in {record, [record EXCEPT ![s] = createStreamRecord]}
  /\ Do(w, [ phase |-> "create", s |-> s,
             store |-> [row EXCEPT ![s] = [NoRow EXCEPT !.status = "active",
                                                        !.rate = RatePerPeriod[s]]] ])
  /\ UNCHANGED <<now, chain, row, prepared>>

SaveCreated(w) ==
  /\ op[w].phase = "create"
  /\ row' = op[w].store
  /\ Do(w, Idle)
  /\ UNCHANGED <<now, contracts, chain, prepared>>

stopStream(w, s) ==
  /\ Free(w)
  /\ row[s].status # "none"
  /\ row' = [row EXCEPT ![s].status = "stopped", ![s].rate = 0]
  /\ UNCHANGED record \/ MarkStopped(s)
  /\ UNCHANGED <<now, admin, chain, prepared, op>>

\* Nothing is outstanding any more: what was found out is saved, and synced.
ReconcileThen(w, s, purpose, store, syncs) ==
  \/ /\ Outstanding(store[s]) # {}
     /\ Do(w, [phase |-> "reconcile", s |-> s, purpose |-> purpose, store |-> store, syncs |-> syncs])
     /\ UNCHANGED row
  \/ /\ Outstanding(store[s]) = {}
     /\ row' = store
     /\ SyncThen(w, s, syncs, [phase |-> purpose, s |-> s, store |-> store])

\* settleOnce and prepareSettle begin alike: load, and reconcile the outstanding offers.
SettleUnreconciled(w, s, purpose) ==
  /\ Free(w)
  /\ row[s].status # "none"
  /\ purpose = "submit" => s \in Hosted /\ row[s].status # "stopped"
  /\ Do(w, [phase |-> purpose, s |-> s, store |-> row])
  /\ UNCHANGED <<now, contracts, chain, row, prepared>>
BeginSettle(w, s, purpose) ==
  /\ Free(w)
  /\ row[s].status # "none"
  /\ purpose = "submit" => s \in Hosted /\ row[s].status # "stopped"
  /\ ReconcileThen(w, s, purpose, row, <<>>)
  /\ UNCHANGED <<now, contracts, chain, prepared>>

\* One record after the other the ledger is asked what became of the offer.  The
\* first that is still live, or that nothing can be found out about, ends the
\* operation, which saves what it knows by then.
reconcileOutstandingOffers(w) ==
  /\ op[w].phase = "reconcile"
  /\ LET s == op[w].s
         store == op[w].store
         r == store[s]
         Settles(rr, syncs) ==
           ReconcileThen(w, s, op[w].purpose, [store EXCEPT ![s] = rr], syncs)
     IN  \E k \in Outstanding(r) :
           LET i == r.pending[k].offer
           IN  /\ \A l \in Outstanding(r) : k <= l
               /\ \/ /\ chain[i].fate = "accepted"
                     /\ Settles(creditAcceptedOffer(r, k, -i),
                                Append(op[w].syncs, ToSync(-i, r.pending[k].amount, FALSE)))
                  \/ /\ chain[i].fate = "returned"
                     /\ Settles([r EXCEPT !.pending[k].status = "withdrawn"], op[w].syncs)
                  \/ /\ chain[i].fate = "open" \/ Unreliable
                     /\ row' = store
                     /\ SyncThen(w, s, op[w].syncs, Idle)
  /\ UNCHANGED <<now, contracts, chain, prepared>>

\* What is due, or the amount a request names: at most what is due.
Payable(s, r) ==
  LET cap == IF Forces THEN MaxOf(dueAmount(s, r), r.rate) ELSE dueAmount(s, r)
  IN  { MinOf(named, cap) : named \in (1..MaxNamed) \cup {cap} } \ {0}

\* settleCycle: what is to be paid is submitted under the cycle's command id.
settleCycle(w) ==
  /\ op[w].phase = "submit"
  /\ LET s == op[w].s
         r == op[w].store[s]
     IN  /\ ~Deduplicated(commandId(s, r))
         /\ \E amount \in Payable(s, r) : Transferred(s, amount, commandId(s, r))
         /\ Do(w, [phase |-> "save", s |-> s, store |-> op[w].store, xfer |-> Len(chain) + 1])
  /\ UNCHANGED <<now, contracts, row, prepared>>

\* Nothing is due, or the ledger refuses the transfer.
GiveUp(w) ==
  /\ op[w].phase \in {"submit", "prepare"}
  /\ Do(w, Idle)
  /\ UNCHANGED <<now, contracts, chain, row, prepared>>

\* A delivered transfer is credited; an offer is only remembered.
Save(w) ==
  /\ op[w].phase = "save"
  /\ LET s == op[w].s
         i == op[w].xfer
         r == op[w].store[s]
     IN  IF chain[i].land = "offer"
         THEN /\ row' = [op[w].store EXCEPT ![s] = WithPending(r, i, chain[i].amount)]
              /\ Do(w, Idle)
         ELSE /\ row' = [op[w].store EXCEPT ![s] = Credited(r, i, chain[i].amount)]
              /\ SyncThen(w, s, <<ToSync(i, chain[i].amount, TRUE)>>, Idle)
  /\ UNCHANGED <<now, contracts, chain, prepared>>

\* syncStreamAdmin, then recordStreamCycle after a direct payment; each is tried
\* once, without the replay guard, and its failure is only reported.
SyncContracts(w) ==
  /\ op[w].phase = "sync"
  /\ LET s == op[w].s
         c == Head(op[w].syncs)
     IN  /\ \/ Sync_Iteration(s, c.amount, 0, c.update)
            \/ (Unreliable \/ ~CanSync(s, c.amount, 0)) /\ UNCHANGED admin
         /\ \/ c.cycle /\ RecordCycle(s, c.amount, c.update)
            \/ (Unreliable \/ ~c.cycle \/ ~CanRecordCycle(s, c.amount, c.update))
                 /\ UNCHANGED record
         /\ SyncThen(w, s, Tail(op[w].syncs), op[w].next)
  /\ UNCHANGED <<now, chain, row, prepared>>

\* prepareSettle hands the wallet a transfer of what is due, or of any amount it
\* names; the store does not change.
prepareSettle(w) ==
  /\ op[w].phase = "prepare"
  /\ Cardinality(prepared) < MaxPrepared
  /\ LET s == op[w].s
         due == dueAmount(s, op[w].store[s])
     IN  \E amount \in (1..MaxNamed) \cup ({due} \ {0}) :
           prepared' = prepared \cup {[stream |-> s, amount |-> amount]}
  /\ Do(w, Idle)
  /\ UNCHANGED <<now, contracts, chain, row>>

\* A wallet reports a committed transfer that carries this stream's reference.
recordSettle(w, s, i) ==
  /\ Free(w)
  /\ row[s].status # "none"
  /\ chain[i].stream = s
  /\ ~InHistory(row[s], i)
  /\ ~updateIdRecordedElsewhere(s, i)
  /\ IF chain[i].land = "offer"
     THEN row' = [row EXCEPT ![s] = WithPending(@, i, chain[i].amount)] /\ UNCHANGED op
     ELSE /\ row' = [row EXCEPT ![s] = Credited(@, i, chain[i].amount)]
          /\ SyncThen(w, s, <<ToSync(i, chain[i].amount, TRUE)>>, Idle)
  /\ UNCHANGED <<now, contracts, chain, prepared>>

\* Live offers between the stream's two parties that its row does not know.
Unknown(s) ==
  { i \in DOMAIN chain :
      /\ chain[i].fate = "open" /\ Pair[chain[i].stream] = Pair[s]
      /\ \A k \in DOMAIN row[s].pending : row[s].pending[k].offer # i }

\* recoverPendingOffers, in the order the ledger lists them; the cycle it gives the
\* n-th counts the rows and the recovered offers, which are rows by then as well.
recoverPendingOffers(w, s) ==
  /\ Recovers
  /\ Free(w)
  /\ row[s].status # "none"
  /\ LET size == Cardinality(Unknown(s))
         first == row[s].cycles + Len(row[s].pending) + 1
     IN  \E offers \in [1 .. size -> Unknown(s)] :
           /\ \A m, n \in 1 .. size : offers[m] = offers[n] => m = n
           /\ row' = [row EXCEPT ![s].pending = @ \o
                [ n \in 1 .. size |->
                    PendingRecord(offers[n], chain[offers[n]].amount, first + 2 * (n - 1)) ]]
  /\ UNCHANGED <<now, contracts, chain, prepared, op>>

\* recordAcceptTransfer: the update must consume the offer in the recipient's
\* favour and back no cycle of another stream.  A record that was marked withdrawn
\* names the update that consumed its offer, and refuses it as already recorded.
recordAcceptTransfer(w, s, k) ==
  LET r == row[s]
      u == -r.pending[k].offer
  IN  /\ Free(w)
      /\ r.pending[k].status = "pending"
      /\ ~InHistory(r, u)
      /\ ~updateIdRecordedElsewhere(s, u)
      /\ chain[r.pending[k].offer].fate = "accepted"
      /\ row' = [row EXCEPT ![s] = creditAcceptedOffer(r, k, u)]
      /\ SyncThen(w, s, <<ToSync(u, r.pending[k].amount, FALSE)>>, Idle)
      /\ UNCHANGED <<now, contracts, chain, prepared>>

\* Any committed update that consumes the offer is taken for its withdrawal, the
\* one that delivered it included.
recordWithdrawTransfer(w, s, k) ==
  /\ Free(w)
  /\ row[s].pending[k].status = "pending"
  /\ chain[row[s].pending[k].offer].fate \in {"returned", "accepted"}
  /\ row' = [row EXCEPT ![s].pending[k].status = "withdrawn"]
  /\ UNCHANGED <<now, contracts, chain, prepared, op>>

\* The process dies between two steps: the lock is freed, the rest is lost.
ProxyCrash(w) ==
  /\ Unreliable
  /\ op[w] # Idle
  /\ Do(w, Idle)
  /\ UNCHANGED <<now, contracts, chain, row, prepared>>

LaneNext ==
  \/ Tick /\ UNCHANGED <<contracts, chain, row, prepared, op>>
  \/ \E i \in DOMAIN chain : AcceptOffer(i) \/ ReturnOffer(i)
  \/ WalletTransfer
  \/ \E w \in Workers :
       \/ SaveCreated(w) \/ reconcileOutstandingOffers(w) \/ settleCycle(w) \/ GiveUp(w) \/ Save(w) \/ SyncContracts(w)
       \/ prepareSettle(w) \/ ProxyCrash(w)
       \/ \E s \in Streams :
            \/ createStream(w, s) \/ stopStream(w, s) \/ recoverPendingOffers(w, s)
            \/ BeginSettle(w, s, "submit") \/ BeginSettle(w, s, "prepare")
            \/ \E i \in DOMAIN chain : recordSettle(w, s, i)
            \/ \E k \in DOMAIN row[s].pending :
                 recordAcceptTransfer(w, s, k) \/ recordWithdrawTransfer(w, s, k)

LaneSpec == LaneInit /\ [][LaneNext]_laneVars

----------------------------------------------------------------------------
Transfer ==
  [ stream : Streams, amount : Nat \ {0}, cmd : {NoCommand} \cup (Streams \X Nat \X Nat),
    at : Nat, land : {"direct", "offer"}, fate : {"delivered", "open", "accepted", "returned"} ]
Cycle == [update : Int, amount : Nat \ {0}]
PendingTransfer ==
  [ offer : Nat \ {0}, amount : Nat \ {0}, cycle : Nat \ {0},
    status : {"pending", "accepted", "withdrawn"} ]
Row ==
  [ status : {"none", "active", "stopped"}, rate : Nat, settled : Nat, cycles : Nat,
    history : Seq(Cycle), pending : Seq(PendingTransfer) ]
Store == [Streams -> Row]
SyncItem == [update : Int, amount : Nat \ {0}, cycle : BOOLEAN]
Settling == [phase : {"submit", "prepare"}, s : Streams, store : Store]
Operation ==
  {Idle} \cup Settling
  \cup [phase : {"create"}, s : Streams, store : Store]
  \cup [ phase : {"reconcile"}, s : Streams, purpose : {"submit", "prepare"}, store : Store,
         syncs : Seq(SyncItem) ]
  \cup [phase : {"save"}, s : Streams, store : Store, xfer : Nat \ {0}]
  \cup [phase : {"sync"}, s : Streams, syncs : Seq(SyncItem), next : {Idle} \cup Settling]

LaneTypeOK ==
  /\ admin \in [Streams -> Index] /\ record \in [Streams -> CycleRecord]
  /\ chain \in Seq(Transfer)
  /\ row \in Store
  /\ \A p \in prepared : p \in [stream : Streams, amount : Nat \ {0}]
  /\ op \in [Workers -> Operation]

Arrived(i) == chain[i].fate \in {"delivered", "accepted"}
transfersOf(s) == { i \in DOMAIN chain : chain[i].stream = s }

\* A row counts nothing that was not delivered for that very stream: the credits
\* are distinct updates, each delivered the amount, and settled is their sum.
CreditsAreDeliveries ==
  \A s \in Streams :
    LET h == row[s].history
    IN  /\ \A k, l \in DOMAIN h : k # l => h[k].update # h[l].update
        /\ \A k \in DOMAIN h : \E i \in transfersOf(s) :
             /\ Arrived(i) /\ chain[i].amount = h[k].amount
             /\ h[k].update = IF chain[i].land = "direct" THEN i ELSE -i
        /\ row[s].settled = Total([k \in DOMAIN h |-> h[k].amount])

\* "An on-chain updateId may back at most one recorded cycle across all streams."
UpdateBacksOneCycle ==
  \A s, t \in Streams : s # t =>
    \A k \in DOMAIN row[s].history : ~InHistory(row[t], row[s].history[k].update)

ProxyPaid(s) == { i \in transfersOf(s) : chain[i].cmd # NoCommand /\ chain[i].fate # "returned" }
AccruedSoFar(s) == RatePerPeriod[s] * (IF TermEnd[s] # 0 /\ TermEnd[s] < now THEN TermEnd[s] ELSE now)

\* "A failure after the transfer committed must never lead to a re-payment": the
\* proxy never pays, with a payer's authority, more than had accrued.
PaidWithinAccrual ==
  \A s \in Hosted : Total([i \in ProxyPaid(s) |-> chain[i].amount]) <= AccruedSoFar(s)

\* While the row knows every transfer of its stream, an offer under the cycle it
\* was sent for, the command id of its next cycle was never used: a retry after a
\* returned offer is not refused.
NextCommandIsFresh ==
  \A s \in Hosted :
    (\A i \in transfersOf(s) :
        \/ InHistory(row[s], i)
        \/ \E k \in DOMAIN row[s].pending :
             /\ row[s].pending[k].offer = i
             /\ (chain[i].cmd = NoCommand \/ chain[i].cmd[2] = row[s].pending[k].cycle))
      => \A i \in transfersOf(s) : chain[i].cmd # commandId(s, row[s])

\* A payment of the proxy, and all that the row counts at that moment, whoever paid
\* it, stay within what has accrued, and no offer is outstanding that may yet be
\* accepted on top of it.
PaysOnlyTheRest ==
  \A s \in Hosted, i \in DOMAIN chain' \ DOMAIN chain :
    chain'[i].stream = s /\ chain'[i].cmd # NoCommand =>
      /\ Outstanding(row[s]) = {}
      /\ row[s].settled + chain'[i].amount <= AccruedSoFar(s)

\* The proxy pays no more than its row says is left, on no stale reading of it, and
\* its next command is a new one when the row knows its last payment.
NeverPaysAhead == []NextCommandIsFresh /\ [][PaysOnlyTheRest]_laneVars

\* The contracts on the ledger never show more than the row counts.
RecordsNeverAhead ==
  \A s \in Streams :
    /\ admin[s].totalWithdrawn <= row[s].settled
    /\ record[s].totalPaid <= row[s].settled

\* What a row counts was delivered, each delivery once, and the contracts on the
\* ledger are at most as far as the row.
RowsAreBacked == LaneTypeOK /\ CreditsAreDeliveries /\ RecordsNeverAhead

\* A stopped stream stays stopped, whatever was in flight when it was stopped,
\* and the proxy pays nothing more for it.
StopIsFinal ==
  [][\A s \in Streams : row[s].status = "stopped" =>
       /\ row[s].status' = "stopped"
       /\ \A i \in DOMAIN chain' \ DOMAIN chain :
            chain'[i].stream = s => chain'[i].cmd = NoCommand ]_laneVars
============================================================================
