------------------------ MODULE AutoWithdraw_proofs -------------------------
(***************************************************************************)
(* For any streams, curve, configuration and number of faults, as long as  *)
(* the other parties leave an escrow alone while a withdrawal of it is     *)
(* open (Coordinated): the worker pays no stream more than it accrued, and *)
(* no transfer of its is lost.  Nothing in the code makes them wait.       *)
(*                                                                         *)
(* The inductive invariant has three parts: the Books relate the journal,  *)
(* its file and the entries under replay to the contracts they settle; the *)
(* Ledger relates the transfers to the contracts and to one another; the   *)
(* Worker says what each stage of the cycle may rely on.                   *)
(***************************************************************************)
EXTENDS AutoWithdraw, FiniteSetTheorems, SequenceTheorems, WellFoundedInduction, TLAPS

Busy == {"preparing", "journaling", "transferring", "waiting", "claiming",
         "recording", "submitting"}
Paying == Busy \ {"preparing"}
Serving == Busy \cup {"serving"}

Contract == [cid : Nat, totalWithdrawn : Nat, recorded : SUBSET (0 .. MaxTime)]
TransferType ==
  [stream : Streams, time : Nat, amount : Nat, state : {"pending", "accepted", "expired"}]
Job == [stream : Streams, time : Nat, amount : Nat, pending : Nat]

\* A transfer that has not come back.
live(i) == transfers[i].state # "expired"
Recorded(e) == e.time \in escrow[e.stream].recorded
Holds(entries, e) == \E x \in entries : Ref(x) = Ref(e)

Typed ==
  /\ now \in 0 .. MaxTime /\ time \in 0 .. now
  /\ escrow \in [Streams -> Contract] /\ seen \in [Streams -> Contract]
  /\ journal \subseteq EntryType /\ disk \subseteq EntryType
  /\ unrecovered \subseteq EntryType
  /\ transfers \in Seq(TransferType)
  /\ eligible \subseteq Streams
  /\ pc \in Serving \cup {"idle", "recovering", "down"}
  /\ pc \in Busy => job \in Job
  /\ job = NoJob \/ job.stream \in Streams

\* What the worker carries at each stage.
StageFits ==
  /\ pc # "recovering" => unrecovered = {}
  /\ pc \notin Serving => eligible = {}
  /\ pc = "down" => journal = {}
  /\ pc \in Busy => job.stream \notin eligible

OneEntry(entries) == \A x, y \in entries : x.stream = y.stream => x = y
\* The journal, its file and the replay hold one settlement per stream at most.
OneEach == OneEntry(journal) /\ OneEntry(disk) /\ OneEntry(unrecovered)

\* An entry's contract is still the one it will be recorded on, or it was recorded.
EntryIsCurrent ==
  \A e \in journal \cup disk \cup unrecovered :
    escrow[e.stream].cid = e.cid \/ Recorded(e)

\* What the file still holds and the memory does not has been recorded: a failed
\* write is always the removal of a settled entry.
OnlySettledIsForgotten ==
  pc # "down" => \A e \in disk : Recorded(e) \/ Holds(journal, e)

\* An entry under replay stays in the journal until it is settled.
ReplayIsHeld == \A e \in unrecovered : Holds(journal, e)

\* A stream that is served has no other settlement open.
ServedIsFree ==
  /\ \A s \in eligible, e \in journal : e.stream # s
  /\ pc \in Busy => \A e \in journal : e.stream = job.stream => Ref(e) = Ref(job)
  /\ pc \in {"preparing", "journaling"} => \A e \in journal : e.stream # job.stream

\* A discovered contract is the present one or an earlier one.
SeenIsPast ==
  \A s \in Streams : /\ seen[s].cid <= escrow[s].cid
                     /\ seen[s].cid = escrow[s].cid => seen[s] = escrow[s]

\* From the ledger's validation on, the discovered contract is the present one; and
\* funds move only when the file holds the settlement.
JobIsCurrent ==
  /\ pc \in Paying => seen[job.stream].cid = escrow[job.stream].cid
  /\ pc = "transferring" => Holds(disk, job)

\* A withdrawal asks for exactly what its time explains.
ServedAccrued ==
  /\ pc \in Serving => \A s \in eligible : withdrawable(seen[s], time) > 0
  /\ pc \in Busy => /\ job.time <= time
                    /\ job.amount = withdrawable(seen[job.stream], job.time)

\* What has been recorded up to a time has been withdrawn.
RecordedIsCovered ==
  \A s \in Streams : \A t \in escrow[s].recorded : Curve[t] <= escrow[s].totalWithdrawn

\* A transfer carries no more than had accrued at its time.
AmountsFit ==
  \A i \in DOMAIN transfers :
    transfers[i].time <= now /\ transfers[i].amount <= Curve[transfers[i].time]

\* The transfers of a stream pay disjoint stretches of its accrual, in order.
NoOverlap ==
  \A i, j \in DOMAIN transfers :
    i < j /\ live(i) /\ live(j) /\ transfers[i].stream = transfers[j].stream
      => Curve[transfers[i].time] <= Curve[transfers[j].time] - transfers[j].amount

\* Before funds move, every earlier transfer of the stream is recorded.
NothingOpen ==
  pc \in {"journaling", "transferring"} =>
    \A i \in DOMAIN transfers :
      live(i) /\ transfers[i].stream = job.stream => Recorded(transfers[i])

Books == OneEach /\ EntryIsCurrent /\ OnlySettledIsForgotten /\ ReplayIsHeld
Ledger == SeenIsPast /\ RecordedIsCovered /\ AmountsFit /\ NoOverlap /\ TransfersAreTraceable
Worker == StageFits /\ ServedIsFree /\ JobIsCurrent /\ ServedAccrued /\ NothingOpen

Inv == Typed /\ Books /\ Ledger /\ Worker

----------------------------------------------------------------------------
(* Data *)

LEMMA LeastNat ==
  ASSUME NEW S \in SUBSET Nat, S # {}
  PROVE  \E n \in S : \A m \in S : n <= m
<1> DEFINE R == {ss \in Nat \X Nat : ss[1] < ss[2]}
<1>1. IsWellFoundedOn(R, Nat)
  BY NatLessThanWellFounded DEF OpToRel
<1>2. PICK x \in S : \A y \in S : ~ (<<y, x>> \in R)
  <2> HIDE DEF R
  <2> QED BY <1>1, WFMin
<1>3. \A y \in S : x <= y
  <2> TAKE y \in S
  <2>1. <<y, x>> \notin R  BY <1>2
  <2>2. ~(y < x)  BY <2>1
  <2> QED BY <2>2
<1> QED
  BY <1>3

LEMMA CurveRises ==
  ASSUME NEW t \in 0 .. MaxTime, NEW u \in t .. MaxTime
  PROVE  Curve[t] <= Curve[u]
<1> DEFINE S == {v \in t .. MaxTime : Curve[v] < Curve[t]}
<1> USE AutoWithdrawAssumption, MaxTimeAssumption
<1>1. ASSUME S # {} PROVE FALSE
  <2>1. S \in SUBSET Nat  OBVIOUS
  <2>2. PICK v \in S : \A w \in S : v <= w
    <3> HIDE DEF S
    <3> QED BY <1>1, <2>1, LeastNat
  <2>3. v # t /\ v \in 1 .. MaxTime /\ v - 1 \in t .. MaxTime /\ Curve[v] < Curve[t]  BY <2>2
  <2>4. Curve[v - 1] >= Curve[t]
    <3>1. v - 1 \notin S
      <4> HIDE DEF S
      <4> QED BY <2>1, <2>2
    <3> QED BY <2>3, <3>1
  <2>5. Curve[v - 1] <= Curve[v]  BY <2>3
  <2> QED BY <2>3, <2>4, <2>5
<1>2. u \notin S /\ u \in t .. MaxTime
  BY <1>1
<1>3. Curve[u] \in Nat /\ Curve[t] \in Nat /\ ~ (Curve[u] < Curve[t])
  BY <1>2
<1> QED
  BY <1>3

LEMMA RemovedFacts ==
  ASSUME NEW J, NEW e
  PROVE  /\ Removed(J, e) \subseteq J
         /\ \A x \in J : Ref(x) # Ref(e) => x \in Removed(J, e)
         /\ \A x \in Removed(J, e) : Ref(x) # Ref(e)
BY DEF Removed, Others

LEMMA BumpedFacts ==
  ASSUME NEW J \in SUBSET EntryType, NEW e, OneEntry(J)
  PROVE  /\ Bumped(J, e) \subseteq EntryType
         /\ OneEntry(Bumped(J, e))
         /\ \A x \in J : Holds(Bumped(J, e), x)
         /\ \A y \in Bumped(J, e) :
              \E x \in J : x.stream = y.stream /\ x.time = y.time /\ x.cid = y.cid
<1> DEFINE b(x) == IF Ref(x) = Ref(e) THEN [x EXCEPT !.attempts = @ + 1] ELSE x
<1>1. \A x \in EntryType :
        b(x) \in EntryType /\ b(x).stream = x.stream /\ b(x).time = x.time /\ b(x).cid = x.cid
  BY DEF EntryType
<1>2. Bumped(J, e) = {b(x) : x \in J}
  BY DEF Bumped
<1> HIDE DEF b
<1> QED
  BY <1>1, <1>2 DEF OneEntry, Holds, Ref

LEMMA PutFacts ==
  ASSUME Typed, pc \in Busy, OneEach, ServedIsFree, NEW phase \in {"transfer", "record"}
  PROVE  /\ Entry(phase) \in EntryType /\ Ref(Entry(phase)) = Ref(job)
         /\ Entry(phase).stream = job.stream /\ Entry(phase).cid = seen[job.stream].cid
         /\ Put(phase) \subseteq EntryType
         /\ OneEntry(Put(phase))
         /\ Entry(phase) \in Put(phase)
         /\ \A x \in journal : Holds(Put(phase), x)
         /\ \A y \in Put(phase) : y \in journal \/ y = Entry(phase)
<1>1. /\ Entry(phase) \in EntryType /\ Ref(Entry(phase)) = Ref(job)
      /\ Entry(phase).stream = job.stream /\ Entry(phase).cid = seen[job.stream].cid
  BY DEF Typed, Entry, EntryType, Job, Contract, Ref
<1>2. \A x \in Others(journal, job) : x.stream # job.stream
  BY DEF Others, ServedIsFree
<1> QED
  BY <1>1, <1>2 DEF Put, Others, OneEntry, OneEach, Holds, Typed

----------------------------------------------------------------------------
(* What a step does to the contracts, the journal and the transfers *)

\* The only two ways a contract changes.
LEMMA WithdrawFacts ==
  ASSUME Typed, RecordedIsCovered, NEW e \in EntryType, Withdraw_TokenStandard(e)
  PROVE  /\ escrow' \in [Streams -> Contract]
         /\ e.time \in escrow'[e.stream].recorded
         /\ \A s \in Streams : escrow[s].recorded \subseteq escrow'[s].recorded
         /\ \A s \in Streams \ {e.stream} : escrow'[s] = escrow[s]
         /\ escrow'[e.stream].cid = escrow[e.stream].cid + 1
         /\ \A s \in Streams : \A t \in escrow'[s].recorded : Curve[t] <= escrow'[s].totalWithdrawn
<1> DEFINE s == e.stream
           c == escrow[s]
           d == [c EXCEPT !.cid = @ + 1, !.totalWithdrawn = @ + e.amount, !.recorded = @ \cup {e.time}]
<1>1. s \in Streams /\ e.time \in Nat /\ e.amount \in Nat /\ c \in Contract
  BY DEF Typed, EntryType
<1>2. c.cid \in Nat /\ c.totalWithdrawn \in Nat /\ c.recorded \in SUBSET (0 .. MaxTime)
  BY <1>1 DEF Contract
<1>3. escrow' = [escrow EXCEPT ![s] = d]
  BY DEF Withdraw_TokenStandard, Typed
<1>4. e.time \in 0 .. MaxTime /\ e.amount = Curve[e.time] - c.totalWithdrawn
  BY <1>1, MaxTimeAssumption DEF Withdraw_TokenStandard, Accepts, Typed, withdrawable
<1>5. /\ d.cid = c.cid + 1 /\ d.totalWithdrawn = c.totalWithdrawn + e.amount
      /\ d.recorded = c.recorded \cup {e.time}
  BY <1>1 DEF Contract
<1>6. c.cid + 1 \in Nat /\ c.totalWithdrawn + e.amount \in Nat
      /\ c.recorded \cup {e.time} \in SUBSET (0 .. MaxTime)
  BY <1>1, <1>2, <1>4
<1>7. d \in Contract
  BY <1>1, <1>6 DEF Contract
<1>8. Curve[e.time] \in Nat /\ d.totalWithdrawn = Curve[e.time] /\ c.totalWithdrawn <= d.totalWithdrawn
  BY <1>1, <1>2, <1>4, <1>5, AutoWithdrawAssumption
<1>9. \A t \in d.recorded : Curve[t] <= d.totalWithdrawn
  <2> TAKE t \in d.recorded
  <2>1. CASE t = e.time  BY <2>1, <1>8
  <2>2. CASE t \in c.recorded
    <3>1. Curve[t] <= c.totalWithdrawn  BY <2>2, <1>1 DEF RecordedIsCovered
    <3>2. Curve[t] \in Nat  BY <2>2, <1>2, AutoWithdrawAssumption
    <3> QED BY <3>1, <3>2, <1>2, <1>8
  <2> QED BY <2>1, <2>2, <1>5
<1>10. /\ escrow'[s] = d /\ \A x \in Streams \ {s} : escrow'[x] = escrow[x]
       /\ DOMAIN escrow' = Streams
  BY <1>3, <1>1 DEF Typed
<1>11. escrow' \in [Streams -> Contract]
  BY <1>3, <1>7, <1>1 DEF Typed
<1> HIDE DEF d
<1> QED
  BY <1>1, <1>5, <1>9, <1>10, <1>11 DEF RecordedIsCovered

\* What a step may do to the contracts: nothing but withdraw, or replace one that
\* no settlement depends on.
ContractsMove ==
  /\ escrow' \in [Streams -> Contract]
  /\ \A s \in Streams : escrow[s].recorded \subseteq escrow'[s].recorded
  /\ \A s \in Streams : escrow'[s] = escrow[s] \/ escrow'[s].cid = escrow[s].cid + 1
  /\ \A s \in Streams : \A t \in escrow'[s].recorded : Curve[t] <= escrow'[s].totalWithdrawn
  /\ \A x \in journal \cup disk \cup unrecovered :
       escrow'[x.stream].cid = x.cid \/ x.time \in escrow'[x.stream].recorded

LEMMA ContractsStay ==
  ASSUME Inv, UNCHANGED escrow
  PROVE  ContractsMove
BY DEF ContractsMove, Inv, Typed, Books, Ledger, RecordedIsCovered, EntryIsCurrent, Recorded

\* A withdrawal settles every entry of its stream: the journal's other entry of
\* the stream is the same settlement, and the file's is it too or was settled.
LEMMA WithdrawMoves ==
  ASSUME Inv, NEW e \in EntryType, Withdraw_TokenStandard(e),
         \A x \in journal \cup disk \cup unrecovered :
           x.stream = e.stream => Recorded(x) \/ Ref(x) = Ref(e)
  PROVE  ContractsMove
<1>1. Typed /\ RecordedIsCovered /\ EntryIsCurrent  BY DEF Inv, Books, Ledger
<1>2. \A x \in journal \cup disk \cup unrecovered : x.stream \in Streams
  BY <1>1 DEF Typed, EntryType
<1>3. \A x \in journal \cup disk \cup unrecovered :
        escrow'[x.stream].cid = x.cid \/ x.time \in escrow'[x.stream].recorded
  BY <1>1, <1>2, WithdrawFacts DEF EntryIsCurrent, Recorded, Ref
<1>4. \A s \in Streams : escrow'[s] = escrow[s] \/ escrow'[s].cid = escrow[s].cid + 1
  BY <1>1, WithdrawFacts
<1>5. /\ escrow' \in [Streams -> Contract]
      /\ \A s \in Streams : escrow[s].recorded \subseteq escrow'[s].recorded
      /\ \A s \in Streams : \A t \in escrow'[s].recorded : Curve[t] <= escrow'[s].totalWithdrawn
  BY <1>1, WithdrawFacts
<1> QED
  BY <1>3, <1>4, <1>5 DEF ContractsMove

\* Every entry of a stream the worker holds an entry of is that entry, or settled.
LEMMA SameStream ==
  ASSUME Inv, pc # "down", NEW r,
         \A x \in journal : x.stream = r.stream => Ref(x) = Ref(r),
         Holds(journal, r) \/ (pc \in Busy /\ Ref(r) = Ref(job))
  PROVE  \A x \in journal \cup disk \cup unrecovered :
           x.stream = r.stream => Recorded(x) \/ Ref(x) = Ref(r)
BY DEF Inv, Books, OnlySettledIsForgotten, ReplayIsHeld, Holds, Ref

\* What a step may do to the transfers it does not send: settle their state.
TransfersStay ==
  /\ transfers' \in Seq(TransferType)
  /\ DOMAIN transfers' = DOMAIN transfers
  /\ \A i \in DOMAIN transfers :
       /\ transfers'[i].stream = transfers[i].stream
       /\ transfers'[i].time = transfers[i].time
       /\ transfers'[i].amount = transfers[i].amount
       /\ transfers'[i].state # "expired" => transfers[i].state # "expired"

LEMMA UnchangedStays ==
  ASSUME Inv, UNCHANGED transfers
  PROVE  TransfersStay
BY DEF Inv, Typed, TransfersStay

LEMMA SettledStays ==
  ASSUME Inv, NEW i, transfers[i].state = "pending", NEW v \in {"accepted", "expired"},
         transfers' = [transfers EXCEPT ![i].state = v]
  PROVE  TransfersStay
<1>1. transfers \in Seq(TransferType)  BY DEF Inv, Typed
<1>2. CASE i \notin DOMAIN transfers
  <2>1. transfers' = transfers  BY <1>2, <1>1
  <2> QED BY <2>1, UnchangedStays
<1>3. CASE i \in DOMAIN transfers
  <2>1. transfers[i] \in TransferType /\ i \in 1 .. Len(transfers)
    BY <1>1, <1>3, ElementOfSeq
  <2>2. [transfers[i] EXCEPT !.state = v] \in TransferType
    BY <2>1 DEF TransferType
  <2>3. transfers' = [transfers EXCEPT ![i] = [transfers[i] EXCEPT !.state = v]]
    OBVIOUS
  <2>4. transfers' \in Seq(TransferType) /\ DOMAIN transfers' = DOMAIN transfers
    BY <2>3, <2>2, <2>1, <1>1, ExceptSeq
  <2>5. \A k \in DOMAIN transfers : transfers'[k] = IF k = i THEN [transfers[i] EXCEPT !.state = v]
                                                   ELSE transfers[k]
    BY <2>3, <1>1
  <2>6. [transfers[i] EXCEPT !.state = v].stream = transfers[i].stream
        /\ [transfers[i] EXCEPT !.state = v].time = transfers[i].time
        /\ [transfers[i] EXCEPT !.state = v].amount = transfers[i].amount
    BY <2>1 DEF TransferType
  <2> QED BY <2>4, <2>5, <2>6 DEF TransfersStay
<1> QED
  BY <1>2, <1>3

\* The invariants of the contracts and the transfers survive any step that keeps
\* every unsettled entry in the file.
LEMMA LedgerKept ==
  ASSUME Inv, ContractsMove, TransfersStay, UNCHANGED seen, now' \in now .. MaxTime,
         \A x \in disk : \/ x.time \in escrow'[x.stream].recorded
                         \/ \E y \in disk' : Ref(y) = Ref(x)
                         \/ \A i \in transferOf(x) : transfers'[i].state = "expired"
  PROVE  Ledger'
<1>0. Typed /\ Ledger  BY DEF Inv
<1>1. SeenIsPast'
  <2> SUFFICES ASSUME NEW s \in Streams
               PROVE  /\ seen[s].cid <= escrow'[s].cid
                      /\ seen[s].cid = escrow'[s].cid => seen[s] = escrow'[s]
    BY DEF SeenIsPast
  <2>1. seen[s].cid \in Nat /\ escrow[s].cid \in Nat  BY <1>0 DEF Typed, Contract
  <2>2. seen[s].cid <= escrow[s].cid /\ (seen[s].cid = escrow[s].cid => seen[s] = escrow[s])
    BY <1>0 DEF Ledger, SeenIsPast
  <2>3. escrow'[s] = escrow[s] \/ escrow'[s].cid = escrow[s].cid + 1  BY DEF ContractsMove
  <2> QED BY <2>1, <2>2, <2>3
<1>2. RecordedIsCovered'
  BY DEF ContractsMove, RecordedIsCovered
<1>3. AmountsFit'
  <2> SUFFICES ASSUME NEW i \in DOMAIN transfers
               PROVE  transfers'[i].time <= now' /\ transfers'[i].amount <= Curve[transfers'[i].time]
    BY DEF AmountsFit, TransfersStay
  <2>1. transfers[i] \in TransferType  BY <1>0, ElementOfSeq DEF Typed
  <2>2. transfers[i].time <= now /\ transfers[i].amount <= Curve[transfers[i].time]
    BY <1>0 DEF Ledger, AmountsFit
  <2>3. now \in Nat /\ transfers[i].time \in Nat  BY <1>0, <2>1, MaxTimeAssumption DEF Typed, TransferType
  <2> QED BY <2>2, <2>3 DEF TransfersStay
<1>4. NoOverlap'
  BY <1>0 DEF Ledger, NoOverlap, TransfersStay, live
<1>5. TransfersAreTraceable'
  <2> SUFFICES ASSUME NEW i \in DOMAIN transfers, transfers'[i].state # "expired"
               PROVE  \/ transfers[i].time \in escrow'[transfers[i].stream].recorded
                      \/ \E y \in disk' : <<transfers[i].stream, transfers[i].time>> = Ref(y)
    BY DEF TransfersAreTraceable, transferOf, TransfersStay
  <2>1. \/ transfers[i].time \in escrow[transfers[i].stream].recorded
        \/ \E e \in disk : <<transfers[i].stream, transfers[i].time>> = Ref(e)
    BY <1>0 DEF Ledger, TransfersAreTraceable, transferOf, TransfersStay
  <2>2. transfers[i].stream \in Streams
    <3>1. transfers[i] \in TransferType  BY <1>0, ElementOfSeq DEF Typed
    <3> QED BY <3>1 DEF TransferType
  <2>3. CASE transfers[i].time \in escrow[transfers[i].stream].recorded
    BY <2>3, <2>2 DEF ContractsMove
  <2>4. ASSUME NEW e \in disk, <<transfers[i].stream, transfers[i].time>> = Ref(e)
        PROVE  \/ transfers[i].time \in escrow'[transfers[i].stream].recorded
               \/ \E y \in disk' : <<transfers[i].stream, transfers[i].time>> = Ref(y)
    BY <2>4 DEF Ref, transferOf
  <2> QED BY <2>1, <2>3, <2>4
<1> QED
  BY <1>1, <1>2, <1>3, <1>4, <1>5 DEF Ledger

\* A write of the journal forgets only what is settled.
LEMMA BooksKept ==
  ASSUME Inv, ContractsMove, pc # "down",
         NEW N \in SUBSET EntryType, OneEntry(N),
         journal' = N, disk' = N \/ disk' = disk,
         unrecovered' \subseteq unrecovered, \A x \in unrecovered' : Holds(N, x),
         \A y \in N : escrow'[y.stream].cid = y.cid \/ y.time \in escrow'[y.stream].recorded,
         \A x \in journal : x.time \in escrow'[x.stream].recorded \/ Holds(N, x)
  PROVE  /\ Books'
         /\ \A x \in disk : x.time \in escrow'[x.stream].recorded \/ \E y \in disk' : Ref(y) = Ref(x)
<1>0. Typed /\ Books  BY DEF Inv
<1>1. \A x \in disk : x.time \in escrow'[x.stream].recorded \/ Holds(N, x)
  <2> SUFFICES ASSUME NEW x \in disk
               PROVE  x.time \in escrow'[x.stream].recorded \/ Holds(N, x)
    OBVIOUS
  <2>1. CASE Recorded(x)
    <3>1. x.stream \in Streams  BY <1>0 DEF Typed, EntryType
    <3> QED BY <2>1, <3>1 DEF Recorded, ContractsMove
  <2>2. ASSUME NEW j \in journal, Ref(j) = Ref(x)
        PROVE  x.time \in escrow'[x.stream].recorded \/ Holds(N, x)
    BY <2>2 DEF Ref, Holds
  <2> QED BY <2>1, <2>2, <1>0 DEF Books, OnlySettledIsForgotten, Holds
<1>2. OneEach'
  BY <1>0 DEF Books, OneEach, OneEntry
<1>3. EntryIsCurrent'
  BY DEF EntryIsCurrent, ContractsMove, Recorded
<1>4. OnlySettledIsForgotten'
  BY <1>1 DEF OnlySettledIsForgotten, Recorded, Holds
<1>5. ReplayIsHeld'
  BY DEF ReplayIsHeld, Holds
<1> QED
  BY <1>1, <1>2, <1>3, <1>4, <1>5 DEF Books, Holds

\* A step that leaves the journal and its file alone.
LEMMA BooksStay ==
  ASSUME Inv, ContractsMove, UNCHANGED <<journal, disk>>, unrecovered' \subseteq unrecovered,
         pc = "down" => pc' = "down"
  PROVE  Books'
<1>0. Typed /\ Books  BY DEF Inv
<1>1. CASE pc # "down"
  <2>1. \A x \in journal : Holds(journal, x)  BY DEF Holds
  <2>2. \A x \in unrecovered' : Holds(journal, x)  BY <1>0 DEF Books, ReplayIsHeld
  <2>3. OneEntry(journal) /\ journal \in SUBSET EntryType  BY <1>0 DEF Books, OneEach, Typed
  <2>4. \A y \in journal : escrow'[y.stream].cid = y.cid \/ y.time \in escrow'[y.stream].recorded
    BY DEF ContractsMove
  <2> QED
    BY <1>1, <2>1, <2>2, <2>3, <2>4, BooksKept
<1>2. CASE pc = "down"
  <2>1. OneEach'  BY <1>0 DEF Books, OneEach, OneEntry
  <2>2. EntryIsCurrent'  BY DEF EntryIsCurrent, ContractsMove, Recorded
  <2>3. OnlySettledIsForgotten'  BY <1>2 DEF OnlySettledIsForgotten
  <2>4. ReplayIsHeld'  BY <1>0 DEF Books, ReplayIsHeld, Holds
  <2> QED BY <2>1, <2>2, <2>3, <2>4 DEF Books
<1> QED
  BY <1>1, <1>2

\* A step that leaves contracts, transfers, journal and file alone.
LEMMA QuietStep ==
  ASSUME Inv, UNCHANGED <<now, escrow, transfers, journal, disk, seen>>,
         unrecovered' \subseteq unrecovered, pc = "down" => pc' = "down"
  PROVE  Books' /\ Ledger'
<1>1. ContractsMove /\ TransfersStay
  BY ContractsStay, UnchangedStays
<1>2. now' \in now .. MaxTime
  BY MaxTimeAssumption DEF Inv, Typed
<1>3. Ledger'
  BY <1>1, <1>2, LedgerKept
<1> QED
  BY <1>1, <1>3, BooksStay

\* A step of the ledger or a wallet, which the worker does not see.
LEMMA OutsideStep ==
  ASSUME Inv, UNCHANGED <<journal, disk, worker>>, ContractsMove, TransfersStay,
         now' \in now .. MaxTime,
         pc \in Paying => escrow'[job.stream] = escrow[job.stream]
  PROVE  Inv'
<1>0. Typed /\ Worker  BY DEF Inv
<1> USE DEF worker
<1>1. Typed'
  BY <1>0, MaxTimeAssumption DEF Typed, ContractsMove, TransfersStay, Serving, Busy
<1>2. Books'
  BY BooksStay
<1>3. Ledger'
  BY LedgerKept
<1>4. Worker'
  <2>1. StageFits'  BY <1>0 DEF Worker, StageFits
  <2>2. ServedIsFree'  BY <1>0 DEF Worker, ServedIsFree, Ref
  <2>3. JobIsCurrent'  BY <1>0 DEF Worker, JobIsCurrent, Holds, Ref
  <2>4. ServedAccrued'  BY <1>0 DEF Worker, ServedAccrued, withdrawable
  <2>5. NothingOpen'
    <3> SUFFICES ASSUME pc \in {"journaling", "transferring"}, NEW i \in DOMAIN transfers,
                        live(i), transfers[i].stream = job.stream
                 PROVE  transfers[i].time \in escrow'[transfers[i].stream].recorded
      BY DEF NothingOpen, TransfersStay, live, Recorded
    <3>1. Recorded(transfers[i])  BY <1>0 DEF Worker, NothingOpen
    <3>2. escrow'[job.stream] = escrow[job.stream]  BY DEF Paying, Busy
    <3> QED BY <3>1, <3>2 DEF Recorded
  <2> QED BY <2>1, <2>2, <2>3, <2>4, <2>5 DEF Worker
<1> QED
  BY <1>1, <1>2, <1>3, <1>4 DEF Inv

----------------------------------------------------------------------------
(* The environment's steps *)

LEMMA TickStep ==
  ASSUME Inv, Tick, UNCHANGED <<escrow, transfers, journal, disk, worker>>
  PROVE  Inv'
<1>1. now' \in now .. MaxTime
  BY MaxTimeAssumption DEF Inv, Typed, Tick
<1> QED
  BY <1>1, ContractsStay, UnchangedStays, OutsideStep

LEMMA OtherExerciseStep ==
  ASSUME Inv, Coordinated, NEW s \in Replaceable, OtherExercise(s)
  PROVE  Inv'
<1>0. Typed /\ Books /\ Ledger  BY DEF Inv
<1> DEFINE c == escrow[s]
           d == [c EXCEPT !.cid = @ + 1]
<1>1. s \in Streams /\ c \in Contract
  BY <1>0, AutoWithdrawAssumption DEF Typed
<1>2. c.cid + 1 \in Nat
  BY <1>1 DEF Contract
<1>3. d \in Contract /\ d.cid = c.cid + 1 /\ d.recorded = c.recorded
      /\ d.totalWithdrawn = c.totalWithdrawn
  BY <1>1, <1>2 DEF Contract
<1>4. escrow' = [escrow EXCEPT ![s] = d]
  BY DEF OtherExercise
<1> HIDE DEF d
<1>5. /\ escrow' \in [Streams -> Contract]
      /\ \A x \in Streams : escrow'[x] = IF x = s THEN d ELSE escrow[x]
  BY <1>0, <1>3, <1>4 DEF Typed
<1>6. ~underWay(s)
  BY DEF OtherExercise
<1>7. \A x \in journal \cup disk \cup unrecovered : x.stream # s /\ x.stream \in Streams
  BY <1>0, <1>6 DEF underWay, Books, ReplayIsHeld, Holds, Ref, Typed, EntryType
<1>8. ContractsMove
  <2>1. \A x \in journal \cup disk \cup unrecovered :
          escrow'[x.stream].cid = x.cid \/ x.time \in escrow'[x.stream].recorded
    BY <1>0, <1>5, <1>7 DEF Books, EntryIsCurrent, Recorded
  <2>2. \A x \in Streams : \A t \in escrow'[x].recorded : Curve[t] <= escrow'[x].totalWithdrawn
    BY <1>0, <1>3, <1>5 DEF Ledger, RecordedIsCovered
  <2> QED BY <1>3, <1>5, <2>1, <2>2 DEF ContractsMove
<1>9. pc \in Paying => escrow'[job.stream] = escrow[job.stream]
  <2>1. pc \in Paying => pc \notin {"down", "preparing"} /\ job.stream \in Streams
    BY <1>0 DEF Paying, Busy, Typed, Job
  <2> QED BY <2>1, <1>5, <1>6 DEF underWay
<1>10. now' \in now .. MaxTime
  BY <1>0, MaxTimeAssumption DEF Typed, OtherExercise
<1> QED
  BY <1>8, <1>9, <1>10, UnchangedStays, OutsideStep DEF OtherExercise

LEMMA WalletStep ==
  ASSUME Inv, NEW i \in DOMAIN transfers, WalletAccepts(i) \/ OfferExpires(i)
  PROVE  Inv'
<1>1. /\ transfers[i].state = "pending"
      /\ \E v \in {"accepted", "expired"} : transfers' = [transfers EXCEPT ![i].state = v]
      /\ UNCHANGED <<now, escrow, journal, disk, worker>>
  BY DEF WalletAccepts, OfferExpires
<1>2. TransfersStay
  BY <1>1, SettledStays
<1>3. now' \in now .. MaxTime
  BY <1>1, MaxTimeAssumption DEF Inv, Typed
<1> QED
  BY <1>1, <1>2, <1>3, ContractsStay, OutsideStep

----------------------------------------------------------------------------
(* The worker's steps: recovering and choosing *)

LEMMA DiscoverStep ==
  ASSUME Inv, Discover
  PROVE  Inv'
<1>0. Typed /\ Books /\ Ledger /\ Worker /\ pc = "idle"  BY DEF Inv, Discover, Goto
<1> USE DEF Discover, Goto
<1>1. Typed'
  BY <1>0, MaxTimeAssumption DEF Typed, Serving, Busy
<1>2. Books'
  <2>1. OneEach'  BY <1>0 DEF Books, OneEach, OneEntry
  <2>2. EntryIsCurrent'  BY <1>0 DEF Books, EntryIsCurrent, Recorded
  <2>3. OnlySettledIsForgotten'  BY <1>0 DEF Books, OnlySettledIsForgotten, Recorded, Holds
  <2>4. ReplayIsHeld'  BY DEF ReplayIsHeld, Holds
  <2> QED BY <2>1, <2>2, <2>3, <2>4 DEF Books
<1>3. Ledger'
  <2>1. SeenIsPast'  BY <1>0 DEF SeenIsPast, Typed, Contract
  <2>2. RecordedIsCovered' /\ AmountsFit' /\ NoOverlap' /\ TransfersAreTraceable'
    BY <1>0 DEF Ledger, RecordedIsCovered, AmountsFit, NoOverlap, live, TransfersAreTraceable, transferOf
  <2> QED BY <2>1, <2>2 DEF Ledger
<1>4. Worker'
  <2>1. eligible = {}  BY <1>0 DEF Worker, StageFits, Serving, Busy
  <2> QED
    BY <1>0, <2>1 DEF Worker, StageFits, ServedIsFree, JobIsCurrent, ServedAccrued, NothingOpen,
                      Serving, Busy, Paying
<1> QED
  BY <1>1, <1>2, <1>3, <1>4 DEF Inv

LEMMA FindCandidatesStep ==
  ASSUME Inv, FindCandidates
  PROVE  Inv'
<1>0. Typed /\ Worker /\ pc = "recovering"  BY DEF Inv, FindCandidates, Goto
<1> USE DEF FindCandidates, Goto
<1>1. Typed'
  BY <1>0 DEF Typed, Serving, Busy
<1>2. Books' /\ Ledger'
  BY <1>0, QuietStep
<1>3. Worker'
  BY <1>0 DEF Worker, StageFits, ServedIsFree, JobIsCurrent, ServedAccrued, NothingOpen,
              Serving, Busy, Paying, blockedStreamIds
<1> QED
  BY <1>1, <1>2, <1>3 DEF Inv

LEMMA EndCycleStep ==
  ASSUME Inv, EndCycle
  PROVE  Inv'
<1>0. Typed /\ Worker /\ pc = "serving"  BY DEF Inv, EndCycle, Goto
<1> USE DEF EndCycle, Goto
<1>1. Typed'
  BY <1>0 DEF Typed, Serving, Busy
<1>2. Books' /\ Ledger'
  BY <1>0, QuietStep
<1>3. Worker'
  BY <1>0 DEF Worker, StageFits, ServedIsFree, JobIsCurrent, ServedAccrued, NothingOpen,
              Serving, Busy, Paying
<1> QED
  BY <1>1, <1>2, <1>3 DEF Inv

\* The time resolved for a recovered amount explains it.
LEMMA ResolvedFacts ==
  ASSUME time \in Nat, NEW s, NEW amount, withdrawTimes(s, amount) # {}
  PROVE  /\ resolved(s, amount) \in 0 .. time
         /\ withdrawable(seen[s], resolved(s, amount)) = amount
<1> DEFINE S == withdrawTimes(s, amount)
<1>1. S \in SUBSET Nat /\ S # {} /\ \A t \in S : t \in 0 .. time /\ withdrawable(seen[s], t) = amount
  BY DEF withdrawTimes
<1>2. \E n \in S : \A m \in S : n <= m
  <2> HIDE DEF S
  <2> QED BY <1>1, LeastNat
<1>3. resolved(s, amount) \in S
  BY <1>2 DEF resolved
<1> QED
  BY <1>1, <1>3

LEMMA PickStep ==
  ASSUME Inv, NEW s \in eligible, Pick(s)
  PROVE  Inv'
<1>0. Typed /\ Worker /\ pc = "serving" /\ pc' = "preparing"  BY DEF Inv, Pick, Goto
<1>1. s \in Streams /\ time \in Nat /\ seen[s] \in Contract /\ Curve[time] \in Nat
  BY <1>0, MaxTimeAssumption, AutoWithdrawAssumption DEF Typed
<1>2. \E amount \in Nat, t \in Nat, p \in Nat :
        /\ job' = [stream |-> s, amount |-> amount, time |-> t, pending |-> p]
        /\ t <= time /\ amount = withdrawable(seen[s], t)
  <2>1. CASE config.host /\ recoverablePending(s) # {}
    <3>1. PICK i \in strongest(s) :
            /\ withdrawTimes(s, transfers[i].amount) # {}
            /\ job' = [ stream |-> s, amount |-> transfers[i].amount,
                        time |-> resolved(s, transfers[i].amount), pending |-> i ]
      BY <2>1 DEF Pick
    <3>2. i \in DOMAIN transfers  BY DEF strongest, recoverablePending
    <3>3. transfers[i] \in TransferType /\ i \in Nat
      BY <3>2, <1>0, ElementOfSeq DEF Typed
    <3>4. transfers[i].amount \in Nat  BY <3>3 DEF TransferType
    <3> DEFINE t == resolved(s, transfers[i].amount)
    <3>5. t \in 0 .. time /\ withdrawable(seen[s], t) = transfers[i].amount
      BY <3>1, <1>1, ResolvedFacts
    <3>6. t \in Nat /\ t <= time  BY <3>5, <1>1
    <3> HIDE DEF t
    <3>7. job' = [stream |-> s, amount |-> transfers[i].amount, time |-> t, pending |-> i]
      BY <3>1 DEF t
    <3> QED BY <3>3, <3>4, <3>5, <3>6, <3>7
  <2>2. CASE ~(config.host /\ recoverablePending(s) # {})
    <3>1. job' = [ stream |-> s, amount |-> withdrawable(seen[s], time), time |-> time, pending |-> 0 ]
      BY <2>2 DEF Pick, None
    <3>2. withdrawable(seen[s], time) > 0
      BY <1>0 DEF Worker, ServedAccrued, Serving
    <3>3. withdrawable(seen[s], time) \in Nat
      BY <3>2, <1>1 DEF withdrawable, Contract
    <3> QED BY <3>1, <3>3, <1>1
  <2> QED BY <2>1, <2>2
<1>3. /\ job' \in Job /\ job'.stream = s /\ job'.time <= time
      /\ job'.amount = withdrawable(seen[s], job'.time)
  <2>1. PICK amount \in Nat, t \in Nat, p \in Nat :
        /\ job' = [stream |-> s, amount |-> amount, time |-> t, pending |-> p]
        /\ t <= time /\ amount = withdrawable(seen[s], t)
    BY <1>2
  <2> QED BY <2>1, <1>1 DEF Job
<1>4. /\ eligible' = eligible \ {s}
      /\ UNCHANGED <<now, config, escrow, transfers, journal, disk, time, seen, unrecovered, faults>>
  BY DEF Pick
<1>5. Typed'
  BY <1>0, <1>1, <1>3, <1>4 DEF Typed, Serving, Busy
<1>6. Books' /\ Ledger'
  BY <1>0, <1>4, QuietStep
<1>7. Worker'
  <2>1. StageFits'  BY <1>0, <1>3, <1>4 DEF Worker, StageFits, Serving, Busy
  <2>2. ServedIsFree'  BY <1>0, <1>3, <1>4 DEF Worker, ServedIsFree
  <2>3. JobIsCurrent'  BY <1>0 DEF JobIsCurrent, Paying
  <2>4. ServedAccrued'
    BY <1>0, <1>3, <1>4 DEF Worker, ServedAccrued, Serving, withdrawable
  <2>5. NothingOpen'  BY <1>0 DEF NothingOpen
  <2> QED BY <2>1, <2>2, <2>3, <2>4, <2>5 DEF Worker
<1> QED
  BY <1>5, <1>6, <1>7 DEF Inv

LEMMA PickFailsStep ==
  ASSUME Inv, NEW s, PickFails(s)
  PROVE  Inv'
<1>0. Typed /\ Worker /\ pc = "serving"  BY DEF Inv, PickFails
<1> USE DEF PickFails
<1>1. Typed'
  BY <1>0 DEF Typed
<1>2. Books' /\ Ledger'
  BY <1>0, QuietStep
<1>3. Worker'
  BY <1>0 DEF Worker, StageFits, ServedIsFree, JobIsCurrent, ServedAccrued, NothingOpen,
              Serving, Busy, Paying, withdrawable
<1> QED
  BY <1>1, <1>2, <1>3 DEF Inv

----------------------------------------------------------------------------
(* The worker's steps: one withdrawal *)

\* What failed leaves nothing behind but what the journal holds.
LEMMA GivenUp ==
  ASSUME Inv, pc \in Busy, GiveUp, UNCHANGED <<now, time, seen, unrecovered, eligible>>,
         escrow' \in [Streams -> Contract], transfers' \in Seq(TransferType),
         journal' \in SUBSET EntryType, disk' \in SUBSET EntryType,
         \A e \in journal' : e.stream = job.stream \/ \E x \in journal : x.stream = e.stream
  PROVE  Typed' /\ Worker'
<1>0. Typed /\ Worker /\ pc' = "serving" /\ job' = NoJob  BY DEF Inv, GiveUp
<1>1. Typed'
  <2>1. /\ pc' \in Serving \cup {"idle", "recovering", "down"}
        /\ pc' \in Busy => job' \in Job
        /\ job' = NoJob \/ job'.stream \in Streams
    BY <1>0 DEF Serving, Busy
  <2>2. now \in 0 .. MaxTime /\ time \in 0 .. now /\ seen \in [Streams -> Contract]
    BY <1>0 DEF Typed
  <2>3. unrecovered \in SUBSET EntryType /\ eligible \in SUBSET Streams
    BY <1>0 DEF Typed
  <2> QED BY <2>1, <2>2, <2>3 DEF Typed
<1>2. unrecovered = {} /\ job.stream \notin eligible
  BY <1>0 DEF Worker, StageFits, Busy
<1>3. StageFits'
  BY <1>0, <1>2 DEF StageFits, Serving, Busy
<1>4. ServedIsFree'
  BY <1>0, <1>2 DEF Worker, ServedIsFree, Busy
<1>5. JobIsCurrent' /\ NothingOpen'
  BY <1>0 DEF JobIsCurrent, NothingOpen, Paying, Busy
<1>6. ServedAccrued'
  BY <1>0 DEF Worker, ServedAccrued, Serving, Busy, withdrawable
<1> QED
  BY <1>1, <1>3, <1>4, <1>5, <1>6 DEF Worker

\* The next stage of a withdrawal that is being paid.
LEMMA Advanced ==
  ASSUME Inv, pc \in Paying, pc' \in Paying \ {"journaling"},
         UNCHANGED <<now, escrow, time, seen, unrecovered, eligible>>,
         job' \in Job, job'.stream = job.stream, job'.time = job.time, job'.amount = job.amount,
         transfers' \in Seq(TransferType),
         journal' \in SUBSET EntryType, disk' \in SUBSET EntryType,
         \A e \in journal' : e \in journal \/ Ref(e) = Ref(job),
         pc' = "transferring" =>
           pc = "journaling" /\ UNCHANGED transfers /\ \E e \in disk' : Ref(e) = Ref(job)
  PROVE  Typed' /\ Worker'
<1>0. Typed /\ Worker /\ pc \in Busy /\ pc' \in Busy  BY DEF Inv, Paying
<1>1. Typed'
  <2>1. pc' \in Serving \cup {"idle", "recovering", "down"}
    BY <1>0 DEF Serving
  <2>2. job'.stream \in Streams  BY DEF Job
  <2>3. now \in 0 .. MaxTime /\ time \in 0 .. now /\ seen \in [Streams -> Contract]
        /\ escrow \in [Streams -> Contract]
    BY <1>0 DEF Typed
  <2>4. unrecovered \in SUBSET EntryType /\ eligible \in SUBSET Streams
    BY <1>0 DEF Typed
  <2> QED BY <2>1, <2>2, <2>3, <2>4 DEF Typed
<1>2. unrecovered = {} /\ job.stream \notin eligible
  BY <1>0 DEF Worker, StageFits, Busy
<1>3. StageFits'
  BY <1>0, <1>2 DEF StageFits, Serving, Busy
<1>4. ServedIsFree'
  <2>1. \A s \in eligible, e \in journal' : e.stream # s
    BY <1>0, <1>2 DEF Worker, ServedIsFree, Ref
  <2>2. \A e \in journal' : e.stream = job.stream => Ref(e) = Ref(job)
    BY <1>0 DEF Worker, ServedIsFree
  <2> QED BY <2>1, <2>2 DEF ServedIsFree, Ref, Paying, Busy
<1>5. JobIsCurrent'
  BY <1>0 DEF Worker, JobIsCurrent, Holds, Ref
<1>6. ServedAccrued'
  BY <1>0 DEF Worker, ServedAccrued, Serving, withdrawable
<1>7. NothingOpen'
  BY <1>0 DEF Worker, NothingOpen, live, Recorded
<1> QED
  BY <1>1, <1>3, <1>4, <1>5, <1>6, <1>7 DEF Worker

LEMMA PrepareStep ==
  ASSUME Inv, Prepare
  PROVE  Inv'
<1>0. Typed /\ Books /\ Ledger /\ Worker /\ pc = "preparing" /\ pc \in Busy
  BY DEF Inv, Prepare, Busy
<1>1. UNCHANGED <<now, config, escrow, transfers, journal, disk, time, seen, unrecovered, eligible>>
  BY DEF Prepare
<1>2. Books' /\ Ledger'
  BY <1>0, <1>1, QuietStep
<1>3. CASE GiveUp
  <2>1. Typed' /\ Worker'
    BY <1>0, <1>1, <1>3, GivenUp DEF Typed
  <2> QED BY <1>2, <2>1 DEF Inv
<1>4. CASE /\ Accepts(Entry("transfer"))
           /\ pc' = IF job.pending = None THEN "journaling" ELSE "claiming"
           /\ UNCHANGED job
  <2>0. pc' \in {"journaling", "claiming"} /\ job' = job  BY <1>4
  <2>1. Typed'
    BY <1>0, <1>1, <2>0 DEF Typed, Serving, Busy
  <2>2. seen[job.stream].cid = escrow[job.stream].cid
    BY <1>4 DEF Accepts, Entry
  <2>3. StageFits' /\ ServedIsFree' /\ JobIsCurrent' /\ ServedAccrued'
    BY <1>0, <1>1, <2>0, <2>2 DEF Worker, StageFits, ServedIsFree, JobIsCurrent, ServedAccrued,
                                  Serving, Busy, Paying, withdrawable, Ref
  <2>4. \A e \in journal : e.stream # job.stream
    BY <1>0 DEF Worker, ServedIsFree
  <2>5. NothingOpen'
    <3> SUFFICES ASSUME NEW i \in DOMAIN transfers, live(i), transfers[i].stream = job.stream
                 PROVE  Recorded(transfers[i])
      BY <1>1, <2>0 DEF NothingOpen, live, Recorded
    <3>1. ASSUME NEW e \in disk, <<transfers[i].stream, transfers[i].time>> = Ref(e)
          PROVE  Recorded(transfers[i])
      <4>1. Recorded(e) \/ Holds(journal, e)  BY <1>0 DEF Books, OnlySettledIsForgotten
      <4>2. ~Holds(journal, e)  BY <3>1, <2>4 DEF Holds, Ref
      <4> QED BY <3>1, <4>1, <4>2 DEF Recorded, Ref
    <3> QED BY <1>0, <3>1 DEF Ledger, TransfersAreTraceable, transferOf, live, Recorded
  <2> QED BY <1>2, <2>1, <2>3, <2>5 DEF Inv, Worker
<1> QED
  BY <1>3, <1>4 DEF Prepare

LEMMA WaitStep ==
  ASSUME Inv, Wait
  PROVE  Inv'
<1>0. Typed /\ pc = "waiting" /\ pc \in Busy /\ pc \in Paying
  BY DEF Inv, Wait, Busy, Paying
<1>1. UNCHANGED <<now, config, escrow, transfers, journal, disk, time, seen, unrecovered, eligible>>
  BY DEF Wait
<1>2. Books' /\ Ledger'
  BY <1>0, <1>1, QuietStep
<1>3. CASE GiveUp
  <2>1. Typed' /\ Worker'
    BY <1>0, <1>1, <1>3, GivenUp DEF Typed
  <2> QED BY <1>2, <2>1 DEF Inv
<1>4. CASE job' = [job EXCEPT !.pending = Len(transfers)] /\ pc' = "claiming"
  <2>1. job \in Job /\ Len(transfers) \in Nat
    BY <1>0, LenProperties DEF Typed
  <2>2. /\ job' \in Job /\ job'.stream = job.stream /\ job'.time = job.time
        /\ job'.amount = job.amount
    BY <1>4, <2>1 DEF Job
  <2>3. Typed' /\ Worker'
    BY <1>0, <1>1, <1>4, <2>2, Advanced DEF Typed, Paying, Busy
  <2> QED BY <1>2, <2>3 DEF Inv
<1> QED
  BY <1>3, <1>4 DEF Wait

LEMMA JournalTransferStep ==
  ASSUME Inv, JournalTransfer
  PROVE  Inv'
<1>0. Typed /\ Books /\ Ledger /\ Worker /\ pc = "journaling" /\ pc \in Busy /\ pc \in Paying
  BY DEF Inv, JournalTransfer, Busy, Paying
<1> DEFINE N == Put("transfer")
<1>1. UNCHANGED <<now, config, escrow, transfers, time, seen, unrecovered, eligible>>
  BY DEF JournalTransfer
<1>2. /\ journal' = N
      /\ disk' = N \/ disk' = disk
      /\ \/ pc' = "transferring" /\ UNCHANGED job /\ disk' = N
         \/ GiveUp
  BY DEF JournalTransfer, Flush, FlushFails
<1>3. /\ N \in SUBSET EntryType /\ OneEntry(N) /\ Ref(Entry("transfer")) = Ref(job)
      /\ Entry("transfer") \in N
      /\ \A x \in journal : Holds(N, x)
      /\ \A y \in N : y \in journal \/ y = Entry("transfer")
      /\ Entry("transfer").stream = job.stream
      /\ Entry("transfer").cid = seen[job.stream].cid
  BY <1>0, PutFacts DEF Books, Worker
<1> HIDE DEF N
<1>4. ContractsMove /\ TransfersStay /\ unrecovered = {} /\ now' \in now .. MaxTime
  BY <1>0, <1>1, ContractsStay, UnchangedStays, MaxTimeAssumption DEF Worker, StageFits, Typed
<1>5. \A y \in N : escrow'[y.stream].cid = y.cid \/ y.time \in escrow'[y.stream].recorded
  BY <1>0, <1>1, <1>3, <1>4 DEF Worker, JobIsCurrent, ContractsMove
<1>6. /\ Books'
      /\ \A x \in disk : x.time \in escrow'[x.stream].recorded \/ \E y \in disk' : Ref(y) = Ref(x)
  <2>1. /\ pc # "down" /\ unrecovered' \subseteq unrecovered /\ \A x \in unrecovered' : Holds(N, x)
        /\ \A x \in journal : x.time \in escrow'[x.stream].recorded \/ Holds(N, x)
    BY <1>0, <1>1, <1>3, <1>4
  <2>2. N \in SUBSET EntryType /\ OneEntry(N) /\ journal' = N /\ (disk' = N \/ disk' = disk)
    BY <1>2, <1>3
  <2> QED BY <1>4, <1>5, <2>1, <2>2, BooksKept
<1>7. Ledger'
  BY <1>1, <1>4, <1>6, LedgerKept
<1>8. journal' \in SUBSET EntryType /\ disk' \in SUBSET EntryType
      /\ \A e \in journal' : e \in journal \/ Ref(e) = Ref(job)
  <2>1. journal \in SUBSET EntryType /\ disk \in SUBSET EntryType  BY <1>0 DEF Typed
  <2>2. \A e \in N : e \in journal \/ Ref(e) = Ref(job)  BY <1>3
  <2> QED BY <1>2, <1>3, <2>1, <2>2
<1>9. Typed' /\ Worker'
  <2>1. CASE GiveUp
    <3>1. \A e \in journal' : e.stream = job.stream \/ \E x \in journal : x.stream = e.stream
      BY <1>8 DEF Ref
    <3> QED BY <1>0, <1>1, <1>4, <1>8, <2>1, <3>1, GivenUp DEF Typed
  <2>2. CASE pc' = "transferring" /\ UNCHANGED job /\ disk' = N
    <3>1. job' \in Job /\ transfers' \in Seq(TransferType)  BY <1>0, <1>1, <2>2 DEF Typed
    <3>2. \E e \in disk' : Ref(e) = Ref(job)  BY <2>2, <1>3
    <3>3. pc' \in Paying \ {"journaling"}  BY <2>2 DEF Paying, Busy
    <3> QED BY <1>0, <1>1, <1>8, <2>2, <3>1, <3>2, <3>3, Advanced
  <2> QED BY <1>2, <2>1, <2>2
<1> QED
  BY <1>6, <1>7, <1>9 DEF Inv

LEMMA TransferStep ==
  ASSUME Inv, Transfer
  PROVE  Inv'
<1>0. Typed /\ Books /\ Ledger /\ Worker /\ pc = "transferring" /\ pc \in Busy /\ pc \in Paying
  BY DEF Inv, Transfer, Busy, Paying
<1>1. UNCHANGED <<now, config, escrow, journal, disk, time, seen, unrecovered, eligible>>
  BY DEF Transfer
<1>2. \/ \E state \in {"accepted", "pending"} : Sent(state)
      \/ UNCHANGED transfers /\ GiveUp
  BY DEF Transfer
<1>3. GiveUp \/ (pc' \in {"recording", "waiting"} /\ UNCHANGED job)
  BY DEF Transfer
<1> DEFINE x(state) == [ stream |-> job.stream, time |-> job.time,
                         amount |-> job.amount, state |-> state ]
           n == Len(transfers) + 1
<1>4. job \in Job /\ job.time <= time /\ job.amount = withdrawable(seen[job.stream], job.time)
  BY <1>0 DEF Typed, Worker, ServedAccrued
<1>5. job.stream \in Streams /\ job.time \in Nat /\ job.amount \in Nat
  BY <1>4 DEF Job
<1>6. now \in Nat /\ time \in Nat /\ time <= now /\ job.time \in 0 .. MaxTime
  BY <1>0, <1>4, <1>5, MaxTimeAssumption DEF Typed
<1>7. seen[job.stream] = escrow[job.stream]
  BY <1>0, <1>5 DEF Worker, JobIsCurrent, Ledger, SeenIsPast
<1>8. /\ escrow[job.stream].totalWithdrawn \in Nat
      /\ job.amount = Curve[job.time] - escrow[job.stream].totalWithdrawn
  BY <1>0, <1>4, <1>5, <1>7 DEF withdrawable, Typed, Contract
<1>9. Curve[job.time] \in Nat
  BY <1>6, AutoWithdrawAssumption
<1>10. ContractsMove
  BY <1>1, ContractsStay
<1>11. Books'
  BY <1>0, <1>1, <1>10, BooksStay
<1>12. ASSUME NEW state \in {"accepted", "pending"}, Sent(state)
       PROVE  transfers' \in Seq(TransferType) /\ Ledger'
  <2>1. transfers \in Seq(TransferType)  BY <1>0 DEF Typed
  <2>2. x(state) \in TransferType  BY <1>5 DEF TransferType
  <2>3. transfers' = Append(transfers, x(state))  BY <1>12 DEF Sent
  <2>4. /\ transfers' \in Seq(TransferType) /\ n \in Nat
        /\ DOMAIN transfers = 1 .. n - 1 /\ DOMAIN transfers' = 1 .. n
        /\ \A i \in 1 .. n - 1 : transfers'[i] = transfers[i]
        /\ transfers'[n] = x(state)
    <3> HIDE DEF x
    <3> QED BY <2>1, <2>2, <2>3, AppendProperties, LenProperties
  <2>5. /\ x(state).stream = job.stream /\ x(state).time = job.time /\ x(state).amount = job.amount
    OBVIOUS
  <2> HIDE DEF n, x
  <2>6. SeenIsPast' /\ RecordedIsCovered'
    BY <1>0, <1>1 DEF Ledger, SeenIsPast, RecordedIsCovered
  <2>7. AmountsFit'
    <3>1. \A i \in 1 .. n - 1 : transfers[i].time <= now /\ transfers[i].amount <= Curve[transfers[i].time]
      BY <1>0, <2>4 DEF Ledger, AmountsFit
    <3>2. job.time <= now /\ job.amount <= Curve[job.time]
      BY <1>4, <1>5, <1>6, <1>8, <1>9
    <3>3. \A i \in 1 .. n : i \in 1 .. n - 1 \/ i = n  BY <2>4
    <3> QED BY <1>1, <2>4, <2>5, <3>1, <3>2, <3>3 DEF AmountsFit
  <2>8. NoOverlap'
    <3> SUFFICES ASSUME NEW i \in 1 .. n, NEW j \in 1 .. n, i < j,
                        transfers'[i].state # "expired", transfers'[j].state # "expired",
                        transfers'[i].stream = transfers'[j].stream
                 PROVE  Curve[transfers'[i].time] <= Curve[transfers'[j].time] - transfers'[j].amount
      BY <2>4 DEF NoOverlap, live
    <3>1. i \in 1 .. n - 1 /\ (j \in 1 .. n - 1 \/ j = n)  BY <2>4
    <3>2. CASE j \in 1 .. n - 1
      BY <1>0, <2>4, <3>1, <3>2 DEF Ledger, NoOverlap, live
    <3>3. CASE j = n
      <4>1. live(i) /\ transfers[i].stream = job.stream
        BY <2>4, <2>5, <3>1, <3>3 DEF live
      <4>2. transfers[i].time \in escrow[job.stream].recorded
        BY <1>0, <2>4, <3>1, <4>1 DEF Worker, NothingOpen, Recorded
      <4>3. Curve[transfers[i].time] <= escrow[job.stream].totalWithdrawn
        BY <1>0, <1>5, <4>2 DEF Ledger, RecordedIsCovered
      <4>4. Curve[transfers[i].time] <= Curve[job.time] - job.amount
        BY <1>8, <1>9, <4>3
      <4> QED BY <2>4, <2>5, <3>1, <3>3, <4>4
    <3> QED BY <3>1, <3>2, <3>3
  <2>9. TransfersAreTraceable'
    <3> SUFFICES ASSUME NEW i \in 1 .. n, transfers'[i].state # "expired"
                 PROVE  \/ transfers'[i].time \in escrow[transfers'[i].stream].recorded
                        \/ \E e \in disk : <<transfers'[i].stream, transfers'[i].time>> = Ref(e)
      BY <1>1, <2>4 DEF TransfersAreTraceable, transferOf, Ref
    <3>1. CASE i \in 1 .. n - 1
      BY <1>0, <2>4, <3>1 DEF Ledger, TransfersAreTraceable, transferOf
    <3>2. CASE i = n
      <4>1. Holds(disk, job)  BY <1>0 DEF Worker, JobIsCurrent
      <4> QED BY <2>4, <2>5, <3>2, <4>1 DEF Holds, Ref
    <3> QED BY <2>4, <3>1, <3>2
  <2> QED BY <2>4, <2>6, <2>7, <2>8, <2>9 DEF Ledger
<1>13. transfers' \in Seq(TransferType) /\ Ledger'
  <2>1. ASSUME UNCHANGED transfers, GiveUp PROVE transfers' \in Seq(TransferType) /\ Ledger'
    <3>1. Ledger'  BY <1>0, <1>1, <2>1, QuietStep
    <3> QED BY <1>0, <2>1, <3>1 DEF Typed
  <2> QED BY <1>2, <1>12, <2>1
<1>14. /\ journal' \in SUBSET EntryType /\ disk' \in SUBSET EntryType
       /\ escrow' \in [Streams -> Contract]
       /\ \A e \in journal' : e \in journal
  BY <1>0, <1>1 DEF Typed
<1>15. Typed' /\ Worker'
  <2>1. CASE GiveUp
    BY <1>0, <1>1, <1>13, <1>14, <2>1, GivenUp
  <2>2. CASE pc' \in {"recording", "waiting"} /\ UNCHANGED job
    <3>1. pc' \in Paying \ {"journaling"}  BY <2>2 DEF Paying, Busy
    <3> QED BY <1>0, <1>1, <1>4, <1>13, <1>14, <2>2, <3>1, Advanced
  <2> QED BY <1>3, <2>1, <2>2
<1> QED
  BY <1>11, <1>13, <1>15 DEF Inv

LEMMA ClaimStep ==
  ASSUME Inv, Claim
  PROVE  Inv'
<1>0. Typed /\ pc = "claiming" /\ pc \in Busy /\ pc \in Paying
  BY DEF Inv, Claim, Busy, Paying
<1>1. UNCHANGED <<now, config, escrow, journal, disk, time, seen, unrecovered, eligible>>
  BY DEF Claim
<1>2. TransfersStay
  <2>1. \/ UNCHANGED transfers
        \/ /\ transfers[job.pending].state = "pending"
           /\ transfers' = [transfers EXCEPT ![job.pending].state = "accepted"]
    BY DEF Claim
  <2> QED BY <2>1, SettledStays, UnchangedStays
<1>3. GiveUp \/ (pc' = "recording" /\ UNCHANGED job)
  BY DEF Claim
<1>4. ContractsMove /\ now' \in now .. MaxTime
  BY <1>0, <1>1, ContractsStay, MaxTimeAssumption DEF Typed
<1>5. Books'
  BY <1>0, <1>1, <1>4, BooksStay
<1>6. Ledger'
  BY <1>1, <1>2, <1>4, LedgerKept
<1>7. /\ journal' \in SUBSET EntryType /\ disk' \in SUBSET EntryType
      /\ escrow' \in [Streams -> Contract] /\ transfers' \in Seq(TransferType)
      /\ \A e \in journal' : e \in journal
  BY <1>0, <1>1, <1>2 DEF Typed, TransfersStay
<1>8. Typed' /\ Worker'
  <2>1. CASE GiveUp
    BY <1>0, <1>1, <1>7, <2>1, GivenUp
  <2>2. CASE pc' = "recording" /\ UNCHANGED job
    <3>1. pc' \in Paying \ {"journaling"} /\ job \in Job  BY <1>0, <2>2 DEF Paying, Busy, Typed
    <3> QED BY <1>0, <1>1, <1>7, <2>2, <3>1, Advanced
  <2> QED BY <1>3, <2>1, <2>2
<1> QED
  BY <1>5, <1>6, <1>8 DEF Inv

LEMMA JournalRecordStep ==
  ASSUME Inv, JournalRecord
  PROVE  Inv'
<1>0. Typed /\ Books /\ Ledger /\ Worker /\ pc = "recording" /\ pc \in Busy /\ pc \in Paying
  BY DEF Inv, JournalRecord, Busy, Paying
<1> DEFINE N == Put("record")
<1>1. UNCHANGED <<now, config, escrow, transfers, time, seen, unrecovered, eligible>>
  BY DEF JournalRecord
<1>2. /\ journal' = N
      /\ disk' = N \/ disk' = disk
      /\ GiveUp \/ (pc' = "submitting" /\ UNCHANGED job)
  BY DEF JournalRecord, Flush, FlushFails
<1>3. /\ N \in SUBSET EntryType /\ OneEntry(N) /\ Ref(Entry("record")) = Ref(job)
      /\ \A x \in journal : Holds(N, x)
      /\ \A y \in N : y \in journal \/ y = Entry("record")
      /\ Entry("record").stream = job.stream
      /\ Entry("record").cid = seen[job.stream].cid
  BY <1>0, PutFacts DEF Books, Worker
<1> HIDE DEF N
<1>4. ContractsMove /\ TransfersStay /\ unrecovered = {} /\ now' \in now .. MaxTime
  BY <1>0, <1>1, ContractsStay, UnchangedStays, MaxTimeAssumption DEF Worker, StageFits, Typed
<1>5. \A y \in N : escrow'[y.stream].cid = y.cid \/ y.time \in escrow'[y.stream].recorded
  BY <1>0, <1>1, <1>3, <1>4 DEF Worker, JobIsCurrent, ContractsMove
<1>6. /\ Books'
      /\ \A x \in disk : x.time \in escrow'[x.stream].recorded \/ \E y \in disk' : Ref(y) = Ref(x)
  <2>1. /\ pc # "down" /\ unrecovered' \subseteq unrecovered /\ \A x \in unrecovered' : Holds(N, x)
        /\ \A x \in journal : x.time \in escrow'[x.stream].recorded \/ Holds(N, x)
    BY <1>0, <1>1, <1>3, <1>4
  <2>2. N \in SUBSET EntryType /\ OneEntry(N) /\ journal' = N /\ (disk' = N \/ disk' = disk)
    BY <1>2, <1>3
  <2> QED BY <1>4, <1>5, <2>1, <2>2, BooksKept
<1>7. Ledger'
  BY <1>1, <1>4, <1>6, LedgerKept
<1>8. journal' \in SUBSET EntryType /\ disk' \in SUBSET EntryType
      /\ \A e \in journal' : e \in journal \/ Ref(e) = Ref(job)
  <2>1. journal \in SUBSET EntryType /\ disk \in SUBSET EntryType  BY <1>0 DEF Typed
  <2>2. \A e \in N : e \in journal \/ Ref(e) = Ref(job)  BY <1>3
  <2> QED BY <1>2, <1>3, <2>1, <2>2
<1>9. Typed' /\ Worker'
  <2>1. CASE GiveUp
    <3>1. \A e \in journal' : e.stream = job.stream \/ \E x \in journal : x.stream = e.stream
      BY <1>8 DEF Ref
    <3> QED BY <1>0, <1>1, <1>4, <1>8, <2>1, <3>1, GivenUp DEF Typed
  <2>2. CASE pc' = "submitting" /\ UNCHANGED job
    <3>1. job' \in Job /\ transfers' \in Seq(TransferType)  BY <1>0, <1>1, <2>2 DEF Typed
    <3>2. pc' \in Paying \ {"journaling"}  BY <2>2 DEF Paying, Busy
    <3> QED BY <1>0, <1>1, <1>8, <2>2, <3>1, <3>2, Advanced
  <2> QED BY <1>2, <2>1, <2>2
<1> QED
  BY <1>6, <1>7, <1>9 DEF Inv

\* Removing a settled entry, or counting an attempt, keeps the books; the entry
\* itself is the one being submitted or replayed.
LEMMA Resubmitted ==
  ASSUME Inv, pc # "down", NEW e \in EntryType,
         Holds(journal, e) \/ (pc \in Busy /\ Ref(e) = Ref(job)),
         Withdraw_TokenStandard(e) \/ UNCHANGED escrow,
         \/ /\ Flush(Removed(journal, e)) \/ FlushFails(Removed(journal, e))
            /\ e.time \in escrow'[e.stream].recorded
            /\ \A x \in unrecovered' : Ref(x) # Ref(e)
         \/ Flush(Bumped(journal, e)),
         UNCHANGED <<now, transfers, seen>>, unrecovered' \subseteq unrecovered
  PROVE  /\ Books' /\ Ledger' /\ ContractsMove
         /\ journal' \in SUBSET EntryType /\ disk' \in SUBSET EntryType
         /\ \A y \in journal' : \E x \in journal : x.stream = y.stream /\ x.time = y.time
<1>0. Typed /\ Books /\ Ledger /\ Worker  BY DEF Inv
<1>1. \A x \in journal : x.stream = e.stream => Ref(x) = Ref(e)
  BY <1>0 DEF Books, OneEach, OneEntry, Worker, ServedIsFree, Holds, Ref
<1>2. ContractsMove
  <2>1. \A x \in journal \cup disk \cup unrecovered :
          x.stream = e.stream => Recorded(x) \/ Ref(x) = Ref(e)
    BY <1>1, SameStream
  <2> QED BY <2>1, WithdrawMoves, ContractsStay
<1>3. journal \in SUBSET EntryType /\ disk \in SUBSET EntryType /\ OneEntry(journal)
  BY <1>0 DEF Typed, Books, OneEach
<1>4. TransfersStay /\ now' \in now .. MaxTime
  BY <1>0, UnchangedStays, MaxTimeAssumption DEF Typed
<1>5. \A x \in unrecovered : Holds(journal, x)
  BY <1>0 DEF Books, ReplayIsHeld
<1>6. CASE /\ Flush(Removed(journal, e)) \/ FlushFails(Removed(journal, e))
           /\ e.time \in escrow'[e.stream].recorded
           /\ \A x \in unrecovered' : Ref(x) # Ref(e)
  <2> DEFINE N == Removed(journal, e)
  <2>1. journal' = N /\ (disk' = N \/ disk' = disk)
    BY <1>6 DEF Flush, FlushFails
  <2>2. N \in SUBSET EntryType /\ OneEntry(N) /\ N \subseteq journal
    BY <1>3, RemovedFacts DEF OneEntry
  <2>3. \A x \in journal : x.time \in escrow'[x.stream].recorded \/ Holds(N, x)
    BY <1>6, RemovedFacts DEF Holds, Ref
  <2>4. \A x \in unrecovered' : Holds(N, x)
    BY <1>5, <1>6, RemovedFacts DEF Holds, Ref
  <2> HIDE DEF N
  <2>5. \A y \in N : escrow'[y.stream].cid = y.cid \/ y.time \in escrow'[y.stream].recorded
    BY <1>2, <2>2 DEF ContractsMove
  <2>6. /\ Books'
        /\ \A x \in disk : x.time \in escrow'[x.stream].recorded \/ \E y \in disk' : Ref(y) = Ref(x)
    BY <1>2, <2>1, <2>2, <2>3, <2>4, <2>5, BooksKept
  <2>7. Ledger'
    BY <1>2, <1>4, <2>6, LedgerKept
  <2> QED BY <1>2, <1>3, <2>1, <2>2, <2>6, <2>7
<1>7. CASE Flush(Bumped(journal, e))
  <2> DEFINE N == Bumped(journal, e)
  <2>1. journal' = N /\ disk' = N
    BY <1>7 DEF Flush
  <2>2. /\ N \in SUBSET EntryType /\ OneEntry(N)
        /\ \A x \in journal : Holds(N, x)
        /\ \A y \in N : \E x \in journal : x.stream = y.stream /\ x.time = y.time /\ x.cid = y.cid
    BY <1>3, BumpedFacts
  <2> HIDE DEF N
  <2>3. \A x \in unrecovered' : Holds(N, x)
    BY <1>5, <2>2 DEF Holds
  <2>4. \A y \in N : escrow'[y.stream].cid = y.cid \/ y.time \in escrow'[y.stream].recorded
    BY <1>2, <2>2 DEF ContractsMove
  <2>5. /\ Books'
        /\ \A x \in disk : x.time \in escrow'[x.stream].recorded \/ \E y \in disk' : Ref(y) = Ref(x)
    BY <1>2, <2>1, <2>2, <2>3, <2>4, BooksKept
  <2>6. Ledger'
    BY <1>2, <1>4, <2>5, LedgerKept
  <2> QED BY <1>2, <2>1, <2>2, <2>5, <2>6
<1> QED
  BY <1>6, <1>7

LEMMA SubmitStep ==
  ASSUME Inv, Submit
  PROVE  Inv'
<1>0. Typed /\ Books /\ Worker /\ pc = "submitting" /\ pc \in Busy
  BY DEF Inv, Submit, Busy
<1> DEFINE e == Entry("record")
<1>1. UNCHANGED <<now, config, transfers, time, seen, unrecovered, eligible>> /\ GiveUp
  BY DEF Submit
<1>2. e \in EntryType /\ Ref(e) = Ref(job) /\ e.stream = job.stream
  BY <1>0, PutFacts DEF Books, Worker
<1> HIDE DEF e
<1>3. \/ /\ Withdraw_TokenStandard(e)
         /\ Flush(Removed(journal, e)) \/ FlushFails(Removed(journal, e))
      \/ /\ Withdraw_TokenStandard(e) \/ UNCHANGED escrow
         /\ Flush(Bumped(journal, e))
  BY DEF Submit, e
<1>4. Withdraw_TokenStandard(e) => e.time \in escrow'[e.stream].recorded
  BY <1>0, <1>2, WithdrawFacts DEF Inv, Ledger
<1>5. unrecovered = {} /\ pc # "down"
  BY <1>0 DEF Worker, StageFits
<1>6. /\ Books' /\ Ledger' /\ ContractsMove
      /\ journal' \in SUBSET EntryType /\ disk' \in SUBSET EntryType
      /\ \A y \in journal' : \E x \in journal : x.stream = y.stream /\ x.time = y.time
  BY <1>0, <1>1, <1>2, <1>3, <1>4, <1>5, Resubmitted
<1>7. escrow' \in [Streams -> Contract] /\ transfers' \in Seq(TransferType)
  BY <1>0, <1>1, <1>6 DEF ContractsMove, Typed
<1>8. Typed' /\ Worker'
  BY <1>0, <1>1, <1>6, <1>7, GivenUp
<1> QED
  BY <1>6, <1>8 DEF Inv

LEMMA RecoverStep ==
  ASSUME Inv, NEW e \in unrecovered, Recover(e)
  PROVE  Inv'
<1>0. Typed /\ Books /\ Worker /\ pc = "recovering"
  BY DEF Inv, Recover
<1>1. UNCHANGED <<now, config, transfers, pc, time, seen, eligible, job>>
      /\ unrecovered' = unrecovered \ {e}
  BY DEF Recover
<1>2. e \in EntryType /\ Holds(journal, e) /\ e.stream \in Streams
  BY <1>0 DEF Typed, EntryType, Books, ReplayIsHeld
<1>3. \/ /\ Withdraw_TokenStandard(e) \/ (Gone(e) /\ UNCHANGED escrow)
         /\ Flush(Removed(journal, e)) \/ FlushFails(Removed(journal, e))
      \/ /\ Withdraw_TokenStandard(e) \/ UNCHANGED escrow
         /\ Flush(Bumped(journal, e))
  BY DEF Recover
<1>4. Withdraw_TokenStandard(e) \/ (Gone(e) /\ UNCHANGED escrow)
        => e.time \in escrow'[e.stream].recorded
  BY <1>0, <1>2, WithdrawFacts DEF Inv, Ledger, Books, EntryIsCurrent, Gone, Recorded
<1>5. \A x \in unrecovered' : Ref(x) # Ref(e)
  BY <1>0, <1>1 DEF Books, OneEach, OneEntry, Ref
<1>6. /\ Books' /\ Ledger' /\ ContractsMove
      /\ journal' \in SUBSET EntryType /\ disk' \in SUBSET EntryType
      /\ \A y \in journal' : \E x \in journal : x.stream = y.stream /\ x.time = y.time
  BY <1>0, <1>1, <1>2, <1>3, <1>4, <1>5, Resubmitted
<1>7. Typed'
  BY <1>0, <1>1, <1>6 DEF ContractsMove, Typed, Busy, Serving
<1>8. Worker'
  BY <1>0, <1>1 DEF Worker, StageFits, ServedIsFree, JobIsCurrent, ServedAccrued, NothingOpen,
                    Serving, Busy, Paying
<1> QED
  BY <1>6, <1>7, <1>8 DEF Inv

----------------------------------------------------------------------------
(* The process and the operator *)

LEMMA DownStep ==
  ASSUME Inv, Down, pc # "down"
  PROVE  Inv'
<1>0. Typed /\ Books  BY DEF Inv
<1> USE DEF Down
<1>1. Typed'
  BY <1>0 DEF Typed, Serving, Busy
<1>2. ContractsMove /\ TransfersStay /\ now' \in now .. MaxTime
  BY <1>0, ContractsStay, UnchangedStays, MaxTimeAssumption DEF Typed
<1>3. Books'
  <2>1. OneEach'  BY <1>0 DEF Books, OneEach, OneEntry
  <2>2. EntryIsCurrent'  BY <1>2 DEF EntryIsCurrent, ContractsMove, Recorded
  <2>3. OnlySettledIsForgotten' /\ ReplayIsHeld'
    BY DEF OnlySettledIsForgotten, ReplayIsHeld
  <2> QED BY <2>1, <2>2, <2>3 DEF Books
<1>4. Ledger'
  BY <1>2, LedgerKept
<1>5. Worker'
  BY DEF Worker, StageFits, ServedIsFree, JobIsCurrent, ServedAccrued, NothingOpen,
         Serving, Busy, Paying
<1> QED
  BY <1>1, <1>3, <1>4, <1>5 DEF Inv

LEMMA RestartStep ==
  ASSUME Inv, Restart
  PROVE  Inv'
<1>0. Typed /\ Books /\ Worker /\ pc = "down" /\ pc' = "idle"  BY DEF Inv, Restart, Goto
<1> USE DEF Restart
<1>1. Typed'
  BY <1>0 DEF Typed, Serving, Busy
<1>2. ContractsMove /\ TransfersStay /\ now' \in now .. MaxTime
  BY <1>0, ContractsStay, UnchangedStays, MaxTimeAssumption DEF Typed
<1>3. unrecovered = {} /\ eligible = {}
  BY <1>0 DEF Worker, StageFits, Serving, Busy
<1>4. Books'
  <2>1. OneEach'  BY <1>0 DEF Books, OneEach, OneEntry
  <2>2. EntryIsCurrent'  BY <1>2 DEF EntryIsCurrent, ContractsMove, Recorded
  <2>3. OnlySettledIsForgotten' /\ ReplayIsHeld'
    BY <1>3 DEF OnlySettledIsForgotten, ReplayIsHeld, Holds
  <2> QED BY <2>1, <2>2, <2>3 DEF Books
<1>5. Ledger'
  BY <1>2, LedgerKept
<1>6. Worker'
  BY <1>0, <1>3 DEF Worker, StageFits, ServedIsFree, JobIsCurrent, ServedAccrued, NothingOpen,
                    Serving, Busy, Paying
<1> QED
  BY <1>1, <1>4, <1>5, <1>6 DEF Inv

\* The operator removes an entry once its transfer is recorded or known to have failed.
LEMMA ReconcileStep ==
  ASSUME Inv, NEW e \in stuck(disk), Reconcile(e)
  PROVE  Inv'
<1>0. Typed /\ Books /\ Ledger /\ Worker /\ pc = "down"  BY DEF Inv, Reconcile
<1>1. /\ disk' = disk \ {e}
      /\ UNCHANGED <<now, config, transfers, journal, worker, faults>>
      /\ IF executed(e) /\ ~Gone(e) THEN Withdraw_TokenStandard(e) ELSE UNCHANGED escrow
      /\ \A i \in transferOf(e) : e.phase = "transfer" => transfers[i].state # "pending"
  BY DEF Reconcile
<1>2. e \in disk /\ e \in EntryType
  BY <1>0 DEF stuck, Typed
<1>3. journal = {} /\ unrecovered = {}
  BY <1>0 DEF Worker, StageFits
<1>4. ContractsMove
  <2>1. \A x \in journal \cup disk \cup unrecovered :
          x.stream = e.stream => Recorded(x) \/ Ref(x) = Ref(e)
    BY <1>0, <1>2, <1>3 DEF Books, OneEach, OneEntry
  <2> QED BY <1>1, <1>2, <2>1, WithdrawMoves, ContractsStay
<1>5. \/ e.time \in escrow'[e.stream].recorded
      \/ \A i \in transferOf(e) : transfers[i].state = "expired"
  <2>1. CASE executed(e) /\ ~Gone(e)
    BY <1>0, <1>1, <1>2, <2>1, WithdrawFacts DEF Ledger
  <2>2. CASE executed(e) /\ Gone(e)
    BY <1>0, <1>1, <1>2, <2>2 DEF Books, EntryIsCurrent, Recorded, Gone
  <2>3. CASE ~executed(e)
    <3>1. e.phase = "transfer" /\ \A i \in transferOf(e) : transfers[i].state # "accepted"
      BY <1>2, <2>3 DEF executed, EntryType
    <3>2. \A i \in transferOf(e) : transfers[i] \in TransferType
      <4> TAKE i \in transferOf(e)
      <4>1. i \in DOMAIN transfers  BY DEF transferOf
      <4> QED BY <1>0, <4>1, ElementOfSeq DEF Typed
    <3> QED BY <1>1, <3>1, <3>2 DEF TransferType
  <2> QED BY <2>1, <2>2, <2>3
<1>6. TransfersStay /\ now' \in now .. MaxTime
  BY <1>0, <1>1, UnchangedStays, MaxTimeAssumption DEF Typed
<1>7. Ledger'
  <2>1. \A x \in disk : \/ x.time \in escrow'[x.stream].recorded
                        \/ \E y \in disk' : Ref(y) = Ref(x)
                        \/ \A i \in transferOf(x) : transfers'[i].state = "expired"
    <3>1. \A x \in disk : x = e \/ x \in disk'  BY <1>1
    <3> QED BY <1>1, <1>5, <3>1
  <2> QED BY <1>1, <1>4, <1>6, <2>1, LedgerKept DEF worker
<1>8. Typed'
  BY <1>0, <1>1, <1>4 DEF Typed, ContractsMove, Serving, Busy, worker
<1>9. Books'
  <2>1. OneEach'  BY <1>0, <1>1 DEF Books, OneEach, OneEntry, worker
  <2>2. EntryIsCurrent'  BY <1>1, <1>4 DEF EntryIsCurrent, ContractsMove, Recorded, worker
  <2>3. OnlySettledIsForgotten' /\ ReplayIsHeld'
    BY <1>0, <1>1, <1>3 DEF OnlySettledIsForgotten, ReplayIsHeld, worker
  <2> QED BY <2>1, <2>2, <2>3 DEF Books
<1>10. Worker'
  <2>1. eligible = {}  BY <1>0 DEF Worker, StageFits, Serving, Busy
  <2> QED BY <1>0, <1>1, <1>3, <2>1 DEF Worker, StageFits, ServedIsFree, JobIsCurrent, ServedAccrued,
                           NothingOpen, Serving, Busy, Paying, worker
<1> QED
  BY <1>7, <1>8, <1>9, <1>10 DEF Inv

----------------------------------------------------------------------------
(* The theorems *)

LEMMA Initially ==
  Init => Inv
<1> SUFFICES ASSUME Init PROVE Inv
  OBVIOUS
<1> USE DEF Init
<1>1. escrow \in [Streams -> Contract]
  BY DEF Contract
<1>2. Typed
  BY <1>1, MaxTimeAssumption, EmptySeq DEF Typed, Serving, Busy
<1>3. Books
  BY DEF Books, OneEach, OneEntry, EntryIsCurrent, OnlySettledIsForgotten, ReplayIsHeld
<1>4. Ledger
  BY <1>1 DEF Ledger, SeenIsPast, RecordedIsCovered, AmountsFit, NoOverlap, TransfersAreTraceable,
         Contract
<1>5. Worker
  BY DEF Worker, StageFits, ServedIsFree, JobIsCurrent, ServedAccrued, NothingOpen,
         Serving, Busy, Paying
<1> QED
  BY <1>2, <1>3, <1>4, <1>5 DEF Inv

LEMMA Preserved ==
  ASSUME Coordinated
  PROVE  Inv /\ [Next]_vars => Inv'
<1> SUFFICES ASSUME Inv, [Next]_vars PROVE Inv'
  OBVIOUS
<1>1. CASE WorkerNext
  BY <1>1, DiscoverStep, RecoverStep, FindCandidatesStep, PickStep, PickFailsStep, PrepareStep,
     JournalTransferStep, TransferStep, WaitStep, ClaimStep, JournalRecordStep, SubmitStep,
     EndCycleStep DEF WorkerNext
<1>2. CASE EnvironmentNext
  BY <1>2, TickStep, OtherExerciseStep, WalletStep DEF EnvironmentNext
<1>3. CASE Crash \/ Stop
  BY <1>3, DownStep DEF Crash, Stop
<1>4. CASE Restart \/ \E e \in stuck(disk) : Reconcile(e)
  BY <1>4, RestartStep, ReconcileStep
<1>5. CASE UNCHANGED vars
  <2>1. now' \in now .. MaxTime  BY <1>5, MaxTimeAssumption DEF vars, Inv, Typed
  <2> QED BY <1>5, <2>1, ContractsStay, UnchangedStays, OutsideStep DEF vars
<1> QED
  BY <1>1, <1>2, <1>3, <1>4, <1>5 DEF Next

\* The transfers of a stream pay disjoint stretches of what it accrues, so that
\* together they pay no more than has accrued.
LEMMA PaysDisjointly ==
  ASSUME Inv, NEW s \in Streams
  PROVE  paid(s) <= Curve[now]
<1> DEFINE live_s == {i \in DOMAIN transfers : transfers[i].stream = s /\ transfers[i].state # "expired"}
           start(i) == Curve[transfers[i].time] - transfers[i].amount
           f == [u \in units(s) |-> start(u[1]) + u[2]]
<1>0. Typed /\ Ledger  BY DEF Inv
<1>1. \A i \in live_s : /\ i \in Nat
                        /\ start(i) \in Nat /\ transfers[i].amount \in Nat
                        /\ start(i) + transfers[i].amount = Curve[transfers[i].time]
                        /\ Curve[transfers[i].time] <= Curve[now]
  <2> TAKE i \in live_s
  <2>1. transfers[i] \in TransferType /\ i \in Nat
    BY <1>0, ElementOfSeq DEF Typed
  <2>2. transfers[i].time \in 0 .. now /\ transfers[i].amount <= Curve[transfers[i].time]
        /\ transfers[i].amount \in Nat /\ now \in 0 .. MaxTime
    BY <1>0, <2>1 DEF Ledger, AmountsFit, TransferType, Typed
  <2>3. now \in transfers[i].time .. MaxTime /\ transfers[i].time \in 0 .. MaxTime
    BY <2>2, MaxTimeAssumption
  <2>4. Curve[transfers[i].time] <= Curve[now] /\ Curve[transfers[i].time] \in Nat
    BY <2>3, CurveRises, AutoWithdrawAssumption
  <2> QED BY <2>1, <2>2, <2>4
<1>2. Curve[now] \in Nat
  BY <1>0, AutoWithdrawAssumption DEF Typed
<1>3. \A u \in units(s) : /\ u[1] \in live_s /\ u[2] \in 1 .. transfers[u[1]].amount
                          /\ u = <<u[1], u[2]>>
  BY DEF units
<1>4. \A i, j \in live_s : i < j => start(i) + transfers[i].amount <= start(j)
  BY <1>0, <1>1 DEF Ledger, NoOverlap, live
<1> HIDE DEF live_s, start
<1>5. \A u \in units(s) : f[u] \in 1 .. Curve[now]
  <2> TAKE u \in units(s)
  <2>1. /\ start(u[1]) \in Nat /\ transfers[u[1]].amount \in Nat
        /\ start(u[1]) + transfers[u[1]].amount <= Curve[now]
        /\ u[2] \in 1 .. transfers[u[1]].amount
    BY <1>1, <1>3
  <2> QED BY <1>2, <2>1
<1>6. \A u, v \in units(s) : f[u] = f[v] => u = v
  <2> SUFFICES ASSUME NEW u \in units(s), NEW v \in units(s), f[u] = f[v]
               PROVE  u = v
    OBVIOUS
  <2>1. start(u[1]) + u[2] = start(v[1]) + v[2]
    OBVIOUS
  <2>2. /\ start(u[1]) \in Nat /\ start(v[1]) \in Nat
        /\ u[2] \in 1 .. transfers[u[1]].amount /\ v[2] \in 1 .. transfers[v[1]].amount
        /\ transfers[u[1]].amount \in Nat /\ transfers[v[1]].amount \in Nat
        /\ u[1] \in Nat /\ v[1] \in Nat
    BY <1>1, <1>3
  <2>3. u[1] < v[1] => start(u[1]) + transfers[u[1]].amount <= start(v[1])
    BY <1>3, <1>4
  <2>4. v[1] < u[1] => start(v[1]) + transfers[v[1]].amount <= start(u[1])
    BY <1>3, <1>4
  <2>5. u[1] = v[1]
    BY <2>1, <2>2, <2>3, <2>4
  <2>6. u[2] = v[2]
    BY <2>1, <2>2, <2>5
  <2> QED BY <1>3, <2>5, <2>6
<1>7. f \in Injection(units(s), 1 .. Curve[now])
  <2>1. f \in [units(s) -> 1 .. Curve[now]]  BY <1>5
  <2> QED BY <1>6, <2>1 DEF Injection, IsInjective
<1>8. IsFiniteSet(1 .. Curve[now]) /\ Cardinality(1 .. Curve[now]) = Curve[now]
  <2>1. \A c \in Nat : IsFiniteSet(1 .. c) /\ Cardinality(1 .. c) = c
    BY FS_Interval
  <2> QED BY <1>2, <2>1
<1> HIDE DEF f
<1> QED
  BY <1>7, <1>8, FS_Injection DEF paid

\* If the other parties leave an escrow alone while a withdrawal of it is open, as
\* no code or document makes them, no crash, failed write or lost answer makes the worker pay a stream more than
\* it has accrued.
THEOREM StreamIsPaidOnce ==
  ASSUME Coordinated
  PROVE  Spec => []NeverPaidTwice
<1>1. Inv => NeverPaidTwice
  BY PaysDisjointly DEF Inv, Typed, NeverPaidTwice, TypeOK, TransferType, Contract
<1> QED
  BY Initially, Preserved, <1>1, PTL DEF Spec

\* Under the same condition every transfer that did not expire is recorded on the
\* ledger or held in the journal's file, whatever fails on the way.
THEOREM NoTransferIsLost ==
  ASSUME Coordinated
  PROVE  Spec => []TransfersAreTraceable
<1>1. Inv => TransfersAreTraceable
  BY DEF Inv, Ledger
<1> QED
  BY Initially, Preserved, <1>1, PTL DEF Spec
============================================================================
