-------------------------- MODULE StreamFlowAdmin --------------------------
(***************************************************************************)
(* The StreamFlowAdmin contract (Stream/StreamFlowAdmin.daml), the index of *)
(* an open-ended flow, and the proxy routes that drive it                  *)
(* (proxy/src/index.ts, proxy/src/v2-write.ts).                            *)
(*                                                                         *)
(* A route reads the contract, then exercises a choice on the contract id  *)
(* it read.  Every choice archives the contract, so of two routes that     *)
(* read the same contract only one succeeds: `version' stands for the      *)
(* contract id.  The routes pass no expectedIteration.                     *)
(***************************************************************************)
EXTENDS StreamTime

CONSTANTS
  Handlers,      \* concurrent requests
  FlowRate, FlowStart,
  InitialFunded,
  Amounts,       \* the amounts a request may name
  MaxFunded,     \* bound: the flow is funded up to this
  MaxVersions    \* bound: choices exercised

ASSUME FlowAdminAssumption ==
  /\ FlowRate \in Nat /\ FlowStart \in Nat /\ InitialFunded \in Nat
  /\ Amounts \subseteq Nat /\ MaxFunded \in Nat /\ MaxVersions \in Nat

VARIABLES
  flow,       \* the payload of the flow's one active contract
  flowRequest, \* of each handler: what it read and is about to submit
  flowing,    \* time the flow was started and not paused
  recorded    \* what the accepted withdraw and top-up requests add up to

flowVars == <<now, flow, flowRequest, flowing, recorded>>

IdleRequest == [choice |-> "idle"]

createFlowAdmin ==
  [ version |-> 1, currentFundedAmount |-> InitialFunded, totalWithdrawn |-> 0,
    numIterations |-> 0, paused |-> FALSE, status |-> "Active" ]

FlowInit ==
  /\ now = 0
  /\ flow = createFlowAdmin
  /\ flowRequest = [h \in Handlers |-> IdleRequest]
  /\ flowing = 0
  /\ recorded = [withdrawn |-> 0, funded |-> InitialFunded]

\* timeToMicros now startTime, not below zero
elapsed == IF now >= FlowStart THEN now - FlowStart ELSE 0

\* A choice runs on the payload of the contract it is exercised on, which must
\* not be archived yet.
ArchivedToo(f) == TRUE
IsActive(f) == f.version = flow.version

Recreated(new) == flow' = [new EXCEPT !.version = @ + 1]

CanSyncFlow(f, amount) ==
  /\ f.status = "Active"
  /\ ~f.paused
  /\ amount >= 0
  /\ f.totalWithdrawn + amount <= f.currentFundedAmount
  /\ f.totalWithdrawn + amount <= FlowRate * elapsed

Sync_Iteration_Flow(f, amount) ==
  /\ CanSyncFlow(f, amount)
  /\ Recreated([f EXCEPT !.totalWithdrawn = @ + amount, !.numIterations = @ + 1])

TopUp_Flow_Admin(f, amount) ==
  /\ f.status = "Active"
  /\ amount > 0
  /\ Recreated([f EXCEPT !.currentFundedAmount = @ + amount])

Pause_Flow_Admin(f) ==
  /\ f.status = "Active" /\ ~f.paused
  /\ Recreated([f EXCEPT !.paused = TRUE])

Resume_Flow_Admin(f) ==
  /\ f.status = "Active" /\ f.paused
  /\ Recreated([f EXCEPT !.paused = FALSE])

Mark_Cancelled_Flow_Admin(f, finalWithdrawn, cancelTime) ==
  /\ f.status = "Active"
  /\ finalWithdrawn <= f.currentFundedAmount
  /\ finalWithdrawn >= f.totalWithdrawn
  /\ assertNotInFuture(cancelTime)
  /\ Recreated([f EXCEPT !.totalWithdrawn = finalWithdrawn, !.status = "Cancelled"])

----------------------------------------------------------------------------
(* The proxy routes: read, then submit *)

RouteChoices == {"top-up", "withdraw", "pause", "resume", "stop"}

\* getFlowViaJson, then the arguments of the choice.
Read(h) ==
  /\ flowRequest[h] = IdleRequest
  /\ flow.version < MaxVersions
  /\ \E choice \in RouteChoices, amount \in Amounts :
       /\ choice \in {"pause", "resume", "stop"} => amount = CHOOSE a \in Amounts : TRUE
       /\ choice = "top-up" => flow.currentFundedAmount + amount <= MaxFunded
       /\ flowRequest' = [flowRequest EXCEPT ![h] =
            [ choice |-> choice, amount |-> amount, at |-> now, f |-> flow ]]
  /\ UNCHANGED <<now, flow, flowing, recorded>>

\* The stop route closes the flow at the total it read.
Exercised(r) ==
  \/ /\ r.choice = "withdraw" /\ Sync_Iteration_Flow(r.f, r.amount)
     /\ recorded' = [recorded EXCEPT !.withdrawn = @ + r.amount]
  \/ /\ r.choice = "top-up" /\ TopUp_Flow_Admin(r.f, r.amount)
     /\ recorded' = [recorded EXCEPT !.funded = @ + r.amount]
  \/ /\ \/ r.choice = "pause" /\ Pause_Flow_Admin(r.f)
        \/ r.choice = "resume" /\ Resume_Flow_Admin(r.f)
        \/ r.choice = "stop" /\ Mark_Cancelled_Flow_Admin(r.f, r.f.totalWithdrawn, r.at)
     /\ UNCHANGED recorded

Submit(h) ==
  /\ flowRequest[h] # IdleRequest
  /\ IsActive(flowRequest[h].f)
  /\ Exercised(flowRequest[h])
  /\ flowRequest' = [flowRequest EXCEPT ![h] = IdleRequest]
  /\ UNCHANGED <<now, flowing>>

\* The ledger refuses the choice, or the request is lost.
Refused(h) ==
  /\ flowRequest[h] # IdleRequest
  /\ flowRequest' = [flowRequest EXCEPT ![h] = IdleRequest]
  /\ UNCHANGED <<now, flow, flowing, recorded>>

Pass ==
  /\ Tick
  /\ flowing' = IF now >= FlowStart /\ ~flow.paused THEN flowing + 1 ELSE flowing
  /\ UNCHANGED <<flow, flowRequest, recorded>>

FlowNext == Pass \/ \E h \in Handlers : Read(h) \/ Submit(h) \/ Refused(h)

FlowAdminSpec == FlowInit /\ [][FlowNext]_flowVars

----------------------------------------------------------------------------
Payload ==
  [ version : Nat, currentFundedAmount : Nat, totalWithdrawn : Nat,
    numIterations : Nat, paused : BOOLEAN, status : {"Active", "Cancelled"} ]

FlowTypeOK ==
  /\ flow \in Payload
  /\ flowRequest \in [Handlers -> {IdleRequest} \cup
       [ choice : RouteChoices, amount : Amounts, at : Nat, f : Payload ]]
  /\ flowing \in Nat
  /\ recorded \in [withdrawn : Nat, funded : Nat]

\* The index holds every request that was accepted: no route that read the
\* contract earlier, a stop least of all, overwrites another's record.
FlowKeepsEveryRecord ==
  /\ flow.totalWithdrawn = recorded.withdrawn
  /\ flow.currentFundedAmount = recorded.funded

\* It stays within the funding and within rate times elapsed time.
FlowWithinRate ==
  /\ flow.totalWithdrawn <= flow.currentFundedAmount
  /\ flow.totalWithdrawn <= FlowRate * elapsed

\* "Pauses only reduce true entitlement, so the unpaused upper bound never
\* under-cuts an honest settle": all the receiver earned while the flow ran can
\* be recorded, however often the flow was paused, if the funding covers it.
FlowHonestNeverRefused ==
  LET unrecorded == FlowRate * flowing - flow.totalWithdrawn
  IN  flow.status = "Active" /\ ~flow.paused /\ unrecorded >= 0
        /\ FlowRate * flowing <= flow.currentFundedAmount
      => CanSyncFlow(flow, unrecorded)

\* Concurrent routes lose no record, record nothing beyond funding and rate, and
\* refuse nothing that was earned.
FlowSound ==
  FlowTypeOK /\ FlowKeepsEveryRecord /\ FlowWithinRate /\ FlowHonestNeverRefused
============================================================================
