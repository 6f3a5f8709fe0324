-------------------------- MODULE DelegatedPolicy --------------------------
(***************************************************************************)
(* The DelegatedPolicy contract with its PolicyExecutionState companions   *)
(* (Policy/DelegatedPolicy.daml).  Sender and executor together may sign   *)
(* any number of state contracts for one policy; the executor names the    *)
(* one an execution is counted in.  Each execution replaces that state, so *)
(* two made on the same contract id exclude each other.                    *)
(***************************************************************************)
EXTENDS StreamTime, Sequences, FiniteSets

CONSTANTS
  States,                  \* the state contracts ever signed for the policy
  Actions, TargetStreams,  \* what an executor may ask for
  allowedActions,
  streamFilters,           \* empty when unrestricted
  maxExecutionsPerPeriod, periodDuration, maxAmountPerExecution, cooldownInterval,
  expiresAt,
  MaxExecutions            \* bound: executions logged

ASSUME PolicyAssumption ==
  /\ IsFiniteSet(States)
  /\ maxExecutionsPerPeriod \in Nat \ {0} /\ periodDuration \in Nat \ {0}
  /\ maxAmountPerExecution \in Nat \ {0} /\ cooldownInterval \in Nat
  /\ expiresAt \in Nat \ {0} /\ MaxExecutions \in Nat

VARIABLES
  policy,      \* the payload of the active policy contract
  quota,       \* of each state contract: its current successor
  executions   \* the ExecutionLog contracts, in order; era counts the resets
               \* of the state an execution was counted in

policyVars == <<now, policy, quota, executions>>

Undated == -1
NewState(era) ==
  [ era |-> era, totalExecutions |-> 0, lastExecutionTime |-> Undated, recentExecutions |-> {} ]

PolicyInit ==
  /\ now = 0
  /\ policy = [active |-> TRUE, revokedAt |-> Undated]
  /\ quota = [k \in States |-> NewState(0)]
  /\ executions = <<>>

RevokePolicy ==
  /\ policy.active
  /\ policy' = [active |-> FALSE, revokedAt |-> now]
  /\ UNCHANGED <<now, quota, executions>>

\* The list of instants, as a set: nothing reads its order, and the number of its log
\* tells an execution from another of the same instant.
Instant(t, log) == [at |-> t, log |-> log]
InWindow(times) == {t \in times : t.at > now - periodDuration}

InScope(action, stream) ==
  /\ action \in allowedActions
  /\ streamFilters = {} \/ stream \in streamFilters

WithinRate(s) ==
  /\ s.lastExecutionTime # Undated => s.lastExecutionTime + cooldownInterval <= now
  /\ Cardinality(InWindow(s.recentExecutions)) < maxExecutionsPerPeriod

LatestOnly(s) == {Instant(now, Len(executions) + 1)}
prunedRecent(s) == InWindow({Instant(now, Len(executions) + 1)} \cup s.recentExecutions)

ExecutePolicy(k, action, stream, amount) ==
  /\ policy.active
  /\ now < expiresAt
  /\ InScope(action, stream)
  /\ amount > 0 /\ amount <= maxAmountPerExecution
  /\ WithinRate(quota[k])
  /\ Len(executions) < MaxExecutions
  /\ quota' = [ quota EXCEPT ![k].totalExecutions = @ + 1,
                             ![k].lastExecutionTime = now,
                             ![k].recentExecutions = prunedRecent(quota[k]) ]
  /\ executions' =
       Append(executions, [ at |-> now, action |-> action, stream |-> stream,
                            amount |-> amount, state |-> k, era |-> quota[k].era ])
  /\ UNCHANGED <<now, policy>>

\* Sender and executor together; bound: once for each state.
ResetExecutionState(k) ==
  /\ quota[k].era = 0
  /\ quota' = [quota EXCEPT ![k] = NewState(1)]
  /\ UNCHANGED <<now, policy, executions>>

PolicyNext ==
  \/ Tick /\ UNCHANGED <<policy, quota, executions>>
  \/ RevokePolicy
  \/ \E k \in States :
       \/ ResetExecutionState(k)
       \/ \E action \in Actions, stream \in TargetStreams, amount \in 0 .. maxAmountPerExecution + 1 :
            ExecutePolicy(k, action, stream, amount)

PolicySpec == PolicyInit /\ [][PolicyNext]_policyVars

----------------------------------------------------------------------------
PolicyTypeOK ==
  /\ policy \in [active : BOOLEAN, revokedAt : Nat \cup {Undated}]
  /\ quota \in [ States -> [ era : {0, 1}, totalExecutions : Nat,
                            lastExecutionTime : Nat \cup {Undated},
                            recentExecutions : SUBSET [at : Nat, log : Nat] ] ]
  /\ executions \in Seq([ at : Nat, action : Actions, stream : TargetStreams,
                          amount : Nat \ {0}, state : States, era : {0, 1} ])

\* The executions counted in one state between two resets.
countedIn(k, era) ==
  {i \in DOMAIN executions : executions[i].state = k /\ executions[i].era = era}

\* Those of them in the window that ends at t.
within(is, t) ==
  {i \in is : executions[i].at <= t /\ executions[i].at > t - periodDuration}

\* Whatever window of periodDuration one looks at, now or in the past, one state
\* let through at most maxExecutionsPerPeriod, a cooldown apart: pruning the list
\* never forgets an execution the window still counts.
RateHeld ==
  \A k \in States, era \in {0, 1} :
    /\ \A t \in 0 .. now : Cardinality(within(countedIn(k, era), t)) <= maxExecutionsPerPeriod
    /\ \A i, j \in countedIn(k, era) :
         i < j => executions[i].at + cooldownInterval <= executions[j].at

\* The quotas sender and executor ever signed: one for each state contract, and
\* one more for each reset.
Quotas == {q \in States \X {0, 1} : q[2] <= quota[q[1]].era}

\* What the code bounds is not the rate of the policy, as the comment of
\* ExecutePolicy has it, but that of each quota: together the states, reset or
\* not, let through no more than their number of quotas in any window.
ExposureBounded ==
  \A t \in 0 .. now :
    Cardinality(within(DOMAIN executions, t)) <= Cardinality(Quotas) * maxExecutionsPerPeriod

\* Every execution was one the policy allows, for an amount below its cap.
WithinScope ==
  \A i \in DOMAIN executions :
    /\ InScope(executions[i].action, executions[i].stream)
    /\ executions[i].amount <= maxAmountPerExecution

\* No execution after the sender revoked the policy, or when it had expired.
EndsForGood ==
  \A i \in DOMAIN executions :
    /\ executions[i].at < expiresAt
    /\ ~policy.active => executions[i].at <= policy.revokedAt

\* However the executor chooses among its state contracts: each execution is in
\* the scope, under the cap and in the life of the policy, and in any window there
\* are at most as many quotas of them as states were signed and resets made.
PolicySound == PolicyTypeOK /\ RateHeld /\ ExposureBounded /\ WithinScope /\ EndsForGood
============================================================================
