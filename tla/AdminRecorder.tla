--------------------------- MODULE AdminRecorder ---------------------------
(***************************************************************************)
(* The operator of StreamAdmin contracts, as a caller of the SDK's builders *)
(* (sdk/src/commands/stream-admin.ts).  It settles iterations of a token   *)
(* allocation and records them; a request or its answer may be lost, so it *)
(* may record any settled iteration at any time, again and again, always   *)
(* with the replay guard expectedIteration.                                *)
(***************************************************************************)
EXTENDS StreamAdmin, Sequences, Sums

CONSTANT MaxIterations   \* bound: iterations an allocation settles

VARIABLE settled    \* on chain: the amounts of the iterations of each allocation

adminVars == <<now, admin, settled>>

AdminInit ==
  /\ now = 0
  /\ admin = [s \in Streams |-> mkStreamAdmin]
  /\ settled = [s \in Streams |-> <<>>]

moved(s) == Total(settled[s])

\* Allocation_Settle, for an amount derived from the vesting schedule.  The
\* iteration that moves the last of the deposit leaves no next allocation.
Allocation_Settle(s) ==
  /\ admin[s].status # "Cancelled"
  /\ Len(settled[s]) < MaxIterations
  /\ \E amount \in 1 .. (accrued(s, now) - moved(s)) :
       settled' = [settled EXCEPT ![s] = Append(@, amount)]
  /\ UNCHANGED <<now, admin>>

nextCid(s, k) ==
  IF Total(SubSeq(settled[s], 1, k)) = Terms[s].totalDeposited
  THEN NoCid ELSE k + 1

\* buildSyncIteration: the settle time it may claim is at most now, and not
\* before the start, since nothing settles before the start.
buildSyncIteration(s) ==
  /\ \E k \in DOMAIN settled[s] : Sync_Iteration(s, settled[s][k], k, nextCid(s, k))
  /\ UNCHANGED <<now, settled>>

\* buildMarkCancelled, once the allocation was cancelled: what was moved is
\* what the recipient received.
buildMarkCancelled(s) ==
  /\ Mark_Cancelled(s, moved(s), now)
  /\ UNCHANGED <<now, settled>>

buildMarkCompleted(s) == Mark_Completed(s) /\ UNCHANGED <<now, settled>>

AdminNext ==
  \/ Tick /\ UNCHANGED <<admin, settled>>
  \/ \E s \in Streams :
       \/ Allocation_Settle(s) \/ buildSyncIteration(s)
       \/ buildMarkCancelled(s) \/ buildMarkCompleted(s)

AdminSpec == AdminInit /\ [][AdminNext]_adminVars

----------------------------------------------------------------------------
AdminTypeOK ==
  /\ settled \in [Streams -> Seq(Nat)]
  /\ admin \in [Streams -> Index]

\* However often and in whatever order the settled iterations are recorded,
\* what an uncancelled index holds is exactly the first numIterations of them:
\* none is recorded twice, none is skipped (Sync_Iteration's replay guard).
AdminRecordsAPrefix ==
  \A s \in Streams : admin[s].status # "Cancelled" =>
    /\ admin[s].numIterations <= Len(settled[s])
    /\ admin[s].totalWithdrawn =
         Total(SubSeq(settled[s], 1, admin[s].numIterations))

\* The allocation an active index names is the one that the last iteration it
\* holds left, though iterations and records interleave.
AdminNamesAllocation ==
  \A s \in Streams :
    admin[s].status = "Active" /\ admin[s].numIterations > 0
      => admin[s].currentAllocationCid = nextCid(s, admin[s].numIterations)

\* "A curve-derived amount always clears this bound": the oldest unrecorded
\* iteration of an active index can be recorded, however late, at every instant
\* at which the curve does not overflow.
AdminHonestNeverRefused ==
  \A s \in Streams :
    admin[s].status = "Active" /\ admin[s].numIterations < Len(settled[s]) /\ Priced(s)
      => CanSync(s, settled[s][admin[s].numIterations + 1], admin[s].numIterations + 1)

\* Replays, retries and late records leave the index what the allocation settled,
\* on schedule, and refuse an honest record only
\* where the curve overflows.
AdminSound ==
  /\ AdminTypeOK /\ AdminOnSchedule /\ AdminRecordsAPrefix
  /\ AdminNamesAllocation /\ AdminHonestNeverRefused
============================================================================
