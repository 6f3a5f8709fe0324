--------------------------- MODULE MilestoneAdmin ---------------------------
(***************************************************************************)
(* The MilestoneAdmin contract (Stream/MilestoneAdmin.daml): the operator's *)
(* index of a stream that pays by milestones.  A milestone is confirmed    *)
(* after its leg of the allocation settled; milestones are found by name,  *)
(* and nothing keeps two from having the same one.                         *)
(***************************************************************************)
EXTENDS Integers, Sequences, Sums

CONSTANTS
  Milestones,     \* the milestones of one stream
  MilestoneName,  \* the name of each
  Worth,          \* the amount of each
  Cids,           \* allocation contract ids
  MaxBatch        \* bound: names in one batch

ASSUME MilestoneAssumption ==
  /\ Milestones # {} /\ IsFiniteSet(Milestones)
  /\ Worth \in [Milestones -> Nat \ {0}]
  /\ MaxBatch \in Nat /\ 0 \notin Cids

VARIABLES
  milestones,   \* the contract
  legs          \* on chain: the milestones whose leg settled

milestoneVars == <<milestones, legs>>

names == { MilestoneName[m] : m \in Milestones }
sumOf(ms) == Total([m \in ms |-> Worth[m]])
totalDeposited == sumOf(Milestones)
named(ns) == { m \in Milestones : MilestoneName[m] \in ns }

mkMilestoneAdmin ==
  [ confirmed |-> {}, totalReleased |-> 0, status |-> "Active", allocationCid |-> 0 ]

MilestoneInit == milestones = mkMilestoneAdmin /\ legs = {}

Bind_Allocation(cid) ==
  /\ milestones.status = "Active"
  /\ milestones.allocationCid \in {0, cid}
  /\ milestones' = [milestones EXCEPT !.allocationCid = cid]
  /\ UNCHANGED legs

Confirmed(ms) ==
  LET confirmed == milestones.confirmed \cup ms
  IN  [ milestones EXCEPT
          !.confirmed = confirmed,
          !.totalReleased = @ + sumOf(ms),
          !.status = IF confirmed = Milestones THEN "Completed" ELSE "Active" ]

\* Exactly one milestone may match the name.
Confirm_Milestone(name) ==
  /\ milestones.status = "Active"
  /\ \E target \in Milestones :
       /\ named({name}) = {target}
       /\ target \notin milestones.confirmed
       /\ milestones' = Confirmed({target})
  /\ UNCHANGED legs

\* The batch must match as many milestones as it lists names.
BatchIgnoresConfirmed(batch) ==
  LET toConfirm == named({ batch[i] : i \in DOMAIN batch })
  IN  Cardinality(toConfirm) = Len(batch)
BatchIsOpen(batch) ==
  LET toConfirm == named({ batch[i] : i \in DOMAIN batch })
  IN  /\ Cardinality(toConfirm) = Len(batch)
      /\ toConfirm \cap milestones.confirmed = {}

Confirm_Milestone_Batch(batch) ==
  /\ milestones.status = "Active"
  /\ batch # <<>>
  /\ BatchIsOpen(batch)
  /\ milestones' = Confirmed(named({ batch[i] : i \in DOMAIN batch }))
  /\ UNCHANGED legs

Mark_Cancelled_Milestone_Admin ==
  /\ milestones.status = "Active"
  /\ milestones' = [milestones EXCEPT !.status = "Cancelled", !.allocationCid = 0]
  /\ UNCHANGED legs

----------------------------------------------------------------------------
(* The operator: settles legs, then confirms what it settled.  A request   *)
(* whose answer was lost is sent again.                                    *)

SettleLeg ==
  /\ milestones.status = "Active"
  /\ \E m \in Milestones \ legs : legs' = legs \cup {m}
  /\ UNCHANGED milestones

Settled(ns) == named(ns) # {} /\ named(ns) \subseteq legs

MilestoneNext ==
  \/ SettleLeg
  \/ \E cid \in Cids : Bind_Allocation(cid)
  \/ \E name \in names : Settled({name}) /\ Confirm_Milestone(name)
  \/ \E n \in 1 .. MaxBatch : \E batch \in [1 .. n -> names] :
       Settled({ batch[i] : i \in 1 .. n }) /\ Confirm_Milestone_Batch(batch)
  \/ Mark_Cancelled_Milestone_Admin

MilestoneSpec == MilestoneInit /\ [][MilestoneNext]_milestoneVars

----------------------------------------------------------------------------
MilestoneTypeOK ==
  /\ milestones \in [ confirmed : SUBSET Milestones, totalReleased : Nat,
                      status : {"Active", "Completed", "Cancelled"},
                      allocationCid : Cids \cup {0} ]
  /\ legs \subseteq Milestones

\* What is recorded as released is what the confirmed milestones are worth,
\* each once, whatever batches and repetitions confirmed them; it never passes
\* the deposit, and the stream is complete exactly when all are confirmed.
MilestonesReleasedOnce ==
  /\ milestones.totalReleased = sumOf(milestones.confirmed)
  /\ milestones.totalReleased <= totalDeposited
  /\ milestones.status = "Completed" <=> milestones.confirmed = Milestones

\* Every settled leg can still be confirmed while the stream is active, alone
\* or in a batch, however the milestones are named.
MilestonesConfirmable ==
  milestones.status = "Active" =>
    \A m \in legs \ milestones.confirmed :
      named({MilestoneName[m]}) \subseteq legs =>
        \E n \in 1 .. Cardinality(Milestones) : \E batch \in [1 .. n -> names] :
          /\ BatchIsOpen(batch)
          /\ m \in named({ batch[i] : i \in 1 .. n })

\* Every milestone is released once, and none gets stuck unreleased.
MilestonesSound == MilestoneTypeOK /\ MilestonesReleasedOnce /\ MilestonesConfirmable
============================================================================
