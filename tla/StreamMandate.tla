--------------------------- MODULE StreamMandate ---------------------------
(***************************************************************************)
(* The StreamMandate contract (Stream/StreamMandate.daml): a payer lets    *)
(* the operator pull a bounded amount per cycle, and may revoke that at    *)
(* any time.  Both choices consume the contract, so a pull and a           *)
(* revocation made on the same contract id exclude each other.             *)
(***************************************************************************)
EXTENDS StreamTime

CONSTANTS
  RatePerCycle, CadenceSeconds,
  MaxTotal,                    \* the lifetime cap, 0 when there is none
  MandateStart, MandateEnd     \* the end is 0 when there is none

ASSUME MandateAssumption ==
  /\ RatePerCycle \in Nat \ {0} /\ CadenceSeconds \in Nat \ {0}
  /\ MaxTotal \in Nat
  /\ MandateStart \in Nat /\ MandateEnd \in Nat
  /\ MandateEnd # 0 => MandateStart < MandateEnd

VARIABLES
  mandate,     \* the payload of the one active contract
  revokedAt    \* when the payer first revoked, -1 before

mandateVars == <<now, mandate, revokedAt>>

Never == -1

MandateInit ==
  /\ now = 0
  /\ mandate = [ totalPulled |-> 0, cyclesPulled |-> 0, lastPulledAt |-> Never, active |-> TRUE ]
  /\ revokedAt = Never

NoCadence(last, t) == TRUE
CadenceElapsed(last, t) == last # Never => t >= last + CadenceSeconds

CapIgnoresAmount(total) == MaxTotal # 0 => mandate.totalPulled <= MaxTotal
WithinCap(total) == MaxTotal # 0 => total <= MaxTotal

RecordPull(amount) ==
  /\ mandate.active
  /\ amount > 0 /\ amount <= RatePerCycle
  /\ now >= MandateStart
  /\ MandateEnd # 0 => now <= MandateEnd
  /\ CadenceElapsed(mandate.lastPulledAt, now)
  /\ WithinCap(mandate.totalPulled + amount)
  /\ mandate' = [ mandate EXCEPT !.totalPulled = @ + amount,
                                 !.cyclesPulled = @ + 1,
                                 !.lastPulledAt = now ]
  /\ UNCHANGED <<now, revokedAt>>

\* No guard: a revoked mandate can be revoked again.
Revoke ==
  /\ mandate' = [mandate EXCEPT !.active = FALSE]
  /\ revokedAt' = IF revokedAt = Never THEN now ELSE revokedAt
  /\ UNCHANGED now

MandateNext ==
  \/ Tick /\ UNCHANGED <<mandate, revokedAt>>
  \/ \E amount \in 1 .. RatePerCycle : RecordPull(amount)
  \/ Revoke

MandateSpec == MandateInit /\ [][MandateNext]_mandateVars

----------------------------------------------------------------------------
MandateTypeOK ==
  /\ mandate \in [ totalPulled : Nat, cyclesPulled : Nat,
                   lastPulledAt : Nat \cup {Never}, active : BOOLEAN ]
  /\ revokedAt \in Nat \cup {Never}

\* What the payer can lose is bounded by time alone: one cycle's rate for each
\* cadence that elapsed since the start, plus one, and never more than the cap.
MandateBounded ==
  /\ MaxTotal # 0 => mandate.totalPulled <= MaxTotal
  /\ now >= MandateStart =>
       mandate.totalPulled <= RatePerCycle * ((now - MandateStart) \div CadenceSeconds + 1)
  /\ now < MandateStart => mandate.totalPulled = 0

\* Nothing is pulled after the payer revoked, and the mandate never revives.
MandateRevokedForGood ==
  revokedAt # Never => ~mandate.active /\ mandate.lastPulledAt <= revokedAt

\* What the payer stands to lose is bounded while the mandate lives and fixed once
\* it is revoked.
MandateSafe == MandateTypeOK /\ MandateBounded /\ MandateRevokedForGood
============================================================================
