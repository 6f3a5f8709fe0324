----------------------------- MODULE MCRecords -----------------------------
(***************************************************************************)
(* Small instances of the contracts that record or authorize what settles  *)
(* elsewhere, of the receiver claims, of the event subscriber and of the   *)
(* arithmetic.  They share nothing but ledger time, so a behaviour is      *)
(* about one of them: the others never move.                               *)
(***************************************************************************)
EXTENDS AdminRecorder, StreamFlowAdmin, StreamMandate, MilestoneAdmin, UnifiedStream, DelegatedPolicy,
        ReceiverClaim, Subscriber, MCAccrual, TLC

CONSTANTS s1, s2, m1, m2, m3, sender, recipient, operator, trigger, f1, f2, a1, a2, l1, l2, l3

VARIABLE about     \* what the behaviour is about

\* The variables of each, but for ledger time.
ofAdmin == <<admin, settled>>
ofFlow == <<flow, flowRequest, flowing, recorded>>
ofMandate == <<mandate, revokedAt>>
ofProposal == <<proposal, consent>>
ofPolicy == <<policy, quota, executions>>
ofClaim == <<payer, lane, allocations, claimable, session>>
records ==
  << ofAdmin, ofFlow, ofMandate, milestoneVars, ofProposal, ofPolicy, ofClaim, subscriberVars,
     inputs, reading >>

SerialPayer == [serial |-> TRUE, catchUp |-> FALSE, termEnd |-> 0]
MCPayers ==
  { SerialPayer, [SerialPayer EXCEPT !.termEnd = 1], [SerialPayer EXCEPT !.catchUp = TRUE],
    [SerialPayer EXCEPT !.serial = FALSE] }
\* Nothing named, forced, an amount above the rate in a long window, unlocked at once.
Unnamed == [force |-> FALSE, amount |-> NotGiven, unlockAt |-> NotGiven, expiresAt |-> NotGiven]
MCRequests ==
  { Unnamed, [Unnamed EXCEPT !.force = TRUE], [Unnamed EXCEPT !.unlockAt = 0],
    [Unnamed EXCEPT !.amount = 2, !.expiresAt = 4] }
OverlapPeriods == 1     \* bound: periods a payer sees who overlaps sessions
\* bound: of what a request may choose, a payer who overlaps sessions chooses amounts
OverlapChooses ==
  \A f \in Sessions : session[f].step = "prepared" /\ session[f].terms.chosen =>
    session[f].terms.amount > PeriodRate
FirstLoops == a1 :> l1 @@ a2 :> l2

Init ==
  /\ about \in {"admin", "flow", "mandate", "milestones", "proposal", "policy", "claim", "events",
               "arithmetic"}
  /\ IF about = "arithmetic" THEN PickInputs ELSE NoInputs
  /\ AdminInit /\ FlowInit /\ MandateInit /\ MilestoneInit /\ UnifiedInit /\ PolicyInit
  /\ ClaimInit /\ SubscriberInit
  \* Nothing is chosen that the behaviour is not about.
  /\ about # "claim" => payer = SerialPayer
  /\ about # "events" => current = FirstLoops

Next ==
  /\ UNCHANGED about
  /\ about = "arithmetic" \/ UNCHANGED <<inputs, reading>>
  /\ \/ about = "admin" /\ AdminNext
        /\ UNCHANGED <<ofFlow, ofMandate, milestoneVars, ofProposal, ofPolicy, ofClaim, subscriberVars>>
     \/ about = "flow" /\ FlowNext
        /\ UNCHANGED <<ofAdmin, ofMandate, milestoneVars, ofProposal, ofPolicy, ofClaim, subscriberVars>>
     \/ about = "mandate" /\ MandateNext
        /\ UNCHANGED <<ofAdmin, ofFlow, milestoneVars, ofProposal, ofPolicy, ofClaim, subscriberVars>>
     \/ about = "milestones" /\ MilestoneNext
        /\ UNCHANGED <<now, ofAdmin, ofFlow, ofMandate, ofProposal, ofPolicy, ofClaim, subscriberVars>>
     \/ about = "proposal" /\ UnifiedNext
        /\ UNCHANGED <<ofAdmin, ofFlow, ofMandate, milestoneVars, ofPolicy, ofClaim, subscriberVars>>
     \/ about = "policy" /\ PolicyNext
        /\ UNCHANGED <<ofAdmin, ofFlow, ofMandate, milestoneVars, ofProposal, ofClaim, subscriberVars>>
     \/ about = "claim" /\ ClaimNext
        /\ (payer.serial \/ (now' <= OverlapPeriods /\ OverlapChooses'))
        /\ UNCHANGED <<ofAdmin, ofFlow, ofMandate, milestoneVars, ofProposal, ofPolicy, subscriberVars>>
     \/ about = "events" /\ SubscriberNext
        /\ UNCHANGED <<now, ofAdmin, ofFlow, ofMandate, milestoneVars, ofProposal, ofPolicy, ofClaim>>
     \/ about = "arithmetic" /\ RunUp
        /\ UNCHANGED << now, ofAdmin, ofFlow, ofMandate, milestoneVars, ofProposal, ofPolicy, ofClaim,
                        subscriberVars >>

Spec == Init /\ [][Next]_<<about, now, records>>

\* Sessions are alike, and so are the route handlers.
AnyRequest == Permutations(Sessions) \cup Permutations(Handlers)

MCTerms ==
  [ s \in Streams |->
      [ vestingMode |-> IF s = s1 THEN Linear ELSE Stepped(2, 2), totalDeposited |-> 4,
        startTime |-> 0, endTime |-> 4 ] ]
\* m1 and m2 have the same name.
MCName == [m \in Milestones |-> IF m = m3 THEN "release" ELSE "delivery"]
MCWorth == [m \in Milestones |-> IF m = m1 THEN 1 ELSE 2]
AnyWalletRoles ==
  { [operators |-> ops, triggerParty |-> trig] :
      ops \in {<<>>, <<recipient>>, <<sender, recipient>>}, trig \in {sender, NoParty} }
OperatorRoles ==
  { [operators |-> ops, triggerParty |-> trig] :
      ops \in {<<operator>>, <<>>}, trig \in {trigger, NoParty} }
============================================================================
