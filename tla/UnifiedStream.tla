--------------------------- MODULE UnifiedStream ---------------------------
(***************************************************************************)
(* The unified workflow (Workflow/UnifiedStream.daml): a sender proposes a *)
(* stream, the recipient accepts or both counter-propose, every operator   *)
(* and the trigger party accept, and the request is promoted to a contract *)
(* that all of them sign.                                                  *)
(*                                                                         *)
(* A choice acts with the authority of its controllers and of the contract's *)
(* signatories, and of nobody else; a contract can only be created with the *)
(* authority of all its signatories.  Terms are numbered: a counter-proposal *)
(* replaces them.                                                          *)
(***************************************************************************)
EXTENDS StreamTime, Sequences, SequencesExt, FiniteSets

CONSTANTS
  Sender, Recipient, NoParty,
  RoleSets,      \* operators (a sequence of parties) and triggerParty
  Expiries,      \* values of expiresAt
  MaxTerms       \* bound: counter-proposals

ASSUME UnifiedAssumption ==
  /\ Sender # Recipient
  /\ \A r \in RoleSets : DOMAIN r = {"operators", "triggerParty"}
  /\ Expiries \subseteq Nat /\ MaxTerms \in Nat \ {0}

VARIABLES
  proposal,     \* the contract: its stage and payload
  consent      \* who accepted which terms in which role, as <<role, party, terms>>

unifiedVars == <<now, proposal, consent>>

operatorsOf(r) == Range(r.operators)
triggerOf(r) == {r.triggerParty} \ {NoParty}

UnifiedInit ==
  /\ now = 0
  /\ proposal = [stage |-> "none"]
  /\ consent = {}

\* The sender creates the request, on terms of its choice.
Request ==
  /\ proposal.stage = "none"
  /\ \E roles \in RoleSets, expiresAt \in Expiries :
       proposal' = [ stage |-> "requested", terms |-> 1, roles |-> roles,
                     expiresAt |-> expiresAt, acceptedOperators |-> {},
                     triggerPartyAccepted |-> FALSE ]
  /\ consent' = {<<"sender", Sender, 1>>}
  /\ UNCHANGED now

Consents(role, p) == consent' = consent \cup {<<role, p, proposal.terms>>}

Gone == proposal' = [proposal EXCEPT !.stage = "gone"] /\ UNCHANGED <<now, consent>>

AcceptRecipient ==
  /\ proposal.stage = "requested"
  /\ assertNotExpired(proposal.expiresAt)
  /\ proposal' = [ proposal EXCEPT !.stage = "accepted", !.acceptedOperators = {},
                                 !.triggerPartyAccepted = triggerOf(proposal.roles) = {} ]
  /\ Consents("recipient", Recipient)
  /\ UNCHANGED now

\* RejectAsRecipient, WithdrawRequestAsSender: the request is archived.
RejectOrWithdraw == proposal.stage = "requested" /\ Gone

\* Sender and recipient replace the terms together; the new request is the
\* sender's proposal again, which the recipient has yet to accept.
CounterPropose ==
  /\ proposal.stage = "requested"
  /\ proposal.terms < MaxTerms
  /\ \E roles \in RoleSets, expiresAt \in Expiries :
       proposal' = [ proposal EXCEPT !.terms = @ + 1, !.roles = roles, !.expiresAt = expiresAt ]
  /\ consent' = consent \cup {<<"sender", Sender, proposal.terms + 1>>}
  /\ UNCHANGED now

ExpireRequest ==
  /\ proposal.stage = "requested"
  /\ now >= proposal.expiresAt
  /\ Gone

OperatorAccept(p) ==
  /\ proposal.stage = "accepted"
  /\ assertNotExpired(proposal.expiresAt)
  /\ p \in operatorsOf(proposal.roles)
  /\ p \notin proposal.acceptedOperators
  /\ proposal' = [proposal EXCEPT !.acceptedOperators = @ \cup {p}]
  /\ Consents("operator", p)
  /\ UNCHANGED now

\* Without a trigger party the choice is the sender's, and always refused.
TriggerPartyAccept ==
  /\ proposal.stage = "accepted"
  /\ assertNotExpired(proposal.expiresAt)
  /\ ~proposal.triggerPartyAccepted
  /\ proposal' = [proposal EXCEPT !.triggerPartyAccepted = TRUE]
  /\ Consents("trigger", proposal.roles.triggerParty)
  /\ UNCHANGED now

\* OperatorReject, TriggerPartyReject, MutualCancelAccepted.
RejectOrCancelAccepted == proposal.stage = "accepted" /\ Gone

\* The lists are compared sorted, so with their repetitions: acceptedOperators
\* never holds a party twice.
SomeOperatorAccepted ==
  proposal.roles.operators = <<>> \/ proposal.acceptedOperators # {}
allOperatorsAccepted ==
  /\ proposal.acceptedOperators = operatorsOf(proposal.roles)
  /\ Cardinality(proposal.acceptedOperators) = Len(proposal.roles.operators)

\* Who signs FullyAcceptedStreamRequest, and whose authority Promote has: its
\* controllers, who are also the signatories of the accepted request.
fullSignatories == {Sender, Recipient} \cup operatorsOf(proposal.roles) \cup triggerOf(proposal.roles)
Authorized == fullSignatories \subseteq {Sender, Recipient}

CanPromote == allOperatorsAccepted /\ proposal.triggerPartyAccepted /\ Authorized

Promote ==
  /\ proposal.stage = "accepted"
  /\ CanPromote
  /\ proposal' = [proposal EXCEPT !.stage = "full"]
  /\ UNCHANGED <<now, consent>>

DiscardAcceptedRequest == proposal.stage = "full" /\ Gone

UnifiedNext ==
  \/ Tick /\ UNCHANGED <<proposal, consent>>
  \/ Request \/ AcceptRecipient \/ RejectOrWithdraw \/ CounterPropose \/ ExpireRequest
  \/ \E p \in UNION { operatorsOf(r) : r \in RoleSets } : OperatorAccept(p)
  \/ TriggerPartyAccept \/ RejectOrCancelAccepted
  \/ Promote \/ DiscardAcceptedRequest

UnifiedSpec == UnifiedInit /\ [][UnifiedNext]_unifiedVars

----------------------------------------------------------------------------
UnifiedTypeOK ==
  /\ proposal.stage \in {"none", "requested", "accepted", "full", "gone"}
  /\ proposal.stage # "none" =>
       /\ proposal.roles \in RoleSets /\ proposal.terms \in 1 .. MaxTerms
       /\ proposal.acceptedOperators \subseteq operatorsOf(proposal.roles)
       /\ proposal.triggerPartyAccepted \in BOOLEAN

\* Every role the terms name was accepted by its party.
AllConsent ==
  /\ <<"sender", Sender, proposal.terms>> \in consent
  /\ <<"recipient", Recipient, proposal.terms>> \in consent
  /\ \A p \in operatorsOf(proposal.roles) : <<"operator", p, proposal.terms>> \in consent
  /\ \A p \in triggerOf(proposal.roles) : <<"trigger", p, proposal.terms>> \in consent

\* A fully accepted request names no role whose party did not accept these terms:
\* a counter-proposal voids every earlier acceptance.
UnifiedFullMeansConsent ==
  UnifiedTypeOK /\ (proposal.stage = "full" => AllConsent)

\* "Once all have, the contract transitions to FullyAcceptedStreamRequest":
\* when every named party has accepted, the promotion is not refused.
UnifiedPromotesWhenAccepted ==
  proposal.stage = "accepted" /\ AllConsent => CanPromote
============================================================================
