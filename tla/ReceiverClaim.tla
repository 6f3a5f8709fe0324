---------------------------- MODULE ReceiverClaim ----------------------------
(***************************************************************************)
(* The receiver-claim settlement of one stream of the V1 lane: the payer's *)
(* wallet locks a cycle's amount in an allocation and signs a              *)
(* ReceiverClaimV1 contract for it, the recipient exercises Claim when it  *)
(* is unlocked, and the lane's row counts what the chain confirms.         *)
(*                                                                         *)
(* Funding is a session of the dashboard (fundReceiverClaimV1ViaWallet):   *)
(* prepare, allocate, find the allocation by its settlement reference,     *)
(* record it, prepare and sign the claim contract, find it, record it.     *)
(* The lane keeps nothing between the steps, and a session may stop after  *)
(* any of them.  A serial payer runs one session at a time, another may    *)
(* overlap two.  The executor is the recipient, as by default.             *)
(***************************************************************************)
EXTENDS StreamTime, Sequences, FiniteSetsExt, Sums

CONSTANTS
  Sessions,        \* funding sessions the payer may have open
  Payers,          \* whether the payer may be serial, and of which agreement:
                   \* its arrearsPolicy and termEnd, 0 when it is open-ended
  Requests,        \* what a caller may ask of prepareReceiverAllocation
  PeriodRate,      \* ratePerPeriod; a period is one tick
  SettleWindow,    \* settleBeforeSeconds, between unlockAt and expiresAt
  MaxAllocations,  \* bound: allocations, and claim contracts, ever made
  MaxPeriods       \* bound: the last period of a behaviour

ASSUME ClaimAssumption ==
  /\ PeriodRate \in Nat \ {0} /\ SettleWindow \in Nat \ {0}
  /\ Payers \subseteq [serial : BOOLEAN, catchUp : BOOLEAN, termEnd : Nat]
  /\ Requests \subseteq
       [force : BOOLEAN, amount : Nat \cup {-1}, unlockAt : Nat \cup {-1}, expiresAt : Nat \cup {-1}]

VARIABLES
  payer,         \* chosen at the start
  lane,          \* the stream's row of the store
  allocations,   \* on chain, in order: [cycle (its reference), amount, fate]
  claimable,     \* the ReceiverClaimV1 contracts, in order: whether active, and of what
  session        \* where each funding session stands, and what it was handed

claimVars == <<now, payer, lane, allocations, claimable, session>>

Closed == [step |-> "closed"]
NotCreated == 0

ClaimInit ==
  /\ now = 0
  /\ payer \in Payers
  /\ lane = [status |-> "active", settled |-> 0, cycles |-> 0, history |-> <<>>, claims |-> <<>>]
  /\ allocations = <<>>
  /\ claimable = <<>>
  /\ session = [f \in Sessions |-> Closed]

----------------------------------------------------------------------------
claimDue ==
  LET elapsed == IF payer.termEnd # 0 /\ payer.termEnd < now THEN payer.termEnd ELSE now
      arrears == PeriodRate * elapsed - lane.settled
  IN  IF lane.status = "stopped" \/ arrears <= 0 THEN 0
      ELSE IF payer.catchUp \/ arrears < PeriodRate THEN arrears
      ELSE PeriodRate

ClaimedOnly(r) == r.cycles + 1
nextClaimCycle(r) == Max({r.cycles} \cup { r.claims[k].cycle : k \in DOMAIN r.claims }) + 1

\* A record of the row for allocation i, else for that cycle.
recordOf(i, cycle) ==
  LET byCid == { k \in DOMAIN lane.claims : lane.claims[k].allocation = i }
      byCycle == { k \in DOMAIN lane.claims : lane.claims[k].cycle = cycle }
  IN  IF byCid # {} THEN byCid ELSE byCycle

Claimed(u) == \E k \in DOMAIN lane.history : lane.history[k].update = u
CreditedLane(r, u, amount, cycle) ==
  [ r EXCEPT !.settled = @ + amount, !.cycles = IF @ < cycle THEN cycle ELSE @,
             !.history = Append(@, [update |-> u, amount |-> amount]) ]

----------------------------------------------------------------------------
(* Funding, by the payer's wallet *)

Goes(f, s) == session' = [session EXCEPT ![f] = s]
Steps(f, step) == Goes(f, [session[f] EXCEPT !.step = step])

\* A request may force a cycle, and name its amount and its times.
NotGiven == -1
Chosen(req) == req.force \/ req.amount # NotGiven \/ req.unlockAt # NotGiven

\* A named amount stands for what is due, and one period when forced with nothing due.
claimAmount(req) ==
  IF req.amount # NotGiven THEN req.amount
  ELSE IF req.force /\ claimDue = 0 THEN PeriodRate ELSE claimDue

\* Unlocked as named, at once when forced, or else when the cycle it pays is over.
unlockTime(req, cycle) ==
  IF req.unlockAt # NotGiven THEN req.unlockAt
  ELSE IF req.force \/ cycle < now THEN now ELSE cycle
expiryTime(req, cycle) ==
  IF req.expiresAt # NotGiven THEN req.expiresAt ELSE unlockTime(req, cycle) + SettleWindow

prepareReceiverAllocation(f, req) ==
  /\ session[f].step = "closed"
  /\ payer.serial => \A g \in Sessions : session[g].step = "closed"
  /\ claimAmount(req) > 0
  /\ LET cycle == nextClaimCycle(lane)
     IN  /\ unlockTime(req, cycle) < expiryTime(req, cycle)
         /\ Goes(f, [ step |-> "prepared", cycle |-> cycle,
                      terms |-> [ amount |-> claimAmount(req), chosen |-> Chosen(req),
                                  unlockAt |-> unlockTime(req, cycle),
                                  expiresAt |-> expiryTime(req, cycle) ] ])
  /\ UNCHANGED <<now, payer, lane, allocations, claimable>>

Allocate(f) ==
  /\ session[f].step = "prepared"
  /\ Len(allocations) < MaxAllocations
  /\ allocations' = Append(allocations,
       [ cycle |-> session[f].cycle, amount |-> session[f].terms.amount,
         fate |-> "locked", chosen |-> FALSE ])
  /\ Steps(f, "allocated")
  /\ UNCHANGED <<now, payer, lane, claimable>>

\* The allocation found carries the session's reference, which the allocation of
\* another session may carry as well.  A record the row has already is overwritten
\* but for its cycle, its status and its claim contract.
recordReceiverAllocation(f) ==
  /\ session[f].step = "allocated"
  /\ \E i \in DOMAIN allocations :
       LET s == session[f]
           known == recordOf(i, s.cycle)
       IN  /\ allocations[i].cycle = s.cycle /\ allocations[i].fate = "locked"
           /\ \/ /\ known = {}
                 /\ lane' = [lane EXCEPT !.claims = Append(@,
                      [ cycle |-> s.cycle, allocation |-> i, terms |-> s.terms,
                        status |-> "allocated", contract |-> NotCreated ])]
              \/ \E k \in known :
                   /\ \A l \in known : k <= l
                   /\ lane' = [ lane EXCEPT !.claims[k].allocation = i,
                                           !.claims[k].terms = s.terms ]
           /\ Goes(f, [step |-> "recorded", allocation |-> i, cycle |-> s.cycle])
  /\ UNCHANGED <<now, payer, allocations, claimable>>

\* The claim contract is made of what the record holds now.
OpenRecord(k, i) == lane.claims[k].allocation = i /\ lane.claims[k].status # "claimed"

prepareReceiverClaim(f) ==
  /\ session[f].step = "recorded"
  /\ \E k \in DOMAIN lane.claims :
       /\ OpenRecord(k, session[f].allocation)
       /\ Goes(f, [ step |-> "drafted", allocation |-> session[f].allocation,
                    cycle |-> lane.claims[k].cycle, terms |-> lane.claims[k].terms ])
  /\ UNCHANGED <<now, payer, lane, allocations, claimable>>

CreateClaim(f) ==
  /\ session[f].step = "drafted"
  /\ Len(claimable) < MaxAllocations
  /\ claimable' = Append(claimable,
       [ active |-> TRUE, allocation |-> session[f].allocation,
         cycle |-> session[f].cycle, terms |-> session[f].terms ])
  /\ Goes(f, [ step |-> "created", allocation |-> session[f].allocation,
               cycle |-> session[f].cycle ])
  /\ UNCHANGED <<now, payer, lane, allocations>>

recordReceiverClaim(f) ==
  /\ session[f].step = "created"
  /\ \E c \in DOMAIN claimable, k \in DOMAIN lane.claims :
       /\ claimable[c].active /\ claimable[c].cycle = session[f].cycle
       /\ OpenRecord(k, session[f].allocation)
       /\ lane' = [lane EXCEPT !.claims[k].contract = c, !.claims[k].status = "claim_ready"]
  /\ Goes(f, Closed)
  /\ UNCHANGED <<now, payer, allocations, claimable>>

\* The wallet refuses, shows nothing yet, or its user leaves; what was done stays.
Abort(f) ==
  /\ session[f].step # "closed"
  /\ Goes(f, Closed)
  /\ UNCHANGED <<now, payer, lane, allocations, claimable>>

----------------------------------------------------------------------------
(* Claiming, by the recipient's payer, and taking back, by the payer's *)

Claim(c) ==
  /\ claimable[c].active
  /\ claimable[c].terms.unlockAt <= now /\ now < claimable[c].terms.expiresAt
  /\ LET i == claimable[c].allocation
     IN  /\ allocations[i].fate = "locked"
         /\ allocations[i].cycle = claimable[c].cycle
         /\ allocations[i].amount = claimable[c].terms.amount
         /\ allocations' = [allocations EXCEPT ![i].fate = "executed",
                                               ![i].chosen = claimable[c].terms.chosen]
  /\ claimable' = [claimable EXCEPT ![c].active = FALSE]
  /\ UNCHANGED <<now, payer, lane, session>>

SenderWithdraw(c) ==
  /\ claimable[c].active
  /\ allocations[claimable[c].allocation].fate = "locked"
  /\ allocations' = [allocations EXCEPT ![claimable[c].allocation].fate = "withdrawn"]
  /\ claimable' = [claimable EXCEPT ![c].active = FALSE]
  /\ UNCHANGED <<now, payer, lane, session>>

\* The update must consume the record's allocation in favour of the recipient,
\* for at least the amount recorded.
CanRecordClaim(k, i) ==
  /\ lane.claims[k].status # "claimed"
  /\ ~Claimed(i)
  /\ lane.claims[k].allocation = i
  /\ allocations[i].fate = "executed"
  /\ allocations[i].amount >= lane.claims[k].terms.amount

recordClaim(k, i) ==
  /\ CanRecordClaim(k, i)
  /\ LET r == CreditedLane(lane, i, lane.claims[k].terms.amount, lane.claims[k].cycle)
     IN  lane' = [r EXCEPT !.claims[k].status = "claimed"]
  /\ UNCHANGED <<now, payer, allocations, claimable, session>>

----------------------------------------------------------------------------
\* Another settlement of the same row pays what is due (StreamLane models them).
OtherCycle ==
  /\ claimDue > 0
  /\ lane' = CreditedLane(lane, -Len(lane.history) - 1, claimDue, lane.cycles + 1)
  /\ UNCHANGED <<now, payer, allocations, claimable, session>>

stopLane ==
  /\ lane' = [lane EXCEPT !.status = "stopped"]
  /\ UNCHANGED <<now, payer, allocations, claimable, session>>

ClaimNext ==
  \/ now < MaxPeriods /\ Tick /\ UNCHANGED <<payer, lane, allocations, claimable, session>>
  \/ OtherCycle \/ stopLane
  \/ \E f \in Sessions :
       \/ \E req \in Requests : prepareReceiverAllocation(f, req)
       \/ Allocate(f) \/ recordReceiverAllocation(f)
       \/ prepareReceiverClaim(f) \/ CreateClaim(f) \/ recordReceiverClaim(f)
       \/ Abort(f)
  \/ \E c \in DOMAIN claimable : Claim(c) \/ SenderWithdraw(c)
  \/ \E k \in DOMAIN lane.claims :
       \E i \in DOMAIN allocations : recordClaim(k, i)

ClaimSpec == ClaimInit /\ [][ClaimNext]_claimVars

----------------------------------------------------------------------------
ClaimTerms == [amount : Nat \ {0}, chosen : BOOLEAN, unlockAt : Nat, expiresAt : Nat]
ClaimRecord ==
  [ cycle : Nat \ {0}, allocation : Nat \ {0}, terms : ClaimTerms,
    status : {"allocated", "claim_ready", "claimed"}, contract : Nat ]
Allocation ==
  [ cycle : Nat \ {0}, amount : Nat \ {0}, chosen : BOOLEAN,
    fate : {"locked", "executed", "withdrawn"} ]
ClaimContract ==
  [active : BOOLEAN, allocation : Nat \ {0}, cycle : Nat \ {0}, terms : ClaimTerms]
FundingSession ==
  {Closed}
  \cup [step : {"prepared", "allocated"}, cycle : Nat \ {0}, terms : ClaimTerms]
  \cup [step : {"recorded", "created"}, allocation : Nat \ {0}, cycle : Nat \ {0}]
  \cup [step : {"drafted"}, allocation : Nat \ {0}, cycle : Nat \ {0}, terms : ClaimTerms]

ClaimTypeOK ==
  /\ payer \in Payers
  /\ lane \in [ status : {"active", "stopped"}, settled : Nat, cycles : Nat,
                history : Seq([update : Int, amount : Nat \ {0}]), claims : Seq(ClaimRecord) ]
  /\ allocations \in Seq(Allocation)
  /\ claimable \in Seq(ClaimContract)
  /\ session \in [Sessions -> FundingSession]

\* What the row counts as claimed are distinct executed allocations of its own, each
\* for no more than it delivered, and settled is the sum of what the row counts:
\* recordings may be lost, repeated or late, and the wallets in any order.
ClaimsAreDeliveries ==
  LET h == lane.history
  IN  /\ \A k, l \in DOMAIN h : k # l => h[k].update # h[l].update
      /\ \A k \in DOMAIN h : h[k].update > 0 =>
           /\ allocations[h[k].update].fate = "executed"
           /\ h[k].amount <= allocations[h[k].update].amount
      /\ lane.settled = Total([k \in DOMAIN h |-> h[k].amount])

\* What the recipient received through a claim is on the row, or can still be
\* recorded there: no delivery is stranded, and then paid for a second time.
EveryClaimCounts ==
  \A i \in DOMAIN allocations :
    allocations[i].fate = "executed" =>
      Claimed(i) \/ \E k \in DOMAIN lane.claims : CanRecordClaim(k, i)

\* The claims whose amount and instant the lane chose, nobody forcing or naming
\* them, pay no more than the rate for every period gone by.  For an open-ended
\* agreement that is what has accrued.  Past the end of a term it is more: an
\* allocation that is not claimed yet does not count as settled, so the last
\* period stays due and is funded again, for a cycle that unlocks past the end.
Unchosen ==
  { i \in DOMAIN allocations : allocations[i].fate = "executed" /\ ~allocations[i].chosen }
OnePeriodEach ==
  Total([i \in Unchosen |-> allocations[i].amount]) <= PeriodRate * now

\* What holds whichever sessions overlap and whatever the callers name, what needs
\* the sessions one at a time, and what fails even then when arrears are caught up
\* with, since the next allocation locks the same arrears again.
ClaimsSound ==
  /\ ClaimTypeOK
  /\ ClaimsAreDeliveries
  /\ payer.serial => EveryClaimCounts
  /\ payer.serial /\ ~payer.catchUp => OnePeriodEach
==============================================================================
