----------------------------- MODULE MCAccrual -----------------------------
(***************************************************************************)
(* The arithmetic of the system over bounded inputs: one vesting schedule  *)
(* or one distribution is picked, and time, or the gross amount, runs up.  *)
(***************************************************************************)
EXTENDS SdkAmounts

CONSTANTS
  MaxDeposit,    \* bound: largest deposit
  MaxInstant,    \* bound: instants run from 0 to here
  MaxGross,      \* bound: largest gross amount
  MaxLegs        \* bound: legs of a distribution

ASSUME InputAssumption == {MaxDeposit, MaxInstant, MaxGross, MaxLegs} \subseteq Nat

VARIABLES
  curve, locked, opens, closes,   \* the vesting mode, deposit, start and end
  division, shares,               \* the rule and legs of a distribution, if any
  reading                         \* the instant, or the gross amount

inputs == <<curve, locked, opens, closes, division, shares>>

Instants == 0..MaxInstant

Modes ==
  {Linear, RenewableTerm(1)}
  \cup {CliffLinear(c) : c \in Instants}
  \cup {Stepped(i, a) : i \in -1..3, a \in 1..3}

Schedule ==
  /\ curve \in Modes
  /\ locked \in 1..MaxDeposit
  /\ opens \in Instants
  /\ closes \in Instants
  /\ opens < closes
  /\ division = "none" /\ shares = <<>>

Divisions == UNION { [1..n -> 1..Whole] : n \in 1..MaxLegs }

Split ==
  /\ curve = Linear /\ locked = 1 /\ opens = 0 /\ closes = 1
  /\ division \in {"percentage", "fixed"}
  /\ shares \in { l \in Divisions : division = "percentage" => SumOfLegs(l) = Whole }

NoInputs ==
  /\ curve = Linear /\ locked = 1 /\ opens = 0 /\ closes = 1
  /\ division = "none" /\ shares = <<>> /\ reading = 0

PickInputs == reading = 0 /\ (Schedule \/ Split)

RunUp ==
  /\ reading < IF division = "none" THEN MaxInstant ELSE MaxGross
  /\ reading' = reading + 1
  /\ UNCHANGED inputs

ArithmeticSpec == PickInputs /\ [][RunUp]_<<inputs, reading>>

\* Every curve is its reference: rounded once, half to even, or step by step.
CurveIsExact == division = "none" => ExactAt(curve, locked, opens, closes, reading)

\* The balance display is the ledger's own curve, at most a millisecond away: a
\* recipient who is shown an amount can withdraw it a millisecond later.  The display
\* throws only for a schedule that no stream can have.
DisplayIsClose ==
  division = "none" =>
    \A withdrawn \in 0..locked : ShownAt(curve, locked, opens, closes, withdrawn, reading)

\* A distribution is split once for all: the client and the contract compute the
\* same legs, and each is its own rounded share.
SplitsAreFair ==
  division # "none" /\ reading > 0 =>
    /\ SplitsAgree(division, reading, shares)
    /\ division = "percentage" => SharesHonoured(reading, shares)
============================================================================
