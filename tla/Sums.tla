-------------------------------- MODULE Sums --------------------------------
(***************************************************************************)
(* Sums of amounts, written as what they count: the units of a family of   *)
(* amounts f, each unit marked with the member of f it belongs to.  The    *)
(* facts about finite sets then do for sums.                               *)
(***************************************************************************)
EXTENDS Integers, FiniteSets

Units(f) == UNION { {x} \X (1 .. f[x]) : x \in DOMAIN f }

\* The sum of a function to the natural numbers.
Total(f) == Cardinality(Units(f))
============================================================================
