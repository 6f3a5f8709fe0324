--------------------------- MODULE MCAutoWithdraw ---------------------------
(***************************************************************************)
(* Small instances of AutoWithdraw: one unit, and then two, accrue.        *)
(***************************************************************************)
EXTENDS AutoWithdraw

CONSTANTS s1, s2, alice

MCCurve == [t \in 0 .. MaxTime |-> IF t = 0 THEN 0 ELSE 2 * t - 1]
BothConfigs == {[signing |-> b, host |-> b] : b \in BOOLEAN}
HostWallet == {[signing |-> TRUE, host |-> TRUE]}
OneRecipient == [s \in Streams |-> alice]
OwnRecipients == [s \in Streams |-> s]
============================================================================
