------------------------------ MODULE MCRelay -------------------------------
(***************************************************************************)
(* Instances of Relay for TLC.  helped is the device that is helped, helper *)
(* the device of its helper, second that of another helper.                *)
(***************************************************************************)
EXTENDS RelayInvariant, TLC

CONSTANTS helped, helper, second, c1, c2, c3, c4

\* The helped device may connect again, the others connect once ...
OneHelper ==
  [c \in Conns |-> IF c = c1 THEN helper ELSE IF c = c4 THEN second ELSE helped]
\* ... or each of three devices connects once.
TwoHelpers == [c \in Conns |-> IF c = c1 THEN helper ELSE IF c = c2 THEN helped ELSE second]

\* Under OneHelper the connections of the helped device are interchangeable
\* (for safety: no run with fairness uses this).
Reconnecting == Permutations({c2, c3})

NobodyAsks == {}
HelperAsks == {<<helper, helped>>}
HelpersAsk == {<<helper, helped>>, <<second, helped>>}
=============================================================================
