----------------------------- MODULE MCApproval -----------------------------
(***************************************************************************)
(* An instance of Approval for TLC.                                        *)
(***************************************************************************)
EXTENDS Approval, TLC

\* Devices are all alike (for safety).
Devices == Permutations(Peers)
=============================================================================
