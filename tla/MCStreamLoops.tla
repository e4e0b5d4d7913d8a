--------------------------- MODULE MCStreamLoops ----------------------------
(***************************************************************************)
(* An instance of StreamLoops for TLC.                                     *)
(***************************************************************************)
EXTENDS StreamLoops, TLC

\* Identifiers of sessions and loops mean nothing (for safety).
Identifiers == Permutations(Sessions) \cup Permutations(Loops)
=============================================================================
