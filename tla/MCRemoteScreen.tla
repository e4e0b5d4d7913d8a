--------------------------- MODULE MCRemoteScreen ---------------------------
(***************************************************************************)
(* An instance of RemoteScreen for TLC.  The quality starts below the 25   *)
(* under which it is not lowered, just above it, and at the 90 above which *)
(* the encoder does not follow.                                            *)
(***************************************************************************)
EXTENDS RemoteScreen

MCOptions == {[fps |-> 2, quality |-> 20], [fps |-> 1, quality |-> 26],
              [fps |-> 1, quality |-> 90]}
=============================================================================
