--------------------------- MODULE MCRemoteInput ----------------------------
(***************************************************************************)
(* An instance of RemoteInput for TLC.  The screens are too wide, too tall *)
(* and small enough for a frame, and one is so wide that its frame is one  *)
(* pixel high; the window is wide, and its points are all in it.           *)
(***************************************************************************)
EXTENDS RemoteInput

MCScreens == {[w |-> 6, h |-> 4], [w |-> 2, h |-> 4], [w |-> 2, h |-> 2], [w |-> 9, h |-> 2]}
MCMaxFrame == [w |-> 3, h |-> 3]
MCArea == [x0 |-> 1, y0 |-> 1, x1 |-> 7, y1 |-> 5]
MCPoints == [x : 0..7, y : 0..5]
=============================================================================
