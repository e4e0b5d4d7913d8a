---------------------------- MODULE RemoteScreen ----------------------------
(***************************************************************************)
(* The helped device's screen as the controller sees it: the helped device *)
(* captures and sends (CaptureControl), the controller's read loop keeps   *)
(* the last frame (handleMessage in internal/client/client.go), and its    *)
(* window decodes and shows it (decodeLatestFrameLocked in                 *)
(* cmd/client-windows/app.go).  What the mouse does on the picture is in   *)
(* RemoteInput.                                                            *)
(*                                                                         *)
(* The relay between the two keeps the order of frames.  It drops those    *)
(* for which the controller's queue has no room, and those of a session    *)
(* that is over.                                                           *)
(***************************************************************************)
EXTENDS CaptureControl

VARIABLES
  data,     \* State.LastFrameData: the picture in it, None for ""
  error,    \* State.LastFrameError # ""
  shown     \* the picture in lastFrameImage, None before the first

viewVars == <<data, error, shown>>
vars == <<captureVars, viewVars>>

Init ==
  /\ CaptureInit
  /\ data = None /\ error = FALSE /\ shown = None

-----------------------------------------------------------------------------
(* The controller                                                          *)

\* stream.frame.
Receive ==
  /\ wire # <<>> /\ wire' = Tail(wire)
  /\ IF Head(wire) = Failure THEN data' = None /\ error' = TRUE
     ELSE data' = Head(wire) /\ error' = FALSE
  /\ UNCHANGED <<world, tuning, loop, late, shown>>

\* frameSnapshot and decodeLatestFrameLocked: without data the old image stays.
Draw ==
  /\ data # None /\ data # shown
  /\ shown' = data
  /\ UNCHANGED <<captureVars, data, error>>

\* The session is closed and another begins: session.ready on both sides.  The
\* frames of the old one have come before it, and what its loop still writes is
\* dropped by the relay.
SessionRestarts ==
  /\ changes < MaxChanges /\ changes' = changes + 1
  /\ wire = <<>>
  /\ Begin /\ late' = {}
  /\ data' = None /\ error' = FALSE
  /\ UNCHANGED <<world, opts, wire, shown>>

-----------------------------------------------------------------------------
Next ==
  \/ CaptureNext /\ UNCHANGED viewVars
  \/ Receive \/ Draw \/ SessionRestarts

\* The ticker, the clock, cancelled loops, the read loop and the window go on.
Fairness ==
  /\ WF_vars(Capture /\ UNCHANGED viewVars)
  /\ WF_vars(StaticTimePasses /\ UNCHANGED viewVars)
  /\ \A f \in Pictures \cup {Failure} :
       WF_vars(LateEnds(f) /\ UNCHANGED viewVars)
  /\ WF_vars(Receive) /\ WF_vars(Draw)

Spec == Init /\ [][Next]_vars
FairSpec == Spec /\ Fairness

-----------------------------------------------------------------------------
(* Properties                                                              *)

\* Types of both sides.
TypeOK ==
  /\ screen \in Pictures /\ captures \in BOOLEAN /\ passes \in BOOLEAN
  /\ opts \in Options /\ changes \in 0..MaxChanges /\ stale \in BOOLEAN
  /\ quality \in Nat \ {0} /\ encoder \in Nat \ {0} /\ fps \in Nat
  /\ running \in BOOLEAN
  /\ seen \in [picture : Pictures, quality : 1..100] \cup {None}
  /\ staticDue \in BOOLEAN
  /\ late \subseteq Pictures \cup {Failure}
  /\ wire \in Seq(Pictures \cup {Failure}) /\ Len(wire) <= MaxWire
  /\ data \in Pictures \cup {None} /\ error \in BOOLEAN
  /\ shown \in Pictures \cup {None}

\* From the restart that follows a change of options on, and whatever the line
\* does: the rate stays within the options; the quality the loop counts with steps
\* past theirs by one at most and is never lowered to 20 or below, unless the
\* options say so; and the encoder uses it, or 90 where the loop counts with more.
\* (adjustCaptureQuality, adjustCaptureFPS, SetQuality)
TunedWithinOptions ==
  ~stale =>
    /\ fps \in 1..opts.fps
    /\ quality <= opts.quality + 1
    /\ quality > 20 \/ quality = opts.quality
    /\ encoder = quality \/ (encoder = 90 /\ quality > 90)

\* When the screen comes to rest and can be captured, the loop goes on and the
\* relay passes frames again, the controller ends with that picture and without an
\* error: although the detector has taken frames for sent that the relay dropped,
\* a failure was reported since, or a cancelled loop has written an older picture
\* after the newest.  (Observe, screenFrameLoop, startStreamLoop)  Nothing repairs
\* the picture while the relay does not pass frames, as to a controller whose write
\* goroutine has ended.
PictureArrives ==
  \A p \in Pictures :
    <>[](screen = p /\ captures /\ running /\ passes)
      => <>[](shown = p /\ ~error)
=============================================================================
