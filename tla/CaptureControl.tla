--------------------------- MODULE CaptureControl ---------------------------
(***************************************************************************)
(* The loop that captures and sends the helped device's screen:            *)
(* screenFrameLoop of internal/client/client.go with the change detector   *)
(* and the capturer of internal/desktop.  Who starts and stops it is in    *)
(* StreamLoops; what becomes of the frames is in RemoteScreen.             *)
(*                                                                         *)
(* A picture stands for what is on the screen; two encodings of it are     *)
(* equal when their qualities are.  Bit rate, loss and round trip are      *)
(* measured outside: a tick takes any of the ranges the code tells apart.  *)
(* Time is two flags, "long enough since ...".                             *)
(***************************************************************************)
EXTENDS Integers, Sequences

CONSTANTS
  Pictures,   \* what the screen may show
  Options,    \* records [fps, quality]: CaptureFPS and CaptureQuality
  MaxWire,    \* bound: frames between the two devices
  MaxChanges, \* bound: changes of the options, and new sessions
  MaxDrop,    \* bound: how far below the options the quality is lowered
  None

Failure == "failure"  \* a frame of kind error

\* -capture-quality takes any number; UpdateMediaOptions clamps to 20..90.
ASSUME CaptureAssumption ==
  /\ {None, Failure} \cap Pictures = {} /\ None # Failure
  /\ Options \subseteq [fps : Nat \ {0}, quality : Nat \ {0}]
  /\ MaxWire \in Nat \ {0} /\ MaxChanges \in Nat /\ MaxDrop \in Nat

VARIABLES
  screen,     \* the picture on the screen
  captures,   \* the screen can be captured (it cannot while it is locked, ...)
  opts,       \* c.opts
  changes,    \* changes of opts, and new sessions, so far
  stale,      \* opts were changed and the loop has not been restarted yet
  running,    \* the loop runs
  quality,    \* local variable quality
  encoder,    \* capturer.opts.Quality
  fps,        \* local variable currentFPS
  seen,       \* detector.lastHash, None before the first frame
  staticDue,  \* StaticFrameInterval has passed since lastSentAt
  late,       \* what loops that were cancelled may still write
  passes,     \* the relay passes frames on: their queue is open and has room
  wire        \* frames passed on and not yet received

tuning == <<opts, changes, stale>>
loop == <<running, quality, encoder, fps, seen, staticDue>>
world == <<screen, captures, passes>>
captureVars == <<world, tuning, loop, late, wire>>

Between(v, low, high) == IF v < low THEN low ELSE IF v > high THEN high ELSE v

\* What the detector keeps of the frame: jpeg.Encode takes qualities from 1 to 100.
Encoded == [picture |-> screen, quality |-> Between(encoder, 1, 100)]

-----------------------------------------------------------------------------
(* Adjusting quality and rate                                              *)

\* Faulty variant: the quality is raised once too often.
NextQualityPast(q, load) ==
  CASE load = "high" /\ q > 25 /\ opts.quality - q < MaxDrop -> q - 5
    [] load = "low" /\ q <= opts.quality -> q + 2
    [] OTHER -> q

\* load: the bit rate is above the limit, below six tenths of it, or between.
NextQuality(q, load) ==
  CASE load = "high" /\ q > 25 /\ opts.quality - q < MaxDrop -> q - 5
    [] load = "low" /\ q < opts.quality -> q + 2
    [] OTHER -> q

\* line: loss or round trip are high, both are low, or neither.
NextFPS(f, load, line) ==
  LET congested == load = "high" \/ line = "bad"
      healthy == load = "low" /\ line = "good"
  IN CASE opts.fps <= 1 -> IF f < 1 THEN 1 ELSE f
       [] opts.fps > 1 /\ congested /\ f > 1 -> f - 1
       [] opts.fps > 1 /\ ~(congested /\ f > 1) /\ healthy /\ f < opts.fps -> f + 1
       [] OTHER -> f

\* adjustCaptureQuality and adjustCaptureFPS after a frame.  Each measures the
\* bit rate anew.
Adjust ==
  \E load, later \in {"low", "fair", "high"}, line \in {"good", "fair", "bad"} :
    /\ quality' = NextQuality(quality, load)
    /\ encoder' = IF quality' = quality THEN encoder ELSE Between(quality', 20, 90)
    /\ fps' = NextFPS(fps, later, line)

-----------------------------------------------------------------------------
(* The loop                                                                *)

\* screenFrameLoop up to its first tick: NewCapturer and a new detector.
Begin ==
  /\ running' = TRUE /\ stale' = FALSE
  /\ quality' = opts.quality /\ encoder' = opts.quality /\ fps' = opts.fps
  /\ seen' = None /\ staticDue' = FALSE

CaptureInit ==
  /\ screen \in Pictures /\ captures = TRUE /\ passes = TRUE
  /\ opts \in Options /\ changes = 0 /\ stale = FALSE
  /\ running = TRUE
  /\ quality = opts.quality /\ encoder = opts.quality /\ fps = opts.fps
  /\ seen = None /\ staticDue = FALSE
  /\ late = {} /\ wire = <<>>

\* The write of f succeeds.  The relay drops it if the controller's queue is
\* full or closed, or nobody empties it any more.
Send(f) ==
  wire' = IF passes /\ Len(wire) < MaxWire THEN Append(wire, f) ELSE wire

\* Faulty variant: Observe sends changed frames only.
SendsChanged == seen # Encoded

\* Observe: a changed frame, or one that was static for long enough.
Sends == seen # Encoded \/ staticDue

\* A tick that captures a frame.
Capture ==
  /\ running /\ captures
  /\ \/ /\ Sends /\ Send(screen)
        /\ seen' = Encoded /\ staticDue' = FALSE
        /\ Adjust
     \/ ~Sends /\ UNCHANGED <<wire, seen, staticDue, quality, encoder, fps>>
  /\ UNCHANGED <<world, tuning, running, late>>

\* A tick that fails to: the peer is told and the loop goes on.  When the last time
\* it was told is less than five seconds ago, or the write fails, nothing changes.
\* (What the helped device then shows of itself is left out.)
CaptureFails ==
  /\ running /\ ~captures
  /\ Send(Failure)
  /\ UNCHANGED <<world, tuning, running, quality, encoder, fps, seen, staticDue, late>>

\* The write of a frame fails: the loop returns, and its detector with it.
WriteFails ==
  /\ running /\ captures /\ Sends
  /\ seen' = Encoded /\ staticDue' = FALSE /\ running' = FALSE
  /\ UNCHANGED <<world, tuning, quality, encoder, fps, late, wire>>

StaticTimePasses ==
  /\ running /\ seen # None /\ staticDue' = TRUE
  /\ UNCHANGED <<world, tuning, running, quality, encoder, fps, seen, late, wire>>

\* UpdateMediaOptions or UpdateOptions: the loop sees the new options at once,
\* and is restarted a moment later.
Retune(o) ==
  /\ changes < MaxChanges /\ o # opts
  /\ opts' = o /\ changes' = changes + 1 /\ stale' = TRUE
  /\ UNCHANGED <<world, loop, late, wire>>

\* startStreamLoop: the old loop is cancelled, and the new one begins when it has
\* ended or two seconds later.  Until it ends the old one may have to write the
\* picture it holds, or that its next Capture failed ("context canceled").
Restart ==
  /\ stale
  /\ \/ late' = late
     \/ running /\ \E f \in Pictures \cup {Failure} : late' = late \cup {f}
  /\ Begin
  /\ UNCHANGED <<world, opts, changes, wire>>

\* The loop may take one more tick, which fails, before it sees that it is cancelled.
LateWrite(f) ==
  /\ f \in late /\ late' \in {late \ {f}, (late \ {f}) \cup {Failure}}
  /\ Send(f)
  /\ UNCHANGED <<world, tuning, loop>>

\* A cancelled loop ends, or its write fails.
LateEnds(f) ==
  /\ f \in late /\ late' = late \ {f}
  /\ UNCHANGED <<world, tuning, loop, wire>>

\* What the user of the helped device does, Windows, and the relay.
ScreenChanges(p) ==
  /\ p # screen /\ screen' = p
  /\ UNCHANGED <<captures, passes, tuning, loop, late, wire>>

ScreenLocks ==
  /\ captures' = ~captures
  /\ UNCHANGED <<screen, passes, tuning, loop, late, wire>>

RelayDrops ==
  /\ passes' = ~passes
  /\ UNCHANGED <<screen, captures, tuning, loop, late, wire>>

CaptureNext ==
  \/ Capture \/ CaptureFails \/ WriteFails \/ StaticTimePasses
  \/ Restart \/ ScreenLocks \/ RelayDrops
  \/ \E f \in Pictures \cup {Failure} : LateWrite(f) \/ LateEnds(f)
  \/ \E o \in Options : Retune(o)
  \/ \E p \in Pictures : ScreenChanges(p)
=============================================================================
