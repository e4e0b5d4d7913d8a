------------------------ MODULE RemoteScreen_proofs -------------------------
(***************************************************************************)
(* The remote screen, for any pictures, options and bounds: the quality    *)
(* and the rate of capturing stay within the options.  This is inductive   *)
(* with the types.                                                         *)
(***************************************************************************)
EXTENDS RemoteScreen, TLAPS

USE CaptureAssumption

LEMMA OptionTypes ==
  ASSUME NEW o \in Options
  PROVE  /\ o.fps \in Nat /\ o.fps >= 1
         /\ o.quality \in Nat /\ 1 <= o.quality
  OBVIOUS

-----------------------------------------------------------------------------
(* Quality and rate.                                                       *)

Loads == {"low", "fair", "high"}
Lines == {"good", "fair", "bad"}

LEMMA QualityBounds ==
  ASSUME opts \in Options, NEW q \in Nat \ {0}, NEW load \in Loads
  PROVE  LET next == NextQuality(q, load) IN
         /\ next \in Nat \ {0}
         /\ q <= opts.quality + 1 => next <= opts.quality + 1
         /\ q > 20 \/ q = opts.quality => next = q \/ next > 20
  BY OptionTypes DEF NextQuality, Loads

LEMMA FPSBounds ==
  ASSUME opts \in Options, NEW f \in Nat, NEW load \in Loads, NEW line \in Lines
  PROVE  /\ NextFPS(f, load, line) \in Nat
         /\ f \in 1..opts.fps => NextFPS(f, load, line) \in 1..opts.fps
  <1>1. opts.fps \in Nat /\ opts.fps >= 1
    BY OptionTypes
  <1> DEFINE n == opts.fps
  <1>2. CASE opts.fps <= 1
    <2>1. NextFPS(f, load, line) = IF f < 1 THEN 1 ELSE f
      BY <1>2 DEF NextFPS
    <2> QED BY <1>1, <1>2, <2>1
  <1>3. CASE ~(opts.fps <= 1)
    <2>1. \/ NextFPS(f, load, line) = f
          \/ f > 1 /\ NextFPS(f, load, line) = f - 1
          \/ f < opts.fps /\ NextFPS(f, load, line) = f + 1
      BY <1>1, <1>3 DEF NextFPS
    <2> QED BY <1>1, <2>1
  <1> QED BY <1>2, <1>3

LEMMA AdjustBounds ==
  ASSUME TypeOK, Adjust, opts' = opts, stale' = stale
  PROVE  /\ quality' \in Nat \ {0} /\ encoder' \in Nat \ {0} /\ fps' \in Nat
         /\ TunedWithinOptions => TunedWithinOptions'
  <1>1. PICK load \in Loads, later \in Loads, line \in Lines :
          /\ quality' = NextQuality(quality, load)
          /\ encoder' = IF quality' = quality THEN encoder ELSE Between(quality', 20, 90)
          /\ fps' = NextFPS(fps, later, line)
    BY DEF Adjust, Loads, Lines
  <1>2. /\ opts \in Options /\ opts.quality \in Nat
        /\ quality \in Nat \ {0} /\ encoder \in Nat \ {0} /\ fps \in Nat
    BY OptionTypes DEF TypeOK
  <1>3. /\ quality' \in Nat \ {0}
        /\ quality <= opts.quality + 1 => quality' <= opts.quality + 1
        /\ quality > 20 \/ quality = opts.quality => quality' = quality \/ quality' > 20
    BY <1>1, <1>2, QualityBounds
  <1>4. fps' \in Nat /\ (fps \in 1..opts.fps => fps' \in 1..opts.fps)
    BY <1>1, <1>2, FPSBounds
  <1>5. encoder' \in Nat \ {0}
    BY <1>1, <1>2, <1>3 DEF Between
  <1>6. ASSUME TunedWithinOptions, ~stale
        PROVE  /\ fps' \in 1..opts.fps
               /\ quality' <= opts.quality + 1
               /\ quality' > 20 \/ quality' = opts.quality
               /\ encoder' = quality' \/ (encoder' = 90 /\ quality' > 90)
    <2>1. /\ fps \in 1..opts.fps
          /\ quality <= opts.quality + 1
          /\ quality > 20 \/ quality = opts.quality
          /\ encoder = quality \/ (encoder = 90 /\ quality > 90)
      BY <1>6 DEF TunedWithinOptions
    <2>2. CASE quality' = quality
      BY <1>1, <1>4, <2>1, <2>2
    <2>3. CASE quality' # quality
      <3>1. quality' > 20 /\ encoder' = Between(quality', 20, 90)
        BY <1>1, <1>3, <2>1, <2>3
      <3>2. encoder' = quality' \/ (encoder' = 90 /\ quality' > 90)
        BY <1>3, <3>1 DEF Between
      <3> QED BY <1>3, <1>4, <2>1, <3>1, <3>2
    <2> QED BY <2>2, <2>3
  <1> QED BY <1>3, <1>4, <1>5, <1>6 DEF TunedWithinOptions

LEMMA BeginBounds ==
  ASSUME opts \in Options, Begin, opts' = opts
  PROVE  /\ quality' \in Nat \ {0} /\ encoder' \in Nat \ {0} /\ fps' \in Nat
         /\ TunedWithinOptions'
  <1>1. /\ opts.fps \in Nat /\ opts.fps >= 1
        /\ opts.quality \in Nat /\ 1 <= opts.quality
    BY OptionTypes
  <1> QED BY <1>1 DEF Begin, TunedWithinOptions

-----------------------------------------------------------------------------
(* What is on the way, and what the detector keeps.                        *)

Sent == Pictures \cup {Failure}
Hashes == [picture : Pictures, quality : 1..100]

WireOK == wire \in Seq(Sent) /\ Len(wire) <= MaxWire

LEMMA SendWire ==
  ASSUME WireOK, NEW f \in Sent, Send(f)
  PROVE  WireOK'
  <1>1. CASE passes /\ Len(wire) < MaxWire
    <2>1. wire' = Append(wire, f)
      BY <1>1 DEF Send
    <2> QED BY <1>1, <2>1 DEF WireOK
  <1>2. CASE ~(passes /\ Len(wire) < MaxWire)
    BY <1>2 DEF WireOK, Send
  <1> QED BY <1>1, <1>2

LEMMA ReceiveWire ==
  ASSUME WireOK, wire # <<>>, wire' = Tail(wire)
  PROVE  WireOK' /\ Head(wire) \in Sent
  <1>1. /\ Len(wire) \in Nat /\ Len(wire) >= 1
        /\ \A i \in 1..Len(wire) : wire[i] \in Sent
    BY DEF WireOK
  <1>2. Head(wire) = wire[1] /\ Head(wire) \in Sent
    BY <1>1
  <1>3. wire' \in Seq(Sent) /\ Len(wire') = Len(wire) - 1
    BY <1>1 DEF WireOK
  <1> QED BY <1>1, <1>2, <1>3 DEF WireOK

LEMMA EncodedType ==
  ASSUME TypeOK
  PROVE  Encoded \in Hashes
  <1>1. screen \in Pictures /\ encoder \in Nat
    BY DEF TypeOK
  <1> DEFINE q == Between(encoder, 1, 100)
  <1>2. q \in 1..100
    BY <1>1 DEF Between
  <1>3. Encoded = [picture |-> screen, quality |-> q]
    BY DEF Encoded
  <1> HIDE DEF q
  <1> QED BY <1>1, <1>2, <1>3 DEF Hashes

-----------------------------------------------------------------------------
ScreenInv == TypeOK /\ TunedWithinOptions

LEMMA ScreenInit == Init => ScreenInv
  <1> SUFFICES ASSUME Init PROVE ScreenInv
    OBVIOUS
  <1>1. /\ opts \in Options /\ opts.fps \in Nat /\ opts.fps >= 1
        /\ opts.quality \in Nat /\ 1 <= opts.quality
    BY OptionTypes DEF Init, CaptureInit
  <1>2. TypeOK
    <2>1. wire \in Seq(Sent) /\ Len(wire) <= MaxWire
      BY DEF Init, CaptureInit
    <2>2. /\ quality \in Nat \ {0} /\ encoder \in Nat \ {0} /\ fps \in Nat
          /\ changes \in 0..MaxChanges /\ late \subseteq Sent
      BY <1>1 DEF Init, CaptureInit
    <2>3. /\ screen \in Pictures /\ captures \in BOOLEAN /\ passes \in BOOLEAN
          /\ stale \in BOOLEAN /\ running \in BOOLEAN /\ staticDue \in BOOLEAN
          /\ error \in BOOLEAN /\ seen = None /\ data = None /\ shown = None
      BY DEF Init, CaptureInit
    <2> QED BY <1>1, <2>1, <2>2, <2>3 DEF TypeOK, Sent
  <1>3. TunedWithinOptions
    BY <1>1 DEF Init, CaptureInit, TunedWithinOptions
  <1> QED BY <1>2, <1>3 DEF ScreenInv

\* Steps that leave alone what the loop counts with.
LEMMA AsideStep ==
  ASSUME ScreenInv, UNCHANGED viewVars,
         StaticTimePasses \/ ScreenLocks \/ RelayDrops
         \/ (\E o \in Options : Retune(o)) \/ \E p \in Pictures : ScreenChanges(p)
  PROVE  ScreenInv'
  <1>1. /\ UNCHANGED <<running, quality, encoder, fps, seen, late, wire>>
        /\ stale' = TRUE \/ (stale' = stale /\ opts' = opts)
    BY DEF StaticTimePasses, ScreenLocks, RelayDrops, Retune, ScreenChanges, tuning, loop, world
  <1>2. TypeOK'
    <2>1. /\ screen' \in Pictures /\ captures' \in BOOLEAN /\ passes' \in BOOLEAN
          /\ staticDue' \in BOOLEAN
      BY DEF ScreenInv, TypeOK, StaticTimePasses, ScreenLocks, RelayDrops, Retune,
         ScreenChanges, tuning, loop, world
    <2>2. opts' \in Options /\ stale' \in BOOLEAN /\ changes' \in 0..MaxChanges
      <3>1. opts \in Options /\ stale \in BOOLEAN /\ changes \in 0..MaxChanges
        BY DEF ScreenInv, TypeOK
      <3>2. CASE \E o \in Options : Retune(o)
        BY <3>1, <3>2 DEF Retune
      <3>3. CASE UNCHANGED tuning
        BY <3>1, <3>3 DEF tuning
      <3> QED BY <3>2, <3>3 DEF StaticTimePasses, ScreenLocks, RelayDrops, ScreenChanges
    <2> QED BY <1>1, <2>1, <2>2 DEF ScreenInv, TypeOK, viewVars
  <1>3. TunedWithinOptions'
    BY <1>1 DEF ScreenInv, TunedWithinOptions
  <1> QED BY <1>2, <1>3 DEF ScreenInv

LEMMA CaptureStep ==
  ASSUME ScreenInv, UNCHANGED viewVars, Capture
  PROVE  ScreenInv'
  <1>1. UNCHANGED <<screen, captures, passes, opts, changes, stale, running, late>>
    BY DEF Capture, tuning, world
  <1>2. CASE Send(screen) /\ seen' = Encoded /\ staticDue' = FALSE /\ Adjust
    <2>1. WireOK'
      <3>1. WireOK /\ screen \in Sent
        BY DEF ScreenInv, TypeOK, WireOK, Sent
      <3> QED BY <1>2, <3>1, SendWire
    <2>2. /\ quality' \in Nat \ {0} /\ encoder' \in Nat \ {0} /\ fps' \in Nat
          /\ TunedWithinOptions'
      BY <1>1, <1>2, AdjustBounds DEF ScreenInv
    <2>3. seen' \in Hashes /\ staticDue' \in BOOLEAN
      BY <1>2, EncodedType DEF ScreenInv
    <2>4. TypeOK'
      BY <1>1, <2>1, <2>2, <2>3 DEF ScreenInv, TypeOK, WireOK, Sent, Hashes, viewVars
    <2> QED BY <2>2, <2>4 DEF ScreenInv
  <1>3. CASE UNCHANGED <<wire, seen, staticDue, quality, encoder, fps>>
    BY <1>1, <1>3 DEF ScreenInv, TypeOK, TunedWithinOptions, viewVars
  <1> QED BY <1>2, <1>3 DEF Capture

\* A capture or a write fails, or a cancelled loop still writes, or ends.
LEMMA WriteStep ==
  ASSUME ScreenInv, UNCHANGED viewVars,
         CaptureFails \/ WriteFails \/ \E f \in Sent : LateWrite(f) \/ LateEnds(f)
  PROVE  ScreenInv'
  <1>1. UNCHANGED <<screen, captures, passes, opts, changes, stale, quality, encoder, fps>>
    BY DEF CaptureFails, WriteFails, LateWrite, LateEnds, tuning, loop, world
  <1>2. TunedWithinOptions'
    BY <1>1 DEF ScreenInv, TunedWithinOptions
  <1>3. WireOK /\ Failure \in Sent /\ late \subseteq Sent
    BY DEF ScreenInv, TypeOK, WireOK, Sent
  <1>4. WireOK'
    <2>1. CASE wire' = wire
      BY <1>3, <2>1 DEF WireOK
    <2>2. CASE \E f \in Sent : Send(f)
      BY <1>3, <2>2, SendWire
    <2> QED BY <1>3, <2>1, <2>2 DEF CaptureFails, WriteFails, LateWrite, LateEnds
  <1>5. late' \subseteq Sent
    BY <1>3 DEF CaptureFails, WriteFails, LateWrite, LateEnds
  <1>6. seen' \in Hashes \cup {None} /\ staticDue' \in BOOLEAN /\ running' \in BOOLEAN
    <2>1. CASE WriteFails
      BY <2>1, EncodedType DEF WriteFails, ScreenInv
    <2>2. CASE UNCHANGED <<seen, staticDue, running>>
      BY <2>2 DEF ScreenInv, TypeOK, Hashes
    <2> QED BY <2>1, <2>2 DEF CaptureFails, LateWrite, LateEnds, loop
  <1>7. TypeOK'
    BY <1>1, <1>4, <1>5, <1>6 DEF ScreenInv, TypeOK, WireOK, Sent, Hashes, viewVars
  <1> QED BY <1>2, <1>7 DEF ScreenInv

\* The loop is started anew, for new options or in another session.
LEMMA BeginStep ==
  ASSUME ScreenInv, (Restart /\ UNCHANGED viewVars) \/ SessionRestarts
  PROVE  ScreenInv'
  <1>1. Begin /\ UNCHANGED <<screen, captures, passes, opts, wire, shown>>
    BY DEF Restart, SessionRestarts, viewVars, world
  <1>2. /\ data' \in {data, None} /\ error' \in BOOLEAN /\ changes' \in 0..MaxChanges
        /\ late' \subseteq Sent
    <2>1. error \in BOOLEAN /\ changes \in 0..MaxChanges /\ late \subseteq Sent
      BY DEF ScreenInv, TypeOK, Sent
    <2>2. CASE Restart /\ UNCHANGED viewVars
      <3>1. UNCHANGED <<data, error, changes>>
        BY <2>2 DEF Restart, viewVars
      <3>2. late' = late \/ \E f \in Sent : late' = late \cup {f}
        BY <2>2 DEF Restart, Sent
      <3>3. late' \subseteq Sent
        BY <2>1, <3>2
      <3> QED BY <2>1, <3>1, <3>3
    <2>3. CASE SessionRestarts
      <3>1. /\ changes < MaxChanges /\ changes' = changes + 1
            /\ data' = None /\ error' = FALSE /\ late' = {}
        BY <2>3 DEF SessionRestarts
      <3>2. changes' \in 0..MaxChanges
        BY <2>1, <3>1 DEF CaptureAssumption
      <3> QED BY <3>1, <3>2
    <2> QED BY <2>2, <2>3
  <1>3. /\ quality' \in Nat \ {0} /\ encoder' \in Nat \ {0} /\ fps' \in Nat
        /\ TunedWithinOptions'
    BY <1>1, BeginBounds DEF ScreenInv, TypeOK
  <1>4. running' = TRUE /\ stale' = FALSE /\ seen' = None /\ staticDue' = FALSE
    BY <1>1 DEF Begin
  <1>5. TypeOK'
    BY <1>1, <1>2, <1>3, <1>4 DEF ScreenInv, TypeOK, Sent
  <1> QED BY <1>3, <1>5 DEF ScreenInv

LEMMA ControllerStep ==
  ASSUME ScreenInv, Receive \/ Draw
  PROVE  ScreenInv'
  <1>1. UNCHANGED <<screen, captures, passes, opts, changes, stale, running, quality, encoder,
                    fps, seen, staticDue, late>>
    BY DEF Receive, Draw, captureVars, tuning, loop, world
  <1>2. TunedWithinOptions'
    BY <1>1 DEF ScreenInv, TunedWithinOptions
  <1>3. CASE Draw
    <2>1. shown' = data /\ data # None /\ UNCHANGED <<wire, data, error>>
      BY <1>3 DEF Draw, captureVars
    <2> QED BY <1>1, <1>2, <2>1 DEF ScreenInv, TypeOK
  <1>4. CASE Receive
    <2>1. WireOK' /\ Head(wire) \in Sent
      <3>1. WireOK /\ wire # <<>> /\ wire' = Tail(wire)
        BY <1>4 DEF ScreenInv, TypeOK, WireOK, Sent, Receive
      <3> QED BY <3>1, ReceiveWire
    <2>2. data' \in Pictures \cup {None} /\ error' \in BOOLEAN /\ shown' = shown
      BY <1>4, <2>1 DEF Receive, Sent
    <2>3. TypeOK'
      BY <1>1, <2>1, <2>2 DEF ScreenInv, TypeOK, WireOK, Sent
    <2> QED BY <1>2, <2>3 DEF ScreenInv
  <1> QED BY <1>3, <1>4

LEMMA ScreenStep == ScreenInv /\ [Next]_vars => ScreenInv'
  <1> SUFFICES ASSUME ScreenInv, [Next]_vars PROVE ScreenInv'
    OBVIOUS
  <1>1. CASE UNCHANGED vars
    BY <1>1 DEF vars, captureVars, viewVars, tuning, loop, world, ScreenInv, TypeOK,
       TunedWithinOptions
  <1>2. CASE CaptureNext /\ UNCHANGED viewVars
    BY <1>2, AsideStep, CaptureStep, WriteStep, BeginStep DEF CaptureNext, Sent
  <1> QED BY <1>1, <1>2, BeginStep, ControllerStep DEF Next

LEMMA ScreenAlways == Spec => []ScreenInv
  BY ScreenInit, ScreenStep, PTL DEF Spec

\* For options of any quality and rate, and whatever load and line are like: the
\* rate stays within the options, the quality steps past theirs by one at most and
\* is not lowered to 20 or below, and the encoder uses it or, where it is above 90
\* and was ever adjusted, 90.  (adjustCaptureQuality, adjustCaptureFPS, SetQuality)
THEOREM TuningKeepsToOptions == Spec => []TunedWithinOptions
  <1>1. ScreenInv => TunedWithinOptions
    BY DEF ScreenInv
  <1> QED BY <1>1, ScreenAlways, PTL
=============================================================================
