----------------------------- MODULE RemoteInput ----------------------------
(***************************************************************************)
(* The way of a mouse event: the controller's window maps the pointer onto *)
(* the picture (cmd/client-windows/remote.go), a goroutine sends the event *)
(* (SendMouse), and the helped device injects it (handleInputMouse and     *)
(* internal/input).  Points, sizes and rectangles are in pixels of the     *)
(* window, below its toolbar.                                              *)
(*                                                                         *)
(* The window sends no keys and only the left button; the relay's part,    *)
(* which is to check the session, is in Relay.                             *)
(***************************************************************************)
EXTENDS PictureGeometry, FiniteSets

CONSTANTS
  Screens,    \* records [w, h]: sizes the helped device's screen may have
  MaxFrame,   \* [w, h]: CaptureMaxWidth and CaptureMaxHeight
  Area,       \* [x0, y0, x1, y1]: the window less its margin
  Points,     \* records [x, y]: where the pointer may be
  MaxFlights, \* bound: events on their way at a time
  None

Sizes == {Scaled(s, MaxFrame) : s \in Screens}
NoPicture == [w |-> 0, h |-> 0]

VARIABLES
  screen,   \* the size of the helped device's screen
  size,     \* lastFrameSize: the picture in the window
  grabbed,  \* Gio: a press in the input area has not been released
  flights,  \* events a goroutine of sendMouse is under way with
  allowed,  \* the session's InputAllowed, as the controller knows it
  enabled,  \* opts.EnableInput of the helped device
  reading,  \* the helped device's read loop goes on
  cursor,   \* [x, y]: where events have put the helped device's cursor, or None
  button    \* the helped device's left button is down

helped == <<screen, enabled, reading, cursor, button>>
vars == <<size, grabbed, flights, allowed, helped>>

-----------------------------------------------------------------------------
(* The window                                                              *)

\* screen: where the picture is drawn.
Rect == FitRect(Area, size)

\* Gio gives positions relative to the offset that is in force where the tag was
\* added: op.Offset(screenRect.Min) if there is a picture, until screen returns.
Local(p) == IF size = NoPicture THEN p ELSE [x |-> p.x - Rect.x0, y |-> p.y - Rect.y0]

\* clip.Rect(rect) is in the same coordinates.  A press keeps the pointer's events.
Delivered(action, p) ==
  CASE action = "up" -> grabbed
    [] action = "down" -> ~grabbed /\ Inside(Local(p), Rect)
    [] action = "move" -> grabbed \/ Inside(Local(p), Rect)
    [] action = "scroll" -> Inside(Local(p), Rect)

\* What the user points at: a pixel of the picture, or None beside it.
Under(p) == IF Inside(p, Rect) THEN PixelAt(p, Rect, size) ELSE None

\* handleRemoteInput for one event; under is the history of what was pointed at.
MouseEvent(action, p) ==
  LET pixel == PixelAt(Local(p), Rect, size)
  IN [action |-> action, x |-> pixel.x, y |-> pixel.y, w |-> size.w, h |-> size.h,
      under |-> Under(p)]

\* sendMouse: a goroutine for the event.
Depart(e) ==
  /\ Cardinality(flights) < MaxFlights /\ e \notin flights
  /\ flights' = flights \cup {e}

\* The user presses, releases, moves or scrolls at p.  A scroll has no action.
UserActs(action, p) ==
  /\ Delivered(action, p)
  /\ grabbed' = (action = "down" \/ (grabbed /\ action # "up"))
  /\ IF allowed /\ (Inside(Local(p), Rect) \/ action = "scroll")
     THEN Depart(MouseEvent(action, p))
     ELSE UNCHANGED flights
  /\ UNCHANGED <<size, allowed, helped>>

\* SendMouse fails: no session, two seconds over, or the connection is gone.
SendFails(e) ==
  /\ e \in flights /\ flights' = flights \ {e}
  /\ UNCHANGED <<size, grabbed, allowed, helped>>

-----------------------------------------------------------------------------
(* The helped device                                                       *)

\* Mouse: a move to (0, 0) moves, a press there is one where the cursor is.
Moves(e) == e.action = "move" \/ e.x # 0 \/ e.y # 0

Divides(e) == Divisor(e.w, screen.w) # 0 /\ Divisor(e.h, screen.h) # 0

MoveCursor(e) ==
  cursor' = IF Moves(e) THEN [x |-> Normalize(e.x, e.w, screen.w), y |-> Normalize(e.y, e.h, screen.h)]
            ELSE cursor

\* mouseFlags for the left button.
PressButton(e) == button' = IF e.action \in {"down", "up"} THEN e.action = "down" ELSE button

\* sendInputs: all inputs are injected, the first only, or none.
Inject(e) ==
  \/ MoveCursor(e) /\ PressButton(e)
  \/ MoveCursor(e) /\ UNCHANGED button
  \/ UNCHANGED <<cursor, button>>

\* handleInputMouse: event e arrives, before or after the others.  An error is
\* reported and the read loop goes on; a division by zero ends it (safeGo).
Arrive(e) ==
  /\ e \in flights /\ flights' = flights \ {e}
  /\ reading
  /\ CASE ~enabled -> UNCHANGED <<cursor, button, reading>>
       [] enabled /\ Moves(e) /\ ~Divides(e) -> reading' = FALSE /\ UNCHANGED <<cursor, button>>
       [] OTHER -> Inject(e) /\ UNCHANGED reading
  /\ UNCHANGED <<size, grabbed, allowed, screen, enabled>>

\* The helped device's user switches remote input on or off, or another session
\* with or without input begins.
InputSwitched ==
  /\ \/ enabled' = ~enabled /\ UNCHANGED allowed
     \/ allowed' = ~allowed /\ UNCHANGED enabled
  /\ UNCHANGED <<size, grabbed, flights, screen, reading, cursor, button>>

\* The screen gets another size; the picture of it is shown some time later.
ScreenChanges ==
  /\ screen' \in Screens \ {screen}
  /\ UNCHANGED <<size, grabbed, flights, allowed, enabled, reading, cursor, button>>

PictureChanges ==
  /\ size' \in Sizes \ {size}
  /\ UNCHANGED <<grabbed, flights, allowed, helped>>

Init ==
  /\ screen \in Screens /\ size = NoPicture /\ grabbed = FALSE /\ flights = {}
  /\ allowed = TRUE /\ enabled = TRUE /\ reading = TRUE
  /\ cursor = None /\ button = FALSE

Next ==
  \/ \E a \in {"down", "up", "move", "scroll"}, p \in Points : UserActs(a, p)
  \/ \E e \in flights : SendFails(e) \/ Arrive(e)
  \/ InputSwitched \/ ScreenChanges \/ PictureChanges

Spec == Init /\ [][Next]_vars

-----------------------------------------------------------------------------
(* Properties                                                              *)

\* Mouse input is supported (README.md:28): an event made on a picture names the
\* pixel that the user points at.  (screen, handleRemoteInput)
PointedPixel ==
  \A e \in flights : e.w > 0 => e.under = [x |-> e.x, y |-> e.y]
=============================================================================
