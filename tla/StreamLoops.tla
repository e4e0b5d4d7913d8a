---------------------------- MODULE StreamLoops -----------------------------
(***************************************************************************)
(* The loop that sends the helped device's screen (internal/client/        *)
(* client.go).  The read loop starts and stops it as sessions come and go, *)
(* the window restarts it when settings are saved (UpdateOptions) and Close *)
(* stops it, each on a goroutine of its own.  All share one slot,          *)
(* streamCancel and streamDone; a goroutine that takes a loop out of the   *)
(* slot cancels it and waits for its end, but two seconds at most.         *)
(*                                                                         *)
(* A loop is a call of screenFrameLoop or mockFrameLoop.  What it captures *)
(* and at which quality and rate is in CaptureControl.                     *)
(***************************************************************************)
CONSTANTS
  Sessions,  \* session ids; the relay never gives one out twice
  Loops,     \* bound: stream loops that are there at a time
  Savers,    \* goroutines of the window that save settings
  None       \* no session, no loop

ASSUME StreamAssumption ==
  /\ None \notin Sessions /\ None \notin Loops
  /\ "reader" \notin Savers /\ "closer" \notin Savers

VARIABLES
  session,    \* State.SessionID
  sends,      \* State.ShouldSendView
  sending,    \* opts.SendScreenFrames or opts.SendMockFrames
  rootDone,   \* rootCtx is done
  current,    \* the loop in the slot: streamCancel and streamDone
  loop,       \* loop -> "none", "made", "running", "ended", "dropped"
  cancelled,  \* loop -> its cancel function was called
  streams,    \* loop -> the session id it was started with
  step,       \* goroutine -> where it is, "idle" if it has nothing to do
  after,      \* goroutine -> what it does once the slot is empty
  wanted,     \* goroutine -> the session it starts a loop for
  old,        \* goroutine -> the loop it has taken out of the slot
  new,        \* goroutine -> the loop it starts
  alone       \* history: see Begin

state == <<session, sends, sending>>
slot == <<current, loop, cancelled, streams>>
locals == <<step, after, wanted, old, new>>
vars == <<state, rootDone, slot, locals, alone>>

Goroutines == Savers \cup {"reader", "closer"}

\* Types of the slot, the loops and the locals of the goroutines.
TypeOK ==
  /\ session \in Sessions \cup {None} /\ sends \in BOOLEAN
  /\ sending \in BOOLEAN /\ rootDone \in BOOLEAN
  /\ current \in Loops \cup {None}
  /\ loop \in [Loops -> {"none", "made", "running", "ended", "dropped"}]
  /\ cancelled \in [Loops -> BOOLEAN]
  /\ streams \in [Loops -> Sessions \cup {None}]
  /\ step \in [Goroutines -> {"idle", "state", "stop", "stopCancel", "stopWait", "options",
                              "swap", "swapCancel", "swapWait", "spawn", "clear"}]
  /\ after \in [Goroutines -> {"return", "options", "clear"}]
  /\ wanted \in [Goroutines -> Sessions \cup {None}]
  /\ old \in [Goroutines -> Loops \cup {None}] /\ new \in [Goroutines -> Loops \cup {None}]
  /\ alone \in BOOLEAN

Init ==
  /\ session = None /\ sends = FALSE /\ sending \in BOOLEAN /\ rootDone = FALSE
  /\ current = None /\ loop = [l \in Loops |-> "none"]
  /\ cancelled = [l \in Loops |-> FALSE] /\ streams = [l \in Loops |-> None]
  /\ step = [g \in Goroutines |-> "idle"] /\ after = [g \in Goroutines |-> "return"]
  /\ wanted = [g \in Goroutines |-> None]
  /\ old = [g \in Goroutines |-> None] /\ new = [g \in Goroutines |-> None]
  /\ alone = TRUE

-----------------------------------------------------------------------------
(* Loops                                                                   *)

Running(l) == loop[l] = "running"

\* streamCtx is done: its cancel function was called, or Close ended rootCtx.
Stopped(l) == cancelled[l] \/ rootDone

\* No goroutine and no slot knows the loop: its identifier may be used again.
Unknown(l) ==
  /\ loop[l] \in {"none", "ended", "dropped"} /\ l # current
  /\ \A g \in Goroutines : l # old[g] /\ l # new[g]

\* A session id that nothing remembers stands for one not given out yet.
Fresh(s) ==
  /\ s # session
  /\ \A l \in Loops : streams[l] # s
  /\ \A g \in Goroutines : wanted[g] # s

\* close(done): ctx.Done() was selected, or NewCapturer or a write failed.  It
\* takes as long as the capture or the write in progress.
LoopEnds(l) ==
  /\ Running(l)
  /\ loop' = [loop EXCEPT ![l] = "ended"]
  /\ cancelled' = [cancelled EXCEPT ![l] = FALSE] /\ streams' = [streams EXCEPT ![l] = None]
  /\ UNCHANGED <<state, rootDone, current, locals, alone>>

\* Faulty variant: a loop that has not begun yet is left alone.
CancelBegun(l) ==
  cancelled' = IF l = None \/ ~Running(l) THEN cancelled ELSE [cancelled EXCEPT ![l] = TRUE]

\* A call of the loop's cancel function.
Cancel(l) ==
  cancelled' = IF l = None \/ loop[l] \in {"ended", "dropped"} THEN cancelled
               ELSE [cancelled EXCEPT ![l] = TRUE]

-----------------------------------------------------------------------------
(* stopStreamLoop                                                          *)

\* Goroutine g goes on at s.
Goto(g, s) == step' = [step EXCEPT ![g] = s]

\* Under streamCancelMu.
StopSwap(g) ==
  /\ step[g] = "stop"
  /\ old' = [old EXCEPT ![g] = current] /\ current' = None
  /\ Goto(g, "stopCancel")
  /\ UNCHANGED <<state, rootDone, loop, cancelled, streams, after, wanted, new, alone>>

StopCancel(g) ==
  /\ step[g] = "stopCancel"
  /\ Cancel(old[g])
  /\ Goto(g, "stopWait")
  /\ UNCHANGED <<state, rootDone, current, loop, streams, after, wanted, old, new, alone>>

\* What follows stopStreamLoop: an early return, startConfiguredStreamLoop
\* or clearSession.
Continue(g) ==
  /\ Goto(g, IF after[g] = "return" THEN "idle" ELSE after[g])
  /\ after' = [after EXCEPT ![g] = "return"]

\* done is closed, or the two seconds are over.
StopWait(g) ==
  /\ step[g] = "stopWait"
  /\ old' = [old EXCEPT ![g] = None]
  /\ Continue(g)
  /\ UNCHANGED <<state, rootDone, slot, wanted, new, alone>>

-----------------------------------------------------------------------------
(* startConfiguredStreamLoop and startStreamLoop                           *)

\* The options say what to send.  With nothing to send the peer is told so.
Configure(g) ==
  /\ step[g] = "options"
  /\ Goto(g, IF sending THEN "swap" ELSE "idle")
  /\ wanted' = IF sending THEN wanted ELSE [wanted EXCEPT ![g] = None]
  /\ UNCHANGED <<state, rootDone, slot, after, old, new, alone>>

\* Faulty variant: what the slot held is forgotten.
StartSwapForgets(g, l) ==
  /\ step[g] = "swap" /\ Unknown(l)
  /\ old' = [old EXCEPT ![g] = None] /\ new' = [new EXCEPT ![g] = l]
  /\ current' = l
  /\ loop' = [loop EXCEPT ![l] = "made"]
  /\ streams' = [streams EXCEPT ![l] = wanted[g]] /\ wanted' = [wanted EXCEPT ![g] = None]
  /\ Goto(g, "swapCancel")
  /\ UNCHANGED <<state, rootDone, cancelled, after, alone>>

\* Under streamCancelMu.
StartSwap(g, l) ==
  /\ step[g] = "swap" /\ Unknown(l)
  /\ old' = [old EXCEPT ![g] = current] /\ new' = [new EXCEPT ![g] = l]
  /\ current' = l
  /\ loop' = [loop EXCEPT ![l] = "made"]
  /\ streams' = [streams EXCEPT ![l] = wanted[g]] /\ wanted' = [wanted EXCEPT ![g] = None]
  /\ Goto(g, "swapCancel")
  /\ UNCHANGED <<state, rootDone, cancelled, after, alone>>

StartCancel(g) ==
  /\ step[g] = "swapCancel"
  /\ Cancel(old[g])
  /\ Goto(g, IF old[g] = None THEN "spawn" ELSE "swapWait")
  /\ UNCHANGED <<state, rootDone, current, loop, streams, after, wanted, old, new, alone>>

\* oldDone is closed, or the two seconds are over.
StartWait(g) ==
  /\ step[g] = "swapWait"
  /\ old' = [old EXCEPT ![g] = None]
  /\ Goto(g, "spawn")
  /\ UNCHANGED <<state, rootDone, slot, after, wanted, new, alone>>

\* The client closes during the wait: the new loop is not started, and its
\* done channel, which stays in the slot, is never closed.
StartDropped(g) ==
  /\ step[g] = "swapWait" /\ rootDone
  /\ loop' = [loop EXCEPT ![new[g]] = "dropped"]
  /\ cancelled' = [cancelled EXCEPT ![new[g]] = FALSE]
  /\ streams' = [streams EXCEPT ![new[g]] = None]
  /\ old' = [old EXCEPT ![g] = None] /\ new' = [new EXCEPT ![g] = None]
  /\ Goto(g, "idle")
  /\ UNCHANGED <<state, rootDone, current, after, wanted, alone>>

\* The goroutine starts, cancelled or not; screenFrameLoop sets its capturer up.
Spawn(g) ==
  /\ step[g] = "spawn"
  /\ loop' = [loop EXCEPT ![new[g]] = "running"]
  /\ new' = [new EXCEPT ![g] = None]
  /\ Goto(g, "idle")
  /\ UNCHANGED <<state, rootDone, current, cancelled, streams, after, wanted, old, alone>>

-----------------------------------------------------------------------------
(* What makes the loop start and stop                                      *)

\* History: alone says that the goroutine that last set the stream right had
\* it for itself, and that nobody has touched it since without doing so too.
Begin(g, settles) ==
  alone' = IF \A h \in Goroutines \ {g} : step[h] = "idle" THEN alone \/ settles ELSE FALSE

\* session.ready: the state is set, then the loop started or stopped.
SessionReady(s, send) ==
  /\ step["reader"] = "idle" /\ Fresh(s)
  /\ session' = s /\ sends' = send
  /\ wanted' = IF send THEN [wanted EXCEPT !["reader"] = s] ELSE wanted
  /\ after' = IF send THEN [after EXCEPT !["reader"] = "options"] ELSE after
  /\ Goto("reader", "stop")
  /\ Begin("reader", TRUE)
  /\ UNCHANGED <<sending, rootDone, slot, old, new>>

\* Faulty variant: the state is cleared and the loop left to itself.
SessionEndsOnly ==
  /\ step["reader"] = "idle" /\ session # None
  /\ Goto("reader", "clear")
  /\ Begin("reader", TRUE)
  /\ UNCHANGED <<state, rootDone, slot, after, wanted, old, new>>

\* session.close, whatever session it is for, and markDisconnected.
SessionEnds ==
  /\ step["reader"] = "idle" /\ session # None
  /\ after' = [after EXCEPT !["reader"] = "clear"]
  /\ Goto("reader", "stop")
  /\ Begin("reader", TRUE)
  /\ UNCHANGED <<state, rootDone, slot, wanted, old, new>>

\* clearSession
ClearSession ==
  /\ step["reader"] = "clear"
  /\ session' = None /\ sends' = FALSE
  /\ Goto("reader", "idle")
  /\ UNCHANGED <<sending, rootDone, slot, after, wanted, old, new, alone>>

\* stream.control: UpdateMediaOptions, then the loop is started again.
StreamControl(send) ==
  /\ step["reader"] = "idle"
  /\ sending' = send
  /\ IF session # None /\ sends
     THEN /\ wanted' = [wanted EXCEPT !["reader"] = session]
          /\ after' = [after EXCEPT !["reader"] = "options"]
          /\ Goto("reader", "stop")
     ELSE UNCHANGED <<wanted, after, step>>
  /\ Begin("reader", session # None /\ sends)
  /\ UNCHANGED <<session, sends, rootDone, slot, old, new>>

\* UpdateOptions
UpdateOptions(g, send) ==
  /\ step[g] = "idle"
  /\ sending' = send
  /\ Goto(g, "state")
  /\ Begin(g, TRUE)
  /\ UNCHANGED <<session, sends, rootDone, slot, after, wanted, old, new>>

\* restartStreamLoopForCurrentState reads the state.
Restart(g) ==
  /\ step[g] = "state"
  /\ IF session # None /\ sends
     THEN /\ wanted' = [wanted EXCEPT ![g] = session]
          /\ after' = [after EXCEPT ![g] = "options"]
     ELSE UNCHANGED <<wanted, after>>
  /\ Goto(g, "stop")
  /\ UNCHANGED <<state, rootDone, slot, old, new, alone>>

\* Close cancels rootCtx, then stops the loop.
Close ==
  /\ ~rootDone
  /\ rootDone' = TRUE
  /\ Goto("closer", "stop")
  /\ Begin("closer", TRUE)
  /\ UNCHANGED <<state, slot, after, wanted, old, new>>

-----------------------------------------------------------------------------

\* What goroutine g does on its way.
Move(g) ==
  \/ StopSwap(g) \/ StopCancel(g) \/ StopWait(g)
  \/ Configure(g) \/ (\E l \in Loops : StartSwap(g, l)) \/ StartCancel(g)
  \/ StartWait(g) \/ StartDropped(g) \/ Spawn(g)
  \/ Restart(g) \/ (g = "reader" /\ ClearSession)

Event ==
  \/ \E s \in Sessions, send \in BOOLEAN : SessionReady(s, send)
  \/ SessionEnds \/ Close
  \/ \E send \in BOOLEAN : StreamControl(send)
  \/ \E g \in Savers, send \in BOOLEAN : UpdateOptions(g, send)

Next ==
  \/ Event
  \/ \E g \in Goroutines : Move(g)
  \/ \E l \in Loops : LoopEnds(l)

Spec == Init /\ [][Next]_vars

-----------------------------------------------------------------------------
(* Properties                                                              *)

Idle == \A g \in Goroutines : step[g] = "idle"

\* A loop that is neither in the slot nor cancelled is about to be cancelled by
\* the goroutine that took it out of the slot: nobody loses a running loop.
NoLostLoop ==
  \A l \in Loops : (loop[l] = "made" \/ Running(l)) /\ ~cancelled[l] /\ l # current =>
    \E g \in Goroutines : step[g] \in {"stopCancel", "swapCancel"} /\ old[g] = l

\* Two screens are never captured for good: once nobody is about to cancel one,
\* at most one loop goes on.
OneStream ==
  (\A g \in Goroutines : step[g] \notin {"stopCancel", "swapCancel"}) =>
    \A k, l \in Loops : Running(k) /\ Running(l) /\ ~Stopped(k) /\ ~Stopped(l) => k = l

\* When the events of the stream did not overlap, the loop that goes on streams
\* to the current session, and there is one only with a session.
StreamFollowsSession ==
  Idle /\ alone =>
    \A l \in Loops : Running(l) /\ ~Stopped(l) =>
      session # None /\ sends /\ streams[l] = session
=============================================================================
