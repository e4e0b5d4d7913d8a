------------------------- MODULE StreamLoops_proofs -------------------------
(***************************************************************************)
(* No stream loop is ever lost, for any number of them and of goroutines   *)
(* that save settings.  NoLostLoop is inductive with three facts about the *)
(* goroutines: one that is going to start a loop has made it (Maker), no   *)
(* two are going to start the same (OwnLoop), and the goroutine of Close   *)
(* has nothing to do before Close is called (CloserWaits).  OneStream      *)
(* follows from NoLostLoop: a loop nobody is about to cancel and that is   *)
(* not cancelled is the one in the slot.                                   *)
(*                                                                         *)
(* StreamFollowsSession needs to know what the goroutine that sets the     *)
(* stream right will leave behind, wherever it is on its way (Follows),    *)
(* while the others are idle.                                              *)
(***************************************************************************)
EXTENDS StreamLoops, TLAPS

Starting == {"swapCancel", "swapWait", "spawn"}

Maker ==
  \A g \in Goroutines : step[g] \in Starting => new[g] \in Loops /\ loop[new[g]] = "made"

OwnLoop ==
  \A g, h \in Goroutines : new[g] = new[h] /\ new[g] # None => g = h

CloserWaits == step["closer"] # "idle" => rootDone

IInv == TypeOK /\ NoLostLoop /\ Maker /\ OwnLoop /\ CloserWaits

LEMMA StreamInit == Init => IInv
  <1> SUFFICES ASSUME Init PROVE IInv
    OBVIOUS
  <1>1. TypeOK
    BY DEF Init, TypeOK
  <1>2. \A g \in Goroutines : step[g] = "idle" /\ new[g] = None
    BY DEF Init
  <1>3. NoLostLoop
    BY DEF Init, NoLostLoop, Running
  <1>4. Maker /\ OwnLoop
    BY <1>2 DEF Maker, OwnLoop, Starting
  <1>5. CloserWaits
    BY <1>2 DEF CloserWaits, Goroutines
  <1> QED BY <1>1, <1>3, <1>4, <1>5 DEF IInv

\* A goroutine that was not about to cancel a loop goes somewhere else than
\* the start of a loop; the slot and the loops are left alone.
LEMMA Elsewhere ==
  ASSUME IInv, NEW g \in Goroutines, NEW s, Goto(g, s),
         s \notin Starting, step[g] \notin {"stopCancel", "swapCancel"},
         UNCHANGED <<loop, cancelled, current, old, new>>
  PROVE  NoLostLoop' /\ Maker' /\ OwnLoop'
  <1>1. /\ step'[g] = s
        /\ \A h \in Goroutines \ {g} : step'[h] = step[h]
    BY DEF Goto, IInv, TypeOK
  <1>2. NoLostLoop'
    <2> SUFFICES ASSUME NEW l \in Loops, loop[l] = "made" \/ loop[l] = "running",
                        ~cancelled[l], l # current
                 PROVE  \E h \in Goroutines :
                          step'[h] \in {"stopCancel", "swapCancel"} /\ old[h] = l
      BY DEF NoLostLoop, Running
    <2>1. PICK h \in Goroutines : step[h] \in {"stopCancel", "swapCancel"} /\ old[h] = l
      BY DEF IInv, NoLostLoop, Running
    <2>2. h # g
      BY <2>1
    <2> QED BY <1>1, <2>1, <2>2
  <1>3. Maker'
    BY <1>1 DEF IInv, Maker
  <1>4. OwnLoop'
    BY DEF IInv, OwnLoop
  <1> QED BY <1>2, <1>3, <1>4

\* The same when the goroutine also lets go of the loop it has waited for.
LEMMA LetsGo ==
  ASSUME IInv, NEW g \in Goroutines, NEW s, Goto(g, s),
         s \notin {"stopCancel", "swapCancel", "swapWait"},
         s = "spawn" => step[g] \in Starting,
         step[g] \notin {"stopCancel", "swapCancel"},
         old' = [old EXCEPT ![g] = None],
         UNCHANGED <<loop, cancelled, current, new>>
  PROVE  NoLostLoop' /\ Maker' /\ OwnLoop'
  <1>1. /\ step'[g] = s
        /\ \A h \in Goroutines \ {g} : step'[h] = step[h] /\ old'[h] = old[h]
    BY DEF Goto, IInv, TypeOK
  <1>2. NoLostLoop'
    <2> SUFFICES ASSUME NEW l \in Loops, loop[l] = "made" \/ loop[l] = "running",
                        ~cancelled[l], l # current
                 PROVE  \E h \in Goroutines :
                          step'[h] \in {"stopCancel", "swapCancel"} /\ old'[h] = l
      BY DEF NoLostLoop, Running
    <2>1. PICK h \in Goroutines : step[h] \in {"stopCancel", "swapCancel"} /\ old[h] = l
      BY DEF IInv, NoLostLoop, Running
    <2>2. h # g
      BY <2>1
    <2> QED BY <1>1, <2>1, <2>2
  <1>3. Maker'
    BY <1>1 DEF IInv, Maker, Starting
  <1>4. OwnLoop'
    BY DEF IInv, OwnLoop
  <1> QED BY <1>2, <1>3, <1>4

\* The goroutine that had taken a loop out of the slot cancels it.
LEMMA Cancels ==
  ASSUME IInv, NEW g \in Goroutines, NEW s, Goto(g, s), Cancel(old[g]),
         s \in Starting => step[g] \in Starting,
         UNCHANGED <<loop, current, old, new>>
  PROVE  /\ NoLostLoop' /\ Maker' /\ OwnLoop'
         /\ cancelled' \in [Loops -> BOOLEAN]
  <1>1. /\ step'[g] = s
        /\ \A h \in Goroutines \ {g} : step'[h] = step[h]
    BY DEF Goto, IInv, TypeOK
  <1>2. /\ cancelled' \in [Loops -> BOOLEAN]
        /\ \A l \in Loops : cancelled[l] => cancelled'[l]
        /\ \A l \in Loops : l = old[g] /\ (loop[l] = "made" \/ loop[l] = "running") =>
             cancelled'[l]
    <2>1. CASE cancelled' = cancelled /\ (old[g] = None \/ loop[old[g]] \in {"ended", "dropped"})
      BY <2>1, StreamAssumption DEF IInv, TypeOK
    <2>2. CASE cancelled' = [cancelled EXCEPT ![old[g]] = TRUE]
      BY <2>2 DEF IInv, TypeOK
    <2> QED BY <2>1, <2>2 DEF Cancel
  <1>3. NoLostLoop'
    <2> SUFFICES ASSUME NEW l \in Loops, loop[l] = "made" \/ loop[l] = "running",
                        ~cancelled'[l], l # current
                 PROVE  \E h \in Goroutines :
                          step'[h] \in {"stopCancel", "swapCancel"} /\ old[h] = l
      BY DEF NoLostLoop, Running
    <2>1. PICK h \in Goroutines : step[h] \in {"stopCancel", "swapCancel"} /\ old[h] = l
      BY <1>2 DEF IInv, NoLostLoop, Running
    <2>2. h # g
      BY <1>2, <2>1
    <2> QED BY <1>1, <2>1, <2>2
  <1>4. Maker'
    BY <1>1 DEF IInv, Maker
  <1>5. OwnLoop'
    BY DEF IInv, OwnLoop
  <1> QED BY <1>2, <1>3, <1>4, <1>5

\* A loop is taken out of the slot.
LEMMA TakesOut ==
  ASSUME IInv, NEW g \in Goroutines, StopSwap(g)
  PROVE  TypeOK' /\ NoLostLoop' /\ Maker' /\ OwnLoop'
  <1>1. /\ step'[g] = "stopCancel" /\ old'[g] = current
        /\ \A h \in Goroutines \ {g} : step'[h] = step[h] /\ old'[h] = old[h]
        /\ UNCHANGED <<loop, cancelled, new>>
        /\ step[g] = "stop"
    BY DEF StopSwap, Goto, IInv, TypeOK
  <1>2. TypeOK'
    BY DEF StopSwap, Goto, IInv, TypeOK, state
  <1>3. NoLostLoop'
    <2> SUFFICES ASSUME NEW l \in Loops, loop[l] = "made" \/ loop[l] = "running",
                        ~cancelled[l]
                 PROVE  \E h \in Goroutines :
                          step'[h] \in {"stopCancel", "swapCancel"} /\ old'[h] = l
      BY <1>1 DEF NoLostLoop, Running
    <2>1. CASE l = current
      BY <1>1, <2>1
    <2>2. CASE l # current
      <3>1. PICK h \in Goroutines : step[h] \in {"stopCancel", "swapCancel"} /\ old[h] = l
        BY <2>2 DEF IInv, NoLostLoop, Running
      <3>2. h # g
        BY <1>1, <3>1
      <3> QED BY <1>1, <3>1, <3>2
    <2> QED BY <2>1, <2>2
  <1>4. Maker'
    BY <1>1 DEF IInv, Maker, Starting
  <1>5. OwnLoop'
    BY <1>1 DEF IInv, OwnLoop
  <1> QED BY <1>2, <1>3, <1>4, <1>5

\* A new loop is put into the slot, and what was there taken out.
LEMMA PutsIn ==
  ASSUME IInv, NEW g \in Goroutines, NEW k \in Loops, StartSwap(g, k)
  PROVE  TypeOK' /\ NoLostLoop' /\ Maker' /\ OwnLoop'
  <1>1. /\ step'[g] = "swapCancel" /\ old'[g] = current /\ new'[g] = k
        /\ \A h \in Goroutines \ {g} :
             step'[h] = step[h] /\ old'[h] = old[h] /\ new'[h] = new[h]
        /\ current' = k /\ cancelled' = cancelled
        /\ loop'[k] = "made" /\ \A l \in Loops \ {k} : loop'[l] = loop[l]
        /\ step[g] = "swap"
    BY DEF StartSwap, Goto, IInv, TypeOK
  <1>2. k # current /\ \A h \in Goroutines : k # old[h] /\ k # new[h]
    BY DEF StartSwap, Unknown
  <1>3. TypeOK'
    BY DEF StartSwap, Goto, IInv, TypeOK, state
  <1>4. NoLostLoop'
    <2> SUFFICES ASSUME NEW l \in Loops \ {k}, loop[l] = "made" \/ loop[l] = "running",
                        ~cancelled[l]
                 PROVE  \E h \in Goroutines :
                          step'[h] \in {"stopCancel", "swapCancel"} /\ old'[h] = l
      BY <1>1 DEF NoLostLoop, Running
    <2>1. CASE l = current
      BY <1>1, <2>1
    <2>2. CASE l # current
      <3>1. PICK h \in Goroutines : step[h] \in {"stopCancel", "swapCancel"} /\ old[h] = l
        BY <2>2 DEF IInv, NoLostLoop, Running
      <3>2. h # g
        BY <1>1, <3>1
      <3> QED BY <1>1, <3>1, <3>2
    <2> QED BY <2>1, <2>2
  <1>5. Maker'
    <2> SUFFICES ASSUME NEW h \in Goroutines, step'[h] \in Starting
                 PROVE  new'[h] \in Loops /\ loop'[new'[h]] = "made"
      BY DEF Maker
    <2>1. CASE h = g
      BY <1>1, <2>1
    <2>2. CASE h # g
      BY <1>1, <1>2, <2>2 DEF IInv, Maker
    <2> QED BY <2>1, <2>2
  <1>6. OwnLoop'
    BY <1>1, <1>2 DEF IInv, OwnLoop
  <1> QED BY <1>3, <1>4, <1>5, <1>6

\* The goroutine starts the loop it has made, or gives it up.
LEMMA Starts ==
  ASSUME IInv, NEW g \in Goroutines, Spawn(g) \/ StartDropped(g)
  PROVE  TypeOK' /\ NoLostLoop' /\ Maker' /\ OwnLoop'
  <1> DEFINE k == new[g]
  <1>1. k \in Loops /\ step[g] \in Starting /\ step[g] \notin {"stopCancel", "swapCancel"}
    BY DEF Spawn, StartDropped, IInv, Maker, Starting
  <1>2. /\ step'[g] = "idle" /\ new'[g] = None
        /\ \A h \in Goroutines \ {g} :
             step'[h] = step[h] /\ old'[h] = old[h] /\ new'[h] = new[h]
        /\ current' = current
        /\ \A l \in Loops \ {k} : loop'[l] = loop[l] /\ cancelled'[l] = cancelled[l]
    BY <1>1 DEF Spawn, StartDropped, Goto, IInv, TypeOK
  <1>3. TypeOK'
    BY <1>1 DEF Spawn, StartDropped, Goto, IInv, TypeOK, state
  <1>4. NoLostLoop'
    <2> SUFFICES ASSUME NEW l \in Loops, loop'[l] = "made" \/ loop'[l] = "running",
                        ~cancelled'[l], l # current
                 PROVE  \E h \in Goroutines :
                          step'[h] \in {"stopCancel", "swapCancel"} /\ old'[h] = l
      BY <1>2 DEF NoLostLoop, Running
    <2>1. (loop[l] = "made" \/ loop[l] = "running") /\ ~cancelled[l]
      <3>1. CASE l # k
        BY <1>2, <3>1
      <3>2. CASE l = k /\ Spawn(g)
        BY <3>2, <1>1 DEF Spawn, IInv, Maker
      <3>3. CASE l = k /\ StartDropped(g)
        <4>1. loop'[l] = "dropped"
          BY <3>3, <1>1 DEF StartDropped, IInv, TypeOK
        <4> QED BY <4>1
      <3> QED BY <3>1, <3>2, <3>3
    <2>2. PICK h \in Goroutines : step[h] \in {"stopCancel", "swapCancel"} /\ old[h] = l
      BY <2>1 DEF IInv, NoLostLoop, Running
    <2>3. h # g
      BY <1>1, <2>2
    <2> QED BY <1>2, <2>2, <2>3
  <1>5. Maker'
    <2> SUFFICES ASSUME NEW h \in Goroutines, step'[h] \in Starting
                 PROVE  new'[h] \in Loops /\ loop'[new'[h]] = "made"
      BY DEF Maker
    <2>1. h # g
      BY <1>2 DEF Starting
    <2>2. new[h] \in Loops /\ loop[new[h]] = "made"
      BY <1>2, <2>1 DEF IInv, Maker
    <2>3. new[h] # k
      BY <2>1, <2>2, StreamAssumption DEF IInv, OwnLoop
    <2> QED BY <1>2, <2>1, <2>2, <2>3
  <1>6. OwnLoop'
    BY <1>2 DEF IInv, OwnLoop
  <1> QED BY <1>3, <1>4, <1>5, <1>6

\* What a goroutine does on its way.
LEMMA MoveStep ==
  ASSUME IInv, NEW g \in Goroutines, Move(g)
  PROVE  IInv'
  <1>1. CloserWaits'
    <2>1. rootDone' = rootDone /\ step[g] # "idle"
      BY DEF Move, StopSwap, StopCancel, StopWait, Configure, StartSwap, StartCancel,
             StartWait, StartDropped, Spawn, Restart, ClearSession
    <2>2. \A h \in Goroutines \ {g} : step'[h] = step[h]
      <3>1. \E s : Goto(g, s)
        BY DEF Move, StopSwap, StopCancel, StopWait, Continue, Configure, StartSwap,
               StartCancel, StartWait, StartDropped, Spawn, Restart, ClearSession
      <3> QED BY <3>1 DEF Goto, IInv, TypeOK
    <2> QED BY <2>1, <2>2 DEF IInv, CloserWaits, Goroutines
  <1>2. CASE StopSwap(g)
    BY <1>1, <1>2, TakesOut DEF IInv
  <1>3. CASE \E l \in Loops : StartSwap(g, l)
    BY <1>1, <1>3, PutsIn DEF IInv
  <1>4. CASE StartDropped(g) \/ Spawn(g)
    BY <1>1, <1>4, Starts DEF IInv
  <1>5. CASE StopCancel(g)
    <2>1. /\ NoLostLoop' /\ Maker' /\ OwnLoop'
          /\ cancelled' \in [Loops -> BOOLEAN]
      BY <1>5, Cancels DEF StopCancel, Starting
    <2>2. TypeOK'
      BY <1>5, <2>1 DEF StopCancel, Goto, IInv, TypeOK, state
    <2> QED BY <1>1, <2>1, <2>2 DEF IInv
  <1>6. CASE StartCancel(g)
    <2>1. /\ NoLostLoop' /\ Maker' /\ OwnLoop'
          /\ cancelled' \in [Loops -> BOOLEAN]
      BY <1>6, Cancels DEF StartCancel, Starting
    <2>2. TypeOK'
      BY <1>6, <2>1 DEF StartCancel, Goto, IInv, TypeOK, state
    <2> QED BY <1>1, <2>1, <2>2 DEF IInv
  <1>7. CASE StopWait(g)
    <2> DEFINE s == IF after[g] = "return" THEN "idle" ELSE after[g]
    <2>1. s \in {"idle", "options", "clear"}
      BY DEF IInv, TypeOK
    <2>2. /\ Goto(g, s) /\ step[g] = "stopWait" /\ old' = [old EXCEPT ![g] = None]
          /\ UNCHANGED <<loop, cancelled, current, new>>
      BY <1>7 DEF StopWait, Continue, slot
    <2>3. TypeOK'
      BY <1>7, <2>1 DEF StopWait, Continue, Goto, IInv, TypeOK, state, slot
    <2> HIDE DEF s
    <2>4. NoLostLoop' /\ Maker' /\ OwnLoop'
      BY <2>1, <2>2, LetsGo
    <2> QED BY <1>1, <2>3, <2>4 DEF IInv
  <1>8. CASE StartWait(g)
    <2>1. NoLostLoop' /\ Maker' /\ OwnLoop'
      BY <1>8, LetsGo DEF StartWait, slot, Starting
    <2>2. TypeOK'
      BY <1>8 DEF StartWait, Goto, IInv, TypeOK, state, slot
    <2> QED BY <1>1, <2>1, <2>2 DEF IInv
  <1>9. CASE Configure(g) \/ Restart(g) \/ (g = "reader" /\ ClearSession)
    <2>1. PICK s \in {"swap", "idle", "stop"} : Goto(g, s)
      BY <1>9 DEF Configure, Restart, ClearSession
    <2>2. /\ step[g] \notin {"stopCancel", "swapCancel"}
          /\ UNCHANGED <<loop, cancelled, current, old, new>>
      BY <1>9 DEF Configure, Restart, ClearSession, slot
    <2>3. NoLostLoop' /\ Maker' /\ OwnLoop'
      BY <2>1, <2>2, Elsewhere DEF Starting
    <2>4. TypeOK'
      <3>1. CASE Configure(g)
        BY <3>1 DEF Configure, Goto, IInv, TypeOK, state, slot
      <3>2. CASE Restart(g)
        BY <3>2 DEF Restart, Goto, IInv, TypeOK, state, slot
      <3>3. CASE g = "reader" /\ ClearSession
        BY <3>3 DEF ClearSession, Goto, IInv, TypeOK, state, slot
      <3> QED BY <1>9, <3>1, <3>2, <3>3
    <2> QED BY <1>1, <2>3, <2>4 DEF IInv
  <1> QED
    BY <1>2, <1>3, <1>4, <1>5, <1>6, <1>7, <1>8, <1>9 DEF Move

\* What makes a goroutine that has nothing to do begin.
LEMMA EventStep ==
  ASSUME IInv, Event
  PROVE  IInv'
  <1>0. /\ "reader" \in Goroutines /\ "closer" \in Goroutines
        /\ Savers \subseteq Goroutines /\ "reader" # "closer"
    BY DEF Goroutines
  <1>1. ASSUME NEW s \in Sessions, NEW send \in BOOLEAN, SessionReady(s, send)
        PROVE  IInv'
    <2>1. NoLostLoop' /\ Maker' /\ OwnLoop'
      BY <1>0, <1>1, Elsewhere DEF SessionReady, slot, Starting
    <2>2. TypeOK'
      BY <1>0, <1>1 DEF SessionReady, Begin, Goto, IInv, TypeOK, slot
    <2>3. CloserWaits'
      BY <1>0, <1>1 DEF SessionReady, Goto, IInv, TypeOK, CloserWaits
    <2> QED BY <2>1, <2>2, <2>3 DEF IInv
  <1>2. CASE SessionEnds
    <2>1. NoLostLoop' /\ Maker' /\ OwnLoop'
      BY <1>0, <1>2, Elsewhere DEF SessionEnds, slot, Starting
    <2>2. TypeOK'
      BY <1>0, <1>2 DEF SessionEnds, Begin, Goto, IInv, TypeOK, state, slot
    <2>3. CloserWaits'
      BY <1>0, <1>2 DEF SessionEnds, Goto, IInv, TypeOK, CloserWaits
    <2> QED BY <2>1, <2>2, <2>3 DEF IInv
  <1>3. CASE Close
    <2>1. step["closer"] = "idle"
      BY <1>3 DEF Close, IInv, CloserWaits
    <2>2. NoLostLoop' /\ Maker' /\ OwnLoop'
      BY <1>0, <1>3, <2>1, Elsewhere DEF Close, slot, Starting
    <2>3. TypeOK'
      BY <1>0, <1>3 DEF Close, Begin, Goto, IInv, TypeOK, state, slot
    <2>4. CloserWaits'
      BY <1>3 DEF Close, CloserWaits
    <2> QED BY <2>2, <2>3, <2>4 DEF IInv
  <1>4. ASSUME NEW send \in BOOLEAN, StreamControl(send)
        PROVE  IInv'
    <2>1. Goto("reader", "stop") \/ step' = step
      BY <1>4 DEF StreamControl
    <2>2. UNCHANGED <<loop, cancelled, current, old, new, rootDone>> /\ step["reader"] = "idle"
      BY <1>4 DEF StreamControl, slot
    <2>3. NoLostLoop' /\ Maker' /\ OwnLoop'
      <3>1. CASE Goto("reader", "stop")
        BY <1>0, <2>2, <3>1, Elsewhere DEF Starting
      <3>2. CASE step' = step
        BY <2>2, <3>2 DEF IInv, NoLostLoop, Running, Maker, OwnLoop
      <3> QED BY <2>1, <3>1, <3>2
    <2>4. TypeOK'
      <3>1. /\ wanted' \in [Goroutines -> Sessions \cup {None}]
            /\ after' \in [Goroutines -> {"return", "options", "clear"}]
            /\ step' \in [Goroutines -> {"idle", "state", "stop", "stopCancel", "stopWait",
                            "options", "swap", "swapCancel", "swapWait", "spawn", "clear"}]
        BY <1>0, <1>4 DEF StreamControl, Goto, IInv, TypeOK
      <3>2. alone' \in BOOLEAN
        BY <1>4 DEF StreamControl, Begin, IInv, TypeOK
      <3> QED BY <1>4, <3>1, <3>2 DEF StreamControl, IInv, TypeOK, slot
    <2>5. CloserWaits'
      BY <1>0, <2>1, <2>2 DEF Goto, IInv, TypeOK, CloserWaits
    <2> QED BY <2>3, <2>4, <2>5 DEF IInv
  <1>5. ASSUME NEW g \in Savers, NEW send \in BOOLEAN, UpdateOptions(g, send)
        PROVE  IInv'
    <2>1. NoLostLoop' /\ Maker' /\ OwnLoop'
      BY <1>0, <1>5, Elsewhere DEF UpdateOptions, slot, Starting
    <2>2. TypeOK'
      BY <1>0, <1>5 DEF UpdateOptions, Begin, Goto, IInv, TypeOK, slot
    <2>3. CloserWaits'
      BY <1>0, <1>5, StreamAssumption DEF UpdateOptions, Goto, IInv, TypeOK, CloserWaits
    <2> QED BY <2>1, <2>2, <2>3 DEF IInv
  <1> QED BY <1>1, <1>2, <1>3, <1>4, <1>5 DEF Event

\* A loop ends.
LEMMA EndStep ==
  ASSUME IInv, NEW k \in Loops, LoopEnds(k)
  PROVE  IInv'
  <1>1. /\ \A l \in Loops \ {k} : loop'[l] = loop[l] /\ cancelled'[l] = cancelled[l]
        /\ loop[k] = "running" /\ loop'[k] = "ended"
        /\ UNCHANGED <<step, old, new, current, rootDone>>
    BY DEF LoopEnds, Running, IInv, TypeOK, locals
  <1>2. TypeOK'
    BY DEF LoopEnds, IInv, TypeOK, state, locals
  <1>3. NoLostLoop'
    BY <1>1 DEF IInv, NoLostLoop, Running
  <1>4. Maker'
    BY <1>1 DEF IInv, Maker
  <1>5. OwnLoop' /\ CloserWaits'
    BY <1>1 DEF IInv, OwnLoop, CloserWaits
  <1> QED BY <1>2, <1>3, <1>4, <1>5 DEF IInv

LEMMA StreamStep == IInv /\ [Next]_vars => IInv'
  <1> SUFFICES ASSUME IInv, [Next]_vars PROVE IInv'
    OBVIOUS
  <1>1. CASE Event
    BY <1>1, EventStep
  <1>2. CASE \E g \in Goroutines : Move(g)
    BY <1>2, MoveStep
  <1>3. CASE \E l \in Loops : LoopEnds(l)
    BY <1>3, EndStep
  <1>4. CASE UNCHANGED vars
    BY <1>4 DEF vars, state, slot, locals, IInv, TypeOK, NoLostLoop, Running, Maker,
                OwnLoop, CloserWaits
  <1> QED BY <1>1, <1>2, <1>3, <1>4 DEF Next

-----------------------------------------------------------------------------
(* The loop that goes on streams to the current session, when whoever last *)
(* set the stream right had it for itself.                                 *)

Stopping == {"stop", "stopCancel", "stopWait"}

AfterReset == \A g \in Goroutines : step[g] \notin Stopping => after[g] = "return"

InSession == session # None /\ sends

\* What goroutine g does to the slot fits the session.
Follows(g) ==
  /\ step[g] \in Stopping /\ after[g] = "options" => InSession /\ wanted[g] = session
  /\ step[g] \in {"options", "swap"} => InSession /\ wanted[g] = session
  /\ step[g] \in {"stopCancel", "stopWait", "options", "swap", "clear"} => current = None
  /\ step[g] \in Starting => current = new[g] /\ InSession /\ streams[current] = session
  /\ step[g] = "idle" /\ current # None /\ loop[current] \in {"made", "running"} =>
       InSession /\ streams[current] = session

OthersIdle(g) == \A h \in Goroutines \ {g} : step[h] = "idle"

SessionFollowed ==
  alone /\ ~rootDone => \E g \in Goroutines : OthersIdle(g) /\ Follows(g)

LEMMA AfterResetStep ==
  ASSUME TypeOK, AfterReset, [Next]_vars
  PROVE  AfterReset'
  <1>0. "reader" \in Goroutines /\ "closer" \in Goroutines /\ Savers \subseteq Goroutines
    BY DEF Goroutines
  <1>1. ASSUME NEW g \in Goroutines, Move(g)
        PROVE  AfterReset'
    <2>1. CASE StopWait(g)
      BY <2>1 DEF StopWait, Continue, Goto, AfterReset, TypeOK, Stopping
    <2>2. CASE Restart(g)
      BY <2>2 DEF Restart, Goto, AfterReset, TypeOK, Stopping
    <2>3. CASE ~StopWait(g) /\ ~Restart(g)
      <3>1. /\ after' = after /\ \E s : Goto(g, s)
            /\ step'[g] \in Stopping => step[g] \in Stopping
        BY <1>1, <2>3 DEF Move, StopSwap, StopCancel, Configure, StartSwap, StartCancel,
           StartWait, StartDropped, Spawn, ClearSession, Goto, TypeOK, Stopping
      <3>2. step[g] \in Stopping => step'[g] \in Stopping
        BY <1>1, <2>3 DEF Move, StopSwap, StopCancel, Configure, StartSwap, StartCancel,
           StartWait, StartDropped, Spawn, ClearSession, Goto, TypeOK, Stopping
      <3> QED BY <3>1, <3>2 DEF Goto, AfterReset, TypeOK
    <2> QED BY <2>1, <2>2, <2>3
  <1>2. ASSUME NEW s \in Sessions, NEW send \in BOOLEAN, SessionReady(s, send)
        PROVE  AfterReset'
    BY <1>0, <1>2 DEF SessionReady, Goto, AfterReset, TypeOK, Stopping
  <1>3. CASE SessionEnds
    BY <1>0, <1>3 DEF SessionEnds, Goto, AfterReset, TypeOK, Stopping
  <1>4. CASE Close
    BY <1>0, <1>4 DEF Close, Goto, AfterReset, TypeOK, Stopping
  <1>5. ASSUME NEW send \in BOOLEAN, StreamControl(send)
        PROVE  AfterReset'
    BY <1>0, <1>5 DEF StreamControl, Goto, AfterReset, TypeOK, Stopping
  <1>6. ASSUME NEW g \in Savers, NEW send \in BOOLEAN, UpdateOptions(g, send)
        PROVE  AfterReset'
    BY <1>0, <1>6 DEF UpdateOptions, Goto, AfterReset, TypeOK, Stopping
  <1>7. CASE UNCHANGED vars \/ \E l \in Loops : LoopEnds(l)
    BY <1>7 DEF vars, LoopEnds, locals, AfterReset
  <1> QED BY <1>1, <1>2, <1>3, <1>4, <1>5, <1>6, <1>7 DEF Next, Event

\* While alone, a goroutine that is not idle is the one at work.
LEMMA AtWork ==
  ASSUME SessionFollowed, alone, ~rootDone
  PROVE  /\ \A g \in Goroutines : step[g] # "idle" => OthersIdle(g) /\ Follows(g)
         /\ (\A g \in Goroutines : step[g] = "idle") => \A g \in Goroutines : Follows(g)
  <1>1. PICK h \in Goroutines : OthersIdle(h) /\ Follows(h)
    BY DEF SessionFollowed
  <1>2. \A g \in Goroutines : step[g] # "idle" => g = h
    BY <1>1 DEF OthersIdle
  <1>3. ASSUME \A g \in Goroutines : step[g] = "idle"
        PROVE  \A g \in Goroutines : Follows(g)
    BY <1>1, <1>3 DEF Follows, Stopping, Starting
  <1> QED BY <1>1, <1>2, <1>3

LEMMA MoveFollows ==
  ASSUME IInv, AfterReset, SessionFollowed, NEW g \in Goroutines, Move(g)
  PROVE  SessionFollowed'
  <1>1. /\ alone' = alone /\ rootDone' = rootDone /\ step[g] # "idle"
        /\ \A h \in Goroutines \ {g} : step'[h] = step[h]
    <2>1. /\ alone' = alone /\ rootDone' = rootDone /\ step[g] # "idle"
          /\ \E s : Goto(g, s)
      BY DEF Move, StopSwap, StopCancel, StopWait, Continue, Configure, StartSwap,
         StartCancel, StartWait, StartDropped, Spawn, Restart, ClearSession
    <2> QED BY <2>1 DEF Goto, IInv, TypeOK
  <1> SUFFICES ASSUME alone, ~rootDone
               PROVE  OthersIdle(g)' /\ Follows(g)'
    BY <1>1 DEF SessionFollowed
  <1>2. OthersIdle(g) /\ Follows(g)
    BY <1>1, AtWork
  <1>3. OthersIdle(g)'
    BY <1>1, <1>2 DEF OthersIdle
  <1>4. TypeOK
    BY DEF IInv
  <1>5. Follows(g)'
    <2>1. CASE StopSwap(g)
      BY <1>2, <1>4, <2>1 DEF StopSwap, Goto, Follows, InSession, Stopping, Starting, TypeOK, state
    <2>2. CASE StopCancel(g)
      BY <1>2, <1>4, <2>2 DEF StopCancel, Goto, Follows, InSession, Stopping, Starting, TypeOK,
         state
    <2>3. CASE StopWait(g)
      <3>1. /\ step[g] = "stopWait" /\ after'[g] = "return" /\ UNCHANGED <<state, slot, wanted>>
            /\ step'[g] = IF after[g] = "return" THEN "idle" ELSE after[g]
        BY <1>4, <2>3 DEF StopWait, Continue, Goto, TypeOK
      <3>2. after[g] \in {"return", "options", "clear"}
        BY <1>4 DEF TypeOK
      <3> QED BY <1>2, <3>1, <3>2 DEF Follows, InSession, Stopping, Starting, state, slot
    <2>4. CASE Configure(g)
      <3>1. step[g] = "options" /\ UNCHANGED <<state, slot>>
            /\ \/ step'[g] = "swap" /\ wanted' = wanted
               \/ step'[g] = "idle"
        BY <1>4, <2>4 DEF Configure, Goto, TypeOK
      <3> QED BY <1>2, <3>1 DEF Follows, InSession, Stopping, Starting, state, slot
    <2>5. ASSUME NEW l \in Loops, StartSwap(g, l)
          PROVE  Follows(g)'
      <3>1. /\ step[g] = "swap" /\ step'[g] = "swapCancel" /\ current' = l /\ new'[g] = l
            /\ streams'[l] = wanted[g] /\ UNCHANGED state
        BY <1>4, <2>5 DEF StartSwap, Goto, TypeOK
      <3> QED BY <1>2, <3>1 DEF Follows, InSession, Stopping, Starting, state
    <2>6. CASE StartCancel(g)
      <3>1. /\ step[g] = "swapCancel" /\ step'[g] \in {"spawn", "swapWait"}
            /\ UNCHANGED <<state, current, streams, new>>
        BY <1>4, <2>6 DEF StartCancel, Goto, TypeOK
      <3> QED BY <1>2, <3>1 DEF Follows, InSession, Stopping, Starting, state
    <2>7. CASE StartWait(g)
      BY <1>2, <1>4, <2>7 DEF StartWait, Goto, Follows, InSession, Stopping, Starting, TypeOK,
         state, slot
    <2>8. CASE Spawn(g)
      <3>1. /\ step[g] = "spawn" /\ step'[g] = "idle" /\ UNCHANGED <<state, current, streams>>
        BY <1>4, <2>8 DEF Spawn, Goto, TypeOK
      <3> QED BY <1>2, <3>1 DEF Follows, InSession, Stopping, Starting, state
    <2>9. CASE Restart(g)
      <3>1. /\ step[g] = "state" /\ step'[g] = "stop" /\ UNCHANGED state
            /\ \/ session # None /\ sends /\ wanted'[g] = session
               \/ after' = after
        BY <1>4, <2>9 DEF Restart, Goto, TypeOK
      <3>2. after[g] = "return"
        BY <3>1 DEF AfterReset, Stopping
      <3> QED BY <3>1, <3>2 DEF Follows, InSession, Stopping, Starting, state
    <2>10. CASE ClearSession /\ g = "reader"
      <3>1. /\ step[g] = "clear" /\ step'[g] = "idle" /\ current' = current
        BY <1>4, <2>10 DEF ClearSession, Goto, TypeOK, slot
      <3> QED BY <1>2, <3>1 DEF Follows, Stopping, Starting
    <2> QED BY <2>1, <2>2, <2>3, <2>4, <2>5, <2>6, <2>7, <2>8, <2>9, <2>10
            DEF Move, StartDropped
  <1> QED BY <1>3, <1>5

\* A goroutine begins, alone or not.
LEMMA EventFollows ==
  ASSUME TypeOK, AfterReset, SessionFollowed, Event
  PROVE  SessionFollowed'
  <1>0. "reader" \in Goroutines /\ Savers \subseteq Goroutines
    BY DEF Goroutines
  <1>a. ASSUME NEW g \in Goroutines, NEW settles \in BOOLEAN, Begin(g, settles),
               \A h \in Goroutines \ {g} : step'[h] = step[h],
               rootDone' = rootDone, OthersIdle(g) /\ alone' /\ ~rootDone => Follows(g)'
        PROVE  SessionFollowed'
    <2> SUFFICES ASSUME alone', ~rootDone'
                 PROVE  OthersIdle(g)' /\ Follows(g)'
      BY DEF SessionFollowed
    <2>1. OthersIdle(g)
      BY <1>a DEF Begin, OthersIdle
    <2> QED BY <1>a, <2>1 DEF OthersIdle
  <1>1. ASSUME NEW s \in Sessions, NEW send \in BOOLEAN, SessionReady(s, send)
        PROVE  SessionFollowed'
    <2>1. /\ step["reader"] = "idle" /\ step'["reader"] = "stop"
          /\ session' = s /\ sends' = send
          /\ \/ send /\ wanted'["reader"] = s
             \/ after' = after
      BY <1>0, <1>1 DEF SessionReady, Goto, TypeOK
    <2>2. after["reader"] = "return"
      BY <1>0, <2>1 DEF AfterReset, Stopping
    <2>3. Follows("reader")'
      BY <2>1, <2>2, StreamAssumption DEF Follows, InSession, Stopping, Starting
    <2>4. Begin("reader", TRUE) /\ rootDone' = rootDone
          /\ \A h \in Goroutines \ {"reader"} : step'[h] = step[h]
      BY <1>1 DEF SessionReady, Goto, TypeOK
    <2> QED BY <1>0, <1>a, <2>3, <2>4
  <1>2. CASE SessionEnds
    <2>1. step'["reader"] = "stop" /\ after'["reader"] = "clear"
      BY <1>0, <1>2 DEF SessionEnds, Goto, TypeOK
    <2>2. Follows("reader")'
      BY <2>1 DEF Follows, Stopping, Starting
    <2>3. Begin("reader", TRUE) /\ rootDone' = rootDone
          /\ \A h \in Goroutines \ {"reader"} : step'[h] = step[h]
      BY <1>2 DEF SessionEnds, Goto, TypeOK
    <2> QED BY <1>0, <1>a, <2>2, <2>3
  <1>3. CASE Close
    BY <1>3 DEF Close, SessionFollowed
  <1>4. ASSUME NEW send \in BOOLEAN, StreamControl(send)
        PROVE  SessionFollowed'
    <2>0. /\ step["reader"] = "idle" /\ rootDone' = rootDone
          /\ Begin("reader", session # None /\ sends)
          /\ UNCHANGED <<session, sends, current, loop, streams>>
          /\ \A h \in Goroutines \ {"reader"} : step'[h] = step[h]
      BY <1>4 DEF StreamControl, slot, Goto, TypeOK
    <2>1. CASE session # None /\ sends
      <3>1. step'["reader"] = "stop" /\ wanted'["reader"] = session
        BY <1>0, <1>4, <2>1 DEF StreamControl, Goto, TypeOK
      <3>2. Follows("reader")'
        BY <2>0, <2>1, <3>1 DEF Follows, InSession, Stopping, Starting
      <3> QED BY <1>0, <1>a, <2>0, <3>2
    <2>2. CASE ~(session # None /\ sends)
      <3>1. step' = step
        BY <1>4, <2>2 DEF StreamControl
      <3>2. ASSUME OthersIdle("reader"), alone', ~rootDone
            PROVE  Follows("reader")'
        <4>1. alone
          BY <2>0, <2>2, <3>2 DEF Begin, OthersIdle
        <4>2. Follows("reader")
          BY <1>0, <2>0, <3>2, <4>1, AtWork DEF OthersIdle
        <4> QED BY <2>0, <3>1, <4>2 DEF Follows, InSession, Stopping, Starting
      <3> QED BY <1>0, <1>a, <2>0, <3>2
    <2> QED BY <2>1, <2>2
  <1>5. ASSUME NEW g \in Savers, NEW send \in BOOLEAN, UpdateOptions(g, send)
        PROVE  SessionFollowed'
    <2>1. step'[g] = "state"
      BY <1>0, <1>5 DEF UpdateOptions, Goto, TypeOK
    <2>2. Follows(g)'
      BY <2>1 DEF Follows, Stopping, Starting
    <2>3. Begin(g, TRUE) /\ rootDone' = rootDone
          /\ \A h \in Goroutines \ {g} : step'[h] = step[h]
      BY <1>5 DEF UpdateOptions, Goto, TypeOK
    <2> QED BY <1>0, <1>a, <2>2, <2>3
  <1> QED BY <1>1, <1>2, <1>3, <1>4, <1>5 DEF Event

LEMMA EndFollows ==
  ASSUME IInv, SessionFollowed, NEW k \in Loops, LoopEnds(k)
  PROVE  SessionFollowed'
  <1>1. /\ \A l \in Loops \ {k} : loop'[l] = loop[l] /\ streams'[l] = streams[l]
        /\ loop[k] = "running" /\ loop'[k] = "ended"
        /\ UNCHANGED <<state, current, locals, rootDone, alone>>
    BY DEF LoopEnds, Running, IInv, TypeOK
  <1>2. ASSUME NEW g \in Goroutines, OthersIdle(g), Follows(g)
        PROVE  OthersIdle(g)' /\ Follows(g)'
    <2>1. OthersIdle(g)'
      BY <1>1, <1>2 DEF OthersIdle, locals
    <2>2. current \in Loops \cup {None}
      BY DEF IInv, TypeOK
    <2>3. step[g] \in Starting => new[g] # k /\ new[g] \in Loops
      BY <1>1 DEF IInv, Maker
    <2>4. Follows(g)'
      BY <1>1, <1>2, <2>2, <2>3 DEF Follows, InSession, Stopping, Starting, state, locals
    <2> QED BY <2>1, <2>4
  <1> QED BY <1>1, <1>2 DEF SessionFollowed

LEMMA FollowsInit == Init => AfterReset /\ SessionFollowed
  <1> SUFFICES ASSUME Init PROVE AfterReset /\ SessionFollowed
    OBVIOUS
  <1>1. \A g \in Goroutines : step[g] = "idle" /\ after[g] = "return"
    BY DEF Init
  <1>2. "reader" \in Goroutines
    BY DEF Goroutines
  <1>3. OthersIdle("reader") /\ Follows("reader")
    BY <1>1, <1>2 DEF Init, OthersIdle, Follows, Stopping, Starting
  <1> QED BY <1>1, <1>2, <1>3 DEF AfterReset, SessionFollowed

LEMMA FollowsStep ==
  IInv /\ AfterReset /\ SessionFollowed /\ [Next]_vars => AfterReset' /\ SessionFollowed'
  <1> SUFFICES ASSUME IInv, AfterReset, SessionFollowed, [Next]_vars
               PROVE  AfterReset' /\ SessionFollowed'
    OBVIOUS
  <1>1. AfterReset'
    BY AfterResetStep DEF IInv
  <1>2. CASE UNCHANGED vars
    BY <1>1, <1>2 DEF vars, state, slot, locals, SessionFollowed, OthersIdle, Follows, InSession
  <1>3. CASE Event
    BY <1>1, <1>3, EventFollows DEF IInv
  <1> QED BY <1>1, <1>2, <1>3, MoveFollows, EndFollows DEF Next

LEMMA FollowsAlways == Spec => [](IInv /\ AfterReset /\ SessionFollowed)
  BY StreamInit, FollowsInit, StreamStep, FollowsStep, PTL DEF Spec

-----------------------------------------------------------------------------
\* However the read loop, the goroutines that save settings and Close follow
\* each other between the critical sections of startStreamLoop and
\* stopStreamLoop, no goroutine loses a loop that has to be cancelled
\* (client.go:265-311).
THEOREM LoopsAreCancelled == Spec => []NoLostLoop
  <1>1. IInv => NoLostLoop
    BY DEF IInv
  <1> QED BY StreamInit, StreamStep, <1>1, PTL DEF Spec

\* Once nobody is about to cancel one, at most one loop goes on: two streams
\* overlap for as long as an old loop takes to end, and not for good
\* (client.go:280-287).
THEOREM StreamsAreOne == Spec => []OneStream
  <1>1. IInv => OneStream
    <2> SUFFICES ASSUME IInv,
                        \A g \in Goroutines : step[g] \notin {"stopCancel", "swapCancel"},
                        NEW k \in Loops, NEW l \in Loops,
                        Running(k), Running(l), ~Stopped(k), ~Stopped(l)
                 PROVE  k = l
      BY DEF OneStream
    <2>1. k = current /\ l = current
      BY DEF IInv, NoLostLoop, Stopped
    <2> QED BY <2>1
  <1> QED BY StreamInit, StreamStep, <1>1, PTL DEF Spec

\* When the goroutine that last set the stream right had it for itself, the loop
\* that goes on streams to the session of State, in which this device is the one
\* that sends (client.go:226-311, 800-820).
THEOREM LoopFollowsSession == Spec => []StreamFollowsSession
  <1>1. IInv /\ SessionFollowed => StreamFollowsSession
    <2> SUFFICES ASSUME IInv, SessionFollowed, Idle, alone,
                        NEW l \in Loops, Running(l), ~Stopped(l)
                 PROVE  session # None /\ sends /\ streams[l] = session
      BY DEF StreamFollowsSession
    <2>1. l = current /\ ~rootDone
      BY DEF IInv, NoLostLoop, Idle, Stopped
    <2>2. PICK g \in Goroutines : Follows(g)
      BY <2>1 DEF SessionFollowed
    <2> QED BY <2>1, <2>2, StreamAssumption DEF Idle, Follows, InSession, Running
  <1> QED BY <1>1, FollowsAlways, PTL
=============================================================================
