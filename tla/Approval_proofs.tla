-------------------------- MODULE Approval_proofs ---------------------------
(***************************************************************************)
(* Requests and trust, for any number of devices and of presses.           *)
(*                                                                         *)
(* Nobody gets a session unasked: IInv says of each goroutine what its     *)
(* locals are worth where it is (Sound).  A list of devices in its hands   *)
(* has only devices that were remembered, apart from the one that the      *)
(* goroutine is about to remember; and the read loop answers only for a    *)
(* device that may come in, which is the one in the slot, unless the slot  *)
(* was cleared.  What holds only while saves, requests and answers come    *)
(* one at a time is in FileInv and AnswerInv.                              *)
(***************************************************************************)
EXTENDS Approval, TLAPS

Saves == {"load", "truncate", "write"}
Answers == Saves \cup {"peer", "mode", "input", "send"}

\* Goroutine g at step s with locals l, when the devices in r have been
\* remembered and the slot has p.
Sound(g, s, l, r, p) ==
  /\ g \notin Users => l.devices \subseteq r
  /\ g \in Users => l.devices \subseteq r \cup {l.peer}
  /\ g \in Users /\ s = "peer" => l.devices = {}
  /\ g \in Users /\ s \in Saves => l.peer # None
  /\ g = "reader" /\ s = "store" => l.devices \subseteq {l.peer}
  /\ g = "reader" /\ s \in Answers => l.accept \/ l.peer \in r
  /\ g = "reader" /\ s \in Saves \cup {"peer"} => p = l.peer \/ p = None

IInv ==
  /\ TypeOK
  /\ disk.devices \subseteq remembered
  /\ \A g \in Goroutines : Sound(g, step[g], got[g], remembered, pending.peer)

Buttons == {"allow", "remember", "reject"}

LEMMA Roles ==
  /\ "reader" \in Goroutines /\ "window" \in Goroutines
  /\ "reader" \notin Users /\ "window" \notin Users
  /\ \A g \in Goroutines : g \in Users \/ g = "reader" \/ g = "window"
  /\ Users \subseteq Goroutines
  BY ApprovalAssumption DEF Goroutines

LEMMA NoLocalsType ==
  /\ NoLocals \in Locals /\ NoLocals.devices = {}
  /\ NoRequest \in Request /\ NoRequest.peer = None
  BY DEF NoLocals, Locals, NoRequest, Request, Modes

\* Without a call under way there is nothing to be said of the locals.
LEMMA NoCallSound ==
  ASSUME NEW g, NEW s \in {"idle", "clear"}, NEW r, NEW p
  PROVE  Sound(g, s, NoLocals, r, p)
  BY NoLocalsType DEF Sound, Saves, Answers

\* What is worth something stays so as more devices are remembered, and when
\* the slot is cleared.
LEMMA StaysSound ==
  ASSUME NEW g, NEW s, NEW l, NEW r, NEW q, NEW p, r \subseteq q, Sound(g, s, l, r, p)
  PROVE  Sound(g, s, l, q, p) /\ Sound(g, s, l, q, None)
  BY DEF Sound

\* One goroutine moves; the slot is left alone, or cleared, or it is the read
\* loop that takes it.
LEMMA OneMoves ==
  ASSUME IInv, NEW g \in Goroutines, NEW s \in Steps, NEW l \in Locals,
         step' = [step EXCEPT ![g] = s], got' = [got EXCEPT ![g] = l],
         press' \in [Goroutines -> Buttons],
         pending' \in Request, waiting' \in [Peers -> Modes \cup {"none"}], linked' \in BOOLEAN,
         pending' = pending \/ pending'.peer = None \/ g = "reader",
         disk' \in File, remembered' \subseteq Peers, meant' \subseteq Peers,
         orderly' \in BOOLEAN, alone' \in BOOLEAN,
         remembered \subseteq remembered', disk'.devices \subseteq remembered',
         Sound(g, s, l, remembered', pending'.peer)
  PROVE  IInv'
  <1>1. TypeOK'
    BY DEF IInv, TypeOK, Buttons
  <1>2. ASSUME NEW h \in Goroutines
        PROVE  Sound(h, step'[h], got'[h], remembered', pending'.peer)
    <2>1. CASE h = g
      BY <2>1 DEF IInv, TypeOK
    <2>2. CASE h # g
      <3>1. step'[h] = step[h] /\ got'[h] = got[h]
        BY <2>2 DEF IInv, TypeOK
      <3>2. Sound(h, step[h], got[h], remembered, pending.peer)
        BY DEF IInv
      <3>3. CASE pending' = pending \/ pending'.peer = None
        BY <3>1, <3>2, <3>3, StaysSound
      <3>4. CASE g = "reader"
        BY <2>2, <3>1, <3>2, <3>4 DEF Sound
      <3> QED BY <3>3, <3>4
    <2> QED BY <2>1, <2>2
  <1> QED BY <1>1, <1>2 DEF IInv

\* The common case: the slot, the file and what was remembered stay.
LEMMA OneMovesOn ==
  ASSUME IInv, NEW g \in Goroutines, NEW s \in Steps, NEW l \in Locals,
         step' = [step EXCEPT ![g] = s], got' = [got EXCEPT ![g] = l],
         press' \in [Goroutines -> Buttons],
         waiting' \in [Peers -> Modes \cup {"none"}], alone' \in BOOLEAN,
         meant' \subseteq Peers, orderly' \in BOOLEAN,
         UNCHANGED <<pending, linked, disk, remembered>>,
         Sound(g, s, l, remembered, pending.peer)
  PROVE  IInv'
  <1>1. /\ pending' \in Request /\ linked' \in BOOLEAN /\ disk' \in File
        /\ remembered' \subseteq Peers /\ disk'.devices \subseteq remembered'
    BY DEF IInv, TypeOK
  <1>2. Sound(g, s, l, remembered', pending'.peer)
    OBVIOUS
  <1> QED BY <1>1, <1>2, OneMoves

\* A call ends.
LEMMA Returns ==
  ASSUME IInv, NEW g \in Goroutines, Return(g)
  PROVE  /\ step' = [step EXCEPT ![g] = "idle"] /\ got' = [got EXCEPT ![g] = NoLocals]
         /\ press' \in [Goroutines -> Buttons]
  BY DEF Return, Goto, IInv, TypeOK, Buttons

LEMMA ReturnOn ==
  ASSUME IInv, NEW g \in Goroutines, Return(g), alone' \in BOOLEAN,
         waiting' \in [Peers -> Modes \cup {"none"}],
         meant' \subseteq Peers, orderly' \in BOOLEAN,
         UNCHANGED <<pending, linked, disk, remembered>>
  PROVE  IInv'
  <1>1. "idle" \in Steps /\ NoLocals \in Locals
    BY NoLocalsType DEF Steps
  <1>2. Sound(g, "idle", NoLocals, remembered, pending.peer)
    BY NoCallSound
  <1> QED BY <1>1, <1>2, Returns, OneMovesOn

\* A call goes on at s with its locals but for some fields.
LEMMA Unmoved ==
  ASSUME IInv
  PROVE  /\ press \in [Goroutines -> Buttons]
         /\ waiting \in [Peers -> Modes \cup {"none"}] /\ alone \in BOOLEAN
         /\ meant \subseteq Peers /\ orderly \in BOOLEAN
         /\ \A g \in Goroutines :
              got[g] \in Locals /\ Sound(g, step[g], got[g], remembered, pending.peer)
  BY DEF IInv, TypeOK, Buttons

-----------------------------------------------------------------------------
LEMMA InitIInv == Init => IInv
  <1> SUFFICES ASSUME Init PROVE IInv
    OBVIOUS
  <1>1. TypeOK
    BY NoLocalsType DEF Init, TypeOK, File, Steps
  <1>2. \A g \in Goroutines : step[g] = "idle" /\ got[g] = NoLocals
    BY DEF Init
  <1>3. \A g \in Goroutines : Sound(g, step[g], got[g], remembered, pending.peer)
    BY <1>2, NoCallSound
  <1>4. disk.devices = {}
    BY DEF Init
  <1> QED BY <1>1, <1>3, <1>4 DEF IInv

LEMMA HandleSessionRequestStep ==
  ASSUME IInv, NEW p \in Peers, NEW mode \in Modes, HandleSessionRequest(p, mode)
  PROVE  IInv'
  <1> DEFINE l == [NoLocals EXCEPT !.peer = p, !.mode = mode, !.for = p]
  <1>1. l \in Locals /\ l.devices = {}
    BY DEF NoLocals, Locals
  <1>2. Sound("reader", "check", l, remembered, pending.peer)
    BY <1>1, Roles DEF Sound, Saves, Answers
  <1>3. /\ step' = [step EXCEPT !["reader"] = "check"] /\ got' = [got EXCEPT !["reader"] = l]
        /\ waiting' \in [Peers -> Modes \cup {"none"}] /\ alone' \in BOOLEAN
        /\ UNCHANGED <<press, pending, linked, disk, remembered, meant, orderly>>
    BY Unmoved DEF HandleSessionRequest, Goto, trust
  <1>4. "check" \in Steps
    BY DEF Steps
  <1> HIDE DEF l
  <1> QED BY <1>1, <1>2, <1>3, <1>4, Roles, Unmoved, OneMovesOn

LEMMA RequestCheckStep ==
  ASSUME IInv, NEW accept \in BOOLEAN, RequestCheck(accept)
  PROVE  IInv'
  <1> DEFINE p == got["reader"].peer
             d == IF IsTrusted(p) THEN {p} ELSE {}
             l == [got["reader"] EXCEPT !.devices = d, !.accept = accept]
  <1>1. got["reader"] \in Locals
    BY Roles, Unmoved
  <1>2. d \subseteq {p} /\ d \subseteq disk.devices
    BY DEF IsTrusted
  <1>3. d \subseteq remembered /\ d \subseteq Peers
    BY <1>2 DEF IInv, TypeOK
  <1>4. l \in Locals /\ l.devices = d /\ l.peer = p
    <2> HIDE DEF d
    <2> QED BY <1>1, <1>3 DEF Locals
  <1>5. /\ step' = [step EXCEPT !["reader"] = "store"] /\ got' = [got EXCEPT !["reader"] = l]
        /\ UNCHANGED <<press, waiting, alone, pending, linked, disk, remembered, meant, orderly>>
    <2>1. got' = [got EXCEPT !["reader"].devices = d, !["reader"].accept = accept]
      BY DEF RequestCheck
    <2>2. got' = [got EXCEPT !["reader"] = l]
      <3> HIDE DEF d
      <3> QED BY <2>1, <1>1, Roles DEF IInv, TypeOK
    <2> QED BY <2>2 DEF RequestCheck, Goto, trust
  <1>6. Sound("reader", "store", l, remembered, pending.peer)
    <2> HIDE DEF d, l, p
    <2> QED BY <1>2, <1>3, <1>4, Roles DEF Sound, Saves, Answers
  <1>7. "store" \in Steps
    BY DEF Steps
  <1> HIDE DEF l, d, p
  <1> QED BY <1>4, <1>5, <1>6, <1>7, Roles, Unmoved, OneMovesOn

LEMMA RequestStoreStep ==
  ASSUME IInv, RequestStore
  PROVE  IInv'
  <1> DEFINE me == got["reader"]
             s == IF me.devices # {} THEN "load" ELSE "peer"
  <1>1. me \in Locals /\ Sound("reader", "store", me, remembered, pending.peer)
    BY Roles, Unmoved DEF RequestStore, At
  <1>2. /\ pending' = [peer |-> me.peer, mode |-> me.mode]
        /\ UNCHANGED <<waiting, linked, disk, remembered, meant, orderly, alone>>
    BY DEF RequestStore, trust
  <1>3. pending' \in Request /\ pending'.peer = me.peer
    BY <1>1, <1>2 DEF Locals, Request
  <1>4. /\ linked' \in BOOLEAN /\ disk' \in File /\ remembered' \subseteq Peers
        /\ disk'.devices \subseteq remembered'
        /\ waiting' \in [Peers -> Modes \cup {"none"}] /\ alone' \in BOOLEAN
        /\ meant' \subseteq Peers /\ orderly' \in BOOLEAN
    BY <1>2, Unmoved DEF IInv, TypeOK
  <1>5. CASE me.devices # {} \/ me.accept
    <2>1. step' = [step EXCEPT !["reader"] = s] /\ UNCHANGED <<got, press>>
      BY <1>5 DEF RequestStore, Goto
    <2>2. s \in Steps /\ s \in Saves \cup {"peer"}
      BY DEF Steps, Saves
    <2>3. got' = [got EXCEPT !["reader"] = me]
      BY <2>1 DEF IInv, TypeOK
    <2>4. me.accept \/ me.peer \in remembered
      BY <1>1, <1>5, Roles DEF Sound
    <2>5. Sound("reader", s, me, remembered', pending'.peer)
      <3> HIDE DEF s, me
      <3> QED BY <1>1, <1>2, <1>3, <2>2, <2>4, Roles DEF Sound, Saves
    <2> HIDE DEF s, me
    <2> QED BY <1>1, <1>2, <1>3, <1>4, <2>1, <2>2, <2>3, <2>5, Roles, Unmoved, OneMoves
  <1>6. CASE ~(me.devices # {} \/ me.accept)
    <2>1. Return("reader")
      BY <1>6 DEF RequestStore
    <2>2. Sound("reader", "idle", NoLocals, remembered', pending'.peer)
      BY NoCallSound
    <2>3. "idle" \in Steps
      BY DEF Steps
    <2> HIDE DEF s, me
    <2> QED BY <1>2, <1>3, <1>4, <2>1, <2>2, <2>3, Roles, NoLocalsType, Returns, OneMoves
  <1> QED BY <1>5, <1>6

-----------------------------------------------------------------------------
LEMMA KeepOrderType ==
  ASSUME IInv, NEW ok \in BOOLEAN, KeepOrder(ok)
  PROVE  orderly' \in BOOLEAN /\ meant' \subseteq Peers
  <1>1. orderly' \in BOOLEAN
    BY DEF KeepOrder, IInv, TypeOK
  <1> QED BY <1>1 DEF KeepOrder, IInv, TypeOK

\* After the trust file, the call goes on to the answer, or ends.
LEMMA GoesSound ==
  ASSUME IInv, NEW g \in Goroutines, step[g] \in Saves, Goes(g), NEW r, remembered \subseteq r
  PROVE  \E s \in Steps, l \in Locals :
           /\ step' = [step EXCEPT ![g] = s] /\ got' = [got EXCEPT ![g] = l]
           /\ press' \in [Goroutines -> Buttons] /\ Sound(g, s, l, r, pending.peer)
  <1>1. CASE g = "window"
    <2>1. Return(g)
      BY <1>1 DEF Goes
    <2>2. Sound(g, "idle", NoLocals, r, pending.peer) /\ "idle" \in Steps
      BY NoCallSound DEF Steps
    <2> QED BY <2>1, <2>2, Returns, NoLocalsType
  <1>2. CASE g # "window"
    <2> DEFINE s == IF g = "reader" THEN "peer" ELSE "mode"
               l == [got[g] EXCEPT !.devices = {}]
    <2>1. got[g] \in Locals /\ Sound(g, step[g], got[g], remembered, pending.peer)
      BY Unmoved
    <2>2. s \in Steps /\ l \in Locals
      BY <2>1 DEF Steps, Locals
    <2>3. l.devices = {} /\ l.peer = got[g].peer /\ l.accept = got[g].accept
      BY <2>1 DEF Locals
    <2>4. step' = [step EXCEPT ![g] = s] /\ got' = [got EXCEPT ![g] = l] /\ press' = press
      BY <1>2 DEF Goes, Goto, IInv, TypeOK
    <2>5. g = "reader" => l.accept \/ l.peer \in r
      BY <2>1, <2>3 DEF Sound, Answers
    <2>6. Sound(g, s, l, r, pending.peer)
      <3>1. s \notin Saves /\ s # "store"
        BY DEF Saves
      <3>2. g = "reader" => pending.peer = l.peer \/ pending.peer = None
        BY <2>1, <2>3 DEF Sound
      <3>3. g \notin Users => l.devices \subseteq r
        BY <2>3
      <3> HIDE DEF s, l
      <3> QED BY <2>3, <2>5, <3>1, <3>2, <3>3 DEF Sound
    <2>7. press' \in [Goroutines -> Buttons]
      BY <2>4, Unmoved
    <2> HIDE DEF s, l
    <2> QED BY <2>2, <2>4, <2>6, <2>7
  <1> QED BY <1>1, <1>2

LEMMA LoadFailsStep ==
  ASSUME IInv, NEW g \in Goroutines, LoadFails(g)
  PROVE  IInv'
  <1>1. /\ UNCHANGED <<pending, waiting, linked, disk, remembered, meant, orderly, alone>>
        /\ step[g] \in Saves
    BY DEF LoadFails, At, trust, Saves
  <1>2. CASE g = "reader"
    <2>1. Goes(g)
      BY <1>2 DEF LoadFails
    <2>2. PICK s \in Steps, l \in Locals :
            /\ step' = [step EXCEPT ![g] = s] /\ got' = [got EXCEPT ![g] = l]
            /\ press' \in [Goroutines -> Buttons]
            /\ Sound(g, s, l, remembered, pending.peer)
      BY <1>1, <2>1, GoesSound
    <2> QED BY <1>1, <2>2, Unmoved, OneMovesOn
  <1>3. CASE g # "reader"
    BY <1>1, <1>3, Unmoved, ReturnOn DEF LoadFails
  <1> QED BY <1>2, <1>3

LEMMA LoadStep ==
  ASSUME IInv, NEW g \in Goroutines, Load(g)
  PROVE  IInv'
  <1>1. /\ UNCHANGED <<pending, waiting, linked, disk, remembered, alone>>
        /\ step[g] = "load" /\ "load" \in Saves
    BY DEF Load, At, Saves
  <1>2. orderly' \in BOOLEAN /\ meant' \subseteq Peers
    BY KeepOrderType DEF Load
  <1>3. CASE g = "reader" /\ got[g].peer \notin disk.devices
    <2>1. Goes(g)
      BY <1>3 DEF Load
    <2>2. PICK s \in Steps, l \in Locals :
            /\ step' = [step EXCEPT ![g] = s] /\ got' = [got EXCEPT ![g] = l]
            /\ press' \in [Goroutines -> Buttons]
            /\ Sound(g, s, l, remembered, pending.peer)
      BY <1>1, <2>1, GoesSound
    <2> QED BY <1>1, <1>2, <2>2, Unmoved, OneMovesOn
  <1>4. CASE ~(g = "reader" /\ got[g].peer \notin disk.devices)
    <2> DEFINE d == Changed(g, disk.devices)
               l == [got[g] EXCEPT !.devices = d]
    <2>1. got[g] \in Locals /\ Sound(g, "load", got[g], remembered, pending.peer)
      BY <1>1, Unmoved
    <2>2. /\ g \notin Users => d \subseteq disk.devices
          /\ g \in Users => d = disk.devices \cup {got[g].peer}
      BY Roles DEF Changed
    <2>3. disk.devices \subseteq remembered /\ disk.devices \subseteq Peers
      BY DEF IInv, TypeOK
    <2>4. g \in Users => got[g].peer \in Peers
      BY <2>1 DEF Sound, Saves, Locals
    <2>5. d \subseteq Peers
      <3> HIDE DEF d
      <3> QED BY <2>2, <2>3, <2>4
    <2>6. /\ l \in Locals /\ l.devices = d /\ l.peer = got[g].peer
          /\ l.accept = got[g].accept
      <3> HIDE DEF d
      <3> QED BY <2>1, <2>5 DEF Locals
    <2>7. /\ step' = [step EXCEPT ![g] = "truncate"] /\ got' = [got EXCEPT ![g] = l]
          /\ press' = press
      BY <1>4 DEF Load, Goto, IInv, TypeOK
    <2>8. Sound(g, "truncate", l, remembered, pending.peer)
      <3> HIDE DEF d, l
      <3> QED BY <2>1, <2>2, <2>3, <2>6 DEF Sound, Saves, Answers
    <2>9. "truncate" \in Steps
      BY DEF Steps
    <2> HIDE DEF d, l
    <2> QED BY <1>1, <1>2, <2>6, <2>7, <2>8, <2>9, Unmoved, OneMovesOn
  <1> QED BY <1>3, <1>4

LEMMA TruncateStep ==
  ASSUME IInv, NEW g \in Goroutines, Truncate(g)
  PROVE  IInv'
  <1>1. got[g] \in Locals /\ Sound(g, "truncate", got[g], remembered, pending.peer)
    BY Unmoved DEF Truncate, At
  <1>2. Sound(g, "write", got[g], remembered, pending.peer) /\ "write" \in Steps
    BY <1>1 DEF Sound, Saves, Answers, Steps
  <1>3. /\ step' = [step EXCEPT ![g] = "write"] /\ got' = [got EXCEPT ![g] = got[g]]
        /\ disk' = [state |-> "empty", devices |-> {}]
        /\ UNCHANGED <<pending, waiting, linked, remembered, meant, orderly, press, alone>>
    BY DEF Truncate, Goto, IInv, TypeOK
  <1>4. disk' \in File /\ disk'.devices \subseteq remembered'
    BY <1>3 DEF File
  <1>5. pending' \in Request /\ linked' \in BOOLEAN /\ remembered' \subseteq Peers
    BY <1>3 DEF IInv, TypeOK
  <1> QED BY <1>1, <1>2, <1>3, <1>4, <1>5, Unmoved, OneMoves

LEMMA WriteStep ==
  ASSUME IInv, NEW g \in Goroutines, Write(g)
  PROVE  IInv'
  <1> DEFINE gains == IF g \in Users THEN {got[g].peer} ELSE {}
             loses == IF g = "window" THEN {got[g].peer} ELSE {}
  <1>1. /\ got[g] \in Locals /\ Sound(g, "write", got[g], remembered, pending.peer)
        /\ step[g] \in Saves
    BY Unmoved DEF Write, At, Saves
  <1>2. /\ remembered' = remembered \cup gains
        /\ meant' = IF orderly THEN (meant \ loses) \cup gains ELSE {}
        /\ Goes(g)
        /\ UNCHANGED <<pending, waiting, linked, orderly, alone>>
    BY DEF Write
  <1>3. gains \subseteq Peers /\ got[g].devices \subseteq remembered \cup gains
    <2>1. CASE g \in Users
      BY <1>1, <2>1 DEF Sound, Saves, Locals
    <2>2. CASE g \notin Users
      BY <1>1, <2>2 DEF Sound
    <2> QED BY <2>1, <2>2
  <1>4. disk' \in File /\ disk'.devices \subseteq remembered'
    <2>1. CASE disk' = [state |-> "whole", devices |-> got[g].devices]
      <3>1. got[g].devices \subseteq Peers
        BY <1>1 DEF Locals
      <3> HIDE DEF gains
      <3> QED BY <1>2, <1>3, <2>1, <3>1 DEF File
    <2>2. CASE disk' = [state |-> "torn", devices |-> {}]
      BY <2>2 DEF File
    <2> QED BY <2>1, <2>2 DEF Write
  <1> HIDE DEF gains, loses
  <1>5. /\ remembered \subseteq remembered' /\ remembered' \subseteq Peers
        /\ meant' \subseteq Peers
    BY <1>2, <1>3 DEF IInv, TypeOK
  <1>6. PICK s \in Steps, l \in Locals :
          /\ step' = [step EXCEPT ![g] = s] /\ got' = [got EXCEPT ![g] = l]
          /\ press' \in [Goroutines -> Buttons] /\ Sound(g, s, l, remembered', pending.peer)
    BY <1>1, <1>2, <1>5, GoesSound
  <1>7. pending' \in Request /\ linked' \in BOOLEAN /\ pending'.peer = pending.peer
    BY <1>2 DEF IInv, TypeOK
  <1> QED BY <1>2, <1>4, <1>5, <1>6, <1>7, Unmoved, OneMoves

-----------------------------------------------------------------------------
LEMMA PressStep ==
  ASSUME IInv, NEW u \in Users, NEW button \in Buttons, Press(u, button)
  PROVE  IInv'
  <1> DEFINE l == [NoLocals EXCEPT !.for = pending.peer]
  <1>1. l \in Locals /\ l.devices = {}
    BY DEF NoLocals, NoRequest, Locals, Modes, IInv, TypeOK, Request
  <1>2. Sound(u, "peer", l, remembered, pending.peer) /\ "peer" \in Steps
    BY <1>1, Roles DEF Sound, Saves, Steps
  <1>3. /\ step' = [step EXCEPT ![u] = "peer"] /\ got' = [got EXCEPT ![u] = l]
        /\ press' \in [Goroutines -> Buttons] /\ alone' \in BOOLEAN
        /\ UNCHANGED <<pending, waiting, linked, disk, remembered, meant, orderly>>
    BY Unmoved DEF Press, Goto, trust
  <1> HIDE DEF l
  <1> QED BY <1>1, <1>2, <1>3, Roles, Unmoved, OneMovesOn

LEMMA PendingPeerStep ==
  ASSUME IInv, NEW g \in Goroutines, NEW enable \in BOOLEAN, PendingPeer(g, enable)
  PROVE  IInv'
  <1>1. UNCHANGED <<pending, waiting, linked, disk, remembered, meant, orderly, alone>>
    BY DEF PendingPeer, trust
  <1>2. CASE pending.peer = None
    BY <1>1, <1>2, Unmoved, ReturnOn DEF PendingPeer
  <1>3. CASE pending.peer # None
    <2> DEFINE l == [got[g] EXCEPT !.peer = pending.peer, !.enable = enable]
               s == AfterPeer(g)
    <2>1. got[g] \in Locals /\ Sound(g, "peer", got[g], remembered, pending.peer)
      BY Unmoved DEF PendingPeer, At
    <2>2. /\ l \in Locals /\ l.peer = pending.peer
          /\ l.devices = got[g].devices /\ l.accept = got[g].accept
      BY <2>1 DEF Locals, IInv, TypeOK, Request
    <2>3. /\ step' = [step EXCEPT ![g] = s] /\ got' = [got EXCEPT ![g] = l]
          /\ press' = press
      BY <1>3 DEF PendingPeer, Goto, IInv, TypeOK
    <2>4. s \in Steps \ {"peer", "store"}
      BY DEF AfterPeer, Steps
    <2>5. g = "reader" => got[g].peer = pending.peer
      BY <1>3, <2>1 DEF Sound
    <2>6. Sound(g, s, l, remembered, pending.peer)
      <3> HIDE DEF s, l
      <3>1. g \in Users => l.devices = {}
        BY <2>1, <2>2 DEF Sound
      <3>2. g = "reader" => l.accept \/ l.peer \in remembered
        BY <2>1, <2>2, <2>5 DEF Sound, Answers
      <3>3. g \notin Users => l.devices \subseteq remembered
        BY <2>1, <2>2 DEF Sound
      <3> QED BY <1>3, <2>2, <2>4, <3>1, <3>2, <3>3 DEF Sound
    <2> HIDE DEF s, l
    <2> QED BY <1>1, <2>2, <2>3, <2>4, <2>6, Unmoved, OneMovesOn
  <1> QED BY <1>2, <1>3

LEMMA PendingModeStep ==
  ASSUME IInv, NEW g \in Goroutines, PendingMode(g)
  PROVE  IInv'
  <1> DEFINE l == [got[g] EXCEPT !.mode = pending.mode]
  <1>1. got[g] \in Locals /\ Sound(g, "mode", got[g], remembered, pending.peer)
    BY Unmoved DEF PendingMode, At
  <1>2. /\ l \in Locals /\ l.peer = got[g].peer
        /\ l.devices = got[g].devices /\ l.accept = got[g].accept
    BY <1>1 DEF Locals, IInv, TypeOK, Request
  <1>3. /\ step' = [step EXCEPT ![g] = "input"] /\ got' = [got EXCEPT ![g] = l]
        /\ UNCHANGED <<pending, waiting, linked, disk, remembered, meant, orderly, press, alone>>
    BY DEF PendingMode, Goto, trust, IInv, TypeOK
  <1> HIDE DEF l
  <1>4. Sound(g, "input", l, remembered, pending.peer) /\ "input" \in Steps
    BY <1>1, <1>2 DEF Sound, Saves, Answers, Steps
  <1> QED BY <1>2, <1>3, <1>4, Unmoved, OneMovesOn

LEMMA PendingInputStep ==
  ASSUME IInv, NEW g \in Goroutines, PendingInput(g)
  PROVE  IInv'
  <1> DEFINE b == InputAllowed(g)
             l == [got[g] EXCEPT !.input = b]
  <1>1. got[g] \in Locals /\ Sound(g, "input", got[g], remembered, pending.peer)
    BY Unmoved DEF PendingInput, At
  <1>2. b \in BOOLEAN
    BY DEF InputAllowed
  <1>3. /\ step' = [step EXCEPT ![g] = "send"] /\ got' = [got EXCEPT ![g] = l]
        /\ UNCHANGED <<pending, waiting, linked, disk, remembered, meant, orderly, press, alone>>
    BY DEF PendingInput, Goto, trust, IInv, TypeOK
  <1> HIDE DEF b
  <1>4. /\ l \in Locals /\ l.peer = got[g].peer
        /\ l.devices = got[g].devices /\ l.accept = got[g].accept
    BY <1>1, <1>2 DEF Locals
  <1> HIDE DEF l
  <1>5. Sound(g, "send", l, remembered, pending.peer) /\ "send" \in Steps
    BY <1>1, <1>4 DEF Sound, Saves, Answers, Steps
  <1> QED BY <1>3, <1>4, <1>5, Unmoved, OneMovesOn

LEMMA SendStep ==
  ASSUME IInv, NEW g \in Goroutines, Send(g)
  PROVE  IInv'
  <1>1. /\ step' = [step EXCEPT ![g] = "clear"] /\ got' = [got EXCEPT ![g] = NoLocals]
        /\ waiting' = [waiting EXCEPT ![got[g].peer] = "none"]
        /\ UNCHANGED <<pending, linked, disk, remembered, meant, orderly, press, alone>>
    BY DEF Send, Goto, trust
  <1>2. waiting' \in [Peers -> Modes \cup {"none"}]
    BY <1>1, Unmoved
  <1>3. Sound(g, "clear", NoLocals, remembered, pending.peer) /\ "clear" \in Steps
    BY NoCallSound DEF Steps
  <1> QED BY <1>1, <1>2, <1>3, NoLocalsType, Unmoved, OneMovesOn

LEMMA SendFailsStep ==
  ASSUME IInv, NEW g \in Goroutines, SendFails(g)
  PROVE  IInv'
  BY Unmoved, ReturnOn DEF SendFails, trust

LEMMA ClearPendingStep ==
  ASSUME IInv, NEW g \in Goroutines, ClearPending(g)
  PROVE  IInv'
  <1>1. /\ pending' = NoRequest /\ Return(g)
        /\ UNCHANGED <<waiting, linked, disk, remembered, meant, orderly, alone>>
    BY DEF ClearPending, trust
  <1>2. /\ linked' \in BOOLEAN /\ disk' \in File /\ remembered' \subseteq Peers
        /\ disk'.devices \subseteq remembered'
    BY <1>1 DEF IInv, TypeOK
  <1>3. Sound(g, "idle", NoLocals, remembered', pending'.peer) /\ "idle" \in Steps
    BY NoCallSound DEF Steps
  <1> QED BY <1>1, <1>2, <1>3, NoLocalsType, Unmoved, Returns, OneMoves

LEMMA RevokeStep ==
  ASSUME IInv, NEW p \in Peers, Revoke(p)
  PROVE  IInv'
  <1> DEFINE l == [NoLocals EXCEPT !.peer = p]
  <1>1. l \in Locals /\ l.devices = {}
    BY DEF NoLocals, NoRequest, Locals, Modes
  <1>2. Sound("window", "load", l, remembered, pending.peer) /\ "load" \in Steps
    BY <1>1, Roles DEF Sound, Steps
  <1>3. /\ step' = [step EXCEPT !["window"] = "load"] /\ got' = [got EXCEPT !["window"] = l]
        /\ UNCHANGED <<pending, waiting, linked, disk, remembered, meant, orderly, press, alone>>
    BY DEF Revoke, Goto, trust
  <1> HIDE DEF l
  <1> QED BY <1>1, <1>2, <1>3, Roles, Unmoved, OneMovesOn

LEMMA LinkLostStep ==
  ASSUME IInv, LinkLost
  PROVE  IInv'
  BY DEF LinkLost, trust, calls, IInv, TypeOK

LEMMA ReconnectStep ==
  ASSUME IInv, Reconnect
  PROVE  IInv'
  <1> DEFINE s == step["reader"]
             l == got["reader"]
  <1>1. /\ pending' = NoRequest /\ linked' = TRUE /\ alone' \in BOOLEAN
        /\ UNCHANGED <<waiting, disk, remembered, meant, orderly, press>>
        /\ step' = [step EXCEPT !["reader"] = s] /\ got' = [got EXCEPT !["reader"] = l]
    BY DEF Reconnect, OthersIdle, trust, calls, IInv, TypeOK
  <1>2. s \in Steps /\ l \in Locals /\ Sound("reader", s, l, remembered, pending.peer)
    BY Roles, Unmoved DEF IInv, TypeOK
  <1> HIDE DEF s, l
  <1>3. Sound("reader", s, l, remembered', pending'.peer)
    BY <1>1, <1>2, NoLocalsType, StaysSound
  <1>4. disk' \in File /\ remembered' \subseteq Peers /\ disk'.devices \subseteq remembered'
    BY <1>1 DEF IInv, TypeOK
  <1> QED BY <1>1, <1>2, <1>3, <1>4, NoLocalsType, Roles, Unmoved, OneMoves

LEMMA CrashStep ==
  ASSUME IInv, Crash
  PROVE  IInv'
  <1>1. /\ step' = [g \in Goroutines |-> "idle"] /\ got' = [g \in Goroutines |-> NoLocals]
        /\ press' = [g \in Goroutines |-> "allow"]
        /\ pending' = NoRequest /\ waiting' = [p \in Peers |-> "none"]
        /\ linked' = TRUE /\ alone' = TRUE /\ UNCHANGED <<disk, remembered>>
    BY DEF Crash
  <1>2. orderly' \in BOOLEAN /\ meant' \subseteq Peers
    BY KeepOrderType DEF Crash
  <1>3. TypeOK'
    BY <1>1, <1>2, NoLocalsType DEF IInv, TypeOK, Steps
  <1>4. \A g \in Goroutines : Sound(g, step'[g], got'[g], remembered', pending'.peer)
    BY <1>1, NoCallSound
  <1> QED BY <1>1, <1>3, <1>4 DEF IInv

-----------------------------------------------------------------------------
LEMMA NextStep == IInv /\ [Next]_vars => IInv'
  <1> SUFFICES ASSUME IInv, [Next]_vars PROVE IInv'
    OBVIOUS
  <1>1. CASE ReaderNext
    BY <1>1, HandleSessionRequestStep, RequestCheckStep, RequestStoreStep DEF ReaderNext
  <1>2. ASSUME NEW g \in Goroutines, TrustNext(g) PROVE IInv'
    BY <1>2, LoadFailsStep, LoadStep, TruncateStep, WriteStep DEF TrustNext
  <1>3. ASSUME NEW g \in Goroutines, AnswerNext(g) PROVE IInv'
    BY <1>3, PendingPeerStep, PendingModeStep, PendingInputStep, SendStep, SendFailsStep,
       ClearPendingStep DEF AnswerNext
  <1>4. ASSUME NEW u \in Users, NEW button \in Buttons, Press(u, button) PROVE IInv'
    BY <1>4, PressStep
  <1>5. ASSUME NEW p \in Peers, Revoke(p) PROVE IInv'
    BY <1>5, RevokeStep
  <1>6. CASE LinkLost \/ Reconnect \/ Crash
    BY <1>6, LinkLostStep, ReconnectStep, CrashStep
  <1>7. CASE UNCHANGED vars
    BY <1>7 DEF vars, trust, calls, IInv, TypeOK
  <1> QED BY <1>1, <1>2, <1>3, <1>4, <1>5, <1>6, <1>7 DEF Next, Buttons

\* What a request is allowed without a press follows from where the read loop is.
LEMMA AnswersAreDue ==
  ASSUME IInv, Allows("reader")
  PROVE  got["reader"].accept \/ got["reader"].peer \in remembered
  <1>1. step["reader"] = "send"
    BY DEF Allows, Send, At
  <1> QED BY <1>1, Roles DEF IInv, Sound, Answers

-----------------------------------------------------------------------------
(* The trust file.  While saves are orderly one goroutine at most is       *)
(* saving, and it has the list that the file is to hold.                   *)

Kept(d, m) == d = [state |-> "whole", devices |-> m]

\* Goroutine g is about to save what the devices add up to after its save.
SavesWell(g) ==
  /\ At(g, "truncate") => Kept(disk, meant)
  /\ At(g, "write") => disk = [state |-> "empty", devices |-> {}]
  /\ Saving(g) => got[g].devices = Changed(g, meant)

FileInv ==
  orderly =>
    /\ \A g, h \in Goroutines : Saving(g) /\ Saving(h) => g = h
    /\ \A g \in Goroutines : SavesWell(g)
    /\ TrustIsAsSaved

-----------------------------------------------------------------------------
(* One request and one answer at a time.                                   *)

Active == Goroutines \ {"window"}

\* The request in the slot is the one that the relay waits for.
Matches ==
  /\ \A p \in Peers : waiting[p] # "none" <=> pending.peer = p
  /\ pending.peer # None => waiting[pending.peer] = pending.mode

Arrives == {"check", "store"}

\* What g's call knows fits the slot and the relay.
Fits(g) ==
  LET me == got[g] IN
  /\ step[g] \in Arrives =>
       /\ pending.peer = None /\ me.for = me.peer /\ me.peer \in Peers
       /\ \A p \in Peers : waiting[p] = IF p = me.peer THEN me.mode ELSE "none"
  /\ step[g] = "clear" => \A p \in Peers : waiting[p] = "none"
  /\ step[g] \notin Arrives \cup {"clear"} => Matches
  /\ step[g] \in Answers => pending.peer # None /\ me.for = pending.peer
  /\ step[g] \in Answers \ {"peer"} => me.peer = pending.peer
  /\ step[g] = "input" => me.mode = pending.mode
  /\ step[g] = "send" /\ press[g] # "reject" =>
       /\ me.mode = pending.mode
       /\ me.input <=> me.enable /\ pending.mode = "control"

AnswerInv ==
  /\ step["window"] \in Saves \cup {"idle"}
  /\ ~linked => \A p \in Peers : waiting[p] = "none"
  /\ alone => \E g \in Active : OthersIdle(g) /\ Fits(g)

-----------------------------------------------------------------------------
(* What a step of one goroutine leaves alone.                              *)

OnlyMoves(g) ==
  \A h \in Goroutines \ {g} :
    step'[h] = step[h] /\ got'[h] = got[h] /\ press'[h] = press[h]

LEMMA ReturnMoves ==
  ASSUME TypeOK, NEW g \in Goroutines, Return(g)
  PROVE  OnlyMoves(g) /\ step'[g] = "idle"
  BY DEF Return, Goto, OnlyMoves, TypeOK

LEMMA GoesMoves ==
  ASSUME TypeOK, NEW g \in Goroutines, Goes(g)
  PROVE  /\ OnlyMoves(g)
         /\ \/ step'[g] = "idle"
            \/ /\ g # "window" /\ step'[g] \in {"peer", "mode"}
               /\ got'[g].for = got[g].for /\ got'[g].peer = got[g].peer
  <1>1. CASE g = "window"
    BY <1>1, ReturnMoves DEF Goes
  <1>2. CASE g # "window"
    BY <1>2 DEF Goes, Goto, OnlyMoves, TypeOK, Locals
  <1> QED BY <1>1, <1>2

\* A step on the trust file: the call saves on, goes on or ends.
LEMMA TrustMoves ==
  ASSUME TypeOK, NEW g \in Goroutines, TrustNext(g)
  PROVE  /\ OnlyMoves(g) /\ UNCHANGED <<pending, waiting, linked, alone>>
         /\ step[g] \in Saves
         /\ \/ step'[g] = "idle"
            \/ /\ step'[g] \in Saves \/ (g # "window" /\ step'[g] \in {"peer", "mode"})
               /\ got'[g].for = got[g].for /\ got'[g].peer = got[g].peer
  <1>1. CASE LoadFails(g)
    <2>1. Goes(g) \/ Return(g)
      BY <1>1 DEF LoadFails
    <2> QED BY <1>1, <2>1, GoesMoves, ReturnMoves DEF LoadFails, At, Saves
  <1>2. CASE Load(g)
    <2>1. CASE Goes(g)
      BY <1>2, <2>1, GoesMoves DEF Load, At, Saves
    <2>2. CASE /\ got' = [got EXCEPT ![g].devices = Changed(g, disk.devices)]
               /\ Goto(g, "truncate") /\ UNCHANGED press
      BY <1>2, <2>2 DEF Load, At, Saves, Goto, OnlyMoves, TypeOK, Locals
    <2> QED BY <1>2, <2>1, <2>2 DEF Load
  <1>3. CASE Truncate(g)
    BY <1>3 DEF Truncate, At, Saves, Goto, OnlyMoves, TypeOK
  <1>4. CASE Write(g)
    BY <1>4, GoesMoves DEF Write, At, Saves
  <1> QED BY <1>1, <1>2, <1>3, <1>4 DEF TrustNext

\* A step on the answer.
LEMMA AnswerMoves ==
  ASSUME TypeOK, NEW g \in Goroutines, AnswerNext(g)
  PROVE  /\ OnlyMoves(g) /\ UNCHANGED <<linked, alone, disk, meant, orderly>>
         /\ step[g] \in {"peer", "mode", "input", "send", "clear"}
         /\ step'[g] \in {"idle", "load", "mode", "input", "send", "clear"}
  <1>1. ASSUME NEW enable \in BOOLEAN, PendingPeer(g, enable)
        PROVE  /\ OnlyMoves(g) /\ UNCHANGED <<linked, alone, disk, meant, orderly>>
               /\ step[g] = "peer" /\ step'[g] \in {"idle", "load", "mode", "send"}
    <2>1. CASE Return(g)
      BY <1>1, <2>1, ReturnMoves DEF PendingPeer, At, trust
    <2>2. CASE ~Return(g)
      BY <1>1, <2>2 DEF PendingPeer, At, trust, Goto, OnlyMoves, TypeOK, AfterPeer
    <2> QED BY <2>1, <2>2
  <1>2. CASE PendingMode(g)
    BY <1>2 DEF PendingMode, At, trust, Goto, OnlyMoves, TypeOK
  <1>3. CASE PendingInput(g)
    BY <1>3 DEF PendingInput, At, trust, Goto, OnlyMoves, TypeOK
  <1>4. CASE Send(g)
    BY <1>4 DEF Send, At, trust, Goto, OnlyMoves, TypeOK
  <1>5. CASE SendFails(g)
    BY <1>5, ReturnMoves DEF SendFails, At, trust
  <1>6. CASE ClearPending(g)
    BY <1>6, ReturnMoves DEF ClearPending, At, trust
  <1> QED BY <1>1, <1>2, <1>3, <1>4, <1>5, <1>6 DEF AnswerNext

\* A step of the read loop on a request.
LEMMA ReaderMoves ==
  ASSUME TypeOK, ReaderNext
  PROVE  /\ OnlyMoves("reader") /\ UNCHANGED <<linked, disk, meant, orderly>>
         /\ step["reader"] \in {"idle", "check", "store"}
         /\ step'["reader"] \in {"check", "store", "idle", "load", "peer"}
  <1>1. ASSUME NEW p \in Peers, NEW mode \in Modes, HandleSessionRequest(p, mode)
        PROVE  /\ OnlyMoves("reader") /\ UNCHANGED <<linked, disk, meant, orderly>>
               /\ step["reader"] = "idle" /\ step'["reader"] = "check"
    BY <1>1, Roles DEF HandleSessionRequest, At, trust, Goto, OnlyMoves, TypeOK
  <1>2. ASSUME NEW accept \in BOOLEAN, RequestCheck(accept)
        PROVE  /\ OnlyMoves("reader") /\ UNCHANGED <<linked, disk, meant, orderly>>
               /\ step["reader"] = "check" /\ step'["reader"] = "store"
    BY <1>2, Roles DEF RequestCheck, At, trust, Goto, OnlyMoves, TypeOK
  <1>3. CASE RequestStore
    <2>1. CASE Return("reader")
      BY <1>3, <2>1, Roles, ReturnMoves DEF RequestStore, At, trust
    <2>2. CASE ~Return("reader")
      BY <1>3, <2>2, Roles DEF RequestStore, At, trust, Goto, OnlyMoves, TypeOK
    <2> QED BY <2>1, <2>2
  <1> QED BY <1>1, <1>2, <1>3 DEF ReaderNext

LEMMA PressMoves ==
  ASSUME TypeOK, NEW u \in Users, NEW button \in Buttons, Press(u, button)
  PROVE  /\ OnlyMoves(u) /\ UNCHANGED <<pending, waiting, linked, disk, meant, orderly>>
         /\ step[u] = "idle" /\ step'[u] = "peer" /\ got'[u].for = pending.peer
         /\ u \in Goroutines /\ u # "window"
  <1>1. u \in Goroutines /\ u # "window"
    BY Roles
  <1>2. [NoLocals EXCEPT !.for = pending.peer].for = pending.peer
    BY DEF NoLocals
  <1> QED BY <1>1, <1>2 DEF Press, At, trust, Goto, OnlyMoves, TypeOK

LEMMA RevokeMoves ==
  ASSUME TypeOK, NEW p \in Peers, Revoke(p)
  PROVE  /\ OnlyMoves("window") /\ step["window"] = "idle" /\ step'["window"] = "load"
         /\ UNCHANGED <<pending, waiting, linked, alone, disk, meant, orderly>>
  BY Roles DEF Revoke, At, trust, Goto, OnlyMoves, TypeOK

-----------------------------------------------------------------------------
(* The trust file is as saved.                                             *)

\* Steps of goroutines that are not saving.
LEMMA QuietStep ==
  ASSUME TypeOK, FileInv, NEW g \in Goroutines, OnlyMoves(g), ~Saving(g), ~Saving(g)',
         UNCHANGED <<disk, meant, orderly>>
  PROVE  FileInv'
  <1> SUFFICES ASSUME orderly'
               PROVE  /\ \A a, b \in Goroutines : Saving(a)' /\ Saving(b)' => a = b
                      /\ \A h \in Goroutines : SavesWell(h)'
                      /\ TrustIsAsSaved'
    BY DEF FileInv
  <1>1. \A h \in Goroutines : Saving(h)' <=> Saving(h)
    BY DEF OnlyMoves, Saving
  <1>2. ASSUME NEW h \in Goroutines
        PROVE  SavesWell(h)'
    <2>1. CASE ~Saving(h)
      BY <1>1, <2>1 DEF SavesWell, Saving, At
    <2>2. CASE Saving(h)
      BY <2>2 DEF FileInv, OnlyMoves, SavesWell, Saving, At, Changed, Kept
    <2> QED BY <2>1, <2>2
  <1>3. TrustIsAsSaved'
    BY <1>1 DEF FileInv, TrustIsAsSaved
  <1> QED BY <1>1, <1>2, <1>3 DEF FileInv

LEMMA LoadFile ==
  ASSUME TypeOK, FileInv, NEW g \in Goroutines, Load(g)
  PROVE  FileInv'
  <1> SUFFICES ASSUME orderly'
               PROVE  /\ \A a, b \in Goroutines : Saving(a)' /\ Saving(b)' => a = b
                      /\ \A h \in Goroutines : SavesWell(h)'
                      /\ TrustIsAsSaved'
    BY DEF FileInv
  <1>1. orderly /\ (\A h \in Goroutines : ~Saving(h)) /\ meant' = meant /\ disk' = disk
    BY DEF Load, KeepOrder, TypeOK
  <1>2. Kept(disk, meant)
    BY <1>1 DEF FileInv, TrustIsAsSaved, Kept
  <1>3. OnlyMoves(g)
    BY TrustMoves DEF TrustNext
  <1>4. \A h \in Goroutines \ {g} : ~Saving(h)' /\ SavesWell(h)'
    BY <1>1, <1>3 DEF OnlyMoves, Saving, SavesWell, At
  <1>5. CASE Goes(g)
    <2>1. ~Saving(g)' /\ SavesWell(g)'
      BY <1>5, GoesMoves DEF Saving, SavesWell, At
    <2> QED BY <1>1, <1>2, <1>4, <2>1 DEF TrustIsAsSaved, Kept
  <1>6. CASE /\ got' = [got EXCEPT ![g].devices = Changed(g, disk.devices)]
             /\ Goto(g, "truncate")
    <2>1. step'[g] = "truncate"
      BY <1>6 DEF Goto, TypeOK
    <2>2. got'[g].devices = Changed(g, disk.devices) /\ got'[g].peer = got[g].peer
      BY <1>6 DEF TypeOK, Locals
    <2>3. disk.devices = meant
      BY <1>2 DEF Kept
    <2>4. SavesWell(g)' /\ Saving(g)'
      BY <1>1, <1>2, <2>1, <2>2, <2>3 DEF SavesWell, Saving, At, Changed, Kept
    <2> QED BY <1>4, <2>4 DEF TrustIsAsSaved
  <1> QED BY <1>5, <1>6 DEF Load

LEMMA TruncateFile ==
  ASSUME TypeOK, FileInv, NEW g \in Goroutines, Truncate(g)
  PROVE  FileInv'
  <1> SUFFICES ASSUME orderly'
               PROVE  /\ \A a, b \in Goroutines : Saving(a)' /\ Saving(b)' => a = b
                      /\ \A h \in Goroutines : SavesWell(h)'
                      /\ TrustIsAsSaved'
    BY DEF FileInv
  <1>1. /\ step[g] = "truncate" /\ step'[g] = "write" /\ OnlyMoves(g)
        /\ UNCHANGED <<meant, got, orderly>> /\ disk' = [state |-> "empty", devices |-> {}]
    BY DEF Truncate, At, Goto, OnlyMoves, TypeOK
  <1>2. \A h \in Goroutines : Saving(h) => h = g
    BY <1>1 DEF FileInv, Saving
  <1>3. \A h \in Goroutines : Saving(h)' <=> h = g
    BY <1>1, <1>2 DEF OnlyMoves, Saving
  <1>4. SavesWell(g)'
    BY <1>1 DEF FileInv, SavesWell, Saving, At, Changed
  <1>5. \A h \in Goroutines \ {g} : SavesWell(h)'
    BY <1>3 DEF SavesWell, Saving, At
  <1> QED BY <1>3, <1>4, <1>5 DEF TrustIsAsSaved

LEMMA WriteFile ==
  ASSUME TypeOK, FileInv, NEW g \in Goroutines, Write(g)
  PROVE  FileInv'
  <1> SUFFICES ASSUME orderly'
               PROVE  /\ \A a, b \in Goroutines : Saving(a)' /\ Saving(b)' => a = b
                      /\ \A h \in Goroutines : SavesWell(h)'
                      /\ TrustIsAsSaved'
    BY DEF FileInv
  <1>1. step[g] = "write" /\ orderly /\ Goes(g)
    BY DEF Write, At
  <1>2. /\ disk = [state |-> "empty", devices |-> {}]
        /\ got[g].devices = Changed(g, meant)
        /\ \A h \in Goroutines : Saving(h) => h = g
    BY <1>1 DEF FileInv, SavesWell, Saving, At
  <1>3. disk' = [state |-> "whole", devices |-> Changed(g, meant)]
    BY <1>2 DEF Write
  <1>4. meant' = Changed(g, meant)
    BY <1>1, Roles DEF Write, Changed
  <1>5. \A h \in Goroutines : ~Saving(h)' /\ SavesWell(h)'
    BY <1>1, <1>2, GoesMoves DEF OnlyMoves, Saving, SavesWell, At
  <1> QED BY <1>3, <1>4, <1>5 DEF TrustIsAsSaved

LEMMA CrashFile ==
  ASSUME TypeOK, FileInv, Crash
  PROVE  FileInv'
  <1> SUFFICES ASSUME orderly'
               PROVE  /\ \A a, b \in Goroutines : Saving(a)' /\ Saving(b)' => a = b
                      /\ \A h \in Goroutines : SavesWell(h)'
                      /\ TrustIsAsSaved'
    BY DEF FileInv
  <1>1. orderly /\ (\A h \in Goroutines : step[h] # "write") /\ UNCHANGED <<disk, meant>>
    BY DEF Crash, KeepOrder, At, TypeOK
  <1>2. \A h \in Goroutines : step'[h] = "idle"
    BY DEF Crash
  <1>3. Kept(disk, meant)
    BY <1>1 DEF FileInv, SavesWell, TrustIsAsSaved, Saving, At, Kept
  <1> QED BY <1>1, <1>2, <1>3 DEF SavesWell, Saving, At, TrustIsAsSaved, Kept

LEMMA FileStep ==
  ASSUME TypeOK, FileInv, [Next]_vars
  PROVE  FileInv'
  <1>1. CASE ReaderNext
    BY <1>1, ReaderMoves, Roles, QuietStep DEF Saving
  <1>2. ASSUME NEW g \in Goroutines, TrustNext(g) PROVE FileInv'
    <2>1. CASE LoadFails(g)
      <3>1. OnlyMoves(g)
        BY <1>2, TrustMoves
      <3>2. Goes(g) \/ Return(g)
        BY <2>1 DEF LoadFails
      <3>3. ~Saving(g) /\ ~Saving(g)'
        BY <2>1, <3>2, GoesMoves, ReturnMoves DEF LoadFails, At, Saving
      <3> QED BY <2>1, <3>1, <3>3, QuietStep DEF LoadFails, trust
    <2> QED BY <1>2, <2>1, LoadFile, TruncateFile, WriteFile DEF TrustNext
  <1>3. ASSUME NEW g \in Goroutines, AnswerNext(g) PROVE FileInv'
    BY <1>3, AnswerMoves, QuietStep DEF Saving
  <1>4. ASSUME NEW u \in Users, NEW button \in Buttons, Press(u, button) PROVE FileInv'
    BY <1>4, PressMoves, QuietStep DEF Saving
  <1>5. ASSUME NEW p \in Peers, Revoke(p) PROVE FileInv'
    BY <1>5, RevokeMoves, Roles, QuietStep DEF Saving
  <1>6. CASE LinkLost \/ Reconnect \/ UNCHANGED vars
    <2>1. UNCHANGED <<disk, meant, orderly, step, got>>
      BY <1>6 DEF LinkLost, Reconnect, vars, trust, calls
    <2> QED BY <2>1 DEF FileInv, SavesWell, TrustIsAsSaved, Saving, At, Changed, Kept
  <1> QED BY <1>1, <1>2, <1>3, <1>4, <1>5, <1>6, CrashFile DEF Next, Buttons

\* The types of the slot, the calls and the trust file, in any order of presses,
\* requests, saves and crashes.
THEOREM ApprovalTypes == Spec => []TypeOK
  <1>1. IInv => TypeOK
    BY DEF IInv
  <1> QED BY InitIInv, NextStep, <1>1, PTL DEF Spec

\* The read loop confirms a session without a press only for a device that the
\* user has had remembered, or while AutoAccept is on (client.go:955-983).
THEOREM NobodyComesUnasked == Spec => NobodyUnasked
  <1>1. IInv /\ [Next]_vars
          => [Allows("reader") => got["reader"].accept \/ got["reader"].peer \in remembered]_vars
    BY AnswersAreDue
  <1> QED BY InitIInv, NextStep, <1>1, PTL DEF Spec, NobodyUnasked

-----------------------------------------------------------------------------
(* One request and one answer at a time.                                   *)

\* While alone, whoever is in a call is the one at work; when nobody is, the
\* slot and the relay agree.
LEMMA AtWork ==
  ASSUME AnswerInv, alone
  PROVE  /\ \A g \in Active : ~At(g, "idle") => OthersIdle(g) /\ Fits(g)
         /\ (\A g \in Active : At(g, "idle")) => Matches
  <1>1. PICK h \in Active : OthersIdle(h) /\ Fits(h)
    BY DEF AnswerInv
  <1>2. \A g \in Active : ~At(g, "idle") => g = h
    BY <1>1 DEF OthersIdle, Active
  <1>3. At(h, "idle") => Matches
    BY <1>1 DEF Fits, At, Arrives
  <1> QED BY <1>1, <1>2, <1>3

\* The one at work goes on.
LEMMA WorkGoesOn ==
  ASSUME AnswerInv, NEW g \in Active, OnlyMoves(g), ~At(g, "idle"),
         UNCHANGED <<linked, alone>>,
         ~linked => \A p \in Peers : waiting'[p] = "none",
         alone /\ OthersIdle(g) /\ Fits(g) => Fits(g)'
  PROVE  AnswerInv'
  <1>1. step'["window"] = step["window"]
    BY Roles DEF OnlyMoves, Active
  <1>2. ASSUME alone
        PROVE  OthersIdle(g)' /\ Fits(g)'
    <2>1. OthersIdle(g) /\ Fits(g)
      BY <1>2, AtWork
    <2> QED BY <1>2, <2>1 DEF OthersIdle, OnlyMoves, At
  <1> QED BY <1>1, <1>2 DEF AnswerInv

\* A call that ends leaves a slot that agrees with the relay.
LEMMA EndFits ==
  ASSUME NEW g, step'[g] = "idle", Matches'
  PROVE  Fits(g)'
  BY DEF Fits, Arrives, Answers, Saves

LEMMA TrustAnswer ==
  ASSUME TypeOK, AnswerInv, NEW g \in Goroutines, TrustNext(g)
  PROVE  AnswerInv'
  <1>1. /\ OnlyMoves(g) /\ UNCHANGED <<pending, waiting, linked, alone>>
        /\ step[g] \in Saves
        /\ \/ step'[g] = "idle"
           \/ /\ step'[g] \in Saves \/ (g # "window" /\ step'[g] \in {"peer", "mode"})
              /\ got'[g].for = got[g].for /\ got'[g].peer = got[g].peer
    BY TrustMoves
  <1>2. CASE g = "window"
    <2>1. \A h \in Active : step'[h] = step[h] /\ got'[h] = got[h] /\ press'[h] = press[h]
      BY <1>1, <1>2 DEF OnlyMoves, Active
    <2>2. \A h \in Active : OthersIdle(h) /\ Fits(h) => OthersIdle(h)' /\ Fits(h)'
      BY <1>1, <2>1 DEF OthersIdle, Active, At, Fits, Matches
    <2>3. step'["window"] \in Saves \cup {"idle"}
      BY <1>1, <1>2
    <2> QED BY <1>1, <2>2, <2>3 DEF AnswerInv
  <1>3. CASE g # "window"
    <2>1. ASSUME Fits(g)
          PROVE  Fits(g)'
      <3>1. /\ Matches /\ pending.peer # None /\ got[g].for = pending.peer
            /\ got[g].peer = pending.peer
        BY <1>1, <2>1 DEF Fits, Saves, Answers, Arrives
      <3>2. Matches'
        BY <1>1, <3>1 DEF Matches
      <3>3. CASE step'[g] = "idle"
        BY <3>2, <3>3, EndFits
      <3>4. CASE step'[g] # "idle"
        <4>1. step'[g] \in Saves \cup {"peer", "mode"}
          BY <1>1, <3>4
        <4>2. step'[g] \notin {"check", "store", "clear", "input", "send"}
          BY <4>1 DEF Saves
        <4> QED BY <1>1, <3>1, <3>2, <3>4, <4>2 DEF Fits, Arrives
      <3> QED BY <3>3, <3>4
    <2>2. g \in Active /\ ~At(g, "idle")
      BY <1>1, <1>3 DEF Active, At, Saves
    <2> QED BY <1>1, <2>1, <2>2, WorkGoesOn DEF AnswerInv
  <1> QED BY <1>2, <1>3

LEMMA AnswerAnswer ==
  ASSUME TypeOK, AnswerInv, NEW g \in Goroutines, AnswerNext(g)
  PROVE  AnswerInv'
  <1>1. /\ OnlyMoves(g) /\ UNCHANGED <<linked, alone>>
        /\ step[g] \in {"peer", "mode", "input", "send", "clear"}
    BY AnswerMoves
  <1>2. g \in Active /\ ~At(g, "idle")
    BY <1>1 DEF AnswerInv, Active, At, Saves
  <1>3. ~linked => \A p \in Peers : waiting'[p] = "none"
    <2>1. waiting' = waiting \/ waiting' = [waiting EXCEPT ![got[g].peer] = "none"]
      BY DEF AnswerNext, PendingPeer, PendingMode, PendingInput, Send, SendFails, ClearPending
    <2> QED BY <2>1 DEF AnswerInv, TypeOK
  <1>4. ASSUME alone, OthersIdle(g), Fits(g)
        PROVE  Fits(g)'
    <2>1. ASSUME NEW enable \in BOOLEAN, PendingPeer(g, enable)
          PROVE  Fits(g)'
      <3>1. step[g] = "peer" /\ UNCHANGED <<pending, waiting>>
        BY <2>1 DEF PendingPeer, At
      <3>2. Matches /\ pending.peer # None /\ got[g].for = pending.peer
        BY <1>4, <3>1 DEF Fits, Answers, Arrives, Saves
      <3>3. Matches'
        BY <3>1, <3>2 DEF Matches
      <3>4. /\ got'[g].peer = pending.peer /\ got'[g].for = got[g].for
            /\ step'[g] = AfterPeer(g) /\ press' = press
        BY <2>1, <3>2 DEF PendingPeer, Goto, TypeOK, Locals
      <3>5. step'[g] \in {"load", "mode"} \/ (step'[g] = "send" /\ press'[g] = "reject")
        BY <3>4 DEF AfterPeer
      <3> QED BY <3>1, <3>2, <3>3, <3>4, <3>5 DEF Fits, Arrives
    <2>2. CASE PendingMode(g)
      <3>1. step[g] = "mode" /\ step'[g] = "input" /\ UNCHANGED <<pending, waiting>>
        BY <2>2 DEF PendingMode, At, Goto, TypeOK
      <3>2. /\ Matches /\ pending.peer # None /\ got[g].for = pending.peer
            /\ got[g].peer = pending.peer
        BY <1>4, <3>1 DEF Fits, Answers, Arrives, Saves
      <3>3. Matches'
        BY <3>1, <3>2 DEF Matches
      <3>4. /\ got'[g].peer = got[g].peer /\ got'[g].for = got[g].for
            /\ got'[g].mode = pending.mode
        BY <2>2 DEF PendingMode, TypeOK, Locals
      <3> QED BY <3>1, <3>2, <3>3, <3>4 DEF Fits, Arrives
    <2>3. CASE PendingInput(g)
      <3>1. step[g] = "input" /\ step'[g] = "send" /\ UNCHANGED <<pending, waiting>>
        BY <2>3 DEF PendingInput, At, Goto, TypeOK
      <3>2. /\ Matches /\ pending.peer # None /\ got[g].for = pending.peer
            /\ got[g].peer = pending.peer /\ got[g].mode = pending.mode
        BY <1>4, <3>1 DEF Fits, Answers, Arrives, Saves
      <3>3. Matches'
        BY <3>1, <3>2 DEF Matches
      <3>4. /\ got'[g].peer = got[g].peer /\ got'[g].for = got[g].for
            /\ got'[g].mode = got[g].mode /\ got'[g].enable = got[g].enable
            /\ got'[g].input = InputAllowed(g)
        BY <2>3 DEF PendingInput, TypeOK, Locals
      <3>5. got'[g].input <=> got'[g].enable /\ pending'.mode = "control"
        BY <3>1, <3>4 DEF InputAllowed
      <3> QED BY <3>1, <3>2, <3>3, <3>4, <3>5 DEF Fits, Arrives
    <2>4. CASE Send(g)
      <3>1. /\ step[g] = "send" /\ step'[g] = "clear"
            /\ waiting' = [waiting EXCEPT ![got[g].peer] = "none"]
        BY <2>4 DEF Send, At, Goto, TypeOK
      <3>2. Matches /\ got[g].peer = pending.peer
        BY <1>4, <3>1 DEF Fits, Answers, Arrives, Saves
      <3>3. \A p \in Peers : waiting'[p] = "none"
        BY <3>1, <3>2 DEF Matches, TypeOK
      <3> QED BY <3>1, <3>3 DEF Fits, Arrives, Answers, Saves
    <2>5. CASE SendFails(g)
      <3>1. step[g] = "send" /\ step'[g] = "idle" /\ UNCHANGED <<pending, waiting>>
        BY <2>5, ReturnMoves DEF SendFails, At
      <3>2. Matches'
        BY <1>4, <3>1 DEF Fits, Arrives, Matches
      <3> QED BY <3>1, <3>2, EndFits
    <2>6. CASE ClearPending(g)
      <3>1. /\ step[g] = "clear" /\ step'[g] = "idle"
            /\ pending' = NoRequest /\ waiting' = waiting
        BY <2>6, ReturnMoves DEF ClearPending, At
      <3>2. Matches'
        BY <1>4, <3>1, NoLocalsType, ApprovalAssumption DEF Fits, Matches
      <3> QED BY <3>1, <3>2, EndFits
    <2> QED BY <2>1, <2>2, <2>3, <2>4, <2>5, <2>6 DEF AnswerNext
  <1> QED BY <1>1, <1>2, <1>3, <1>4, WorkGoesOn

\* A request arrives, and takes the slot.
LEMMA RequestAnswer ==
  ASSUME TypeOK, AnswerInv, ReaderNext
  PROVE  AnswerInv'
  <1>1. "reader" \in Active
    BY Roles, ApprovalAssumption DEF Active, AnswerInv
  <1>2. OnlyMoves("reader") /\ linked' = linked
    BY ReaderMoves
  <1>3. ASSUME NEW p \in Peers, NEW mode \in Modes, HandleSessionRequest(p, mode)
        PROVE  AnswerInv'
    <2> DEFINE l == [NoLocals EXCEPT !.peer = p, !.mode = mode, !.for = p]
    <2>1. l.peer = p /\ l.mode = mode /\ l.for = p
      BY DEF NoLocals
    <2>2. step'["reader"] = "check" /\ got'["reader"] = l
      BY <1>3, Roles DEF HandleSessionRequest, Goto, TypeOK
    <2> HIDE DEF l
    <2>3. /\ waiting' = [waiting EXCEPT ![p] = mode] /\ pending' = pending /\ linked
          /\ alone' = (OthersIdle("reader") /\ Nothing)
      BY <1>3 DEF HandleSessionRequest
    <2>4. ASSUME OthersIdle("reader"), Nothing
          PROVE  OthersIdle("reader")' /\ Fits("reader")'
      <3>1. OthersIdle("reader")'
        BY <1>2, <2>4 DEF OthersIdle, OnlyMoves, At
      <3>2. pending'.peer = None
        BY <2>3, <2>4, NoLocalsType DEF Nothing
      <3>3. \A q \in Peers : waiting'[q] = IF q = p THEN mode ELSE "none"
        BY <2>3, <2>4 DEF Nothing, TypeOK
      <3> QED BY <2>1, <2>2, <3>1, <3>2, <3>3 DEF Fits, Arrives, Answers, Saves
    <2>5. step'["window"] = step["window"]
      BY <1>2, Roles, ApprovalAssumption DEF OnlyMoves
    <2> QED BY <1>1, <1>2, <2>3, <2>4, <2>5 DEF AnswerInv
  <1>4. ASSUME NEW accept \in BOOLEAN, RequestCheck(accept)
        PROVE  AnswerInv'
    <2>1. /\ step["reader"] = "check" /\ step'["reader"] = "store"
          /\ UNCHANGED <<pending, waiting, alone>>
      BY <1>4, Roles DEF RequestCheck, At, Goto, TypeOK
    <2>2. /\ got'["reader"].peer = got["reader"].peer /\ got'["reader"].for = got["reader"].for
          /\ got'["reader"].mode = got["reader"].mode
      BY <1>4, Roles DEF RequestCheck, TypeOK, Locals
    <2>3. Fits("reader") => Fits("reader")'
      BY <2>1, <2>2 DEF Fits, Arrives, Answers, Saves
    <2> QED BY <1>1, <1>2, <2>1, <2>3, WorkGoesOn DEF AnswerInv, At
  <1>5. CASE RequestStore
    <2> DEFINE me == got["reader"]
    <2>1. /\ step["reader"] = "store" /\ UNCHANGED <<waiting, alone>>
          /\ pending' = [peer |-> me.peer, mode |-> me.mode]
      BY <1>5 DEF RequestStore, At
    <2>2. \/ step'["reader"] = "idle"
          \/ step'["reader"] \in {"load", "peer"} /\ got' = got
      <3>1. CASE Return("reader")
        BY <3>1, Roles, ReturnMoves
      <3>2. CASE ~Return("reader")
        BY <1>5, <3>2, Roles DEF RequestStore, Goto, TypeOK
      <3> QED BY <3>1, <3>2
    <2>3. ASSUME Fits("reader")
          PROVE  Fits("reader")'
      <3>1. /\ me.for = me.peer /\ me.peer \in Peers
            /\ \A p \in Peers : waiting[p] = IF p = me.peer THEN me.mode ELSE "none"
        BY <2>1, <2>3 DEF Fits, Arrives
      <3>2. me.mode # "none"
        BY Roles DEF TypeOK, Locals, Modes
      <3>3. Matches'
        BY <2>1, <3>1, <3>2 DEF Matches
      <3>4. pending'.peer # None
        BY <2>1, <3>1, ApprovalAssumption
      <3>5. CASE step'["reader"] = "idle"
        BY <3>3, <3>5, EndFits
      <3>6. CASE step'["reader"] \in {"load", "peer"} /\ got' = got
        BY <2>1, <3>1, <3>3, <3>4, <3>6 DEF Fits, Arrives
      <3> QED BY <2>2, <3>5, <3>6
    <2> QED BY <1>1, <1>2, <2>1, <2>3, WorkGoesOn DEF AnswerInv, At
  <1> QED BY <1>3, <1>4, <1>5 DEF ReaderNext

LEMMA PressAnswer ==
  ASSUME TypeOK, AnswerInv, NEW u \in Users, NEW button \in Buttons, Press(u, button)
  PROVE  AnswerInv'
  <1>1. /\ OnlyMoves(u) /\ UNCHANGED <<pending, waiting, linked>>
        /\ step[u] = "idle" /\ step'[u] = "peer" /\ got'[u].for = pending.peer
        /\ u \in Goroutines /\ u # "window"
    BY PressMoves
  <1>2. alone' = (alone /\ OthersIdle(u)) /\ pending.peer # None
    BY DEF Press
  <1>3. ASSUME alone, OthersIdle(u)
        PROVE  OthersIdle(u)' /\ Fits(u)'
    <2>1. Matches
      BY <1>1, <1>3, AtWork DEF OthersIdle, Active, At
    <2>2. Matches'
      BY <1>1, <2>1 DEF Matches
    <2>3. Fits(u)'
      BY <1>1, <1>2, <2>2 DEF Fits, Arrives
    <2> QED BY <1>1, <1>3, <2>3 DEF OthersIdle, OnlyMoves, At
  <1>4. step'["window"] = step["window"]
    BY <1>1, Roles DEF OnlyMoves
  <1> QED BY <1>1, <1>2, <1>3, <1>4 DEF AnswerInv, Active

LEMMA SurroundingsAnswer ==
  ASSUME TypeOK, AnswerInv, LinkLost \/ Reconnect \/ Crash \/ UNCHANGED vars
  PROVE  AnswerInv'
  <1>1. "reader" \in Active /\ "window" \in Goroutines
    BY Roles, ApprovalAssumption DEF Active, AnswerInv
  <1>2. CASE LinkLost
    BY <1>2 DEF LinkLost, calls, AnswerInv
  <1>3. CASE Reconnect
    <2>1. /\ linked' = TRUE /\ pending' = NoRequest /\ waiting' = waiting /\ step' = step
          /\ step["reader"] = "idle" /\ alone' = OthersIdle("reader")
          /\ \A p \in Peers : waiting[p] = "none"
      BY <1>3 DEF Reconnect, calls, At, AnswerInv
    <2>2. Matches'
      BY <2>1, NoLocalsType, ApprovalAssumption DEF Matches
    <2>3. Fits("reader")'
      BY <2>1, <2>2, EndFits
    <2> QED BY <1>1, <2>1, <2>3 DEF AnswerInv, OthersIdle, At
  <1>4. CASE Crash
    <2>1. /\ linked' = TRUE /\ pending' = NoRequest /\ \A p \in Peers : waiting'[p] = "none"
          /\ \A g \in Goroutines : step'[g] = "idle"
      BY <1>4 DEF Crash
    <2>2. Matches'
      BY <2>1, NoLocalsType, ApprovalAssumption DEF Matches
    <2>3. Fits("reader")'
      BY <2>1, <2>2, Roles, EndFits
    <2> QED BY <1>1, <2>1, <2>3 DEF AnswerInv, OthersIdle, At
  <1>5. CASE UNCHANGED vars
    BY <1>5 DEF vars, calls, AnswerInv, OthersIdle, At, Fits, Matches
  <1> QED BY <1>2, <1>3, <1>4, <1>5

LEMMA RevokeAnswer ==
  ASSUME TypeOK, AnswerInv, NEW p \in Peers, Revoke(p)
  PROVE  AnswerInv'
  <1>1. /\ OnlyMoves("window") /\ step'["window"] = "load"
        /\ UNCHANGED <<pending, waiting, linked, alone>>
    BY RevokeMoves
  <1>2. \A h \in Active : OthersIdle(h) /\ Fits(h) => OthersIdle(h)' /\ Fits(h)'
    BY <1>1 DEF OthersIdle, Active, At, Fits, Matches, OnlyMoves
  <1> QED BY <1>1, <1>2 DEF AnswerInv, Saves

LEMMA AnswerInvStep == TypeOK /\ AnswerInv /\ [Next]_vars => AnswerInv'
  <1> SUFFICES ASSUME TypeOK, AnswerInv, [Next]_vars PROVE AnswerInv'
    OBVIOUS
  <1>1. ASSUME NEW g \in Goroutines, TrustNext(g) \/ AnswerNext(g) PROVE AnswerInv'
    BY <1>1, TrustAnswer, AnswerAnswer
  <1>2. ASSUME NEW u \in Users, NEW button \in Buttons, Press(u, button) PROVE AnswerInv'
    BY <1>2, PressAnswer
  <1>3. ASSUME NEW p \in Peers, Revoke(p) PROVE AnswerInv'
    BY <1>3, RevokeAnswer
  <1> QED BY <1>1, <1>2, <1>3, RequestAnswer, SurroundingsAnswer DEF Next, Buttons

-----------------------------------------------------------------------------
LEMMA FilesAndAnswersInit == Init => FileInv /\ AnswerInv
  <1> SUFFICES ASSUME Init PROVE FileInv /\ AnswerInv
    OBVIOUS
  <1>1. \A g \in Goroutines : step[g] = "idle"
    BY DEF Init
  <1>2. FileInv
    BY <1>1 DEF Init, FileInv, SavesWell, Saving, At, TrustIsAsSaved
  <1>3. Matches
    BY NoLocalsType, ApprovalAssumption DEF Init, Matches
  <1>4. "reader" \in Active /\ OthersIdle("reader") /\ Fits("reader")
    BY <1>1, <1>3, Roles, ApprovalAssumption
       DEF Active, OthersIdle, At, Fits, Arrives, Answers, Saves
  <1>5. step["window"] = "idle"
    BY <1>1, Roles
  <1> QED BY <1>2, <1>4, <1>5 DEF Init, AnswerInv

LEMMA FilesAndAnswers == Spec => [](IInv /\ FileInv /\ AnswerInv)
  <1>1. Init => IInv /\ FileInv /\ AnswerInv
    BY InitIInv, FilesAndAnswersInit
  <1>2. IInv /\ FileInv /\ AnswerInv /\ [Next]_vars => (IInv /\ FileInv /\ AnswerInv)'
    <2>1. IInv => TypeOK
      BY DEF IInv
    <2> QED BY <2>1, NextStep, FileStep, AnswerInvStep
  <1> QED BY <1>1, <1>2, PTL DEF Spec

\* In a call that allows a request while alone, the locals fit the request.
LEMMA AllowedFits ==
  ASSUME TypeOK, AnswerInv, NEW g \in Goroutines, Allows(g), alone
  PROVE  /\ got[g].peer = got[g].for /\ waiting[got[g].peer] = got[g].mode
         /\ InputGranted(g) <=> got[g].enable /\ got[g].mode = "control"
  <1>1. step[g] = "send" /\ press[g] # "reject"
    BY DEF Allows, Send, At
  <1>2. g \in Active
    BY <1>1 DEF AnswerInv, Active, Saves
  <1>3. Fits(g)
    BY <1>1, <1>2, AtWork DEF At
  <1>4. /\ Matches /\ got[g].for = pending.peer /\ pending.peer # None
        /\ got[g].peer = pending.peer /\ got[g].mode = pending.mode
        /\ got[g].input <=> got[g].enable /\ pending.mode = "control"
    BY <1>1, <1>3 DEF Fits, Arrives, Answers, Saves
  <1>5. waiting[got[g].peer] = got[g].mode
    BY <1>4 DEF Matches
  <1>6. got[g].mode # "none"
    BY DEF TypeOK, Locals, Modes
  <1>7. ModeGranted(g) = got[g].mode
    BY <1>5 DEF ModeGranted
  <1> QED BY <1>4, <1>5, <1>7 DEF InputGranted

\* With one request and one answer at a time, the session that the confirmation
\* makes is with the device the user saw, in the mode and with the input it is to
\* have (client.go:396-425).
THEOREM AnswersFitTheirRequest == Spec => AnswerFitsRequest
  <1>1. IInv /\ AnswerInv /\ [Next]_vars =>
          [\A g \in Goroutines : Allows(g) /\ alone =>
             /\ got[g].peer = got[g].for /\ waiting[got[g].peer] = got[g].mode
             /\ InputGranted(g) <=> got[g].enable /\ got[g].mode = "control"]_vars
    <2>1. IInv => TypeOK
      BY DEF IInv
    <2> QED BY <2>1, AllowedFits
  <1> QED BY FilesAndAnswers, <1>1, PTL DEF Spec, AnswerFitsRequest

\* With one request and one answer at a time, a request that was not answered,
\* because the answer failed or none was given, is still in the slot, and the
\* one in the slot is still waited for (client.go:396-425).
THEOREM SlotAndRelayAgree == Spec => []SlotHoldsRequest
  <1>1. AnswerInv => SlotHoldsRequest
    BY AtWork DEF SlotHoldsRequest, Active, Matches
  <1> QED BY <1>1, FilesAndAnswers, PTL

\* The trust file has what Remember and Revoke add up to, as long as saves do
\* not overlap and none was cut short (trust/store.go:44-96).
THEOREM TrustFileIsAsSaved == Spec => []TrustIsAsSaved
  <1>1. FileInv => TrustIsAsSaved
    BY DEF FileInv, TrustIsAsSaved
  <1> QED BY <1>1, FilesAndAnswers, PTL
=============================================================================
