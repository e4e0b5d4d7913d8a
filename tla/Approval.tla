------------------------------ MODULE Approval ------------------------------
(***************************************************************************)
(* How the helped device answers requests (internal/client/client.go) and  *)
(* which devices it trusts (internal/trust/store.go).  The read loop puts  *)
(* a request into the one pending slot of State and answers it at once for *)
(* a trusted device or with AutoAccept; otherwise a goroutine started by a *)
(* press of the user answers what it finds in the slot.  The window        *)
(* revokes trust and changes the options at any time: a call that reads    *)
(* one may find either value.  The trust file has no lock; saving it       *)
(* truncates it and writes it.                                             *)
(*                                                                         *)
(* The relay's part is here as much as answers need it (the whole is in    *)
(* RelayConn): it keeps a request until it is answered, and an accepted    *)
(* request becomes a session.  Its messages arrive at once.  Requesters    *)
(* that leave, and the names and times of devices, are left out.           *)
(***************************************************************************)
EXTENDS FiniteSets

CONSTANTS
  Peers,   \* the devices that ask for sessions
  Users,   \* goroutines started by presses of the user
  None     \* no peer

ASSUME ApprovalAssumption ==
  None \notin Peers /\ "reader" \notin Users /\ "window" \notin Users

VARIABLES
  pending,    \* State.PendingPeerID, PendingMode and PendingInput
  waiting,    \* the relay: peer -> the mode it waits for an answer to, or "none"
  linked,     \* there is a connection to the relay, or the client thinks so
  disk,       \* the trust file
  step,       \* goroutine -> where it is
  press,      \* user's goroutine -> "allow", "remember" or "reject"
  got,        \* goroutine -> the local variables of its call
  alone,      \* history: one request at a time, and one answer to it
  remembered, \* history: the devices the user has had remembered
  meant,      \* history: the devices that the saves so far add up to
  orderly     \* history: saves have neither overlapped nor been cut short

trust == <<disk, remembered, meant, orderly>>
calls == <<step, press, got>>
vars == <<pending, waiting, linked, trust, calls, alone>>

Goroutines == Users \cup {"reader", "window"}
Modes == {"view", "control"}
Request == [peer : Peers \cup {None}, mode : Modes]

\* clearPending: no peer; the empty mode counts as view.
NoRequest == [peer |-> None, mode |-> "view"]

\* The file is "whole", or was truncated and is "empty", or two saves at once
\* have left something "torn" there.
File == [state : {"whole", "empty", "torn"}, devices : SUBSET Peers]

\* Locals: the peer, the mode and the input of the answer, the options read
\* (enable is EnableInput, accept is AutoAccept), the devices loaded.  History:
\* the device that the user saw, or that asked the read loop (for).
Locals ==
  [peer : Peers \cup {None}, mode : Modes, input : BOOLEAN, enable : BOOLEAN,
   accept : BOOLEAN, devices : SUBSET Peers, for : Peers \cup {None}]

NoLocals ==
  [peer |-> None, mode |-> "view", input |-> FALSE, enable |-> FALSE,
   accept |-> FALSE, devices |-> {}, for |-> None]

Steps ==
  {"idle", "check", "store", "load", "truncate", "write",
   "peer", "mode", "input", "send", "clear"}

\* Types of the slot, of the calls and of the file, also when it is damaged.
TypeOK ==
  /\ pending \in Request
  /\ waiting \in [Peers -> Modes \cup {"none"}] /\ linked \in BOOLEAN
  /\ disk \in File
  /\ step \in [Goroutines -> Steps]
  /\ press \in [Goroutines -> {"allow", "remember", "reject"}]
  /\ got \in [Goroutines -> Locals]
  /\ alone \in BOOLEAN /\ orderly \in BOOLEAN
  /\ remembered \subseteq Peers /\ meant \subseteq Peers

Init ==
  /\ pending = NoRequest /\ waiting = [p \in Peers |-> "none"] /\ linked = TRUE
  /\ disk = [state |-> "whole", devices |-> {}]
  /\ step = [g \in Goroutines |-> "idle"] /\ press = [g \in Goroutines |-> "allow"]
  /\ got = [g \in Goroutines |-> NoLocals]
  /\ alone = TRUE
  /\ remembered = {} /\ meant = {} /\ orderly = TRUE

-----------------------------------------------------------------------------
(* Goroutines                                                              *)

At(g, s) == step[g] = s

Goto(g, s) == step' = [step EXCEPT ![g] = s]

\* g's call returns.
Return(g) ==
  /\ Goto(g, "idle")
  /\ got' = [got EXCEPT ![g] = NoLocals] /\ press' = [press EXCEPT ![g] = "allow"]

OthersIdle(g) == \A h \in Goroutines \ {g, "window"} : At(h, "idle")

Nothing == pending = NoRequest /\ \A p \in Peers : waiting[p] = "none"

-----------------------------------------------------------------------------
(* handleSessionRequest                                                    *)

\* p asks for a session, and the read loop has read its request.
HandleSessionRequest(p, mode) ==
  /\ At("reader", "idle") /\ linked
  /\ waiting' = [waiting EXCEPT ![p] = mode]
  /\ got' = [got EXCEPT !["reader"] =
               [NoLocals EXCEPT !.peer = p, !.mode = mode, !.for = p]]
  /\ Goto("reader", "check")
  /\ alone' = (OthersIdle("reader") /\ Nothing)
  /\ UNCHANGED <<pending, linked, trust, press>>

\* Faulty variant: a file that cannot be read is no reason to doubt.
TrustedUnlessKnown(p) == disk.state # "whole" \/ p \in disk.devices

\* IsTrusted: an error counts as no.
IsTrusted(p) == disk.state = "whole" /\ p \in disk.devices

\* The device is looked up and the options read, ...
RequestCheck(accept) ==
  /\ At("reader", "check")
  /\ LET p == got["reader"].peer
     IN  got' = [got EXCEPT !["reader"].devices = IF IsTrusted(p) THEN {p} ELSE {},
                            !["reader"].accept = accept]
  /\ Goto("reader", "store")
  /\ UNCHANGED <<pending, waiting, linked, trust, press, alone>>

\* ... then the request takes the slot, whoever had it.
RequestStore ==
  /\ At("reader", "store")
  /\ LET me == got["reader"]
         answers == me.devices # {} \/ me.accept
     IN  /\ pending' = [peer |-> me.peer, mode |-> me.mode]
         /\ IF answers
            THEN /\ Goto("reader", IF me.devices # {} THEN "load" ELSE "peer")
                 /\ UNCHANGED <<got, press>>
            ELSE Return("reader")
  /\ UNCHANGED <<waiting, linked, trust, alone>>

-----------------------------------------------------------------------------
(* trust.Store: Remember by a user's goroutine, Touch by the read loop and  *)
(* Revoke by the window load the file, change what they have and save it.  *)

Saving(g) == step[g] \in {"truncate", "write"}

\* History: meant is worth keeping as long as the saves are orderly.
KeepOrder(ok) ==
  /\ orderly' = (orderly /\ ok)
  /\ meant' = IF orderly' THEN meant ELSE {}

\* Faulty variant: Remember forgets the other devices.
ChangedToOne(g, devices) ==
  CASE g = "window" -> devices \ {got[g].peer}
    [] g = "reader" -> devices
    [] OTHER        -> {got[g].peer}

\* What the goroutine wants the devices to be.
Changed(g, devices) ==
  CASE g = "window" -> devices \ {got[g].peer}
    [] g = "reader" -> devices
    [] OTHER        -> devices \cup {got[g].peer}

\* After the save, or without one: the answer; the window has none to give.
Goes(g) ==
  IF g = "window" THEN Return(g)
  ELSE /\ Goto(g, IF g = "reader" THEN "peer" ELSE "mode")
       /\ got' = [got EXCEPT ![g].devices = {}]
       /\ UNCHANGED press

\* load fails: Remember's error ends the call, Touch's is only reported.
LoadFails(g) ==
  /\ At(g, "load") /\ disk.state # "whole"
  /\ IF g = "reader" THEN Goes(g) ELSE Return(g)
  /\ UNCHANGED <<pending, waiting, linked, trust, alone>>

\* Touch does not save for a device that has gone.
Load(g) ==
  /\ At(g, "load") /\ disk.state = "whole"
  /\ IF g = "reader" /\ got[g].peer \notin disk.devices
     THEN Goes(g)
     ELSE /\ got' = [got EXCEPT ![g].devices = Changed(g, disk.devices)]
          /\ Goto(g, "truncate")
          /\ UNCHANGED press
  /\ KeepOrder(\A h \in Goroutines : ~Saving(h))
  /\ UNCHANGED <<pending, waiting, linked, disk, remembered, alone>>

\* os.WriteFile truncates the file, ...
Truncate(g) ==
  /\ At(g, "truncate")
  /\ disk' = [state |-> "empty", devices |-> {}]
  /\ Goto(g, "write")
  /\ UNCHANGED <<pending, waiting, linked, remembered, meant, orderly, press, got,
                 alone>>

\* ... and writes it; over what another save has written in between, a shorter
\* text leaves the end of the longer one.
Write(g) ==
  /\ At(g, "write")
  /\ \/ disk' = [state |-> "whole", devices |-> got[g].devices]
     \/ disk.state # "empty" /\ disk' = [state |-> "torn", devices |-> {}]
  /\ LET gains == IF g \in Users THEN {got[g].peer} ELSE {}
         loses == IF g = "window" THEN {got[g].peer} ELSE {}
     IN  /\ remembered' = remembered \cup gains
         /\ meant' = IF orderly THEN (meant \ loses) \cup gains ELSE {}
  /\ Goes(g)
  /\ UNCHANGED <<pending, waiting, linked, orderly, alone>>

-----------------------------------------------------------------------------
(* approveSession and RejectSession                                        *)

\* A press on one of the three buttons under the request that is shown.
Press(u, button) ==
  /\ At(u, "idle") /\ pending.peer # None
  /\ press' = [press EXCEPT ![u] = button]
  /\ got' = [got EXCEPT ![u] = [NoLocals EXCEPT !.for = pending.peer]]
  /\ Goto(u, "peer")
  /\ alone' = (alone /\ OthersIdle(u))
  /\ UNCHANGED <<pending, waiting, linked, trust>>

\* What comes after the peer is known.
AfterPeer(g) ==
  IF press[g] = "remember" THEN "load" ELSE IF press[g] = "reject" THEN "send" ELSE "mode"

\* The peer, then the options; without a request the call returns an error.
PendingPeer(g, enable) ==
  /\ At(g, "peer")
  /\ IF pending.peer = None THEN Return(g)
     ELSE /\ got' = [got EXCEPT ![g].peer = pending.peer, ![g].enable = enable]
          /\ Goto(g, AfterPeer(g))
          /\ UNCHANGED press
  /\ UNCHANGED <<pending, waiting, linked, trust, alone>>

\* The mode and the input are read from the slot one after the other.
PendingMode(g) ==
  /\ At(g, "mode")
  /\ got' = [got EXCEPT ![g].mode = pending.mode]
  /\ Goto(g, "input")
  /\ UNCHANGED <<pending, waiting, linked, trust, press, alone>>

\* Faulty variant: the option that allows input is not looked at.
InputAsAsked(g) == pending.mode = "control"

InputAllowed(g) == pending.mode = "control" /\ got[g].enable

PendingInput(g) ==
  /\ At(g, "input")
  /\ got' = [got EXCEPT ![g].input = InputAllowed(g)]
  /\ Goto(g, "send")
  /\ UNCHANGED <<pending, waiting, linked, trust, press, alone>>

\* The confirmation is written, and the relay no longer waits for it; on a link
\* that is lost it goes nowhere, unless a new one is there by then.
Send(g) ==
  /\ At(g, "send")
  /\ waiting' = [waiting EXCEPT ![got[g].peer] = "none"]
  /\ got' = [got EXCEPT ![g] = NoLocals]
  /\ Goto(g, "clear")
  /\ UNCHANGED <<pending, linked, trust, press, alone>>

\* Faulty variant: the slot is cleared whether the confirmation was written or not.
SendFailsClears(g) ==
  /\ At(g, "send")
  /\ Goto(g, "clear")
  /\ UNCHANGED <<pending, waiting, linked, trust, press, got, alone>>

\* There is no connection, or the five seconds of a press are over.
SendFails(g) ==
  /\ At(g, "send")
  /\ Return(g)
  /\ UNCHANGED <<pending, waiting, linked, trust, alone>>

\* clearPending, whatever is in the slot by now.
ClearPending(g) ==
  /\ At(g, "clear")
  /\ pending' = NoRequest
  /\ Return(g)
  /\ UNCHANGED <<waiting, linked, trust, alone>>

-----------------------------------------------------------------------------
(* Surroundings                                                            *)

\* The window revokes the trust in a device.
Revoke(p) ==
  /\ At("window", "idle") /\ p \in disk.devices
  /\ got' = [got EXCEPT !["window"] = [NoLocals EXCEPT !.peer = p]]
  /\ Goto("window", "load")
  /\ UNCHANGED <<pending, waiting, linked, trust, press, alone>>

\* The link is lost: the relay forgets the requests to this device.
LinkLost ==
  /\ linked /\ linked' = FALSE
  /\ waiting' = [p \in Peers |-> "none"]
  /\ alone' = FALSE
  /\ UNCHANGED <<pending, trust, calls>>

\* The read loop notices: reconnect empties the slot before it dials again.
Reconnect ==
  /\ At("reader", "idle") /\ ~linked
  /\ linked' = TRUE
  /\ pending' = NoRequest
  /\ alone' = OthersIdle("reader")
  /\ UNCHANGED <<waiting, trust, calls>>

\* The program ends wherever it is, and is started again.
Crash ==
  /\ step' = [g \in Goroutines |-> "idle"] /\ press' = [g \in Goroutines |-> "allow"]
  /\ got' = [g \in Goroutines |-> NoLocals]
  /\ pending' = NoRequest /\ waiting' = [p \in Peers |-> "none"] /\ linked' = TRUE
  /\ KeepOrder(\A g \in Goroutines : ~At(g, "write"))
  /\ alone' = TRUE
  /\ UNCHANGED <<disk, remembered>>

-----------------------------------------------------------------------------
ReaderNext ==
  \/ \E p \in Peers, mode \in Modes : HandleSessionRequest(p, mode)
  \/ (\E accept \in BOOLEAN : RequestCheck(accept)) \/ RequestStore

TrustNext(g) == LoadFails(g) \/ Load(g) \/ Truncate(g) \/ Write(g)

AnswerNext(g) ==
  \/ (\E enable \in BOOLEAN : PendingPeer(g, enable)) \/ PendingMode(g) \/ PendingInput(g)
  \/ Send(g) \/ SendFails(g) \/ ClearPending(g)

Next ==
  \/ ReaderNext
  \/ \E g \in Goroutines : TrustNext(g) \/ AnswerNext(g)
  \/ \E u \in Users, button \in {"allow", "remember", "reject"} : Press(u, button)
  \/ \E p \in Peers : Revoke(p)
  \/ LinkLost \/ Reconnect \/ Crash

Spec == Init /\ [][Next]_vars

-----------------------------------------------------------------------------
(* Properties                                                              *)

Allows(g) == Send(g) /\ press[g] # "reject"

\* The relay takes the mode from the request it has kept, or else from the answer.
ModeGranted(g) ==
  IF waiting[got[g].peer] = "none" THEN got[g].mode ELSE waiting[got[g].peer]

InputGranted(g) == got[g].input /\ ModeGranted(g) = "control"

\* Nobody gets a session without a press but a device that the user has had
\* remembered, or any device while AutoAccept is on: neither a damaged trust
\* file nor the order of revoking and touching lets another in (client.go:955-983).
NobodyUnasked ==
  [][Allows("reader") => got["reader"].accept \/ got["reader"].peer \in remembered]_vars

\* With one request and one answer at a time, the session is with the device
\* that the user saw, in the mode it had asked for, with input only if the user
\* had enabled it (client.go:396-425).
AnswerFitsRequest ==
  [][\A g \in Goroutines : Allows(g) /\ alone =>
       /\ got[g].peer = got[g].for /\ waiting[got[g].peer] = got[g].mode
       /\ InputGranted(g) <=> got[g].enable /\ got[g].mode = "control"]_vars

\* With one request and one answer at a time, the request in the slot is the
\* one the relay waits for, through failed answers too: it can still be answered
\* (client.go:396-425).
SlotHoldsRequest ==
  alone /\ (\A g \in Goroutines \ {"window"} : At(g, "idle")) =>
    \A p \in Peers : waiting[p] # "none" <=> pending.peer = p

\* If saves neither overlap nor are cut short, the file has the devices that
\* were remembered and not revoked since (trust/store.go:44-96).
TrustIsAsSaved ==
  orderly /\ (\A g \in Goroutines : ~Saving(g)) =>
    disk = [state |-> "whole", devices |-> meant]

\* "Every remote control must be explicitly confirmed on the controlled side, or
\* use a visible, revocable authorisation given before" (README.md:299): the
\* session that a press makes is with the device the user saw.
ExplicitlyConfirmed ==
  [][\A u \in Users : Allows(u) => got[u].peer = got[u].for]_vars
=============================================================================
