------------------------------- MODULE Relay --------------------------------
(***************************************************************************)
(* The relay server: native connections (RelayConn), web visitors          *)
(* (RelayWeb) and the idle reaper, interleaved over the registry           *)
(* (RelayHub).                                                             *)
(***************************************************************************)
EXTENDS RelayWeb

vars == <<hubVars, connVars, shareOf>>

Init == HubInit /\ ConnInit /\ WebInit

\* A message read by connection c.
Message(c) ==
  \/ \E code \in Codes : AuthCodePublish(c, code)
  \/ \E d \in Devices, mode \in WireModes, code \in Codes \cup {None} :
        SessionRequest(c, d, mode, code)
  \/ \E ctl \in Parties, accepted, input \in BOOLEAN, mode \in WireModes :
        SessionConfirm(c, ctl, accepted, mode, input)
  \/ \E s \in SessionIds : SessionClose(c, s) \/ \E kind \in Kinds : Forward(c, kind, s)

\* The next section of a handler that connection c is in.
Handle(c) ==
  \/ RegisterRefused(c) \/ RegisterInsert(c) \/ EvictClose(c) \/ EvictReturn(c)
  \/ RequestAuth(c) \/ RequestStore(c) \/ RequestSent(c, "idle") \/ RequestNotSent(c, "idle")
  \/ ConfirmConsume(c) \/ (\E s \in SessionIds : ConfirmCreate(c, s))
  \/ ReadyToController(c) \/ ReadyToControlled(c)
  \/ ForwardRoute(c) \/ ForwardTarget(c, "idle") \/ ForwardDeliver(c, "idle")

\* Reads of a connection that is closed fail once the messages that were
\* buffered before, finitely many, are handled: strong fairness.
AfterClose(c) == connState[c] \in {"closing", "closed"} /\ ReadError(c)

Reaper == ReaperScan \/ \E c \in Conns : ReaperClose(c)

ConnNext ==
  /\ \/ Reaper
     \/ \E c \in Conns :
          \/ Message(c) \/ Handle(c)
          \/ RegisterBegin(c)
          \/ ReadError(c) \/ WriteError(c) \/ CloseUnregister(c)
          \/ GoQuiet(c) \/ CodeExpires(c)
  /\ UNCHANGED shareOf

ShareNext ==
  \/ \E c \in Conns, t \in Tokens :
       \/ (\E mode \in WireModes : WebShareCreate(c, t, mode))
       \/ WebShareRevoke(c, t)
  \/ \E c \in Conns : WebShareList(c)
  \/ \E t \in Tokens : WebShareExpires(t) \/ WebPage(t)

WebHandle(p) ==
  \/ WebCheck(p) \/ WebLookup(p) \/ WebInsert(p) \/ WebLeave(p)
  \/ /\ RequestStore(p) \/ RequestSent(p, "idle") \/ RequestNotSent(p, "leaving")
        \/ ForwardTarget(p, "idle") \/ ForwardDeliver(p, "idle")
     /\ UNCHANGED shareOf

WebNext ==
  \E p \in Peers :
    \/ \E t \in Tokens : WebOpen(p, t)
    \/ WebHandle(p)
    \/ \E s \in SessionIds :
         WebSessionClose(p, s) \/ \E kind \in Kinds : WebForward(p, kind, s)
    \/ WebReadError(p)

Next == ConnNext \/ ShareNext \/ WebNext

Spec == Init /\ [][Next]_vars

\* The Go scheduler runs every goroutine that can run: handlers go on, close
\* is finished, a closed socket fails its reader, the reaper's ticker ticks.
\* No message, quiet period or failure is assumed to happen.
Fairness ==
  /\ \A c \in Conns :
       /\ WF_vars(Handle(c) /\ UNCHANGED shareOf)
       /\ WF_vars(CloseUnregister(c) /\ UNCHANGED shareOf)
       /\ SF_vars(AfterClose(c) /\ UNCHANGED shareOf)
  /\ \A p \in Peers : WF_vars(WebHandle(p))
  /\ WF_vars(Reaper /\ UNCHANGED shareOf)

FairSpec == Spec /\ Fairness

-----------------------------------------------------------------------------
(* Safety                                                                  *)

TypeOK == HubTypeOK /\ ConnTypeOK /\ WebTypeOK

\* Both parties of a session in s.sessions are registered, though the
\* handler that created it looked the controller up two sections earlier and
\* either side may have left or been replaced meanwhile (hub.go:46-108).
SessionPartiesOnline ==
  \A s \in live : Online(sess[s].ctl) /\ Online(sess[s].dev)

\* A web visitor only ever gets a session with the device that generated
\* the link it followed (README.md:304), through all the sections between
\* opening the link and the confirmation by some connection.
WebSessionBoundToShare ==
  \A s \in SessionIds, p \in Peers :
    sess[s].ctl = p => sess[s].dev = share[shareOf[p]].dev

\* Input that is about to be put in a device's queue comes from the
\* controller of a session with that device which allows input, even if the
\* session ended after it was looked up (server.go:498-540, webpeer.go:173).
InputInFlightGranted ==
  \A x \in Actors : pc[x] = "deliver" /\ arg[x].kind = "input" =>
    LET s == arg[x].sid IN
    /\ sess[s].input /\ SessionModeAllowsInput(sess[s].mode)
    /\ Self(x) = sess[s].ctl
    /\ arg[x].conn \in Conns /\ devId[arg[x].conn] = sess[s].dev

\* A message that is about to be queued goes from one party of a session to
\* the other: no third party gets or sends a screen frame, input or control,
\* though the session is looked up twice and its target once more, and any
\* of the three may have left or been replaced meanwhile (server.go:498-612).
MessagesStayInSession ==
  \A x \in Actors : pc[x] = "deliver" =>
    LET s == sess[arg[x].sid]
        from == Self(x)
        to == Self(arg[x].conn)
    IN /\ \/ from = s.ctl /\ to = s.dev
          \/ from = s.dev /\ to = s.ctl /\ arg[x].kind = "frame"
       /\ arg[x].kind = "input" => s.input

\* A code admits one request: the code that a request has used up is neither
\* waiting at any connection nor used by another request, even when several
\* requesters present it at once (server.go:396-413).
OneRequestPerCode ==
  \A x \in Actors : pc[x] \in {"store", "send"} /\ arg[x].code # None =>
    /\ \A c \in Conns : authCode[c] # arg[x].code
    /\ \A y \in Actors : pc[y] \in {"store", "send"} /\ arg[y].code = arg[x].code => x = y

\* A visitor that is gone leaves no peer, pending request or session behind,
\* wherever it failed, and none can be made for it later (webpeer.go:154).
VisitorLeavesNothing ==
  \A p \in Peers : pc[p] = "ended" =>
    /\ p \notin webPeers /\ SessionsOf(p) = {}
    /\ \A d \in Devices : pending[<<p, d>>] = None

\* MaxClients bounds the devices registered at any time, with registrations,
\* replacements and refusals interleaved (hub.go:28-36).
WithinCapacity ==
  MaxClients > 0 => Cardinality({d \in Devices : clients[d] # None}) <= MaxClients

\* A device's place in the registry is given up only by the close() of the
\* very connection that has it; a late close() of one that was replaced
\* takes nothing from its successor.  Nor is a replaced connection
\* forgotten: its successor goes on to close it.  And a close() that ends
\* while its connection has a place gives it up, however register, eviction,
\* the reaper and failing reads and writes interleave: only a connection that
\* was dead when it registered stays behind dead (hub.go:21-56).
PlacesPassOn ==
  [][\A d \in Devices :
       LET old == clients[d]
           new == clients'[d]
       IN IF new = old
          THEN old # None /\ connState'[old] = "closed" => connState[old] = "closed"
          ELSE IF new = None
          THEN connState[old] = "closing" /\ connState'[old] = "closed"
          ELSE /\ pc[new] = "register" /\ devId[new] = d
               /\ old # None => pc'[new] = "evict" /\ arg'[new].conn = old]_vars

\* Every step that ends a session tells so to whoever was told that it is
\* ready and is still there, registered and not being closed, as long as no
\* queue overflows; and nobody is told that a session ended which goes on.
\* What is queued after the end, server.go:494 does so without the lock, is
\* another matter: see the README (hub.go:57-62, 148-161, server.go:558-565).
EndIsAnnounced ==
  [][\A s \in SessionIds, x \in Actors :
       /\ (s \in live \ live' /\ told[x][s] = "ready" /\ x \notin Deaf /\ ~QueueMayFill) =>
            \/ told'[x][s] = "closed"
            \/ x \notin webPeers' /\ \A d \in Devices : clients'[d] # x
       /\ (told'[x][s] = "closed") => s \notin live']_vars

-----------------------------------------------------------------------------
(* Refinement                                                              *)

passing == {[sid |-> arg[x].sid, from |-> Self(x), kind |-> arg[x].kind] :
              x \in {y \in Actors : pc[y] = "deliver"}}

SA == INSTANCE SessionAuthority WITH
        online <- {x \in Parties : Online(x)}, terms <- sess, Nobody <- NoSession

\* The relay keeps the promise of SessionAuthority.
SessionAuthoritySpec == SA!Spec

-----------------------------------------------------------------------------
(* Liveness                                                                *)

\* A connection that is registered and falls silent while it is open loses
\* its place, unless it speaks again (server.go:186-223).
QuietIsReaped ==
  \A c \in Conns : \A d \in Devices :
    (connState[c] = "quiet" /\ clients[d] = c) ~> (connState[c] = "open" \/ clients[d] # c)

\* Every handler returns: no waiting for another's close() is for ever, and
\* an evicted, reaped or failed connection ends up unregistered
\* (hub.go:39-41, client.go:103-109).
HandlersReturn ==
  /\ \A x \in Actors : pc[x] \notin {"none", "idle", "ended"} ~> pc[x] \in {"idle", "ended"}
  /\ \A c \in Conns : connState[c] = "closing" ~> connState[c] = "closed" /\ pc[c] = "ended"
=============================================================================
