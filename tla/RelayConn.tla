----------------------------- MODULE RelayConn ------------------------------
(***************************************************************************)
(* Native connections of the relay (internal/relay/client.go, server.go):  *)
(* the read goroutine of every *Client with its message handlers, close()  *)
(* with its sync.Once, and the idle reaper.                                *)
(*                                                                         *)
(* A handler holds s.mu only inside the critical sections of RelayHub, so  *)
(* a handler with several sections is several actions; pc says where the   *)
(* reading goroutine is and arg holds the handler's local variables.  The  *)
(* goroutine handles one message at a time.  Messages that were buffered   *)
(* before a close are still handled after it (bufio.Reader).               *)
(*                                                                         *)
(* Environment: the repository's own client.  It registers once, but maybe *)
(* not with its first message: it publishes the connection before it       *)
(* registers (internal/client/client.go:512-528), so a heartbeat or a      *)
(* press may come first; the relay answers those or queues an error.       *)
(* It confirms only a request that was sent to its device, maybe over an   *)
(* earlier connection: approving reads the pending request first and       *)
(* writes later (396-413).                                                 *)
(*                                                                         *)
(* All connections are accepted at the start: one that has not sent        *)
(* anything yet affects nobody.                                            *)
(***************************************************************************)
EXTENDS RelayHub

CONSTANTS
  DeviceOf,    \* connection -> the device whose program opens it
  Asks,        \* <<requester, target>>: who requests sessions from whom
  Early,       \* connections that may send something before they register
  MayIdle      \* connections that may send nothing for HeartbeatTimeout

ASSUME EnvironmentAssumption ==
  /\ DeviceOf \in [Conns -> Devices]
  /\ Asks \subseteq Devices \X Devices
  /\ Early \subseteq Conns /\ MayIdle \subseteq Conns

VARIABLES
  devId,       \* client.deviceID, None until device.register is handled
  authCode,    \* client.authCode
  codeExpired, \* time.Now().After(client.authExpiry)
  stale,       \* the reaper's snapshot, read under the lock, used after it
  asked,       \* connection -> controllers whose request was queued for it
  arg          \* per actor: the local variables of its handler

connVars == <<connState, devId, authCode, codeExpired, stale, asked, pc, arg>>

ConnPCs == {"none", "idle", "ended",
            "register", "evict",                        \* handleRegister
            "auth", "store", "send",                    \* handleSessionRequest
            "confirm", "create", "readyCtl", "readyDev",\* handleSessionConfirm
            "route", "target", "deliver"}               \* forward...Message
WebPCs  == {"check", "lookup", "insert", "leaving"}     \* see RelayWeb

NoArg == [to |-> None, conn |-> None, mode |-> "view", input |-> FALSE,
          ok |-> FALSE, sid |-> None, kind |-> "frame", code |-> None]
Arg   == [to: Parties \cup {None}, conn: Actors \cup {None}, mode: Modes,
          input: BOOLEAN, ok: BOOLEAN, sid: SessionIds \cup {None},
          kind: AllKinds, code: Codes \cup {None}]

ConnTypeOK ==
  /\ connState \in [Conns -> {"open", "quiet", "closing", "closed"}]
  /\ devId \in [Conns -> Devices \cup {None}]
  /\ authCode \in [Conns -> Codes \cup {None}]
  /\ codeExpired \in [Conns -> BOOLEAN]
  /\ stale \subseteq Conns
  /\ asked \in [Conns -> SUBSET Parties]
  /\ pc \in [Actors -> ConnPCs \cup WebPCs]
  /\ arg \in [Actors -> Arg]

ConnInit ==
  /\ connState = [c \in Conns |-> "open"]
  /\ devId = [c \in Conns |-> None]
  /\ authCode = [c \in Conns |-> None]
  /\ codeExpired = [c \in Conns |-> FALSE]
  /\ stale = {}
  /\ asked = [c \in Conns |-> {}]
  /\ pc = [x \in Actors |-> IF x \in Conns THEN "idle" ELSE "none"]
  /\ arg = [x \in Actors |-> NoArg]

-----------------------------------------------------------------------------
(* The id an actor speaks for, and what its handler does next.             *)
Self(x) == IF x \in Conns THEN devId[x] ELSE x

\* Something may come from c besides its registration; something may have
\* been queued for it: if only the error that answers an early message.
InUse(c)  == c \in Early \/ devId[c] # None
Queued(c) == c \in Early \/ (devId[c] # None /\ pc[c] # "register")

\* The reading goroutine of c picks up a message: stats.Touch.
Read(c) ==
  /\ pc[c] = "idle"
  /\ connState' = [connState EXCEPT ![c] = IF @ = "quiet" THEN "open" ELSE @]

Goto(x, l)     == pc' = [pc EXCEPT ![x] = l] /\ UNCHANGED arg
GotoWith(x, l, a) == pc' = [pc EXCEPT ![x] = l] /\ arg' = [arg EXCEPT ![x] = a]
Return(x)      == GotoWith(x, "idle", NoArg)
Keep           == UNCHANGED <<pc, arg>>   \* the handler is back in Read
AuthSame       == UNCHANGED <<devId, authCode, codeExpired>>

-----------------------------------------------------------------------------
(* client.go: run and close                                                *)

\* closeOnce.Do: the first caller enters; unregister follows, by the same
\* caller.  Every later caller waits until it has returned.
Closing(c) == [connState EXCEPT ![c] = IF @ \in {"open", "quiet"} THEN "closing" ELSE @]

\* Faulty variant: the reader takes a closed socket for a transient error.
ReadErrorIgnoresClosed(c) ==
  /\ pc[c] = "idle" /\ connState[c] \in {"open", "quiet"}
  /\ connState' = Closing(c)
  /\ Goto(c, "ended")
  /\ UNCHANGED <<stale, asked>> /\ AuthSame /\ UNCHANGED hubVars

\* run: Read returns an error and the deferred close() starts.
ReadError(c) ==
  /\ pc[c] = "idle" /\ InUse(c)
  /\ connState' = Closing(c)
  /\ Goto(c, "ended")
  /\ UNCHANGED <<stale, asked>> /\ AuthSame /\ UNCHANGED hubVars

\* writeLoop: a write fails and the write goroutine calls close().
WriteError(c) ==
  /\ connState[c] \in {"open", "quiet"} /\ Queued(c)
  /\ connState' = Closing(c)
  /\ UNCHANGED <<stale, asked>> /\ AuthSame /\ Keep /\ UNCHANGED hubVars

\* close: unregister, after close(c.closed) and conn.Close().  A connection
\* without a device id is not looked for, even if it registers later.
CloseUnregister(c) ==
  /\ connState[c] = "closing"
  /\ connState' = [connState EXCEPT ![c] = "closed"]
  /\ IF devId[c] = None THEN UNCHANGED hubVars ELSE Unregister(c, devId[c])
  /\ UNCHANGED <<stale, asked>> /\ AuthSame /\ Keep

-----------------------------------------------------------------------------
(* server.go: reaperLoop and closeIdleClients                              *)

\* Time passes and nothing is read from c for HeartbeatTimeout.
GoQuiet(c) ==
  /\ c \in MayIdle /\ connState[c] = "open" /\ pc[c] = "idle"
  /\ connState' = [connState EXCEPT ![c] = "quiet"]
  /\ UNCHANGED <<stale, asked>> /\ AuthSame /\ Keep /\ UNCHANGED hubVars

\* Faulty variant: the comparison with the timeout is inverted.
ReaperScanInverted ==
  /\ stale = {}
  /\ stale' = {c \in Conns : connState[c] = "open" /\ \E d \in Devices : clients[d] = c}
  /\ UNCHANGED <<connState, asked>> /\ AuthSame /\ Keep /\ UNCHANGED hubVars

\* Under the read lock: collect the registered connections that are idle.
ReaperScan ==
  /\ stale = {}
  /\ stale' = {c \in Conns : connState[c] = "quiet" /\ \E d \in Devices : clients[d] = c}
  /\ UNCHANGED <<connState, asked>> /\ AuthSame /\ Keep /\ UNCHANGED hubVars

\* After the unlock: close one of them, whatever it has sent meanwhile.  A
\* closed connection in the map is silent too, but close() does nothing to it.
ReaperClose(c) ==
  /\ c \in stale
  /\ stale' = stale \ {c}
  /\ connState' = Closing(c)
  /\ UNCHANGED asked /\ AuthSame /\ Keep /\ UNCHANGED hubVars

-----------------------------------------------------------------------------
(* server.go: handleRegister, hub.go: register                             *)

\* device.register is read, maybe from what was buffered before a close; the
\* device id is stored before the relay decides to register the connection.
RegisterBegin(c) ==
  /\ Read(c) /\ devId[c] = None
  /\ devId' = [devId EXCEPT ![c] = DeviceOf[c]]
  /\ Goto(c, "register")
  /\ UNCHANGED <<authCode, codeExpired, stale, asked>> /\ UNCHANGED hubVars

\* max clients reached: also when the device itself holds a place.
RegisterRefused(c) ==
  /\ pc[c] = "register" /\ Full
  /\ Return(c)
  /\ UNCHANGED <<connState, stale, asked>> /\ AuthSame /\ UNCHANGED hubVars

\* The connection goes into the map even if it was closed meanwhile.
RegisterInsert(c) ==
  /\ pc[c] = "register" /\ ~Full
  /\ LET old == clients[devId[c]]
     IN IF old \in {None, c} THEN Return(c)
        ELSE GotoWith(c, "evict", [NoArg EXCEPT !.conn = old])
  /\ Insert(c, devId[c])
  /\ UNCHANGED <<connState, stale, asked>> /\ AuthSame

\* old.close(): begin it, or find it begun ...
EvictClose(c) ==
  /\ pc[c] = "evict" /\ connState[arg[c].conn] \in {"open", "quiet"}
  /\ connState' = Closing(arg[c].conn)
  /\ UNCHANGED <<stale, asked>> /\ AuthSame /\ Keep /\ UNCHANGED hubVars

\* ... and return when it is over; then device.registered is written.
EvictReturn(c) ==
  /\ pc[c] = "evict" /\ connState[arg[c].conn] = "closed"
  /\ Return(c)
  /\ UNCHANGED <<connState, stale, asked>> /\ AuthSame /\ UNCHANGED hubVars

-----------------------------------------------------------------------------
(* server.go: handleAuthCodePublish, validateTargetAuthCode                *)

\* A code is six random digits: never one that is still in use.
AuthCodePublish(c, code) ==
  /\ Read(c) /\ devId[c] # None
  /\ code \notin {authCode[o] : o \in Conns} \cup {arg[x].code : x \in Actors}
  /\ authCode' = [authCode EXCEPT ![c] = code]
  /\ codeExpired' = [codeExpired EXCEPT ![c] = FALSE]
  /\ UNCHANGED <<devId, stale, asked>> /\ Keep /\ UNCHANGED hubVars

CodeExpires(c) ==
  /\ authCode[c] # None /\ ~codeExpired[c]
  /\ codeExpired' = [codeExpired EXCEPT ![c] = TRUE]
  /\ UNCHANGED <<connState, devId, authCode, stale, asked>> /\ Keep /\ UNCHANGED hubVars

-----------------------------------------------------------------------------
(* server.go: handleSessionRequest                                         *)

\* getClient(target): the connection found is kept in a local variable.
SessionRequest(c, d, mode, code) ==
  /\ Read(c)
  /\ <<devId[c], d>> \in Asks
  /\ IF clients[d] = None THEN Keep
     ELSE GotoWith(c, "auth", [NoArg EXCEPT !.to = d, !.conn = clients[d],
                                            !.mode = NormalizeSessionMode(mode),
                                            !.code = code])
  /\ UNCHANGED <<stale, asked>> /\ AuthSame /\ UNCHANGED hubVars

\* Faulty variant: a valid code is not cleared.
RequestAuthKeepsCode(c) ==
  LET expected == authCode[arg[c].conn] IN
  /\ pc[c] = "auth"
  /\ IF expected = None THEN GotoWith(c, "store", [arg[c] EXCEPT !.code = None])
     ELSE IF arg[c].code = expected THEN Goto(c, "store") ELSE Return(c)
  /\ UNCHANGED <<connState, stale, asked>> /\ AuthSame /\ UNCHANGED hubVars

\* validateTargetAuthCode: no code set, code expired, wrong code, or used up.
\* From here on arg.code is the code this request has used up.
RequestAuth(c) ==
  LET target == arg[c].conn
      expected == authCode[target]
      clear == /\ authCode' = [authCode EXCEPT ![target] = None]
               /\ codeExpired' = [codeExpired EXCEPT ![target] = FALSE]
  IN
  /\ pc[c] = "auth"
  /\ \/ /\ expected = None
        /\ GotoWith(c, "store", [arg[c] EXCEPT !.code = None])
        /\ UNCHANGED <<authCode, codeExpired>>
     \/ /\ expected # None /\ codeExpired[target]
        /\ Return(c) /\ clear
     \/ /\ expected # None /\ ~codeExpired[target] /\ arg[c].code # expected
        /\ Return(c)
        /\ UNCHANGED <<authCode, codeExpired>>
     \/ /\ expected # None /\ ~codeExpired[target] /\ arg[c].code = expected
        /\ Goto(c, "store") /\ clear
  /\ UNCHANGED <<connState, devId, stale, asked>> /\ UNCHANGED hubVars

\* Shared with WebPeer.requestControlledApproval.
RequestStore(x) ==
  /\ pc[x] = "store"
  /\ StorePendingRequest(Self(x), arg[x].to, arg[x].mode)
  /\ Goto(x, "send")
  /\ UNCHANGED <<connState, stale, asked>> /\ AuthSame

\* trySend to the connection looked up before: it may be closed by now.
RequestSent(x, after) ==
  /\ pc[x] = "send"
  /\ asked' = [asked EXCEPT ![arg[x].conn] = @ \cup {Self(x)}]
  /\ GotoWith(x, after, NoArg)
  /\ UNCHANGED <<connState, stale>> /\ AuthSame /\ UNCHANGED hubVars

RequestNotSent(x, after) ==
  /\ pc[x] = "send"
  /\ QueueMayFill \/ arg[x].conn \in Deaf
  /\ GotoWith(x, after, NoArg)
  /\ UNCHANGED <<connState, stale, asked>> /\ AuthSame /\ UNCHANGED hubVars

-----------------------------------------------------------------------------
(* server.go: handleSessionConfirm                                         *)

\* Bound: a handler that is about to create a session has an id for it.
RoomForSession ==
  Cardinality(Unused) > Cardinality({x \in Actors : pc[x] \in {"confirm", "create"}})

AskedDevice(c, ctl) == \E o \in Conns : DeviceOf[o] = DeviceOf[c] /\ ctl \in asked[o]

\* getClient and getWebPeer of the controller.
SessionConfirm(c, ctl, accepted, mode, input) ==
  /\ Read(c) /\ devId[c] # None
  /\ AskedDevice(c, ctl) /\ RoomForSession
  /\ IF Online(ctl)
     THEN GotoWith(c, "confirm", [NoArg EXCEPT !.to = ctl, !.ok = accepted,
                                               !.mode = NormalizeSessionMode(mode),
                                               !.input = input])
     ELSE Keep
  /\ UNCHANGED <<stale, asked>> /\ AuthSame /\ UNCHANGED hubVars

\* consumePendingRequest: its mode wins over the one in the message.
ConfirmConsume(c) ==
  /\ pc[c] = "confirm"
  /\ LET request == pending[<<arg[c].to, devId[c]>>]
         mode == IF request # None THEN request ELSE arg[c].mode
     IN IF arg[c].ok
        THEN GotoWith(c, "create", [arg[c] EXCEPT !.mode = mode,
                         !.input = arg[c].input /\ SessionModeAllowsInput(mode)])
        ELSE Return(c)
  /\ ConsumePendingRequest(arg[c].to, devId[c])
  /\ UNCHANGED <<connState, stale, asked>> /\ AuthSame

\* Faulty variant: createSession trusts the earlier lookup of the handler.
ConfirmCreateUnchecked(c, s) ==
  /\ pc[c] = "create" /\ s \in Unused
  /\ CreateSession(s, arg[c].to, devId[c], arg[c].mode, arg[c].input)
  /\ GotoWith(c, "readyCtl", [arg[c] EXCEPT !.sid = s])
  /\ UNCHANGED <<connState, stale, asked>> /\ AuthSame

\* createSession, with its own check that both sides are registered.
ConfirmCreate(c, s) ==
  /\ pc[c] = "create" /\ s \in Unused
  /\ IF Online(arg[c].to) /\ clients[devId[c]] # None
     THEN /\ CreateSession(s, arg[c].to, devId[c], arg[c].mode, arg[c].input)
          /\ GotoWith(c, "readyCtl", [arg[c] EXCEPT !.sid = s])
     ELSE Return(c) /\ UNCHANGED hubVars
  /\ UNCHANGED <<connState, stale, asked>> /\ AuthSame

\* sendToPeer(controller, session.ready); its error is ignored.
ReadyToController(c) ==
  /\ pc[c] = "readyCtl"
  /\ LET e == Endpoint(arg[c].to, clients, webPeers)
     IN IF e = None THEN UNCHANGED told ELSE TellReady(e, arg[c].sid)
  /\ Goto(c, "readyDev")
  /\ UNCHANGED <<clients, webPeers, sess, live, pending, share>>
  /\ UNCHANGED <<connState, stale, asked>> /\ AuthSame

\* session.ready for the controlled side, on the confirming connection.
ReadyToControlled(c) ==
  /\ pc[c] = "readyDev"
  /\ TellReady(c, arg[c].sid)
  /\ Return(c)
  /\ UNCHANGED <<clients, webPeers, sess, live, pending, share>>
  /\ UNCHANGED <<connState, stale, asked>> /\ AuthSame

\* It is not asked who closes the session, registered or not.
SessionClose(c, s) ==
  /\ Read(c) /\ InUse(c) /\ sess[s] # NoSession
  /\ CloseSession(s)
  /\ UNCHANGED <<stale, asked>> /\ AuthSame /\ Keep

-----------------------------------------------------------------------------
(* server.go: forwardInputMessage, forwardStreamControlMessage and         *)
(* forwardSessionMessage                                                   *)

\* Faulty variant: any party of the session may send input.
ForwardAnyParty(c, kind, s) ==
  /\ Read(c) /\ sess[s] # NoSession
  /\ IF kind # "input" \/ (s \in live /\ sess[s].input)
     THEN GotoWith(c, "route", [NoArg EXCEPT !.kind = kind, !.sid = s])
     ELSE Keep
  /\ UNCHANGED <<stale, asked>> /\ AuthSame /\ UNCHANGED hubVars

\* The first getSession, with the checks of the two wrappers.
Forward(c, kind, s) ==
  /\ Read(c) /\ InUse(c) /\ sess[s] # NoSession
  /\ IF \/ kind = "frame"
        \/ s \in live /\ devId[c] = sess[s].ctl /\ (kind = "input" => sess[s].input)
     THEN GotoWith(c, "route", [NoArg EXCEPT !.kind = kind, !.sid = s])
     ELSE Keep
  /\ UNCHANGED <<stale, asked>> /\ AuthSame /\ UNCHANGED hubVars

\* The second getSession: the other side of the session is the target.
ForwardRoute(c) ==
  LET s == arg[c].sid
      Route(x) == GotoWith(c, "target", [arg[c] EXCEPT !.to = x])
  IN
  /\ pc[c] = "route"
  /\ IF s \in live /\ devId[c] = sess[s].ctl THEN Route(sess[s].dev)
     ELSE IF s \in live /\ devId[c] = sess[s].dev THEN Route(sess[s].ctl)
     ELSE Return(c)
  /\ UNCHANGED <<connState, stale, asked>> /\ AuthSame /\ UNCHANGED hubVars

\* getClient or getWebPeer of the target.  Shared with RelayWeb.
ForwardTarget(x, after) ==
  /\ pc[x] = "target"
  /\ LET e == Endpoint(arg[x].to, clients, webPeers)
     IN IF e = None THEN GotoWith(x, after, NoArg)
        ELSE GotoWith(x, "deliver", [arg[x] EXCEPT !.conn = e])
  /\ UNCHANGED <<connState, stale, asked>> /\ AuthSame /\ UNCHANGED hubVars

\* trySend: the message is in the target's queue (or dropped).
ForwardDeliver(x, after) ==
  /\ pc[x] = "deliver"
  /\ GotoWith(x, after, NoArg)
  /\ UNCHANGED <<connState, stale, asked>> /\ AuthSame /\ UNCHANGED hubVars
=============================================================================
