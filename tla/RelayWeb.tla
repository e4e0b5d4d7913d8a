------------------------------ MODULE RelayWeb ------------------------------
(***************************************************************************)
(* Web control (internal/relay/webshare.go, webpeer.go, webui.go): links   *)
(* that a device generates, and the browser visitors that follow them.  A  *)
(* visitor's goroutine opens the WebSocket, asks the controlled device for *)
(* approval in five critical sections, and then reads messages.            *)
(***************************************************************************)
EXTENDS RelayConn

VARIABLE shareOf   \* visitor -> the token of the link it follows, or None

connOnly == <<connState, devId, authCode, codeExpired, stale, asked>>

WebTypeOK == shareOf \in [Peers -> Tokens \cup {None}]
WebInit   == shareOf = [p \in Peers |-> None]

Dead == {"expired", "revoked"}   \* still in s.shares, of no use any more
Remove(T) == share' = [t \in Tokens |->
               IF t \in T /\ share[t].st \in Dead
               THEN [share[t] EXCEPT !.st = "removed"] ELSE share[t]]

-----------------------------------------------------------------------------
(* webshare.go: the device side of a link, handled on its connection c.    *)

\* Faulty variant: tokens so short that a used one comes up again.
WebShareCreateReused(c, t, mode) ==
  /\ Read(c) /\ devId[c] # None
  /\ share[t].st \in {"unused", "removed"}
  /\ share' = [share EXCEPT ![t] = [st |-> "active", dev |-> devId[c],
                                    mode |-> NormalizeSessionMode(mode)]]
  /\ UNCHANGED <<clients, webPeers, sess, live, pending, told>>
  /\ UNCHANGED <<stale, asked, shareOf>> /\ AuthSame /\ Keep

\* normalizeWebShareTTL always leaves a link that is valid for a while.
WebShareCreate(c, t, mode) ==
  /\ Read(c) /\ devId[c] # None
  /\ share[t].st = "unused"
  /\ share' = [share EXCEPT ![t] = [st |-> "active", dev |-> devId[c],
                                    mode |-> NormalizeSessionMode(mode)]]
  /\ UNCHANGED <<clients, webPeers, sess, live, pending, told>>
  /\ UNCHANGED <<stale, asked, shareOf>> /\ AuthSame /\ Keep

WebShareExpires(t) ==
  /\ share[t].st = "active"
  /\ share' = [share EXCEPT ![t].st = "expired"]
  /\ UNCHANGED <<clients, webPeers, sess, live, pending, told>>
  /\ UNCHANGED connVars /\ UNCHANGED shareOf

\* listWebShares drops every dead link it meets, whoever owns it.
WebShareList(c) ==
  /\ Read(c) /\ devId[c] # None
  /\ Remove(Tokens)
  /\ UNCHANGED <<clients, webPeers, sess, live, pending, told>>
  /\ UNCHANGED <<stale, asked, shareOf>> /\ AuthSame /\ Keep

\* Only a link of the same device is found.  Sessions that visitors already
\* have through it go on.
WebShareRevoke(c, t) ==
  /\ Read(c)
  /\ share[t].dev = devId[c] /\ share[t].st \in Dead \cup {"active"}
  /\ share' = [share EXCEPT ![t].st = "removed"]
  /\ UNCHANGED <<clients, webPeers, sess, live, pending, told>>
  /\ UNCHANGED <<stale, asked, shareOf>> /\ AuthSame /\ Keep

-----------------------------------------------------------------------------
(* webui.go: the pages; webshare.go: getActiveWebShare                     *)

IsActive(t) == share[t].st = "active" /\ clients[share[t].dev] # None

\* GET /s/<token>: the only effect is that a dead link is dropped.
WebPage(t) ==
  /\ Remove({t})
  /\ UNCHANGED <<clients, webPeers, sess, live, pending, told>>
  /\ UNCHANGED connVars /\ UNCHANGED shareOf

\* handleWebControlWS: an active link is upgraded and its visitor runs.
WebOpen(p, t) ==
  /\ pc[p] = "none" /\ IsActive(t)
  /\ shareOf' = [shareOf EXCEPT ![p] = t]
  /\ Goto(p, "check")
  /\ UNCHANGED hubVars /\ UNCHANGED connOnly

-----------------------------------------------------------------------------
(* webpeer.go: requestControlledApproval, section by section.  The link    *)
(* may be revoked and the device may leave between any two of them.        *)

\* getActiveWebShare, for the second time.
WebCheck(p) ==
  /\ pc[p] = "check"
  /\ Remove({shareOf[p]})
  /\ Goto(p, IF IsActive(shareOf[p]) THEN "lookup" ELSE "leaving")
  /\ UNCHANGED <<clients, webPeers, sess, live, pending, told>>
  /\ UNCHANGED connOnly /\ UNCHANGED shareOf

\* getClient(p.controlled)
WebLookup(p) ==
  /\ pc[p] = "lookup"
  /\ LET dev == share[shareOf[p]].dev IN
     IF clients[dev] = None THEN Goto(p, "leaving")
     ELSE GotoWith(p, "insert", [NoArg EXCEPT !.to = dev, !.conn = clients[dev],
                                              !.mode = share[shareOf[p]].mode])
  /\ UNCHANGED hubVars /\ UNCHANGED connOnly /\ UNCHANGED shareOf

\* s.webPeers[p.id] = p; storePendingRequest and the send follow.
WebInsert(p) ==
  /\ pc[p] = "insert"
  /\ webPeers' = webPeers \cup {p}
  /\ Goto(p, "store")
  /\ UNCHANGED <<clients, sess, live, pending, share, told>>
  /\ UNCHANGED connOnly /\ UNCHANGED shareOf

-----------------------------------------------------------------------------
(* webpeer.go: messages of a visitor, and its end.                         *)

\* Faulty variant: input is forwarded whatever the session allows.
WebForwardUnchecked(p, kind, s) ==
  /\ pc[p] = "idle" /\ kind \in {"input", "control"} /\ s \in live /\ sess[s].ctl = p
  /\ GotoWith(p, "target", [NoArg EXCEPT !.kind = kind, !.sid = s, !.to = sess[s].dev])
  /\ UNCHANGED hubVars /\ UNCHANGED connOnly /\ UNCHANGED shareOf

\* forwardWebInputMessage, forwardWebStreamControlMessage: getSession.
WebForward(p, kind, s) ==
  /\ pc[p] = "idle" /\ kind \in {"input", "control"} /\ sess[s] # NoSession
  /\ IF s \in live /\ sess[s].ctl = p /\ (kind = "input" => sess[s].input)
     THEN GotoWith(p, "target", [NoArg EXCEPT !.kind = kind, !.sid = s,
                                              !.to = sess[s].dev])
     ELSE Keep
  /\ UNCHANGED hubVars /\ UNCHANGED connOnly /\ UNCHANGED shareOf

\* handleWebSessionClose
WebSessionClose(p, s) ==
  /\ pc[p] = "idle" /\ sess[s] # NoSession
  /\ CloseSession(s)
  /\ UNCHANGED connVars /\ UNCHANGED shareOf

\* Read returns an error; the deferred close() closes the socket ...
WebReadError(p) ==
  /\ pc[p] = "idle"
  /\ Goto(p, "leaving")
  /\ UNCHANGED hubVars /\ UNCHANGED connOnly /\ UNCHANGED shareOf

\* ... and unregisters the visitor.
WebLeave(p) ==
  /\ pc[p] = "leaving"
  /\ UnregisterWebPeer(p)
  /\ GotoWith(p, "ended", NoArg)
  /\ UNCHANGED connOnly /\ UNCHANGED shareOf
=============================================================================
