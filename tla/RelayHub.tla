------------------------------ MODULE RelayHub ------------------------------
(***************************************************************************)
(* The relay's registry (internal/relay/hub.go, session.go): the maps of   *)
(* Server that are guarded by s.mu, and the critical sections that change  *)
(* them.  Every operator below that has primed variables is ONE critical   *)
(* section; a handler that takes the lock three times is three actions of  *)
(* RelayConn or RelayWeb, and other goroutines run in between.             *)
(*                                                                         *)
(* A device id is the string a client registers with, a connection is a    *)
(* *Client, a web visitor is a *WebPeer (whose random id, newID("web_"),   *)
(* is the visitor itself here).  Sessions keep their record after they are *)
(* deleted from s.sessions: "live" says which ids are still keys of it.    *)
(***************************************************************************)
EXTENDS Naturals, FiniteSets

CONSTANTS
  Conns,        \* connections ever accepted by the relay (bound)
  Devices,      \* device ids
  Peers,        \* web visitors that ever open a link (bound)
  SessionIds,   \* sessions ever created (bound)
  Tokens,       \* web share tokens ever created (bound)
  Codes,        \* temporary six digit codes
  Kinds,        \* the forwarded message kinds the environment uses
  MaxClients,   \* cfg.MaxClients; 0 means no limit
  QueueMayFill, \* TRUE if a send queue (128 messages) may be full
  None          \* "" or nil

AllKinds == {"input", "control", "frame"}
Parties  == Devices \cup Peers      \* whom a session may have as controller
Actors   == Conns \cup Peers        \* goroutines that read a connection

ASSUME ConstantsAssumption ==
  /\ Devices \cap Peers = {} /\ Conns \cap Peers = {}
  /\ None \notin Conns \cup Devices \cup Peers \cup SessionIds \cup Tokens \cup Codes
  /\ Kinds \subseteq AllKinds
  /\ MaxClients \in Nat
  /\ QueueMayFill \in BOOLEAN

VARIABLES
  clients,   \* s.clients: device id -> connection or None
  webPeers,  \* the visitors in s.webPeers
  sess,      \* session id -> its (immutable) record, NoSession before creation
  live,      \* the keys of s.sessions
  pending,   \* s.pending: <<controller, controlled>> -> requested mode or None
  share,     \* share token -> its WebShare
  told,      \* actor -> session id -> last session.ready/close queued for it
  connState, \* connection -> "open", "quiet" (nothing read for HeartbeatTimeout),
             \* "closing" (closeOnce entered), "closed" (close() returned)
  pc         \* actor -> where its reading goroutine is (see RelayConn, RelayWeb)

\* The maps and the queues; the last two variables belong to RelayConn.
hubVars == <<clients, webPeers, sess, live, pending, share, told>>

Modes     == {"view", "view-control"}
WireModes == Modes \cup {"other"}     \* what a message may carry
\* Faulty variant: an unknown mode is let through.
NormalizeKeepsUnknown(mode) == mode
NormalizeSessionMode(mode) == IF mode = "view-control" THEN mode ELSE "view"
SessionModeAllowsInput(mode) == NormalizeSessionMode(mode) = "view-control"

NoSession == [ctl |-> None, dev |-> None, mode |-> "view", input |-> FALSE]
Session   == [ctl: Parties \cup {None}, dev: Devices \cup {None},
              mode: Modes, input: BOOLEAN]

\* A WebShare is absent from s.shares when "unused" or "removed"; Revoked or
\* past ExpiresAt, it stays in the map until somebody looks it up.
NoShare  == [st |-> "unused", dev |-> None, mode |-> "view"]
WebShare == [st: {"unused", "active", "expired", "revoked", "removed"},
             dev: Devices \cup {None}, mode: Modes]

Beliefs == {"none", "ready", "closed"}

HubTypeOK ==
  /\ clients \in [Devices -> Conns \cup {None}]
  /\ webPeers \subseteq Peers
  /\ sess \in [SessionIds -> Session]
  /\ live \subseteq SessionIds
  /\ pending \in [Parties \X Devices -> Modes \cup {None}]
  /\ share \in [Tokens -> WebShare]
  /\ told \in [Actors -> [SessionIds -> Beliefs]]

HubInit ==
  /\ clients = [d \in Devices |-> None]
  /\ webPeers = {}
  /\ sess = [s \in SessionIds |-> NoSession]
  /\ live = {}
  /\ pending = [k \in Parties \X Devices |-> None]
  /\ share = [t \in Tokens |-> NoShare]
  /\ told = [x \in Actors |-> [s \in SessionIds |-> "none"]]

-----------------------------------------------------------------------------
(* Lookups (getClient, getWebPeer, getSession).                            *)

Online(x) == \/ x \in Devices /\ clients[x] # None
             \/ x \in webPeers

\* Where a message to party x is queued, given the two maps.
Endpoint(x, cl, wp) ==
  IF x \in Devices THEN cl[x] ELSE IF x \in wp THEN x ELSE None

\* Faulty variant: the sessions that x controls are forgotten.
SessionsOfControlled(x) == {s \in live : x = sess[s].dev}

SessionsOf(x) == {s \in live : x \in {sess[s].ctl, sess[s].dev}}

Unused == {s \in SessionIds : sess[s] = NoSession}

-----------------------------------------------------------------------------
(* trySend drops a message when the queue is full, and may drop it when    *)
(* the receiver is being closed (select takes either ready case).  Either  *)
(* way nothing can be relied on to reach a receiver that is being closed:  *)
(* nothing is recorded for it.  Only session.ready and session.close are   *)
(* recorded for the others: a channel is first in first out, so the last   *)
(* one queued is what its receiver ends up believing.                      *)

\* Whose "closed" channel may be closed: a visitor closes it while leaving.
Deaf == {x \in Actors : IF x \in Conns THEN connState[x] \in {"closing", "closed"}
                        ELSE pc[x] \in {"leaving", "ended"}}

\* trySend of session.ready, whether or not the session is still there.
TellReady(x, s) ==
  \/ told' = IF x \in Deaf THEN told ELSE [told EXCEPT ![x][s] = "ready"]
  \/ QueueMayFill /\ UNCHANGED told

\* Faulty variant: only the controller hears of the end of a session.
RecipientsController(s, cl, wp) == {Endpoint(sess[s].ctl, cl, wp)}

Recipients(s, cl, wp) ==
  {Endpoint(sess[s].ctl, cl, wp), Endpoint(sess[s].dev, cl, wp)}

\* notifySessionClosedLocked for every session of S, with the maps cl and wp.
NotifySessionClosed(S, cl, wp) ==
  \E lost \in IF QueueMayFill THEN SUBSET (Actors \X S) ELSE {{}} :
    told' = [x \in Actors |-> [s \in SessionIds |->
               IF s \in S /\ x \in Recipients(s, cl, wp) \ Deaf /\ <<x, s>> \notin lost
               THEN "closed" ELSE told[x][s]]]

-----------------------------------------------------------------------------
(* Critical sections.                                                      *)

\* The section of register: c becomes the connection of device d.
\* Faulty variant: one device too many.
FullLate == MaxClients > 0 /\ Cardinality({d \in Devices : clients[d] # None}) > MaxClients

Full == MaxClients > 0 /\ Cardinality({d \in Devices : clients[d] # None}) >= MaxClients

Insert(c, d) ==
  /\ clients' = [clients EXCEPT ![d] = c]
  /\ UNCHANGED <<webPeers, sess, live, pending, share, told>>

\* What unregister and unregisterWebPeer share: party x leaves, the maps
\* become cl and wp, its sessions end and its pending requests are dropped.
ForgetParty(x, cl, wp) ==
  /\ clients' = cl
  /\ webPeers' = wp
  /\ live' = live \ SessionsOf(x)
  /\ NotifySessionClosed(SessionsOf(x), cl, wp)
  /\ pending' = [k \in Parties \X Devices |->
                   IF x \in {k[1], k[2]} THEN None ELSE pending[k]]
  /\ UNCHANGED sess

\* Faulty variant: whichever connection the device has now is removed.
UnregisterByDevice(c, d) ==
  /\ ForgetParty(d, [clients EXCEPT ![d] = None], webPeers)
  /\ share' = [t \in Tokens |->
                 IF share[t].dev = d /\ share[t].st \in {"active", "expired"}
                 THEN [share[t] EXCEPT !.st = "revoked"] ELSE share[t]]

\* unregister of connection c of device d.  Only the map entry is protected
\* against removing another connection's; sessions, requests and shares go
\* by device id.
Unregister(c, d) ==
  /\ ForgetParty(d, [clients EXCEPT ![d] = IF @ = c THEN None ELSE @], webPeers)
  /\ share' = [t \in Tokens |->
                 IF share[t].dev = d /\ share[t].st \in {"active", "expired"}
                 THEN [share[t] EXCEPT !.st = "revoked"] ELSE share[t]]

\* Faulty variants: the visitor's request, or its sessions, stay behind.
UnregisterWebPeerKeepsPending(p) ==
  /\ webPeers' = webPeers \ {p}
  /\ live' = live \ SessionsOf(p)
  /\ NotifySessionClosed(SessionsOf(p), clients, webPeers \ {p})
  /\ UNCHANGED <<clients, sess, pending, share>>
UnregisterWebPeerKeepsSessions(p) ==
  /\ webPeers' = webPeers \ {p}
  /\ pending' = [k \in Parties \X Devices |-> IF k[1] = p THEN None ELSE pending[k]]
  /\ UNCHANGED <<clients, sess, live, share, told>>

UnregisterWebPeer(p) ==
  /\ ForgetParty(p, clients, webPeers \ {p})
  /\ UNCHANGED share

CreateSession(s, ctl, dev, mode, input) ==
  /\ sess' = [sess EXCEPT ![s] = [ctl |-> ctl, dev |-> dev,
                                  mode |-> NormalizeSessionMode(mode),
                                  input |-> input /\ SessionModeAllowsInput(mode)]]
  /\ live' = live \cup {s}
  /\ UNCHANGED <<clients, webPeers, pending, share, told>>

StorePendingRequest(ctl, dev, mode) ==
  /\ pending' = [pending EXCEPT ![<<ctl, dev>>] = NormalizeSessionMode(mode)]
  /\ UNCHANGED <<clients, webPeers, sess, live, share, told>>

ConsumePendingRequest(ctl, dev) ==
  /\ pending' = [pending EXCEPT ![<<ctl, dev>>] = None]
  /\ UNCHANGED <<clients, webPeers, sess, live, share, told>>

\* The section of handleSessionClose and handleWebSessionClose: whoever
\* names a live session ends it.
CloseSession(s) ==
  /\ live' = live \ {s}
  /\ IF s \in live THEN NotifySessionClosed({s}, clients, webPeers) ELSE UNCHANGED told
  /\ UNCHANGED <<clients, webPeers, sess, pending, share>>
=============================================================================
