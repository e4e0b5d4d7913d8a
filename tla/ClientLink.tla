----------------------------- MODULE ClientLink -----------------------------
(***************************************************************************)
(* The connection of a BeaconDesk client to the relay                      *)
(* (internal/client/client.go) over one socket of internal/transport:      *)
(* Start, connect, readLoop with reconnect, heartbeatLoop, Close, and the  *)
(* other goroutines that write (the stream loop, presses of the user),     *)
(* which take turns by writeMu.                                            *)
(*                                                                         *)
(* A socket is what transport.Dial returns.  "lost" means that the network *)
(* or the relay has ended it and all that it had delivered was read; the   *)
(* client still holds it.  "mute" means that a write to it was given up:   *)
(* the deadline that Write then sets is never lifted, so that every later  *)
(* write fails while reads go on.  A closed socket may stand for a new one *)
(* later.  What messages say, the State shown to the user and the delays   *)
(* of the back-off are left out; a delay is a wait that may end.           *)
(***************************************************************************)
CONSTANTS
  Sockets,        \* bound: sockets that exist at a time
  None,           \* nil
  MayNotReconnect \* TRUE if DisableReconnect may be set when a link is lost

ASSUME ClientAssumption == None \notin Sockets /\ MayNotReconnect \in BOOLEAN

VARIABLES
  sock,       \* socket -> "closed", "open", "mute" or "lost"
  accepted,   \* external: the sockets that the relay has among its clients
  conn,       \* c.conn
  local,      \* the socket that connect has dialled, or that readLoop reads
  reader,     \* where Start's connect, then readLoop, is
  heartbeat,  \* where heartbeatLoop is
  writing,    \* the socket that the holder of writeMu writes to, or None
  cancelled,  \* c.cancel was called, or the caller's context is done
  closing     \* Close: "none", "conn" (closeConn is next), "chan", "done"

vars == <<sock, accepted, conn, local, reader, heartbeat, writing, cancelled, closing>>

ReaderPCs == {"dial", "assign", "register", "abandon",   \* connect
              "top", "read", "answer", "disconnect", "lost", "close", "ended",
              "retry", "wait"}                           \* reconnect

\* Only Start's connect runs before the loops are there.
Started == heartbeat # "off"

SockStates == {"closed", "open", "mute", "lost"}

\* Types of the sockets and of the places of the goroutines; heartbeatLoop has
\* writeMu while it pings.
TypeOK ==
  /\ sock \in [Sockets -> SockStates] /\ accepted \subseteq Sockets
  /\ conn \in Sockets \cup {None} /\ local \in Sockets \cup {None}
  /\ writing \in Sockets \cup {None}
  /\ reader \in ReaderPCs
  /\ heartbeat \in {"off", "wait", "write", "ping", "ended"}
  /\ (heartbeat = "ping" => writing # None)
  /\ cancelled \in BOOLEAN
  /\ closing \in {"none", "conn", "chan", "done"}

\* Start has loaded the identity and calls connect.
Init ==
  /\ sock = [s \in Sockets |-> "closed"] /\ accepted = {}
  /\ conn = None /\ local = None
  /\ reader = "dial" /\ heartbeat = "off" /\ writing = None
  /\ cancelled = FALSE /\ closing = "none"

-----------------------------------------------------------------------------
(* Sockets, and the critical sections of connMu.                           *)

Held == {s \in Sockets : sock[s] # "closed"}

CloseSocket(s) == [sock EXCEPT ![s] = "closed"]

\* Faulty variant: the connection is forgotten but not closed.
CloseConnForgets == conn' = None /\ UNCHANGED sock

\* closeConn
CloseConn ==
  /\ conn' = None
  /\ sock' = IF conn = None THEN sock ELSE CloseSocket(conn)

\* External: the network fails, or the relay closes its end.
LinkLost(s) ==
  /\ sock[s] \in {"open", "mute"}
  /\ sock' = [sock EXCEPT ![s] = "lost"]
  /\ UNCHANGED <<accepted, conn, local, reader, heartbeat, writing, cancelled, closing>>

-----------------------------------------------------------------------------
(* Write.  It races the socket with the context: with both ready, select   *)
(* picks either.                                                           *)

\* A socket that is lost may still take a message.
Takes(s) == s # None /\ sock[s] \in {"open", "lost"}

\* Without a connection there is an error at once.
Refuses(s) == s # None => sock[s] # "open"

\* The context is done first: the deadline is set to now.
GivenUp(s) == IF s # None /\ sock[s] = "open" THEN [sock EXCEPT ![s] = "mute"] ELSE sock

\* A write with the context of the client: without a deadline, until Close.
Fails(s) ==
  \/ Refuses(s) /\ UNCHANGED sock
  \/ cancelled /\ sock' = GivenUp(s)

\* Another goroutine has writeMu, reads c.conn and writes to it, ...
OtherWrite ==
  /\ writing = None /\ conn # None /\ Started
  /\ writing' = conn
  /\ UNCHANGED <<sock, accepted, conn, local, reader, heartbeat, cancelled, closing>>

\* ... until the socket has taken the message or failed, ...
OtherEnds ==
  /\ writing # None /\ heartbeat # "ping"
  /\ writing' = None
  /\ UNCHANGED <<sock, accepted, conn, local, reader, heartbeat, cancelled, closing>>

\* ... or its own context is done: the seconds of a press are over, or the
\* stream loop was cancelled while it captured or wrote.
OtherGivesUp ==
  /\ writing # None /\ heartbeat # "ping"
  /\ sock' = GivenUp(writing)
  /\ writing' = None
  /\ UNCHANGED <<accepted, conn, local, reader, heartbeat, cancelled, closing>>

-----------------------------------------------------------------------------
(* connect, called by Start and by reconnect                               *)

DialOk(s) ==
  /\ reader = "dial" /\ sock[s] = "closed" /\ s # writing
  /\ sock' = [sock EXCEPT ![s] = "open"] /\ accepted' = accepted \ {s}
  /\ local' = s /\ reader' = "assign"
  /\ UNCHANGED <<conn, heartbeat, writing, cancelled, closing>>

\* Faulty variant: one failed attempt ends the loop.
AttemptFailsForGood == reader' = "ended"

\* What follows a failed connect: another attempt, or Start returns the error.
AttemptFails == reader' = IF Started THEN "retry" ELSE "ended"

DialFails ==
  /\ reader = "dial"
  /\ AttemptFails
  /\ UNCHANGED <<sock, accepted, conn, local, heartbeat, writing, cancelled, closing>>

\* Under connMu: c.conn, which Close may have closed by now, is replaced.
Assign ==
  /\ reader = "assign"
  /\ sock' = IF conn = None THEN sock ELSE CloseSocket(conn)
  /\ conn' = local
  /\ local' = None /\ reader' = "register"
  /\ UNCHANGED <<accepted, heartbeat, writing, cancelled, closing>>

\* write(device.register), when writeMu is free.  The relay takes it up, or
\* refuses it by an error message: then it keeps the socket all the same.
RegisterOk ==
  /\ reader = "register" /\ writing = None /\ Takes(conn)
  /\ accepted' \in {accepted, accepted \cup {conn}}
  /\ reader' = "top"
  /\ heartbeat' = IF Started THEN heartbeat ELSE "wait"
  /\ UNCHANGED <<sock, conn, local, writing, cancelled, closing>>

RegisterFails ==
  /\ reader = "register" /\ writing = None /\ Fails(conn)
  /\ reader' = "abandon"
  /\ UNCHANGED <<accepted, conn, local, heartbeat, writing, cancelled, closing>>

Abandon ==
  /\ reader = "abandon"
  /\ CloseConn
  /\ AttemptFails
  /\ UNCHANGED <<accepted, local, heartbeat, writing, cancelled, closing>>

-----------------------------------------------------------------------------
(* readLoop                                                                *)

CurrentConn ==
  /\ reader = "top"
  /\ local' = conn
  /\ reader' = IF conn = None THEN "retry" ELSE "read"
  /\ UNCHANGED <<sock, accepted, conn, heartbeat, writing, cancelled, closing>>

\* A message was read; a request of a trusted device is answered.
ReadMessage ==
  /\ reader = "read" /\ sock[local] \in {"open", "mute"}
  /\ local' = None /\ reader' \in {"top", "answer"}
  /\ UNCHANGED <<sock, accepted, conn, heartbeat, writing, cancelled, closing>>

\* handleMessage's own write: an error is only reported.
Answer ==
  /\ reader = "answer" /\ writing = None
  /\ (Takes(conn) /\ UNCHANGED sock) \/ Fails(conn)
  /\ reader' = "top"
  /\ UNCHANGED <<accepted, conn, local, heartbeat, writing, cancelled, closing>>

\* Faulty variant: an error is only reported, and c.conn read again.
ReadFailsReported ==
  /\ reader = "read" /\ (sock[local] \in {"closed", "lost"} \/ cancelled)
  /\ local' = None
  /\ reader' = IF cancelled THEN "ended" ELSE "top"
  /\ UNCHANGED <<sock, accepted, conn, heartbeat, writing, cancelled, closing>>

\* Read fails, or its context is done; an error counts only with a context
\* that is not.
ReadFails ==
  /\ reader = "read" /\ (sock[local] \in {"closed", "lost"} \/ cancelled)
  /\ local' = None
  /\ reader' = IF cancelled THEN "ended" ELSE "disconnect"
  /\ UNCHANGED <<sock, accepted, conn, heartbeat, writing, cancelled, closing>>

\* markDisconnected
MarkDisconnected ==
  /\ reader = "disconnect"
  /\ CloseConn
  /\ reader' = "lost"
  /\ UNCHANGED <<accepted, local, heartbeat, writing, cancelled, closing>>

AfterLoss ==
  /\ reader = "lost"
  /\ reader' \in IF MayNotReconnect THEN {"close", "retry"} ELSE {"retry"}
  /\ UNCHANGED <<sock, accepted, conn, local, heartbeat, writing, cancelled, closing>>

\* c.Close() by readLoop itself returns when it, or the other call, is over.
ReaderClosed ==
  /\ reader = "close" /\ closing = "done"
  /\ reader' = "ended"
  /\ UNCHANGED <<sock, accepted, conn, local, heartbeat, writing, cancelled, closing>>

\* reconnect: the top of its loop, and the wait for the timer.
Retry ==
  /\ reader = "retry"
  /\ reader' = IF cancelled THEN "ended" ELSE "wait"
  /\ UNCHANGED <<sock, accepted, conn, local, heartbeat, writing, cancelled, closing>>

WaitOver ==
  /\ reader = "wait"
  /\ reader' \in IF cancelled THEN {"dial", "ended"} ELSE {"dial"}
  /\ UNCHANGED <<sock, accepted, conn, local, heartbeat, writing, cancelled, closing>>

-----------------------------------------------------------------------------
(* heartbeatLoop                                                           *)

\* The ticker; with the context done too, select picks either.
HeartbeatTick ==
  /\ heartbeat = "wait"
  /\ heartbeat' = "write"
  /\ UNCHANGED <<sock, accepted, conn, local, reader, writing, cancelled, closing>>

HeartbeatDone ==
  /\ heartbeat = "wait" /\ cancelled
  /\ heartbeat' = "ended"
  /\ UNCHANGED <<sock, accepted, conn, local, reader, writing, cancelled, closing>>

\* write has got writeMu, and reads c.conn.
PingWrites ==
  /\ heartbeat = "write" /\ writing = None /\ conn # None
  /\ heartbeat' = "ping" /\ writing' = conn
  /\ UNCHANGED <<sock, accepted, conn, local, reader, cancelled, closing>>

PingOk ==
  /\ heartbeat = "ping" /\ Takes(writing)
  /\ heartbeat' = "wait" /\ writing' = None
  /\ UNCHANGED <<sock, accepted, conn, local, reader, cancelled, closing>>

\* Not connected, a failed write or a context that is done: the loop returns.
PingFails ==
  /\ \/ heartbeat = "write" /\ writing = None /\ conn = None /\ UNCHANGED sock
     \/ heartbeat = "ping" /\ Fails(writing)
  /\ heartbeat' = "ended" /\ writing' = None
  /\ UNCHANGED <<accepted, conn, local, reader, cancelled, closing>>

-----------------------------------------------------------------------------
(* Close                                                                   *)

\* closeOnce is entered, by the user's goroutine after Start has returned or
\* by readLoop.
CloseBegin ==
  /\ closing = "none" /\ Started
  /\ cancelled' = TRUE /\ closing' = "conn"
  /\ UNCHANGED <<sock, accepted, conn, local, reader, heartbeat, writing>>

\* Faulty variant: closing waits for the reader to be out of its loop.
CloseTheConnAfterReader ==
  /\ closing = "conn" /\ reader = "ended"
  /\ CloseConn
  /\ closing' = "chan"
  /\ UNCHANGED <<accepted, local, reader, heartbeat, writing, cancelled>>

\* stopStreamLoop waits two seconds at most; then closeConn.
CloseTheConn ==
  /\ closing = "conn"
  /\ CloseConn
  /\ closing' = "chan"
  /\ UNCHANGED <<accepted, local, reader, heartbeat, writing, cancelled>>

CloseDone ==
  /\ closing = "chan"
  /\ closing' = "done"
  /\ UNCHANGED <<sock, accepted, conn, local, reader, heartbeat, writing, cancelled>>

\* shutdown cancels the application's context before it calls Close.
ContextDone ==
  /\ ~cancelled /\ cancelled' = TRUE
  /\ UNCHANGED <<sock, accepted, conn, local, reader, heartbeat, writing, closing>>

-----------------------------------------------------------------------------
ConnectNext ==
  \/ (\E s \in Sockets : DialOk(s)) \/ DialFails
  \/ Assign \/ RegisterOk \/ RegisterFails \/ Abandon

ReaderNext ==
  \/ ConnectNext
  \/ CurrentConn \/ ReadMessage \/ Answer \/ ReadFails
  \/ MarkDisconnected \/ AfterLoss \/ ReaderClosed \/ Retry \/ WaitOver

HeartbeatNext == HeartbeatTick \/ HeartbeatDone \/ PingWrites \/ PingOk \/ PingFails

OtherNext == OtherWrite \/ OtherEnds \/ OtherGivesUp

Closing == CloseTheConn \/ CloseDone

Next ==
  \/ ReaderNext \/ HeartbeatNext \/ OtherNext
  \/ CloseBegin \/ Closing \/ ContextDone
  \/ \E s \in Sockets : LinkLost(s)

Spec == Init /\ [][Next]_vars

\* The relay closes what has been silent for too long, among its clients
\* (closeIdleClients): nobody ends a mute socket that it has refused.
Reaped(s) == s \in accepted /\ sock[s] = "mute" /\ LinkLost(s)

\* Goroutines run; writeMu starves nobody, so that one that waits for it again
\* and again finds it free gets it; a write comes to an end.  A select with
\* both cases ready picks at random, so a context that is done is noticed some
\* time.  readLoop's own call of Close enters it.
Runs ==
  /\ SF_vars(ReaderNext) /\ SF_vars(HeartbeatNext) /\ WF_vars(Closing)
  /\ WF_vars(OtherEnds \/ OtherGivesUp)
  /\ WF_vars(reader = "close" /\ CloseBegin)
  /\ SF_vars(ReadFails) /\ SF_vars(cancelled /\ HeartbeatDone)
  /\ \A s \in Sockets : WF_vars(Reaped(s))

FairSpec == Spec /\ Runs

-----------------------------------------------------------------------------
(* Properties                                                              *)

\* Through any number of lost links, failed registrations and calls of Close
\* in between, the client holds no socket but c.conn and the one that connect
\* has just dialled (client.go:497-618).
NoStraySocket == Held \subseteq {conn, local}

\* Close returns and ends the goroutines of the client wherever they are: in
\* a dial, a wait, a read, a write, in line for writeMu or in a call of Close
\* of their own (client.go:112-121).
CloseEnds ==
  /\ closing # "none" ~> closing = "done"
  /\ cancelled /\ Started ~> reader = "ended" /\ heartbeat = "ended"

\* A socket that takes no more writes, which its goroutines hear of only as
\* errors to report, is not kept if the relay had accepted its registration:
\* the relay ends it and the reader closes it.  One that was refused stays
\* (conn.go:122-138, client.go:629-647, relay/server.go:208-225).
MuteIsReplaced ==
  \A s \in Sockets :
    sock[s] = "mute" /\ s \in accepted ~> sock[s] = "closed" \/ cancelled

\* Environment: dialling the relay succeeds again and again, ...
DialsSucceed == SF_vars(\E s \in Sockets : DialOk(s))

\* ... and links, from some time on, are neither lost nor given up writing to.
LinksLast == <>[](\A s \in Sockets : sock[s] \in {"closed", "open"})

\* In such an environment, a client that has lost its link gets one again,
\* unless it is closed or forbidden to reconnect, which closes it
\* (client.go:620-652, README.md:15).
Recovers ==
  DialsSucceed /\ LinksLast => (reader = "lost" ~> (reader = "read" \/ cancelled))
=============================================================================
