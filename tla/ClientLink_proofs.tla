-------------------------- MODULE ClientLink_proofs -------------------------
(***************************************************************************)
(* A client never loses a socket from its hands, for any number of them.   *)
(* NoStraySocket is inductive with LocalUse, which says when connect and   *)
(* readLoop hold a socket in a local variable, and that the one being read *)
(* is c.conn unless somebody has closed it.                                *)
(***************************************************************************)
EXTENDS ClientLink, TLAPS

LocalUse ==
  /\ reader \notin {"assign", "read"} => local = None
  /\ reader = "read" => local = conn \/ local \notin Held

IInv == TypeOK /\ NoStraySocket /\ LocalUse

LEMMA LinkInit == Init => IInv
  BY DEF Init, IInv, TypeOK, ReaderPCs, SockStates, NoStraySocket, LocalUse, Held

\* closeConn leaves at most the socket in the local variable.
LEMMA CloseConnHolds ==
  ASSUME IInv, CloseConn
  PROVE  /\ sock' \in [Sockets -> SockStates] /\ conn' = None
         /\ Held' = Held \ {conn}
  <1>1. CASE conn = None
    <2>1. sock' = sock /\ conn' = None
      BY <1>1 DEF CloseConn
    <2>2. conn \notin Sockets
      BY <1>1, ClientAssumption
    <2> QED BY <2>1, <2>2 DEF IInv, TypeOK, Held
  <1>2. CASE conn # None
    <2>1. conn \in Sockets /\ conn' = None /\ sock' = [sock EXCEPT ![conn] = "closed"]
      BY <1>2 DEF CloseConn, CloseSocket, IInv, TypeOK
    <2>2. sock' \in [Sockets -> SockStates]
      BY <2>1 DEF IInv, TypeOK, SockStates
    <2>3. \A s \in Sockets : sock'[s] = IF s = conn THEN "closed" ELSE sock[s]
      BY <2>1 DEF IInv, TypeOK
    <2> QED BY <2>1, <2>2, <2>3 DEF Held
  <1> QED BY <1>1, <1>2

\* A write closes no socket.
LEMMA FailsHolds ==
  ASSUME IInv, NEW t \in Sockets \cup {None}, sock' = GivenUp(t) \/ UNCHANGED sock
  PROVE  sock' \in [Sockets -> SockStates] /\ Held' = Held
  <1>1. CASE UNCHANGED sock
    BY <1>1 DEF IInv, TypeOK, Held
  <1>2. CASE t # None /\ sock[t] = "open" /\ sock' = GivenUp(t)
    <2>1. t \in Sockets /\ sock' = [sock EXCEPT ![t] = "mute"]
      BY <1>2 DEF GivenUp
    <2>2. sock' \in [Sockets -> SockStates]
      BY <2>1 DEF IInv, TypeOK, SockStates
    <2>3. \A s \in Sockets : sock'[s] = IF s = t THEN "mute" ELSE sock[s]
      BY <2>1 DEF IInv, TypeOK
    <2> QED BY <1>2, <2>2, <2>3 DEF Held
  <1>3. CASE ~(t # None /\ sock[t] = "open") /\ sock' = GivenUp(t)
    BY <1>3 DEF GivenUp, IInv, TypeOK, Held
  <1> QED BY <1>1, <1>2, <1>3

LEMMA LinkStep == IInv /\ [Next]_vars => IInv'
  <1> SUFFICES ASSUME IInv, [Next]_vars PROVE IInv'
    OBVIOUS
  <1> USE ClientAssumption
  <1>1. ASSUME NEW s \in Sockets, DialOk(s) PROVE IInv'
    <2>1. TypeOK'
      BY <1>1 DEF DialOk, IInv, TypeOK, ReaderPCs, SockStates
    <2>2. Held' = Held \cup {s} /\ local' = s /\ conn' = conn /\ local = None
      BY <1>1 DEF DialOk, IInv, TypeOK, LocalUse, Held
    <2>3. reader' = "assign"
      BY <1>1 DEF DialOk
    <2>4. NoStraySocket'
      <3>1. None \notin Held
        BY ClientAssumption DEF Held
      <3> QED BY <2>2, <3>1 DEF IInv, NoStraySocket
    <2>5. LocalUse'
      BY <2>3 DEF LocalUse
    <2> QED BY <2>1, <2>4, <2>5 DEF IInv
  <1>2. CASE Assign
    <2>1. TypeOK'
      BY <1>2 DEF Assign, CloseSocket, IInv, TypeOK, ReaderPCs, SockStates
    <2>2. conn' = local /\ local' = None /\ reader' = "register"
      BY <1>2 DEF Assign
    <2>3. Held' \subseteq {local}
      <3>1. CASE conn = None
        <4>1. Held' = Held /\ conn \notin Sockets
          BY <1>2, <3>1, ClientAssumption DEF Assign, Held
        <4> QED BY <4>1 DEF IInv, NoStraySocket, Held
      <3>2. CASE conn # None
        <4>1. conn \in Sockets /\ sock' = [sock EXCEPT ![conn] = "closed"]
          BY <1>2, <3>2 DEF Assign, CloseSocket, IInv, TypeOK
        <4>2. \A s \in Sockets : sock'[s] = IF s = conn THEN "closed" ELSE sock[s]
          BY <4>1 DEF IInv, TypeOK
        <4>3. Held' = Held \ {conn}
          BY <4>1, <4>2 DEF Held
        <4> QED BY <4>3 DEF IInv, NoStraySocket
      <3> QED BY <3>1, <3>2
    <2>4. NoStraySocket'
      BY <2>2, <2>3 DEF NoStraySocket
    <2>5. LocalUse'
      BY <2>2 DEF LocalUse
    <2> QED BY <2>1, <2>4, <2>5 DEF IInv
  <1>3. CASE Abandon \/ MarkDisconnected \/ CloseTheConn
    <2>1. CloseConn /\ local' = local
      BY <1>3 DEF Abandon, MarkDisconnected, CloseTheConn
    <2>2. /\ sock' \in [Sockets -> SockStates] /\ conn' = None
          /\ Held' = Held \ {conn}
      BY <2>1, CloseConnHolds
    <2>3. \/ reader' \in ReaderPCs \ {"assign", "read"} /\ local = None
          \/ reader' = reader
      BY <1>3 DEF Abandon, MarkDisconnected, CloseTheConn, AttemptFails, ReaderPCs,
                  IInv, LocalUse
    <2>4. TypeOK'
      BY <1>3, <2>1, <2>2, <2>3 DEF Abandon, MarkDisconnected, CloseTheConn, IInv, TypeOK
    <2>5. LocalUse'
      BY <2>1, <2>2, <2>3 DEF IInv, LocalUse
    <2> QED BY <2>1, <2>2, <2>4, <2>5 DEF IInv, NoStraySocket
  <1>4. CASE CurrentConn
    <2>1. TypeOK'
      BY <1>4 DEF CurrentConn, IInv, TypeOK, ReaderPCs
    <2>2. /\ Held' = Held /\ conn' = conn /\ local' = conn
          /\ reader' # "read" => conn = None
          /\ local = None /\ reader' # "assign"
      BY <1>4 DEF CurrentConn, Held, IInv, LocalUse
    <2>3. reader' \in {"read", "retry"} /\ (conn = None => reader' = "retry")
      BY <1>4 DEF CurrentConn
    <2>4. NoStraySocket'
      <3>1. None \notin Held
        BY ClientAssumption DEF Held
      <3> QED BY <2>2, <3>1 DEF IInv, NoStraySocket
    <2>5. LocalUse'
      BY <2>2, <2>3 DEF LocalUse
    <2> QED BY <2>1, <2>4, <2>5 DEF IInv
  <1>5. CASE ReadMessage \/ ReadFails
    <2>1. TypeOK'
      BY <1>5 DEF ReadMessage, ReadFails, IInv, TypeOK, ReaderPCs
    <2>2. /\ Held' = Held /\ conn' = conn /\ local' = None
          /\ reader = "read" /\ reader' \notin {"assign", "read"}
      BY <1>5 DEF ReadMessage, ReadFails, Held
    <2> QED BY <2>1, <2>2 DEF IInv, NoStraySocket, LocalUse
  <1>6. CASE DialFails \/ RegisterOk \/ AfterLoss \/ ReaderClosed \/ Retry \/ WaitOver
    <2>0. accepted' \subseteq Sockets
      BY <1>6 DEF DialFails, RegisterOk, AfterLoss, ReaderClosed, Retry, WaitOver, Takes,
                  IInv, TypeOK
    <2>1. TypeOK'
      BY <1>6, <2>0 DEF DialFails, RegisterOk, AfterLoss, ReaderClosed, Retry,
                  WaitOver, AttemptFails, IInv, TypeOK, ReaderPCs
    <2>2. /\ Held' = Held /\ conn' = conn /\ local' = local
          /\ reader \notin {"assign", "read"} /\ reader' \notin {"assign", "read"}
      BY <1>6 DEF DialFails, RegisterOk, AfterLoss, ReaderClosed, Retry,
                  WaitOver, AttemptFails, Held
    <2> QED BY <2>1, <2>2 DEF IInv, NoStraySocket, LocalUse
  <1>7. CASE HeartbeatTick \/ HeartbeatDone \/ PingWrites \/ PingOk
             \/ OtherWrite \/ OtherEnds \/ CloseBegin \/ CloseDone \/ ContextDone
    <2>1. TypeOK'
      BY <1>7 DEF HeartbeatTick, HeartbeatDone, PingWrites, PingOk, OtherWrite, OtherEnds,
                  CloseBegin, CloseDone, ContextDone, IInv, TypeOK
    <2>2. Held' = Held /\ UNCHANGED <<conn, local, reader>>
      BY <1>7 DEF HeartbeatTick, HeartbeatDone, PingWrites, PingOk, OtherWrite, OtherEnds,
                  CloseBegin, CloseDone, ContextDone, Held
    <2> QED BY <2>1, <2>2 DEF IInv, NoStraySocket, LocalUse
  <1>8. CASE PingFails \/ OtherGivesUp
    <2>1. sock' = GivenUp(writing) \/ UNCHANGED sock
      BY <1>8 DEF PingFails, OtherGivesUp, Fails
    <2>2. writing \in Sockets \cup {None}
      BY DEF IInv, TypeOK
    <2>3. sock' \in [Sockets -> SockStates] /\ Held' = Held
      BY <2>1, <2>2, FailsHolds
    <2>4. /\ UNCHANGED <<accepted, conn, local, reader, cancelled, closing>>
          /\ writing' = None /\ heartbeat' \in {heartbeat, "ended"} \ {"ping"}
      BY <1>8 DEF PingFails, OtherGivesUp
    <2>5. TypeOK'
      BY <2>3, <2>4 DEF IInv, TypeOK
    <2> QED BY <2>3, <2>4, <2>5 DEF IInv, NoStraySocket, LocalUse
  <1>9. CASE RegisterFails \/ Answer
    <2>1. sock' = GivenUp(conn) \/ UNCHANGED sock
      BY <1>9 DEF RegisterFails, Answer, Fails
    <2>2. conn \in Sockets \cup {None}
      BY DEF IInv, TypeOK
    <2>3. sock' \in [Sockets -> SockStates] /\ Held' = Held
      BY <2>1, <2>2, FailsHolds
    <2>4. /\ UNCHANGED <<accepted, conn, local, heartbeat, writing, cancelled, closing>>
          /\ reader \notin {"assign", "read"} /\ reader' \in {"abandon", "top"}
      BY <1>9 DEF RegisterFails, Answer
    <2>5. TypeOK'
      BY <2>3, <2>4 DEF IInv, TypeOK, ReaderPCs
    <2> QED BY <2>3, <2>4, <2>5 DEF IInv, NoStraySocket, LocalUse
  <1>10. ASSUME NEW s \in Sockets, LinkLost(s) PROVE IInv'
    <2>1. TypeOK'
      BY <1>10 DEF LinkLost, IInv, TypeOK, SockStates
    <2>2. Held' = Held /\ UNCHANGED <<conn, local, reader>>
      BY <1>10 DEF LinkLost, Held, IInv, TypeOK
    <2> QED BY <2>1, <2>2 DEF IInv, NoStraySocket, LocalUse
  <1>11. CASE UNCHANGED vars
    BY <1>11 DEF vars, IInv, TypeOK, NoStraySocket, LocalUse, Held
  <1> QED
    BY <1>1, <1>2, <1>3, <1>4, <1>5, <1>6, <1>7, <1>8, <1>9, <1>10, <1>11
    DEF Next, ReaderNext, ConnectNext, HeartbeatNext, OtherNext, Closing

\* The client holds no socket but c.conn and the one it has just dialled,
\* through any number of reconnects and with Close at any moment
\* (client.go:497-618).
THEOREM NoSocketIsLost == Spec => []NoStraySocket
  <1>1. IInv => NoStraySocket
    BY DEF IInv
  <1> QED BY LinkInit, LinkStep, <1>1, PTL DEF Spec

-----------------------------------------------------------------------------
(* Consequences, and what no step undoes.                                  *)

\* Two sockets meet only between a dial and its assignment: at any other time
\* what the reader has in its hand is c.conn, or closed.
SecondSocketIsDialled == reader # "assign" => Held \subseteq {conn}

\* The loops are started once, what has ended stays ended, a context that is
\* done is never renewed, and Close only goes forward.
ClosedForGood ==
  [][/\ cancelled => cancelled'
     /\ Started => Started'
     /\ reader = "ended" => reader' = "ended"
     /\ heartbeat = "ended" => heartbeat' = "ended"
     /\ closing # closing' =>
          <<closing, closing'>> \in {<<"none", "conn">>, <<"conn", "chan">>,
                                     <<"chan", "done">>}]_vars

\* The client has two sockets only while connect has dialled one and not yet
\* assigned it, although a reader goes on with a socket that Close or a failed
\* registration has taken from c.conn (client.go:497-530, 620-647).
THEOREM TwoSocketsOnlyInConnect == Spec => []SecondSocketIsDialled
  <1>1. IInv => SecondSocketIsDialled
    <2> SUFFICES ASSUME IInv, reader # "assign", NEW s \in Held PROVE s = conn
      BY DEF SecondSocketIsDialled
    <2>1. s \in Sockets /\ s \in {conn, local}
      BY DEF IInv, NoStraySocket, Held
    <2>2. CASE reader = "read"
      BY <2>1, <2>2 DEF IInv, LocalUse
    <2>3. CASE reader # "read"
      BY <2>1, <2>3, ClientAssumption DEF IInv, LocalUse
    <2> QED BY <2>2, <2>3
  <1> QED BY LinkInit, LinkStep, <1>1, PTL DEF Spec

\* A client that was closed stays closed, whichever goroutine was where, and no
\* second reader or heartbeat is ever started (client.go:104-121, 620-670).
THEOREM ClosingIsFinal == Spec => ClosedForGood
  <1> DEFINE Kept == /\ cancelled => cancelled'
                     /\ Started => Started'
                     /\ reader = "ended" => reader' = "ended"
                     /\ heartbeat = "ended" => heartbeat' = "ended"
                     /\ closing # closing' =>
                          <<closing, closing'>> \in {<<"none", "conn">>, <<"conn", "chan">>,
                                                     <<"chan", "done">>}
  <1>1. ReaderNext => Kept
    <2> SUFFICES ASSUME ReaderNext PROVE Kept
      OBVIOUS
    <2>1. UNCHANGED <<cancelled, closing>> /\ reader # "ended"
      BY DEF ReaderNext, ConnectNext, DialOk, DialFails, Assign, RegisterOk, RegisterFails,
             Abandon, CurrentConn, ReadMessage, Answer, ReadFails, MarkDisconnected,
             AfterLoss, ReaderClosed, Retry, WaitOver
    <2>2. heartbeat' = heartbeat \/ (~Started /\ heartbeat' = "wait")
      BY DEF ReaderNext, ConnectNext, DialOk, DialFails, Assign, RegisterOk, RegisterFails,
             Abandon, CurrentConn, ReadMessage, Answer, ReadFails, MarkDisconnected,
             AfterLoss, ReaderClosed, Retry, WaitOver
    <2> QED BY <2>1, <2>2 DEF Started
  <1>2. HeartbeatNext => Kept
    BY DEF HeartbeatNext, HeartbeatTick, HeartbeatDone, PingWrites, PingOk, PingFails, Started
  <1>3. OtherNext \/ ContextDone \/ (\E s \in Sockets : LinkLost(s)) \/ UNCHANGED vars => Kept
    BY DEF OtherNext, OtherWrite, OtherEnds, OtherGivesUp, ContextDone, LinkLost, vars, Started
  <1>4. CloseBegin \/ Closing => Kept
    BY DEF CloseBegin, Closing, CloseTheConn, CloseDone, Started
  <1>5. [Next]_vars => Kept
    BY <1>1, <1>2, <1>3, <1>4 DEF Next
  <1> QED BY <1>5, PTL DEF Spec, ClosedForGood
=============================================================================
