------------------------------ MODULE SendPath ------------------------------
(***************************************************************************)
(* The outgoing side of one native connection of the relay                 *)
(* (internal/relay/client.go, limiter.go): the send channel that handlers  *)
(* of all connections fill, the write goroutine that empties it through    *)
(* the BandwidthLimiter, and the ten seconds of its context.  A write      *)
(* first takes the mutex of transport/conn.go, which knows no context; the *)
(* connection's reader takes it too, to answer its peer directly, and      *)
(* sets its write no deadline: when the peer does not take the answer, the *)
(* writer waits until somebody closes the socket.                          *)
(*                                                                         *)
(* Time is counted in ticks, one tick being the time in which the limiter  *)
(* gains one token; sizes are counted in tokens.  A timer fires on time or *)
(* up to Late ticks late, as the Go runtime does.  What the registry does  *)
(* when the connection closes is in RelayConn.                             *)
(***************************************************************************)
EXTENDS Naturals, Sequences

CONSTANTS
  Sizes,      \* the payload sizes of messages
  QueueCap,   \* cap(client.send), 128 in the code
  Limits,     \* the relays to consider: TRUE for LimitKbps > 0
  Burst,      \* the limiter's burst: tokenBucketBurstSeconds of its rate
  Deadline,   \* ticks in the ten seconds of writeCtx
  Late        \* bound: ticks by which a timer may fire late

ASSUME SendPathAssumption ==
  /\ Sizes \subseteq Nat
  /\ QueueCap \in Nat \ {0} /\ Burst \in Nat \ {0} /\ Deadline \in Nat \ {0} /\ Late \in Nat
  /\ Limits \subseteq BOOLEAN

VARIABLES
  limited,  \* whether this relay limits bandwidth; never changes
  queue,    \* client.send
  closed,   \* close() was called: the closed channel and the socket
  registered, \* the reaper looks at it: it is in the relay's clients
  reader,   \* run: "read", "lock" (an answer waits for the transport's
            \* mutex), "reply" (in its write, with the mutex) or "ended"
  writer,   \* the write goroutine: "select", "reserve", "timer", "lock",
            \* "write" (with the mutex), "closing" (about to call close())
            \* or "ended"
  size,     \* the payload size of the message in hand
  left,     \* ticks until its writeCtx expires
  tokens,   \* limiter.tokens
  since,    \* ticks since limiter.lastFill
  wake,     \* ticks until the limiter's timer is due
  late,     \* ticks by which it is overdue
  excess    \* history: how far the sizes let through run ahead of time

readerVars == <<registered, reader>>
bucketVars == <<tokens, since, wake, late, excess>>
vars == <<limited, queue, closed, readerVars, writer, size, left, bucketVars>>

Least(a, b) == IF a <= b THEN a ELSE b

\* More than Burst ticks since the last fill change nothing: the bucket is full.
TypeOK ==
  /\ limited \in BOOLEAN
  /\ queue \in Seq(Sizes) /\ Len(queue) <= QueueCap
  /\ closed \in BOOLEAN
  /\ registered \in BOOLEAN /\ reader \in {"read", "lock", "reply", "ended"}
  /\ writer \in {"select", "reserve", "timer", "lock", "write", "closing", "ended"}
  /\ size \in Nat /\ left \in 0..Deadline
  /\ tokens \in 0..Burst /\ since \in 0..Burst
  /\ wake \in Nat /\ late \in 0..Late
  /\ excess \in Nat

Init ==
  /\ limited \in Limits
  /\ registered = FALSE /\ reader = "read"
  /\ queue = <<>> /\ closed = FALSE /\ writer = "select" /\ size = 0 /\ left = 0
  /\ tokens = Burst /\ since = 0 /\ wake = 0 /\ late = 0
  /\ excess = 0

-----------------------------------------------------------------------------
(* trySend, by whichever goroutine has something for this connection.      *)

\* A full queue drops the message, a closed connection may do so too: then
\* nothing changes.
TrySend(n) ==
  /\ Len(queue) < QueueCap
  /\ queue' = Append(queue, n)
  /\ UNCHANGED <<limited, closed, writer, size, left, readerVars, bucketVars>>

-----------------------------------------------------------------------------
(* writeLoop                                                               *)

\* A message is ready; Wait passes an empty one, and every one if unlimited.
TakeMessage ==
  /\ writer = "select" /\ queue # <<>>
  /\ queue' = Tail(queue)
  /\ size' = Head(queue)
  /\ left' = Deadline
  /\ writer' = IF limited /\ Head(queue) > 0 THEN "reserve" ELSE "lock"
  /\ UNCHANGED <<limited, closed, readerVars, bucketVars>>

\* closed is ready; with a message ready too, select picks either.
SeeClosed ==
  /\ writer = "select" /\ closed
  /\ writer' = "ended"
  /\ UNCHANGED <<limited, queue, closed, size, left, readerVars, bucketVars>>

\* conn.Write takes the mutex, for as long as it takes: writeCtx may expire
\* meanwhile.
WriterLocks ==
  /\ writer = "lock" /\ reader # "reply"
  /\ writer' = "write"
  /\ UNCHANGED <<limited, queue, closed, size, left, readerVars, bucketVars>>

\* The socket has taken the message, perhaps just before writeCtx expired
\* (select takes either); after a close it takes nothing.
WriteDone ==
  /\ writer = "write" /\ ~closed
  /\ writer' = "select"
  /\ UNCHANGED <<limited, queue, closed, size, left, readerVars, bucketVars>>

\* Faulty variant: the write goroutine returns and closes nothing.
WriteFailsSilently ==
  /\ writer = "write"
  /\ writer' = "ended"
  /\ UNCHANGED <<limited, queue, closed, size, left, readerVars, bucketVars>>

\* The network fails, the socket is closed or writeCtx has expired.
WriteFails ==
  /\ writer = "write"
  /\ writer' = "closing"
  /\ UNCHANGED <<limited, queue, closed, size, left, readerVars, bucketVars>>

WriterCloses ==
  /\ writer = "closing"
  /\ closed' = TRUE
  /\ writer' = "ended"
  /\ UNCHANGED <<limited, queue, size, left, readerVars, bucketVars>>

-----------------------------------------------------------------------------
(* run, the goroutine that reads: it answers registration, heartbeats,     *)
(* codes and links by conn.Write with the server's context.                *)

\* A message whose handler answers directly.
HandleAnswered ==
  /\ reader = "read"
  /\ reader' = "lock"
  /\ UNCHANGED <<limited, queue, closed, registered, writer, size, left, bucketVars>>

\* The same for a registration, after it entered the relay's clients.
HandleRegister ==
  /\ reader = "read"
  /\ registered' = TRUE /\ reader' = "lock"
  /\ UNCHANGED <<limited, queue, closed, writer, size, left, bucketVars>>

ReaderLocks ==
  /\ reader = "lock" /\ writer # "write"
  /\ reader' = "reply"
  /\ UNCHANGED <<limited, queue, closed, registered, writer, size, left, bucketVars>>

\* The peer takes the answer: it may never do so, and there is no deadline.
ReplyDone ==
  /\ reader = "reply" /\ ~closed
  /\ reader' = "read"
  /\ UNCHANGED <<limited, queue, closed, registered, writer, size, left, bucketVars>>

\* The network fails or the socket is closed: run queues an error for its
\* peer, if there is room, and reads on.
ReplyFails ==
  /\ reader = "reply"
  /\ reader' = "read"
  /\ \/ Len(queue) < QueueCap /\ \E n \in Sizes : queue' = Append(queue, n)
     \/ UNCHANGED queue
  /\ UNCHANGED <<limited, closed, registered, writer, size, left, bucketVars>>

\* Read fails: run returns by close().
ReaderEnds ==
  /\ reader = "read"
  /\ closed' = TRUE /\ reader' = "ended"
  /\ UNCHANGED <<limited, queue, registered, writer, size, left, bucketVars>>

-----------------------------------------------------------------------------
(* close() by others                                                       *)

\* Faulty variant: the reaper takes a connection that waits to answer for a
\* busy one.
ReapReadersOnly ==
  /\ registered /\ reader = "read" /\ ~closed
  /\ closed' = TRUE
  /\ UNCHANGED <<limited, queue, readerVars, writer, size, left, bucketVars>>

\* closeIdleClients finds a registered connection that has read nothing for
\* IdleTimeout, because its reader does not get rid of an answer.
Reap ==
  /\ registered /\ reader \in {"lock", "reply"} /\ ~closed
  /\ closed' = TRUE
  /\ UNCHANGED <<limited, queue, readerVars, writer, size, left, bucketVars>>

\* A peer that sends nothing is reaped, a device that registers again evicts.
OtherCloses ==
  /\ ~closed
  /\ closed' = TRUE
  /\ UNCHANGED <<limited, queue, readerVars, writer, size, left, bucketVars>>

-----------------------------------------------------------------------------
(* BandwidthLimiter.Wait and reserveDelay                                  *)

Available == Least(Burst, tokens + since)

\* Faulty variant: the time since the last fill is counted again and again.
ReserveKeepsFill ==
  /\ writer = "reserve"
  /\ IF Available >= size
     THEN /\ tokens' = Available - size /\ writer' = "lock"
          /\ excess' = excess + size /\ UNCHANGED wake
     ELSE /\ tokens' = 0 /\ wake' = size - Available /\ writer' = "timer"
          /\ UNCHANGED excess
  /\ late' = 0
  /\ UNCHANGED <<limited, queue, closed, readerVars, size, left, since>>

\* Enough tokens: take them.  Too few: what there is is thrown away, and the
\* timer is set for what was missing.
Reserve ==
  /\ writer = "reserve"
  /\ since' = 0
  /\ IF Available >= size
     THEN /\ tokens' = Available - size /\ writer' = "lock"
          /\ excess' = excess + size /\ UNCHANGED wake
     ELSE /\ tokens' = 0 /\ wake' = size - Available /\ writer' = "timer"
          /\ UNCHANGED excess
  /\ late' = 0
  /\ UNCHANGED <<limited, queue, closed, readerVars, size, left>>

TimerFires ==
  /\ writer = "timer" /\ wake = 0
  /\ writer' = "reserve"
  /\ UNCHANGED <<limited, queue, closed, size, left, readerVars, bucketVars>>

\* Wait returns writeCtx's error, and writeLoop returns.
WaitExpires ==
  /\ writer = "timer" /\ left = 0
  /\ writer' = "ended"
  /\ UNCHANGED <<limited, queue, closed, size, left, readerVars, bucketVars>>

-----------------------------------------------------------------------------
\* Time passes while the writer waits: never past an expired writeCtx, and
\* at most Late ticks past a timer.
Tick ==
  /\ writer \in {"timer", "write"} => left > 0
  /\ writer = "timer" /\ wake = 0 => late < Late
  /\ writer \notin {"reserve", "closing"}
  /\ left' = IF left > 0 THEN left - 1 ELSE 0
  /\ since' = Least(Burst, since + 1)
  /\ wake' = IF wake > 0 THEN wake - 1 ELSE 0
  /\ late' = IF writer = "timer" /\ wake = 0 THEN late + 1 ELSE late
  /\ excess' = IF excess > 0 THEN excess - 1 ELSE 0
  /\ UNCHANGED <<limited, queue, closed, readerVars, writer, size, tokens>>

WriterNext ==
  \/ TakeMessage \/ SeeClosed \/ WriterLocks \/ WriteDone \/ WriteFails
  \/ WriterCloses \/ Reserve \/ TimerFires \/ WaitExpires

ReaderNext ==
  \/ HandleAnswered \/ HandleRegister \/ ReaderLocks \/ ReplyDone \/ ReplyFails
  \/ ReaderEnds

Next ==
  \/ WriterNext \/ ReaderNext \/ Reap \/ OtherCloses \/ Tick
  \/ \E n \in Sizes : TrySend(n)

Spec == Init /\ [][Next]_vars

\* The write goroutine runs, timers fire and time passes; sync.Mutex hands
\* itself to one that has waited long; the reaper runs.  Nothing is asked of
\* the reader: its write to a peer that does not read may never return.
FairSpec ==
  /\ Spec
  /\ WF_vars(WriterNext) /\ SF_vars(WriterLocks) /\ WF_vars(Tick) /\ WF_vars(Reap)

-----------------------------------------------------------------------------
(* Properties                                                              *)

\* However timers and refills interleave, the messages let through in any
\* stretch of time exceed its length by at most the burst: the connection
\* never gets more than its bandwidth (limiter.go:50-70).
WithinBandwidth == limited => excess + Available <= Burst

\* While a connection without limit is open its writer runs (with a limit,
\* WaitExpires leaves it without one): a handler's trySend never
\* fills the queue of a connection that nobody will write to any more
\* (client.go:63-101).
OpenHasWriter == ~limited /\ writer = "ended" => closed

\* A full queue of a registered connection does not stay full: it loses a
\* message to the socket, or the connection is closed.  When the reader holds
\* the transport's mutex in a write that its peer does not take, the ten
\* seconds of the write goroutine do not bound that, and only the reaper,
\* which sees registered connections alone, ends it (client.go:63-88,
\* transport/conn.go:122-139, server.go:208-225).
FullQueueMoves ==
  ~limited /\ registered /\ Len(queue) = QueueCap ~> (Len(queue) < QueueCap \/ closed)
=============================================================================
