-------------------------- MODULE SendPath_proofs --------------------------
(***************************************************************************)
(* For every queue capacity, burst, deadline and lateness of timers: the   *)
(* send path of a connection keeps its types, in particular the bound of   *)
(* its queue, never lets through more than its bandwidth, and is served    *)
(* while it is open and not limited.  The bandwidth bound is inductive     *)
(* relative to the types.                                                  *)
(***************************************************************************)
EXTENDS SendPath, TLAPS

LEMMA SendPathTypeInit == Init => TypeOK
  <1>1. <<>> \in Seq(Sizes) /\ Len(<<>>) = 0
    OBVIOUS
  <1> SUFFICES ASSUME Init PROVE TypeOK
    OBVIOUS
  <1>2. queue \in Seq(Sizes) /\ Len(queue) <= QueueCap
    BY <1>1, SendPathAssumption DEF Init
  <1>3. size \in Nat /\ left \in 0..Deadline /\ wake \in Nat /\ late \in 0..Late /\ excess \in Nat
    BY SendPathAssumption DEF Init
  <1>4. tokens \in 0..Burst /\ since \in 0..Burst
    BY SendPathAssumption DEF Init
  <1>5. limited \in BOOLEAN
    BY SendPathAssumption DEF Init
  <1> QED BY <1>2, <1>3, <1>4, <1>5 DEF Init, TypeOK

LEMMA SendPathTypeStep == TypeOK /\ [Next]_vars => TypeOK'
  <1> SUFFICES ASSUME TypeOK, [Next]_vars PROVE TypeOK'
    OBVIOUS
  <1> USE SendPathAssumption
  <1>1. ASSUME NEW n \in Sizes, TrySend(n) PROVE TypeOK'
    <2>1. queue' \in Seq(Sizes) /\ Len(queue') = Len(queue) + 1
      BY <1>1 DEF TrySend, TypeOK
    <2> QED BY <1>1, <2>1 DEF TrySend, readerVars, bucketVars, TypeOK
  <1>2. CASE TakeMessage
    <2>1. queue' \in Seq(Sizes) /\ Len(queue') <= QueueCap /\ size' \in Sizes
      BY <1>2 DEF TakeMessage, TypeOK
    <2> QED BY <1>2, <2>1 DEF TakeMessage, readerVars, bucketVars, TypeOK
  <1>3. CASE Reserve
    <2>1. Available \in 0..Burst
      BY DEF Available, Least, TypeOK
    <2> QED BY <1>3, <2>1 DEF Reserve, readerVars, TypeOK
  <1>4. CASE Tick
    <2>1. since' \in 0..Burst /\ left' \in 0..Deadline
      BY <1>4 DEF Tick, Least, TypeOK
    <2>2. wake' \in Nat /\ excess' \in Nat
      BY <1>4 DEF Tick, TypeOK
    <2>3. late' \in 0..Late
      BY <1>4 DEF Tick, TypeOK
    <2> QED BY <1>4, <2>1, <2>2, <2>3 DEF Tick, readerVars, TypeOK
  <1>5. CASE SeeClosed \/ WriterLocks \/ WriteDone \/ WriteFails \/ WriterCloses \/ TimerFires
             \/ WaitExpires \/ OtherCloses
    BY <1>5 DEF SeeClosed, WriterLocks, WriteDone, WriteFails, WriterCloses, TimerFires,
                WaitExpires, OtherCloses, readerVars, bucketVars, TypeOK
  <1>6. CASE ReplyFails
    <2>1. queue' \in Seq(Sizes) /\ Len(queue') <= QueueCap
      <3>1. ASSUME NEW n \in Sizes, Len(queue) < QueueCap, queue' = Append(queue, n)
            PROVE  queue' \in Seq(Sizes) /\ Len(queue') = Len(queue) + 1
        BY <3>1 DEF TypeOK
      <3> QED BY <1>6, <3>1 DEF ReplyFails, TypeOK
    <2> QED BY <1>6, <2>1 DEF ReplyFails, readerVars, bucketVars, TypeOK
  <1>7. CASE HandleAnswered \/ HandleRegister \/ ReaderLocks \/ ReplyDone
             \/ ReaderEnds \/ Reap
    BY <1>7 DEF HandleAnswered, HandleRegister, ReaderLocks, ReplyDone, ReaderEnds, Reap,
                readerVars, bucketVars, TypeOK
  <1>8. CASE UNCHANGED vars
    BY <1>8 DEF vars, readerVars, bucketVars, TypeOK
  <1> QED BY <1>1, <1>2, <1>3, <1>4, <1>5, <1>6, <1>7, <1>8 DEF Next, WriterNext, ReaderNext

\* Every variable of the send path keeps its type; the queue that handlers
\* fill and the writer empties never holds more than the channel's capacity
\* (client.go:30-40, 63-101).
THEOREM SendPathTypes == Spec => []TypeOK
  BY SendPathTypeInit, SendPathTypeStep, PTL DEF Spec

-----------------------------------------------------------------------------
LEMMA BandwidthStep == TypeOK /\ WithinBandwidth /\ [Next]_vars => WithinBandwidth'
  <1>0. [Next]_vars => UNCHANGED limited
    BY DEF Next, WriterNext, ReaderNext, TrySend, TakeMessage, SeeClosed, WriterLocks,
           WriteDone, WriteFails, WriterCloses, TimerFires, WaitExpires, OtherCloses,
           Reserve, Tick, HandleAnswered, HandleRegister, ReaderLocks, ReplyDone,
           ReplyFails, ReaderEnds, Reap, vars
  <1> SUFFICES ASSUME TypeOK, WithinBandwidth, [Next]_vars, limited
               PROVE (excess + Available <= Burst)'
    BY <1>0 DEF WithinBandwidth
  <1> USE SendPathAssumption DEF Available, Least
  <1>1. excess + Available <= Burst
    BY DEF WithinBandwidth
  <1>2. CASE Reserve
    <2>1. CASE Available >= size
      <3>1. /\ tokens' = Available - size
            /\ since' = 0
            /\ excess' = excess + size
        BY <1>2, <2>1 DEF Reserve
      <3> QED BY <1>1, <2>1, <3>1 DEF TypeOK
    <2>2. CASE ~(Available >= size)
      <3>1. tokens' = 0 /\ since' = 0 /\ excess' = excess
        BY <1>2, <2>2 DEF Reserve
      <3> QED BY <1>1, <3>1 DEF TypeOK
    <2> QED BY <2>1, <2>2
  \* What the bucket gains in a tick is no more than what the excess loses.
  <1>3. CASE Tick
    <2>1. /\ since' = Least(Burst, since + 1)
          /\ tokens' = tokens
          /\ excess' = IF excess > 0 THEN excess - 1 ELSE 0
      BY <1>3 DEF Tick
    <2>2. Available' <= Available + 1 /\ Available' <= Burst /\ Available' \in Nat
      BY <2>1 DEF TypeOK
    <2> QED BY <1>1, <2>1, <2>2 DEF TypeOK
  <1>4. CASE UNCHANGED <<tokens, since, excess>>
    BY <1>1, <1>4
  <1>5. Reserve \/ Tick \/ UNCHANGED <<tokens, since, excess>>
    BY DEF Next, WriterNext, ReaderNext, TrySend, TakeMessage, SeeClosed, WriterLocks,
           WriteDone, WriteFails, WriterCloses, TimerFires, WaitExpires, OtherCloses,
           HandleAnswered, HandleRegister, ReaderLocks, ReplyDone, ReplyFails, ReaderEnds,
           Reap, vars, bucketVars
  <1> QED BY <1>2, <1>3, <1>4, <1>5

\* However refills, late timers and expired writes interleave, a limited
\* connection never gets more than its burst ahead of its bandwidth
\* (limiter.go:30-70).
THEOREM BandwidthHolds == Spec => []WithinBandwidth
  <1>1. Init => WithinBandwidth
    BY SendPathAssumption DEF Init, WithinBandwidth, Available, Least
  <1> QED BY <1>1, BandwidthStep, SendPathTypes, PTL DEF Spec

-----------------------------------------------------------------------------
\* Without a limit the writer is never with the limiter, whose expired wait
\* ends it without a close.
Served ==
  /\ ~limited => writer \notin {"reserve", "timer"}
  /\ OpenHasWriter

LEMMA ServedStep == Served /\ [Next]_vars => Served'
  <1> SUFFICES ASSUME Served, [Next]_vars PROVE Served'
    OBVIOUS
  <1> USE DEF Served, OpenHasWriter
  <1>1. CASE TakeMessage
    BY <1>1 DEF TakeMessage
  <1>2. CASE SeeClosed \/ WriterLocks \/ WriteDone \/ WriteFails \/ WriterCloses \/ OtherCloses
             \/ ReaderEnds \/ Reap
    BY <1>2 DEF SeeClosed, WriterLocks, WriteDone, WriteFails, WriterCloses, OtherCloses,
                ReaderEnds, Reap
  <1>3. CASE Reserve \/ TimerFires \/ WaitExpires
    BY <1>3 DEF Reserve, TimerFires, WaitExpires
  <1>4. CASE UNCHANGED <<limited, writer, closed>>
    BY <1>4
  <1>5. CASE \/ Tick \/ (\E n \in Sizes : TrySend(n)) \/ UNCHANGED vars
             \/ HandleAnswered \/ HandleRegister \/ ReaderLocks \/ ReplyDone \/ ReplyFails
    <2>1. UNCHANGED <<limited, writer, closed>>
      BY <1>5 DEF Tick, TrySend, HandleAnswered, HandleRegister, ReaderLocks, ReplyDone,
             ReplyFails, vars
    <2> QED BY <2>1, <1>4
  <1> HIDE DEF Served, OpenHasWriter
  <1> QED BY <1>1, <1>2, <1>3, <1>5 DEF Next, WriterNext, ReaderNext

\* In every order of messages, failing and expired writes and closes by others,
\* a connection without a limit is open only while its writer runs
\* (client.go:63-101).
THEOREM OpenConnectionsAreServed == Spec => []OpenHasWriter
  <1>1. Init => Served
    BY DEF Init, Served, OpenHasWriter
  <1>2. Served => OpenHasWriter
    BY DEF Served
  <1> QED BY <1>1, ServedStep, <1>2, PTL DEF Spec
=============================================================================
