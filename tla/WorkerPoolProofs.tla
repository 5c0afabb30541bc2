-------------------------- MODULE WorkerPoolProofs --------------------------
(***************************************************************************)
(* Proofs about WorkerPool, for every number of goroutines, requests and   *)
(* connections: the WaitGroup counts exactly what is under way, so that    *)
(* the shutdown ends neither early nor with a negative counter, and a      *)
(* function is run for exactly the requests that were acked.               *)
(*                                                                         *)
(* The count changes with the sets of requests only if a request is in one *)
(* place at a time: this is what IInv adds.                                *)
(***************************************************************************)
EXTENDS WorkerPool, FiniteSetTheorems, TLAPS

HandledStages == {"acking", "invoking", "replying", "failing"} \cup Ended

\* The channel holds each request once, and nobody has advanced it.
QueueOK ==
  /\ \A n \in 1 .. Len(queue) : stage[queue[n]] = "queued"
  /\ \A m, n \in 1 .. Len(queue) : queue[m] = queue[n] => m = n

\* A request is in the hands of one goroutine, which has taken it.
WorkersOK ==
  /\ \A w \in Workers : worker[w] # None => stage[worker[w]] \in HandledStages
  /\ \A v, w \in Workers : worker[v] # None /\ worker[v] = worker[w] => v = w

AddingOK == adding # None => stage[adding] = "adding"

IInv ==
  /\ TypeOK /\ QueueOK /\ WorkersOK /\ AddingOK
  /\ CountIsExact /\ WaitIsExact /\ RunsIffAcked

\* The requests the WaitGroup has to count.
Underway == Accepted \cup Held

USE WorkersAssumption, RequestsAssumption, MaxConnsAssumption

\* They are finitely many.
LEMMA UnderwayFinite == IsFiniteSet(Underway)
BY FS_Subset DEF Underway, Accepted, Held

\* They are finitely many after a step, too.
LEMMA UnderwayFiniteNext == IsFiniteSet(Underway')
BY FS_Subset DEF Underway, Accepted, Held

\* The count stays exact when neither it nor the set changes.
LEMMA CountKept ==
  ASSUME CountIsExact, inProgress' = inProgress, Underway' = Underway
  PROVE  CountIsExact'
BY DEF CountIsExact, Underway

\* Before the first connection nothing is under way.
LEMMA InitIInv == Init => IInv
<1> SUFFICES ASSUME Init PROVE IInv
  OBVIOUS
<1>1. TypeOK
  <2>1. queue \in Seq(Requests) /\ inProgress \in Nat
    BY DEF Init
  <2>2. cur \in 0 .. MaxConns /\ ws \in [Requests -> 0 .. MaxConns]
    BY DEF Init
  <2> QED BY <2>1, <2>2 DEF Init, TypeOK, Stages, ReaderStates
<1>2. QueueOK /\ WorkersOK /\ AddingOK
  BY DEF Init, QueueOK, WorkersOK, AddingOK
<1>3. Underway = {}
  BY DEF Init, Underway, Accepted, Held, InFlight
<1>4. CountIsExact
  BY <1>3, FS_EmptySet DEF Init, CountIsExact, Underway
<1>5. WaitIsExact /\ RunsIffAcked
  BY DEF Init, WaitIsExact, RunsIffAcked
<1> QED BY <1>1, <1>2, <1>4, <1>5 DEF IInv

\* A goroutine takes the request at the head of the channel.
LEMMA TakeIInv == ASSUME IInv, NEW w \in Workers, Take(w) PROVE IInv'
<1> USE DEF IInv
<1> DEFINE r == Head(queue)
<1>1. /\ queue \in Seq(Requests)
      /\ queue # <<>>
      /\ queue' = Tail(queue)
      /\ worker[w] = None
      /\ worker' = [worker EXCEPT ![w] = r]
      /\ stage' = [stage EXCEPT ![r] = "acking"]
      /\ UNCHANGED <<inProgress, stopped, ws, acked, connection, contexts>>
  BY DEF Take, TypeOK, Reach
<1>2. r \in Requests /\ r = queue[1] /\ stage[r] = "queued" /\ r # None
  BY <1>1 DEF QueueOK, TypeOK
<1>3. TypeOK'
  BY <1>1, <1>2 DEF TypeOK, Stages, InFlight, connection, contexts
<1>4. QueueOK'
  <2>1. /\ Len(queue') = Len(queue) - 1
        /\ \A n \in 1 .. Len(queue') : queue'[n] = queue[n + 1]
    BY <1>1
  <2>2. \A n \in 1 .. Len(queue') : n + 1 \in 1 .. Len(queue) /\ n + 1 # 1
    BY <1>1, <2>1
  <2>3. \A n \in 1 .. Len(queue') : queue'[n] # r /\ queue'[n] \in Requests
    BY <1>1, <1>2, <2>1, <2>2 DEF QueueOK
  <2>4. \A n \in 1 .. Len(queue') : stage'[queue'[n]] = "queued"
    BY <1>1, <2>1, <2>2, <2>3 DEF QueueOK, TypeOK
  <2>5. ASSUME NEW m \in 1 .. Len(queue'), NEW n \in 1 .. Len(queue'),
               queue'[m] = queue'[n]
        PROVE  m = n
    <3>1. queue[m + 1] = queue[n + 1]
      BY <2>1, <2>5
    <3>2. m + 1 = n + 1
      BY <2>2, <3>1 DEF QueueOK
    <3> QED BY <3>2
  <2> QED BY <2>4, <2>5 DEF QueueOK
<1>5. \A v \in Workers : worker[v] # r
  BY <1>2 DEF WorkersOK, HandledStages, Ended
<1>6. WorkersOK'
  BY <1>1, <1>2, <1>5 DEF WorkersOK, HandledStages, TypeOK
<1>7. AddingOK'
  BY <1>1, <1>2 DEF AddingOK, connection, TypeOK
<1>8. CountIsExact'
  <2>1. Underway' = Underway
    BY <1>1, <1>2 DEF Underway, Accepted, Held, TypeOK, InFlight
  <2> QED BY <1>1, <2>1, CountKept
<1>9. WaitIsExact' /\ RunsIffAcked'
  BY <1>1, <1>2 DEF WaitIsExact, RunsIffAcked, TypeOK, connection, Ended
<1> QED BY <1>3, <1>4, <1>6, <1>7, <1>8, <1>9

\* A goroutine is done with its request, which nobody else holds.
LEMMA DoneIInv == ASSUME IInv, NEW w \in Workers, Done(w) PROVE IInv'
<1> USE DEF IInv
<1> DEFINE r == worker[w]
<1>1. /\ r # None
      /\ stage[r] \in Ended
      /\ worker' = [worker EXCEPT ![w] = None]
      /\ inProgress' = inProgress - 1
      /\ UNCHANGED <<queue, stopped, requests, connection, contexts>>
  BY DEF Done
<1>2. r \in Requests
  BY <1>1 DEF TypeOK
<1>3. r \in Underway /\ Underway' = Underway \ {r}
  <2>1. r \in Held /\ r \notin Accepted
    BY <1>1, <1>2 DEF Held, Accepted, Ended, InFlight
  <2>2. Accepted' = Accepted
    BY <1>1 DEF Accepted, requests
  <2>3. Held' = Held \ {r}
    BY <1>1 DEF Held, WorkersOK, TypeOK
  <2> QED BY <2>1, <2>2, <2>3 DEF Underway
<1>4. /\ Cardinality(Underway') = Cardinality(Underway) - 1
      /\ Cardinality(Underway) \in Nat /\ Cardinality(Underway') \in Nat
  BY <1>3, UnderwayFinite, UnderwayFiniteNext, FS_RemoveElement,
     FS_CardinalityType
<1>5. CountIsExact' /\ inProgress' \in Nat
  BY <1>1, <1>4 DEF CountIsExact, Underway
<1>6. TypeOK'
  BY <1>1, <1>5 DEF TypeOK, requests, connection, contexts
<1>7. QueueOK' /\ AddingOK' /\ WaitIsExact' /\ RunsIffAcked'
  BY <1>1 DEF QueueOK, AddingOK, WaitIsExact, RunsIffAcked, requests, connection
<1>8. WorkersOK'
  BY <1>1 DEF WorkersOK, TypeOK, requests
<1> QED BY <1>5, <1>6, <1>7, <1>8

\* A goroutine advances the request in its hands.
LEMMA HandleIInv ==
  ASSUME IInv, NEW w \in Workers, NEW s \in HandledStages,
         worker[w] # None,
         stage[worker[w]] \in InFlight,
         stage' = [stage EXCEPT ![worker[w]] = s],
         acked' \subseteq Requests,
         UNCHANGED <<pool, ws, connection, contexts>>,
         RunsIffAcked'
  PROVE  IInv'
<1> USE DEF IInv
<1> DEFINE r == worker[w]
<1>1. r \in Requests /\ stage[r] \in HandledStages
  BY DEF TypeOK, WorkersOK
<1>2. TypeOK'
  BY <1>1 DEF TypeOK, HandledStages, Stages, InFlight, pool, connection, contexts
<1>3. QueueOK'
  <2>1. \A n \in 1 .. Len(queue) : queue[n] # r /\ queue[n] \in Requests
    BY <1>1 DEF QueueOK, HandledStages, Ended, TypeOK
  <2> QED BY <2>1 DEF QueueOK, TypeOK, pool
<1>4. WorkersOK'
  BY <1>1 DEF WorkersOK, TypeOK, pool
<1>5. AddingOK'
  <2>1. adding # r
    BY <1>1 DEF AddingOK, HandledStages, Ended
  <2> QED BY <1>1, <2>1 DEF AddingOK, TypeOK, connection
<1>6. CountIsExact'
  <2>1. Held' = Held /\ r \in Held
    BY <1>1 DEF Held, pool
  <2>2. Accepted' \cup {r} = Accepted \cup {r}
    BY <1>1 DEF Accepted, TypeOK
  <2>3. Underway' = Underway
    BY <2>1, <2>2 DEF Underway
  <2> QED BY <2>3, CountKept DEF pool
<1>7. WaitIsExact'
  BY <1>1 DEF WaitIsExact, TypeOK, connection, InFlight, Ended
<1> QED BY <1>2, <1>3, <1>4, <1>5, <1>6, <1>7

\* The steps of processExecutorRequest.
LEMMA WorkIInv == ASSUME IInv, NEW w \in Workers, work(w) PROVE IInv'
<1> USE DEF IInv
<1>1. CASE Take(w)
  BY <1>1, TakeIInv
<1>2. CASE Done(w)
  BY <1>2, DoneIInv
<1> DEFINE r == worker[w]
<1>3. CASE Ack(w)
  <2>1. r \in Requests /\ r # None /\ stage[r] = "acking"
    BY <1>3 DEF Ack, Handles, TypeOK
  <2>2. /\ stage' = [stage EXCEPT ![r] = "invoking"]
        /\ acked' = acked \cup {r}
        /\ UNCHANGED <<pool, ws, connection, contexts>>
    BY <1>3 DEF Ack, Reach
  <2>3. RunsIffAcked'
    BY <2>1, <2>2 DEF RunsIffAcked, TypeOK
  <2>4. acked' \subseteq Requests
    BY <2>1, <2>2 DEF TypeOK
  <2> QED BY <2>1, <2>2, <2>3, <2>4, HandleIInv DEF HandledStages, InFlight
<1>4. CASE Refuse(w)
  <2>1. r \in Requests /\ r # None /\ stage[r] = "acking"
    BY <1>4 DEF Refuse, Handles, TypeOK
  <2>2. /\ stage' = [stage EXCEPT ![r] = "refused"]
        /\ UNCHANGED <<pool, ws, acked, connection, contexts>>
    BY <1>4 DEF Refuse, Reach
  <2>3. RunsIffAcked' /\ acked' \subseteq Requests
    BY <2>1, <2>2 DEF RunsIffAcked, TypeOK
  <2> QED BY <2>1, <2>2, <2>3, HandleIInv DEF HandledStages, InFlight, Ended
<1>5. CASE InvokeUnencodable(w) \/ Invoke(w) \/ Reply(w) \/ ReplyFails(w)
           \/ BufferReply(w)
  <2>1. /\ r \in Requests /\ r # None
        /\ stage[r] \in {"invoking", "replying", "failing"}
    BY <1>5 DEF InvokeUnencodable, Invoke, Reply, ReplyFails, BufferReply,
                Handles, TypeOK
  <2>2. PICK s \in {"replying", "failing", "sent", "buffered", "unanswered"} :
          /\ stage' = [stage EXCEPT ![r] = s]
          /\ UNCHANGED <<pool, ws, acked, connection, contexts>>
    BY <1>5 DEF InvokeUnencodable, Invoke, Reply, ReplyFails, BufferReply, Reach
  <2>3. RunsIffAcked' /\ acked' \subseteq Requests
    BY <2>1, <2>2 DEF RunsIffAcked, TypeOK
  <2> QED BY <2>1, <2>2, <2>3, HandleIInv DEF HandledStages, InFlight, Ended
<1> QED BY <1>1, <1>2, <1>3, <1>4, <1>5 DEF work

\* A flush changes only what is buffered, which is not under way.
LEMMA FlushIInv ==
  ASSUME IInv, stage' = Flushed \/ stage' = stage,
         TypeOK',
         UNCHANGED <<pool, ws, acked, adding>>,
         reader' # "done" \/ reader = "done" \/ inProgress = 0
  PROVE  IInv'
<1> USE DEF IInv
<1>1. \A r \in Requests :
        \/ stage'[r] = stage[r]
        \/ stage[r] = "buffered" /\ stage'[r] = "flushed"
  BY DEF Flushed, Buffered
<1>2. QueueOK'
  BY <1>1 DEF QueueOK, TypeOK, pool
<1>3. WorkersOK'
  BY <1>1 DEF WorkersOK, TypeOK, pool, HandledStages, Ended
<1>4. AddingOK'
  BY <1>1 DEF AddingOK, TypeOK
<1>5. Underway' = Underway
  <2>1. Accepted' = Accepted
    BY <1>1 DEF Accepted, InFlight
  <2> QED BY <2>1 DEF Underway, Held, pool
<1>6. CountIsExact'
  BY <1>5, CountKept DEF pool
<1>7. WaitIsExact'
  <2>1. inProgress = 0 => Underway = {}
    BY UnderwayFinite, FS_EmptySet DEF CountIsExact, Underway
  <2>2. inProgress = 0 => \A r \in Requests : stage[r] \in {"gateway"} \cup Ended
    BY <2>1 DEF Underway, Accepted, TypeOK, Stages
  <2> QED BY <1>1, <2>2 DEF WaitIsExact, Ended
<1>8. RunsIffAcked'
  BY <1>1 DEF RunsIffAcked
<1> QED BY <1>2, <1>3, <1>4, <1>6, <1>7, <1>8

\* The read loop counts a request, then sends it to the channel.
LEMMA ReadIInv ==
  ASSUME IInv, NEW r \in Requests, ReadRequest(r) PROVE IInv'
<1> USE DEF IInv
<1>1. /\ stage[r] = "gateway"
      /\ stage' = [stage EXCEPT ![r] = "adding"]
      /\ adding' = r
      /\ inProgress' = inProgress + 1
      /\ reader' = "adding"
      /\ ws' = [ws EXCEPT ![r] = cur]
      /\ UNCHANGED <<queue, worker, stopped, acked, cur, socket, contexts>>
  BY DEF ReadRequest, Add, Reach
<1>2. TypeOK'
  BY <1>1 DEF TypeOK, Stages, InFlight, ReaderStates, contexts
<1>3. QueueOK' /\ AddingOK'
  BY <1>1 DEF QueueOK, AddingOK, TypeOK
<1>4. \A w \in Workers : worker[w] # r
  BY <1>1 DEF WorkersOK, HandledStages, Ended
<1>5. WorkersOK'
  BY <1>1, <1>4 DEF WorkersOK, TypeOK
<1>6. r \notin Underway /\ Underway' = Underway \cup {r}
  BY <1>1, <1>4 DEF Underway, Accepted, Held, InFlight, TypeOK
<1>7. CountIsExact'
  <2>1. Cardinality(Underway') = Cardinality(Underway) + 1
    BY <1>6, UnderwayFinite, FS_AddElement
  <2> QED BY <1>1, <2>1 DEF CountIsExact, Underway
<1>8. WaitIsExact' /\ RunsIffAcked'
  BY <1>1 DEF WaitIsExact, RunsIffAcked, TypeOK
<1> QED BY <1>2, <1>3, <1>5, <1>7, <1>8

\* The channel has room and Add returns.
LEMMA AddedIInv == ASSUME IInv, Added PROVE IInv'
<1> USE DEF IInv
<1> DEFINE r == adding
<1>1. /\ r \in Requests /\ stage[r] = "adding"
      /\ queue' = Append(queue, r)
      /\ stage' = [stage EXCEPT ![r] = "queued"]
      /\ adding' = None
      /\ reader' = "reading"
      /\ UNCHANGED <<inProgress, worker, stopped, ws, acked, cur, socket, contexts>>
  BY DEF Added, Send, Reach, AddingOK, TypeOK
<1>2. TypeOK'
  BY <1>1 DEF TypeOK, Stages, InFlight, ReaderStates, contexts
<1>3. QueueOK'
  <2>1. /\ Len(queue') = Len(queue) + 1
        /\ \A n \in 1 .. Len(queue) : queue'[n] = queue[n]
        /\ queue'[Len(queue) + 1] = r
        /\ Len(queue) \in Nat
    BY <1>1 DEF TypeOK
  <2>2. \A n \in 1 .. Len(queue) : queue[n] # r /\ queue[n] \in Requests
    BY <1>1 DEF QueueOK, TypeOK
  <2>3. \A n \in 1 .. Len(queue') : stage'[queue'[n]] = "queued"
    BY <1>1, <2>1, <2>2 DEF QueueOK, TypeOK
  <2>4. \A m, n \in 1 .. Len(queue') : queue'[m] = queue'[n] => m = n
    BY <2>1, <2>2 DEF QueueOK
  <2> QED BY <2>3, <2>4 DEF QueueOK
<1>4. WorkersOK'
  BY <1>1 DEF WorkersOK, TypeOK, HandledStages, Ended
<1>5. Underway' = Underway
  BY <1>1 DEF Underway, Accepted, Held, InFlight, TypeOK
<1>6. CountIsExact'
  BY <1>1, <1>5, CountKept
<1>7. AddingOK' /\ WaitIsExact' /\ RunsIffAcked'
  BY <1>1 DEF AddingOK, WaitIsExact, RunsIffAcked, TypeOK
<1> QED BY <1>2, <1>3, <1>4, <1>6, <1>7

\* The other steps leave requests and pool alone, but for a flush.
LEMMA OthersIInv ==
  ASSUME IInv,
         \/ Establish \/ FlushBeforeReading \/ FlushBeforeReadingFails
         \/ GatewayDrains \/ DrainTimesOut \/ \E c \in Conns : CloseDrained(c)
         \/ ReadFails \/ ReadCancelled \/ Pause \/ Wait
         \/ CallerCtxDone \/ Close \/ CloseReturns
  PROVE  IInv'
<1>1. stage' = Flushed \/ stage' = stage
  BY DEF Establish, FlushBeforeReading, FlushBeforeReadingFails, GatewayDrains,
         DrainTimesOut, CloseDrained, ReadFails, ReadCancelled, Pause, Wait,
         CallerCtxDone, Close, CloseReturns, requests
<1>2. UNCHANGED <<pool, ws, acked, adding>>
  BY DEF Establish, FlushBeforeReading, FlushBeforeReadingFails, GatewayDrains,
         DrainTimesOut, CloseDrained, ReadFails, ReadCancelled, Pause, Wait,
         CallerCtxDone, Close, CloseReturns, requests, connection
<1>3. reader' # "done" \/ reader = "done" \/ inProgress = 0
  BY DEF Establish, FlushBeforeReading, FlushBeforeReadingFails, GatewayDrains,
         DrainTimesOut, CloseDrained, ReadFails, ReadCancelled, Pause, Wait,
         CallerCtxDone, Close, CloseReturns, connection
<1>4. stage' \in [Requests -> Stages]
  BY <1>1 DEF IInv, TypeOK, Flushed, Buffered, Stages, Ended
<1>5. /\ reader' \in ReaderStates
      /\ cur' \in 0 .. MaxConns
      /\ socket' \in [Conns -> {"open", "closed"}]
  <2>1. reader' = reader \/ reader' \in ReaderStates
    BY DEF Establish, FlushBeforeReading, FlushBeforeReadingFails, GatewayDrains,
           DrainTimesOut, CloseDrained, ReadFails, ReadCancelled, Pause, Wait,
           CallerCtxDone, Close, CloseReturns, connection, ReaderStates
  <2>2. cur' = cur \/ (cur < MaxConns /\ cur' = cur + 1)
    BY DEF Establish, FlushBeforeReading, FlushBeforeReadingFails, GatewayDrains,
           DrainTimesOut, CloseDrained, ReadFails, ReadCancelled, Pause, Wait,
           CallerCtxDone, Close, CloseReturns, connection
  <2>3. \/ socket' = socket
        \/ \E c \in 0 .. MaxConns + 1, b \in {"open", "closed"} :
             socket' = [socket EXCEPT ![c] = b]
    <3>1. cur \in 0 .. MaxConns /\ cur + 1 \in 0 .. MaxConns + 1
      BY DEF IInv, TypeOK
    <3> QED BY <3>1 DEF Establish, FlushBeforeReading, FlushBeforeReadingFails, GatewayDrains,
             DrainTimesOut, CloseDrained, ReadFails, ReadCancelled, Pause, Wait,
             CallerCtxDone, Close, CloseReturns, connection, CloseSocket, Conns
  <2>4. reader' \in ReaderStates
    BY <2>1 DEF IInv, TypeOK
  <2>5. cur' \in 0 .. MaxConns
    BY <2>2 DEF IInv, TypeOK
  <2>6. socket' \in [Conns -> {"open", "closed"}]
    BY <2>3 DEF IInv, TypeOK
  <2> QED BY <2>4, <2>5, <2>6
<1>6. callerDone' \in BOOLEAN /\ workerDone' \in BOOLEAN /\ closed' \in BOOLEAN
  BY DEF Establish, FlushBeforeReading, FlushBeforeReadingFails, GatewayDrains,
         DrainTimesOut, CloseDrained, ReadFails, ReadCancelled, Pause, Wait,
         CallerCtxDone, Close, CloseReturns, contexts, IInv, TypeOK
<1>7. TypeOK'
  BY <1>2, <1>4, <1>5, <1>6 DEF IInv, TypeOK, pool
<1> QED BY <1>1, <1>2, <1>3, <1>7, FlushIInv

\* A goroutine that stops holds nothing.
LEMMA StopIInv == ASSUME IInv, NEW w \in Workers, Stop(w) PROVE IInv'
<1>1. /\ stopped' \subseteq Workers
      /\ UNCHANGED <<queue, inProgress, worker, requests, connection, contexts>>
  BY DEF Stop, IInv, TypeOK
<1> USE <1>1 DEF IInv, requests, connection, contexts
<1>2. TypeOK'
  BY DEF TypeOK
<1>3. QueueOK'
  BY DEF QueueOK
<1>4. WorkersOK'
  BY DEF WorkersOK
<1>5. AddingOK'
  BY DEF AddingOK
<1>6. CountIsExact'
  BY DEF CountIsExact, Accepted, Held
<1>7. WaitIsExact' /\ RunsIffAcked'
  BY DEF WaitIsExact, RunsIffAcked
<1> QED BY <1>2, <1>3, <1>4, <1>5, <1>6, <1>7

\* Every reachable state satisfies the invariant.
THEOREM Invariance == Spec => []IInv
<1>1. IInv /\ [Next]_vars => IInv'
  <2> SUFFICES ASSUME IInv, [Next]_vars PROVE IInv'
    OBVIOUS
  <2>1. CASE Next
    BY <2>1, WorkIInv, StopIInv, ReadIInv, AddedIInv, OthersIInv
       DEF Next, handleConnection
  <2>2. CASE UNCHANGED vars
    BY <2>2 DEF vars, pool, requests, connection, contexts, IInv, TypeOK,
                QueueOK, WorkersOK, AddingOK, CountIsExact, Accepted, Held,
                WaitIsExact, RunsIffAcked
  <2> QED BY <2>1, <2>2
<1> QED BY InitIInv, <1>1, PTL DEF Spec

\* The state of the pool is well formed; in particular the counter of the
\* WaitGroup never becomes negative, which would panic.
THEOREM TypeCorrect == Spec => []TypeOK
BY Invariance, PTL DEF IInv

\* The WaitGroup counts exactly the requests that are under way.
THEOREM CountExact == Spec => []CountIsExact
BY Invariance, PTL DEF IInv

\* When the wait of a shutdown is over, every request that was read has ended.
THEOREM WaitExact == Spec => []WaitIsExact
BY Invariance, PTL DEF IInv

\* A function is run for exactly the requests whose ack was written.
THEOREM RunsAcked == Spec => []RunsIffAcked
BY Invariance, PTL DEF IInv
=============================================================================
