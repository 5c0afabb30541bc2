----------------------------- MODULE WorkerPool -----------------------------
(***************************************************************************)
(* The worker pool of a connect worker (connect/worker_pool.go) with the   *)
(* goroutines around it: the read loop of the current connection, which    *)
(* adds executor requests (connection.go), the pool's goroutines, which    *)
(* ack, run and answer them (connect/invoke.go), the graceful shutdown,    *)
(* which waits for them, and Close.                                        *)
(*                                                                         *)
(* The pool outlives connections: a request keeps the socket it arrived    *)
(* on, and that socket may be closed before the request is acked or        *)
(* answered.  How a connection comes to be is the subject of ConnectLoop,  *)
(* what becomes of a reply once it is written that of MessageBuffer, what  *)
(* the function does that of Invocation.                                   *)
(***************************************************************************)
EXTENDS Naturals, Sequences, FiniteSets

CONSTANTS
  Requests,   \* GATEWAY_EXECUTOR_REQUEST messages, a redelivery is another one
  Workers,    \* the goroutines of the pool: opts.MaxConcurrency of them
  MaxConns,   \* bound on the connections established one after the other
  None        \* an idle worker, no request being added

ASSUME WorkersAssumption == IsFiniteSet(Workers) /\ Workers # {}
ASSUME RequestsAssumption == IsFiniteSet(Requests) /\ None \notin Requests
ASSUME MaxConnsAssumption == MaxConns \in Nat

VARIABLES
  queue,        \* w.workerPoolMsgs
  inProgress,   \* the counter of w.inProgress
  worker,       \* worker[w]: the request a goroutine handles, or None
  stopped,      \* goroutines of the pool that have returned
  stage,        \* stage[r]: how far a request has come
  ws,           \* ws[r]: the connection in the request's workerPoolMsg
  acked,        \* requests whose WORKER_REQUEST_ACK was written
  reader,       \* where handleConnection of the current connection is
  adding,       \* the request the read loop is adding, or None
  cur,          \* the current connection, 0 before the first
  socket,       \* socket[c]: is the websocket of connection c open?
  callerDone,   \* the context passed to Connect is done
  workerDone,   \* h.workerCtx is done: Close was called
  closed        \* Close has returned

pool == <<queue, inProgress, worker, stopped>>
requests == <<stage, ws, acked>>
connection == <<reader, adding, cur, socket>>
contexts == <<callerDone, workerDone, closed>>
vars == <<pool, requests, connection, contexts>>

Conns == 1 .. MaxConns

\* make(chan workerPoolMsg, concurrency)
Capacity == Cardinality(Workers)

(* A request is at the gateway until it is read; it is then added, waits in *)
(* the channel, and is acked, run and answered by one goroutine.  "failing" *)
(* is a reply whose write failed.  It ends sent, buffered (and then         *)
(* flushed), refused before it was run, or unanswered after it was run.     *)
InFlight == {"adding", "queued", "acking", "invoking", "replying", "failing"}
Ended == {"sent", "buffered", "flushed", "refused", "unanswered"}
Stages == {"gateway"} \cup InFlight \cup Ended

ReaderStates == {"down", "flush", "reading", "adding", "draining",
                 "pausing", "waiting", "done"}

TypeOK ==
  /\ queue \in Seq(Requests)
  /\ inProgress \in Nat
  /\ worker \in [Workers -> Requests \cup {None}]
  /\ stopped \subseteq Workers
  /\ stage \in [Requests -> Stages]
  /\ ws \in [Requests -> 0 .. MaxConns]
  /\ acked \subseteq Requests
  /\ reader \in ReaderStates
  /\ adding \in Requests \cup {None}
  /\ cur \in 0 .. MaxConns
  /\ socket \in [Conns -> {"open", "closed"}]
  /\ callerDone \in BOOLEAN
  /\ workerDone \in BOOLEAN
  /\ closed \in BOOLEAN

\* NewWorkerPool, before the first connection.
Init ==
  /\ queue = <<>>
  /\ inProgress = 0
  /\ worker = [w \in Workers |-> None]
  /\ stopped = {}
  /\ stage = [r \in Requests |-> "gateway"]
  /\ ws = [r \in Requests |-> 0]
  /\ acked = {}
  /\ reader = "down"
  /\ adding = None
  /\ cur = 0
  /\ socket = [c \in Conns |-> "closed"]
  /\ callerDone = FALSE
  /\ workerDone = FALSE
  /\ closed = FALSE

-----------------------------------------------------------------------------
(* The pool.                                                               *)

Reach(r, s) == stage' = [stage EXCEPT ![r] = s]

\* Mutant: the request is sent without being counted.
AddUncounted(r) ==
  /\ adding' = r
  /\ Reach(r, "adding")
  /\ UNCHANGED inProgress

\* Add, until it blocks: the request is counted before it is sent.
Add(r) ==
  /\ adding' = r
  /\ Reach(r, "adding")
  /\ inProgress' = inProgress + 1

\* Add returns: the channel had room for the request.
Send ==
  /\ adding # None
  /\ Len(queue) < Capacity
  /\ queue' = Append(queue, adding)
  /\ Reach(adding, "queued")
  /\ adding' = None

\* workerPool: an idle goroutine receives the next request.
Take(w) ==
  /\ w \notin stopped
  /\ worker[w] = None
  /\ queue # <<>>
  /\ worker' = [worker EXCEPT ![w] = Head(queue)]
  /\ queue' = Tail(queue)
  /\ Reach(Head(queue), "acking")
  /\ UNCHANGED <<inProgress, stopped, ws, acked, connection, contexts>>

\* Mutant: the pool's goroutines stop with the worker, when Close is called.
StopWhenClosed(w) ==
  /\ workerDone
  /\ w \notin stopped
  /\ worker[w] = None
  /\ stopped' = stopped \cup {w}
  /\ UNCHANGED <<queue, inProgress, worker, requests, connection, contexts>>

\* workerPool: an idle goroutine sees that the context of the pool is done.
Stop(w) ==
  /\ callerDone
  /\ w \notin stopped
  /\ worker[w] = None
  /\ stopped' = stopped \cup {w}
  /\ UNCHANGED <<queue, inProgress, worker, requests, connection, contexts>>

\* Mutant: an error path returns without Done.
DoneSkipped(w) ==
  /\ worker[w] # None
  /\ stage[worker[w]] \in Ended
  /\ worker' = [worker EXCEPT ![w] = None]
  /\ inProgress' = IF stage[worker[w]] = "refused" THEN inProgress
                   ELSE inProgress - 1
  /\ UNCHANGED <<queue, stopped, requests, connection, contexts>>

\* The deferred Done of processExecutorRequest.
Done(w) ==
  /\ worker[w] # None
  /\ stage[worker[w]] \in Ended
  /\ worker' = [worker EXCEPT ![w] = None]
  /\ inProgress' = inProgress - 1
  /\ UNCHANGED <<queue, stopped, requests, connection, contexts>>

-----------------------------------------------------------------------------
(* processExecutorRequest and handleInvokeMessage, whose context is        *)
(* context.Background(): they are never cancelled.                         *)

Handles(w, s) == worker[w] # None /\ stage[worker[w]] = s

SocketOpen(r) == socket[ws[r]] = "open"

\* The request cannot be decoded, or its ack cannot be written (on a closed
\* socket it never can): the function is not run.
Refuse(w) ==
  /\ Handles(w, "acking")
  /\ Reach(worker[w], "refused")
  /\ UNCHANGED <<pool, ws, acked, connection, contexts>>

\* Mutant: the request is run although its ack was not written.
AckUnwritten(w) ==
  /\ Handles(w, "acking")
  /\ Reach(worker[w], "invoking")
  /\ acked' = IF SocketOpen(worker[w]) THEN acked \cup {worker[w]} ELSE acked
  /\ UNCHANGED <<pool, ws, connection, contexts>>

\* WORKER_REQUEST_ACK is written, and only then the function is run.
Ack(w) ==
  /\ Handles(w, "acking")
  /\ SocketOpen(worker[w])
  /\ Reach(worker[w], "invoking")
  /\ acked' = acked \cup {worker[w]}
  /\ UNCHANGED <<pool, ws, connection, contexts>>

\* The function returns.  Its operations or its value cannot be encoded: the
\* goroutine returns without a reply.
InvokeUnencodable(w) ==
  /\ Handles(w, "invoking")
  /\ Reach(worker[w], "unanswered")
  /\ UNCHANGED <<pool, ws, acked, connection, contexts>>

\* The function returns, with a value, operations or an error; the reply is
\* added to the pending replies.
Invoke(w) ==
  /\ Handles(w, "invoking")
  /\ Reach(worker[w], "replying")
  /\ UNCHANGED <<pool, ws, acked, connection, contexts>>

Reply(w) ==
  /\ Handles(w, "replying")
  /\ SocketOpen(worker[w])
  /\ Reach(worker[w], "sent")
  /\ UNCHANGED <<pool, ws, acked, connection, contexts>>

\* A write may fail on any socket, and does on one that was closed.
ReplyFails(w) ==
  /\ Handles(w, "replying")
  /\ Reach(worker[w], "failing")
  /\ UNCHANGED <<pool, ws, acked, connection, contexts>>

BufferReply(w) ==
  /\ Handles(w, "failing")
  /\ Reach(worker[w], "buffered")
  /\ UNCHANGED <<pool, ws, acked, connection, contexts>>

work(w) ==
  \/ Take(w) \/ Refuse(w) \/ Ack(w) \/ InvokeUnencodable(w) \/ Invoke(w)
  \/ Reply(w) \/ ReplyFails(w) \/ BufferReply(w) \/ Done(w)

-----------------------------------------------------------------------------
(* handleConnection of the current connection.                             *)

Buffered == {r \in Requests : stage[r] = "buffered"}

\* flush: everything that is buffered when it takes the mutex is sent.
Flushed == [r \in Requests |->
              IF r \in Buffered THEN "flushed" ELSE stage[r]]

CloseSocket(c) == socket' = [socket EXCEPT ![c] = "closed"]

\* A connection completes its handshake, after a loss or while its
\* predecessor, whose gateway drains, still has its socket open.
Establish ==
  /\ reader \in {"down", "draining"}
  /\ cur < MaxConns
  /\ ~closed
  /\ cur' = cur + 1
  /\ socket' = [socket EXCEPT ![cur + 1] = "open"]
  /\ reader' = "flush"
  /\ UNCHANGED <<pool, requests, adding, contexts>>

FlushBeforeReading ==
  /\ reader = "flush"
  /\ stage' = Flushed
  /\ reader' = "reading"
  /\ UNCHANGED <<pool, ws, acked, adding, cur, socket, contexts>>

\* flush fails: the connection is given up before it was read.
FlushBeforeReadingFails ==
  /\ reader = "flush"
  /\ Buffered # {}
  /\ reader' = "down"
  /\ CloseSocket(cur)
  /\ UNCHANGED <<pool, requests, adding, cur, contexts>>

\* GATEWAY_EXECUTOR_REQUEST.  A message that has arrived may be read even
\* though the read context is done.
ReadRequest(r) ==
  /\ reader = "reading"
  /\ socket[cur] = "open"
  /\ stage[r] = "gateway"
  /\ Add(r)
  /\ ws' = [ws EXCEPT ![r] = cur]
  /\ reader' = "adding"
  /\ UNCHANGED <<queue, worker, stopped, acked, cur, socket, contexts>>

Added ==
  /\ reader = "adding"
  /\ Send
  /\ reader' = "reading"
  /\ UNCHANGED <<inProgress, worker, stopped, ws, acked, cur, socket, contexts>>

\* GATEWAY_CLOSING: the read loop ends, the old socket stays open until the
\* successor is connected or ten seconds have passed.
GatewayDrains ==
  /\ reader = "reading"
  /\ reader' = IF workerDone THEN "pausing" ELSE "draining"
  /\ UNCHANGED <<pool, requests, adding, cur, socket, contexts>>

DrainTimesOut ==
  /\ reader = "draining"
  /\ reader' = "down"
  /\ CloseSocket(cur)
  /\ UNCHANGED <<pool, requests, adding, cur, contexts>>

\* The successor is connected: handleConnection of the old connection
\* returns, and its deferred CloseNow closes the socket.
CloseDrained(c) ==
  /\ c < cur
  /\ socket[c] = "open"
  /\ CloseSocket(c)
  /\ UNCHANGED <<pool, requests, reader, adding, cur, contexts>>

\* Read fails: the connection is lost, or a heartbeat was missed.
ReadFails ==
  /\ reader = "reading"
  /\ ~workerDone
  /\ reader' = "down"
  /\ CloseSocket(cur)
  /\ UNCHANGED <<pool, requests, adding, cur, contexts>>

\* Read fails because the worker is closed.  The websocket library closes a
\* socket whose Read is cancelled; a Read that begins under a cancelled
\* context may also return at once and leave it open.
ReadCancelled ==
  /\ reader = "reading"
  /\ workerDone
  /\ reader' = "pausing"
  /\ CloseSocket(cur) \/ UNCHANGED socket
  /\ UNCHANGED <<pool, requests, adding, cur, contexts>>

\* WORKER_PAUSE is written; an error is only logged.
Pause ==
  /\ reader = "pausing"
  /\ reader' = "waiting"
  /\ UNCHANGED <<pool, requests, adding, cur, socket, contexts>>

\* Mutant: the shutdown does not wait for what is still queued.
WaitForWorkers ==
  /\ reader = "waiting"
  /\ \A w \in Workers : worker[w] = None
  /\ reader' = "done"
  /\ CloseSocket(cur)
  /\ \/ stage' = Flushed
     \/ Buffered # {} /\ UNCHANGED stage
  /\ UNCHANGED <<pool, ws, acked, adding, cur, contexts>>

\* Wait returns, the socket is closed, what is buffered is flushed; a flush
\* that fails is only logged.
Wait ==
  /\ reader = "waiting"
  /\ inProgress = 0
  /\ reader' = "done"
  /\ CloseSocket(cur)
  /\ \/ stage' = Flushed
     \/ Buffered # {} /\ UNCHANGED stage
  /\ UNCHANGED <<pool, ws, acked, adding, cur, contexts>>

-----------------------------------------------------------------------------
(* The caller.                                                             *)

\* The context that was passed to Connect ends.
CallerCtxDone ==
  /\ ~callerDone
  /\ callerDone' = TRUE
  /\ UNCHANGED <<pool, requests, connection, workerDone, closed>>

Close ==
  /\ ~workerDone
  /\ workerDone' = TRUE
  /\ UNCHANGED <<pool, requests, connection, callerDone, closed>>

\* The goroutine Close waits for has seen the end of the connection, or has
\* waited for five seconds; it flushes once more.
CloseReturns ==
  /\ workerDone
  /\ ~closed
  /\ closed' = TRUE
  /\ \/ stage' = Flushed
     \/ Buffered # {} /\ UNCHANGED stage
  /\ UNCHANGED <<pool, ws, acked, connection, callerDone, workerDone>>

-----------------------------------------------------------------------------
handleConnection ==
  \/ Establish \/ FlushBeforeReading \/ FlushBeforeReadingFails
  \/ \E r \in Requests : ReadRequest(r)
  \/ Added \/ GatewayDrains \/ DrainTimesOut
  \/ \E c \in Conns : CloseDrained(c)
  \/ ReadFails \/ ReadCancelled \/ Pause \/ Wait

Next ==
  \/ \E w \in Workers : work(w) \/ Stop(w)
  \/ handleConnection
  \/ CallerCtxDone \/ Close \/ CloseReturns

(* Fairness: goroutines that can run do run, functions return, the flush   *)
(* and the closing of sockets end.  Nothing makes the gateway send         *)
(* requests or a connection be established, read on or lost, and nobody    *)
(* has to call Close.                                                      *)
Fairness ==
  /\ \A w \in Workers : WF_vars(work(w)) /\ WF_vars(Stop(w))
  /\ WF_vars(FlushBeforeReading)
  /\ WF_vars(Added)
  /\ WF_vars(DrainTimesOut)
  /\ WF_vars(ReadCancelled)
  /\ WF_vars(Pause)
  /\ WF_vars(Wait)
  /\ WF_vars(CloseReturns)

Spec == Init /\ [][Next]_vars /\ Fairness

-----------------------------------------------------------------------------
(* Properties.                                                             *)

Accepted == {r \in Requests : stage[r] \in InFlight}
Held == {r \in Requests : \E w \in Workers : worker[w] = r}

\* The WaitGroup counts exactly the requests that are being added, wait in the
\* channel or are in the hands of a goroutine (worker_pool.go: Add before the
\* send, Done deferred to the very end).  Off by one in either direction the
\* shutdown returns too early or never.
CountIsExact == inProgress = Cardinality(Accepted \cup Held)

\* When the shutdown of a connection is over, every request that was read has
\* ended: it was answered, refused before it was run, left unanswered because
\* its value cannot be encoded, or its reply is buffered (connection.go,
\* workerPool.Wait before ws.Close and flush).
WaitIsExact ==
  reader = "done" => \A r \in Requests : stage[r] \in {"gateway"} \cup Ended

\* A function is run for exactly the requests whose ack was written
\* (connect/invoke.go, "Ack message"): the executor may hand a request that was
\* not acked to another worker, which would run it a second time.
RunsIffAcked ==
  \A r \in Requests :
    r \in acked <=> stage[r] \in {"invoking", "replying", "failing", "sent",
                                  "buffered", "flushed", "unanswered"}

\* Every request that was read is answered, buffered or refused, on whatever
\* connection and however often that is replaced, unless the context that was
\* passed to Connect ends: the goroutines of the pool stop with it.  So a full
\* channel blocks the read loop, which is in Add, only for a while.
ReadIsHandled ==
  \A r \in Requests :
    stage[r] = "adding" ~> (stage[r] \in Ended \/ callerDone)

\* A shutdown that has begun ends, however many requests are queued.
ShutdownEnds == reader = "pausing" ~> (reader = "done" \/ callerDone)
=============================================================================
