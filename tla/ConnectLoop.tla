---------------------------- MODULE ConnectLoop ----------------------------
(***************************************************************************)
(* The life of a connect worker (connect/handler.go, connection.go,        *)
(* handshake.go): the caller of Connect and Close, the run loop that       *)
(* supervises connections, the goroutine that waits for the run loop, and  *)
(* one goroutine per connection attempt.                                   *)
(*                                                                         *)
(* They talk over unbuffered channels, so a send and its receive are one   *)
(* step of both sides, and a sender without a receiver waits.              *)
(*                                                                         *)
(* The API, the gateway and the network are external: every call may fail  *)
(* with the errors the code tells apart.  Messages other than              *)
(* GATEWAY_CLOSING are not part of this module, and of the reply buffer    *)
(* only that a flush waits for its mutex and for the API, without timeout. *)
(***************************************************************************)
EXTENDS Naturals

CONSTANTS
  Conns,        \* connect goroutines; an id is free again when one ends
  HasFallback   \* is a fallback signing key configured?

ASSUME HasFallbackAssumption == HasFallback \in BOOLEAN

VARIABLES
  caller,           \* the goroutine that calls Connect and later Close
  startCancelled,   \* startCtx is done: cancelled, timed out, or Connect ended
  workerCancelled,  \* h.workerCtx is done
  loop,             \* where the run loop is
  isInitial,        \* isInitialConnection
  attempts,         \* connections launched since the last success
  state,            \* h.state
  fallback,         \* h.auth.fallback: the fallback key is in use
  watcher,          \* the goroutine of h.eg, which waits for the run loop
  conn,             \* conn[c]: the connect goroutine c
  established       \* has a connection ever completed its handshake?

vars == <<caller, startCancelled, workerCancelled, loop, isInitial, attempts,
          state, fallback, watcher, conn, established>>

MaxAttempts == 5

(* The error in a connectReport, as far as the run loop tells errors apart: *)
(* two errors of the start request, three classes of close reasons, "lost"  *)
(* for EOF or a closed socket, "other", and "none" after a shutdown.        *)
StartErrors == {"unauthenticated", "tooMany", "other"}
CloseReasons == {"authFailed", "retriable", "fatal"}
ReadErrors == CloseReasons \cup {"lost", "other"}
Errors == StartErrors \cup ReadErrors \cup {"none"}

\* Set-up phases in order, then the phases of handleConnection.
Preparing == {"start", "dial", "hello", "ready"}
Handling == {"notify", "flush", "reading", "shutdown"}
ConnStates == {"idle", "drain", "report"} \cup Preparing \cup Handling

CallerStates == {"initiate", "wait", "cancelled", "connected", "failed",
                 "closing", "closed"}
LoopStates == {"select", "sendConnected", "connected", "flush", "backoff",
               "sendFailed", "sendNil", "exited"}

Goroutines == [pc : ConnStates, ctx : {"start", "background"},
               fallback : BOOLEAN, err : Errors]
Idle == [pc |-> "idle", ctx |-> "start", fallback |-> FALSE, err |-> "none"]

TypeOK ==
  /\ caller \in CallerStates
  /\ startCancelled \in BOOLEAN
  /\ workerCancelled \in BOOLEAN
  /\ loop \in LoopStates
  /\ isInitial \in BOOLEAN
  /\ attempts \in 0 .. MaxAttempts
  /\ state \in {"CONNECTING", "ACTIVE", "RECONNECTING", "CLOSED"}
  /\ fallback \in BOOLEAN
  /\ watcher \in {"waitLoop", "waitDone", "flush", "done"}
  /\ conn \in [Conns -> Goroutines]
  /\ established \in BOOLEAN

Init ==
  /\ caller = "initiate"
  /\ startCancelled = FALSE
  /\ workerCancelled = FALSE
  /\ loop = "select"
  /\ isInitial = TRUE
  /\ attempts = 0
  /\ state = "CONNECTING"
  /\ fallback = FALSE
  /\ watcher = "waitLoop"
  /\ conn = [c \in Conns |-> Idle]
  /\ established = FALSE

contexts == <<startCancelled, workerCancelled>>
loopVars == <<loop, isInitial, attempts, state, fallback>>

-----------------------------------------------------------------------------
(* The connect goroutine.                                                  *)

Goto(c, pc) == conn' = [conn EXCEPT ![c].pc = pc]

\* The goroutine hands its connectReport over notifyConnectDoneChan.
Report(c, err) == conn' = [conn EXCEPT ![c].pc = "report", ![c].err = err]

\* go h.connect(ctx, data): a new goroutine starts with prepareConnection.
Launch(c, ctx, key) ==
  /\ conn[c].pc = "idle"
  /\ conn' = [conn EXCEPT ![c] = [pc |-> "start", ctx |-> ctx,
                                  fallback |-> key, err |-> "none"]]

AfterPhase == [start |-> "dial", dial |-> "hello", hello |-> "ready",
               ready |-> "notify"]

PhaseErrors == [start |-> StartErrors, dial |-> {"other"},
                hello |-> CloseReasons \cup {"other"},
                ready |-> CloseReasons \cup {"other"}]

ContextDone(c) == conn[c].ctx = "start" /\ startCancelled

\* prepareConnection and performConnectHandshake: the start request, Dial,
\* GATEWAY_HELLO, WORKER_CONNECT and GATEWAY_CONNECTION_READY.
PrepareStep(c) ==
  /\ conn[c].pc \in Preparing
  /\ ~ContextDone(c)
  /\ Goto(c, AfterPhase[conn[c].pc])
  /\ established' = (established \/ conn[c].pc = "ready")
  /\ UNCHANGED <<caller, contexts, loopVars, watcher>>

\* Every error of prepareConnection is a reconnectError.  Under a context
\* that is done each phase fails, with an error of no particular kind.
PrepareFails(c) ==
  /\ conn[c].pc \in Preparing
  /\ \E err \in IF ContextDone(c) THEN {"other"} ELSE PhaseErrors[conn[c].pc] :
       Report(c, err)
  /\ UNCHANGED <<caller, contexts, loopVars, watcher, established>>

\* handleConnection sends what is buffered before it reads.
FlushDone(c) ==
  /\ conn[c].pc = "flush"
  /\ \/ Goto(c, "reading")
     \/ Report(c, "other")
  /\ UNCHANGED <<caller, contexts, loopVars, watcher, established>>

\* The read loop fails while the worker runs: reconnect.
ReadFails(c) ==
  /\ conn[c].pc = "reading"
  /\ ~workerCancelled
  /\ \E err \in ReadErrors : Report(c, err)
  /\ UNCHANGED <<caller, contexts, loopVars, watcher, established>>

\* Mutant: the draining connection reports as well.
GatewayClosesAndReports(c, d) ==
  /\ conn[c].pc = "reading"
  /\ ~workerCancelled
  /\ conn[d].pc = "idle"
  /\ conn' = [conn EXCEPT
                ![c].pc = "report", ![c].err = "retriable",
                ![d] = [pc |-> "start", ctx |-> "background",
                        fallback |-> conn[c].fallback, err |-> "none"]]
  /\ UNCHANGED <<caller, contexts, loopVars, watcher, established>>

\* GATEWAY_CLOSING: a second goroutine d sets up the next connection with
\* the same data, while c keeps its socket open.
GatewayCloses(c, d) ==
  /\ conn[c].pc = "reading"
  /\ ~workerCancelled
  /\ conn[d].pc = "idle"
  /\ conn' = [conn EXCEPT
                ![c].pc = "drain",
                ![d] = [pc |-> "start", ctx |-> "background",
                        fallback |-> conn[c].fallback, err |-> "none"]]
  /\ UNCHANGED <<caller, contexts, loopVars, watcher, established>>

\* The successor is connected, or 10 seconds have passed: c closes its socket
\* and ends without a report.
DrainEnds(c) ==
  /\ conn[c].pc = "drain"
  /\ conn' = [conn EXCEPT ![c] = Idle]
  /\ UNCHANGED <<caller, contexts, loopVars, watcher, established>>

\* The read loop ends because the worker shuts down, whatever it read.
ShutdownBegins(c) ==
  /\ conn[c].pc = "reading"
  /\ workerCancelled
  /\ Goto(c, "shutdown")
  /\ UNCHANGED <<caller, contexts, loopVars, watcher, established>>

\* WORKER_PAUSE is sent, all requests are answered, the socket is closed and
\* the buffer flushed.
ShutdownDone(c) ==
  /\ conn[c].pc = "shutdown"
  /\ Report(c, "none")
  /\ UNCHANGED <<caller, contexts, loopVars, watcher, established>>

-----------------------------------------------------------------------------
(* The run loop.                                                           *)

\* Return from the run loop; the first outcome is sent to the caller before.
Return(send) ==
  /\ loop' = IF isInitial THEN send ELSE "exited"
  /\ isInitial' = FALSE

\* Mutant: every later connection reports its success to the caller too.
LoopConnectedNoReset(c) ==
  /\ loop = "select"
  /\ conn[c].pc = "notify"
  /\ Goto(c, "flush")
  /\ loop' = "sendConnected"
  /\ UNCHANGED <<caller, contexts, isInitial, attempts, state, fallback,
                 watcher, established>>

\* <-h.notifyConnectedChan.  The connect goroutine then also notifies the
\* draining connection that waits for it, if there is one.
LoopConnected(c) ==
  /\ loop = "select"
  /\ conn[c].pc = "notify"
  /\ Goto(c, "flush")
  /\ loop' = IF isInitial THEN "sendConnected" ELSE "connected"
  /\ isInitial' = FALSE
  /\ UNCHANGED <<caller, contexts, attempts, state, fallback, watcher,
                 established>>

\* The rest of that case.
LoopActive ==
  /\ loop = "connected"
  /\ loop' = "select"
  /\ state' = "ACTIVE"
  /\ attempts' = 0
  /\ UNCHANGED <<caller, contexts, isInitial, fallback, watcher, conn,
                 established>>

\* msg := <-h.notifyConnectDoneChan: the goroutine ends.
TakeReport(c) ==
  /\ loop = "select"
  /\ conn[c].pc = "report"
  /\ conn' = [conn EXCEPT ![c] = Idle]

\* !msg.reconnect.
LoopClean(c) ==
  /\ conn[c].err = "none"
  /\ TakeReport(c)
  /\ state' = "CLOSED"
  /\ Return("sendNil")
  /\ UNCHANGED <<caller, contexts, attempts, fallback, watcher, established>>

\* The errors after which the run loop gives up.  "lost" is among them
\* because handleConnection wraps a zero CloseError, whose reason is "".
GivesUp(err) ==
  \/ err = "tooMany" /\ isInitial
  \/ err = "unauthenticated" /\ (fallback \/ ~HasFallback)
  \/ err \in {"fatal", "lost"}

LoopGivesUp(c) ==
  /\ GivesUp(conn[c].err)
  /\ TakeReport(c)
  /\ state' = "RECONNECTING"
  /\ Return("sendFailed")
  /\ UNCHANGED <<caller, contexts, attempts, fallback, watcher, established>>

\* Mutant: a connection is launched at once, without the backoff.
LoopRetriesAtOnce(c) ==
  /\ loop = "select"
  /\ conn[c].pc = "report"
  /\ conn[c].err # "none"
  /\ ~GivesUp(conn[c].err)
  /\ conn' = [conn EXCEPT ![c].pc = "start"]
  /\ state' = "RECONNECTING"
  /\ fallback' = (fallback \/ conn[c].err = "unauthenticated")
  /\ loop' = "select"
  /\ UNCHANGED <<caller, contexts, isInitial, attempts, watcher, established>>

\* Otherwise switch to the fallback key if authentication failed, and send
\* what is buffered.
LoopRetries(c) ==
  /\ conn[c].err # "none"
  /\ ~GivesUp(conn[c].err)
  /\ TakeReport(c)
  /\ state' = "RECONNECTING"
  /\ fallback' = (fallback \/ conn[c].err = "unauthenticated")
  /\ loop' = "flush"
  /\ UNCHANGED <<caller, contexts, isInitial, attempts, watcher, established>>

\* The flush of the run loop is over, with or without an error: wait.  It may
\* never be, since its API calls have no timeout.
LoopFlushed ==
  /\ loop = "flush"
  /\ loop' = "backoff"
  /\ UNCHANGED <<caller, contexts, isInitial, attempts, state, fallback, watcher,
                 conn, established>>

\* Mutant: reconnects are not counted.
RelaunchUncounted(c) ==
  /\ loop = "backoff"
  /\ Launch(c, "start", fallback)
  /\ loop' = "select"
  /\ UNCHANGED <<caller, contexts, isInitial, attempts, state, fallback, watcher,
                 established>>

\* Mutant: the limit on attempts is off by one.
RelaunchOnceMore(c) ==
  /\ loop = "backoff"
  /\ attempts <= MaxAttempts
  /\ attempts' = attempts + 1
  /\ Launch(c, "start", fallback)
  /\ loop' = "select"
  /\ UNCHANGED <<caller, contexts, isInitial, state, fallback, watcher,
                 established>>

\* The backoff is over: launch a connection, under the context of Connect.
Relaunch(c) ==
  /\ loop = "backoff"
  /\ attempts < MaxAttempts
  /\ attempts' = attempts + 1
  /\ Launch(c, "start", fallback)
  /\ loop' = "select"
  /\ UNCHANGED <<caller, contexts, isInitial, state, fallback, watcher,
                 established>>

AttemptsExhausted ==
  /\ loop = "backoff"
  /\ attempts = MaxAttempts
  /\ Return("sendFailed")
  /\ UNCHANGED <<caller, contexts, attempts, state, fallback, watcher, conn,
                 established>>

\* Mutant: the backoff ends when the start context is done.
BackoffStartCancelled ==
  /\ loop = "backoff"
  /\ startCancelled
  /\ Return("sendNil")
  /\ UNCHANGED <<caller, contexts, attempts, state, fallback, watcher, conn,
                 established>>

\* <-h.workerCtx.Done() during the backoff.
BackoffCancelled ==
  /\ loop = "backoff"
  /\ workerCancelled
  /\ Return("sendNil")
  /\ UNCHANGED <<caller, contexts, attempts, state, fallback, watcher, conn,
                 established>>

\* Mutant: the run loop also ends when the start context is done.
LoopStartDone ==
  /\ loop = "select"
  /\ workerCancelled \/ startCancelled
  /\ loop' = "exited"
  /\ UNCHANGED <<caller, contexts, isInitial, attempts, state, fallback,
                 watcher, conn, established>>

\* <-h.workerCtx.Done() in the outer select.
LoopDone ==
  /\ loop = "select"
  /\ workerCancelled
  /\ loop' = "exited"
  /\ UNCHANGED <<caller, contexts, isInitial, attempts, state, fallback,
                 watcher, conn, established>>

-----------------------------------------------------------------------------
(* The goroutine of h.eg.                                                  *)

RunLoopEnded ==
  /\ watcher = "waitLoop"
  /\ loop = "exited"
  /\ watcher' = "waitDone"
  /\ UNCHANGED <<caller, contexts, loopVars, conn, established>>

\* The last connection reports, or 5 seconds have passed.
WatcherTakesReport(c) ==
  /\ watcher = "waitDone"
  /\ conn[c].pc = "report"
  /\ conn' = [conn EXCEPT ![c] = Idle]
  /\ watcher' = "flush"
  /\ UNCHANGED <<caller, contexts, loopVars, established>>

WatcherTimesOut ==
  /\ watcher = "waitDone"
  /\ watcher' = "flush"
  /\ UNCHANGED <<caller, contexts, loopVars, conn, established>>

\* The last flush is over, which may not happen either.
WatcherFlushed ==
  /\ watcher = "flush"
  /\ watcher' = "done"
  /\ UNCHANGED <<caller, contexts, loopVars, conn, established>>

-----------------------------------------------------------------------------
(* The caller.                                                             *)

\* h.initiateConnectionChan <- struct{}{}: the run loop launches the first
\* connection.
Initiate(c) ==
  /\ caller = "initiate"
  /\ loop = "select"
  /\ caller' = "wait"
  /\ attempts' = attempts + 1
  /\ Launch(c, "start", fallback)
  /\ UNCHANGED <<contexts, loop, isInitial, state, fallback, watcher,
                 established>>

\* The passed context is cancelled, or the start timeout of 30 seconds ends.
StartCtxDone ==
  /\ caller \in {"initiate", "wait"}
  /\ ~startCancelled
  /\ startCancelled' = TRUE
  /\ UNCHANGED <<caller, workerCancelled, loopVars, watcher, conn, established>>

\* <-initialConnectionDone.  Connect returns, which cancels the start context
\* (defer cancelStart()).
ConnectReturns ==
  /\ caller = "wait"
  /\ loop \in {"sendConnected", "sendFailed", "sendNil"}
  /\ caller' = IF loop = "sendFailed" THEN "failed" ELSE "connected"
  /\ loop' = IF loop = "sendConnected" THEN "connected" ELSE "exited"
  /\ startCancelled' = TRUE
  /\ UNCHANGED <<workerCancelled, isInitial, attempts, state, fallback, watcher,
                 conn, established>>

\* <-ctx.Done() in Connect: it calls Close, which waits for the watcher.
ConnectCancelled ==
  /\ caller = "wait"
  /\ startCancelled
  /\ caller' = "cancelled"
  /\ workerCancelled' = TRUE
  /\ UNCHANGED <<startCancelled, loopVars, watcher, conn, established>>

Close ==
  /\ caller = "connected"
  /\ caller' = "closing"
  /\ workerCancelled' = TRUE
  /\ UNCHANGED <<startCancelled, loopVars, watcher, conn, established>>

\* Mutant: Close does not wait for the goroutines of h.eg.
CloseReturnsEarly ==
  /\ caller \in {"cancelled", "closing"}
  /\ caller' = IF caller = "cancelled" THEN "failed" ELSE "closed"
  /\ state' = "CLOSED"
  /\ UNCHANGED <<contexts, loop, isInitial, attempts, fallback, watcher, conn,
                 established>>

\* h.eg.Wait() returns.
CloseReturns ==
  /\ caller \in {"cancelled", "closing"}
  /\ watcher = "done"
  /\ caller' = IF caller = "cancelled" THEN "failed" ELSE "closed"
  /\ state' = "CLOSED"
  /\ UNCHANGED <<contexts, loop, isInitial, attempts, fallback, watcher, conn,
                 established>>

-----------------------------------------------------------------------------

connect(c) ==
  \/ PrepareStep(c)
  \/ PrepareFails(c)
  \/ FlushDone(c)
  \/ DrainEnds(c)
  \/ ShutdownBegins(c)

runLoop ==
  \/ LoopActive
  \/ AttemptsExhausted
  \/ BackoffCancelled
  \/ \E c \in Conns : \/ LoopConnected(c)
                      \/ LoopClean(c)
                      \/ LoopGivesUp(c)
                      \/ LoopRetries(c)
                      \/ Relaunch(c)

waitForRunLoop ==
  \/ RunLoopEnded
  \/ WatcherTimesOut
  \/ \E c \in Conns : WatcherTakesReport(c)

Connect ==
  \/ ConnectReturns
  \/ ConnectCancelled
  \/ CloseReturns
  \/ \E c \in Conns : Initiate(c)

Next ==
  \/ \E c \in Conns : connect(c) \/ ShutdownDone(c) \/ ReadFails(c)
  \/ \E c, d \in Conns : GatewayCloses(c, d)
  \/ runLoop
  \/ LoopDone
  \/ LoopFlushed
  \/ waitForRunLoop
  \/ WatcherFlushed
  \/ Connect
  \/ StartCtxDone
  \/ Close

Spec == Init /\ [][Next]_vars

\* Connection c waits for the API or the gateway, and no timeout limits how
\* long: a flush uses context.Background(), and a successor sends its start
\* request and WORKER_CONNECT under it.
Untimed(c) ==
  \/ conn[c].pc = "flush"
  \/ conn[c].pc \in Preparing /\ conn[c].ctx = "background"

\* Goroutines that can run do run and timers fire.  What is done under the
\* context of Connect has a timeout, so it ends.  Whether a flush ends, whether
\* a successor is ever set up, whether a connection breaks, whether a function
\* that runs returns and whether anybody calls Close is not assumed.
Fairness ==
  /\ \A c \in Conns : WF_vars(connect(c) /\ ~Untimed(c))
  /\ WF_vars(runLoop)
  /\ WF_vars(LoopDone)
  /\ WF_vars(waitForRunLoop)
  /\ WF_vars(Connect)
  /\ WF_vars(StartCtxDone)

FairSpec == Spec /\ Fairness

-----------------------------------------------------------------------------

Active == {c \in Conns : conn[c].pc \notin {"idle", "drain"}}

\* At most one connection is being set up, used or reported at any time: a
\* drained connection hands over to its successor, and the run loop never
\* launches a second one while the first is alive or before its backoff ends.
OneActive ==
  /\ \A c, d \in Active : c = d
  /\ loop \in {"flush", "backoff"} => Active = {}

\* No connection goes unsupervised: the run loop ends while a connection is
\* being set up or used only when the worker is shut down.
Supervised == loop = "exited" /\ ~workerCancelled => Active = {}

\* Once the run loop has switched to the fallback key, no connection in use
\* still carries the rejected one, drained connections' successors included.
NoStaleKey == fallback => \A c \in Active : conn[c].fallback

\* Connect returns a worker only if a connection completed its handshake.
ConnectOkMeansEstablished ==
  caller \in {"connected", "closing", "closed"} => established

\* After Close has returned, the state is CLOSED and stays it: the run loop
\* no longer runs and cannot overwrite it.
ClosedIsFinal == caller = "closed" => state = "CLOSED" /\ loop = "exited"

\* A flush of the run loop or of the watcher never ends: it waits for an API
\* that does not answer (buffer.go calls it without a timeout), or for the
\* mutex that such a flush holds.
FlushHangs == <>[](loop = "flush") \/ <>[](watcher = "flush")

\* Nothing but such a flush keeps Close from returning, whatever the run loop
\* and the connections are doing, those included that wait for the API.
CloseTerminates == FlushHangs \/ (caller = "closing" ~> caller = "closed")

\* The end of a connection is noticed by the run loop unless the worker is
\* shut down meanwhile: no flush is in the way, since the run loop flushes
\* only while no connection is left to report.
FailureIsNoticed ==
  \A c \in Conns : conn[c].pc = "report" ~> conn[c].pc # "report" \/ workerCancelled

\* Reconnecting does not go on for ever: it succeeds or the run loop gives up,
\* unless it hangs in a flush.
GivesUpOrReconnects ==
  \/ FlushHangs
  \/ loop = "backoff" ~> loop \notin {"select", "flush", "backoff"}

-----------------------------------------------------------------------------
(* What comments say and the code does not do.                             *)

\* handler.go: "While the worker is starting, it can be canceled using the
\* passed context."  A hanging flush is not what keeps it from being so.
CancelledConnectReturns ==
  FlushHangs \/ (caller = "cancelled" ~> caller = "failed")

\* handler.go: "We construct a connection loop, which will attempt to
\* reconnect on failure."  Once Connect has returned a worker, such an attempt
\* is made under a context that is not yet done, so that it can succeed.
ReconnectsUnderLiveContext ==
  [][\A c \in Conns :
       caller = "connected" /\ Relaunch(c) => ~ContextDone(c)']_vars

\* handler.go: "If we're dealing with connection loss, the next read loop will
\* fail with the same error and handle the reconnection."
LossIsRetried ==
  [][\A c \in Conns : conn[c].err = "lost" /\ TakeReport(c) => loop' = "flush"]_vars

=============================================================================
