# A TLA+ model of inngestgo

inngestgo is the Go SDK of a durable-execution service. A user's function is
built from *steps*; the service's executor stores the result of every step and
replays the function until it returns. Requests reach the function over HTTP
(`handler.go`) or over an outgoing websocket that a worker keeps open to a
gateway (`connect/`).

This directory models the parts of the SDK whose correctness depends on order,
concurrency, failure and retries. Everything below refers to the repository at
the commit beside it; line numbers are in `PROJECT.json` ("map").

## 1. Inventory

| Part | State | Operations | Interacts with | Hard about it | Must hold |
|---|---|---|---|---|---|
| Reply buffer (`connect/buffer.go`, callers in `connect/invoke.go`, `connection.go`) | `buffered`, `pendingAck`, one mutex, a watcher goroutine per reply | `append`, `addPending`, `acknowledge`, `flush` | request handlers, read loop, run loop (flush), worker API | the mutex is held during API calls; lost writes, lost acks, partly failed flushes; watchers outlive their reply | no accepted reply forgotten before Inngest has it; flush exact; pending is resolved |
| Run loop and connections (`connect/handler.go`, `connection.go`, `handshake.go`) | connection state, attempts, key in use, channels `notifyConnected`, `notifyConnectDone`, `initialConnectionDone`, `initiateConnection`, contexts of the call and of the worker | `Connect`, `Close`, run loop, shutdown watcher, `connect`, `prepareConnection`, handshake, drain, shutdown | API (`start`), gateway, worker pool, reply buffer | unbuffered channels between four kinds of goroutine; drain launches a connection by itself; cancellation everywhere | one active connection, supervised, with the current key; `Close` and reconnects terminate |
| Worker pool (`connect/worker_pool.go`) | channel, WaitGroup, goroutines | `Add`, `Wait`, `Done`, workers | read loop, shutdown | a full channel blocks the read loop; workers stop by another context than the channel's users; requests outlive their socket | no request lost, run without ack or waited for in vain; the count is exact |
| Executor requests (`connect/invoke.go`) | – | request ack, call of the invoker, reply | pool, buffer | errors before and after the ack; the mapping of errors to reply status | same meaning as the HTTP reply; run only what was acked |
| Heartbeats (`connect/connection.go`) | time of the last gateway heartbeat, two tickers | send, check, record | read loop | zero time at the start, unsynchronised access, jitter, a gateway that dies silently | a live connection is not cut, a dead one is; goroutines end |
| Worker API client (`connect/workerapi.go`) | – | `start`, `sendBufferedMessage` | run loop, flush | which outcome is retried | – |
| Step tools (`step/*.go`) | – | `Run`, `Sleep`, `WaitForEvent`, `Invoke`, `Infer` | request manager | control flow by panic; replay | one step per request; a stored step is not run again |
| Request manager (`internal/sdkrequest`) | `indexes`, `ops`, `err`, results of the request | `NewOp`, `AppendOp`, `Step`, `SetErr`, `Cancel` | tools, `invoke` | numbering of repeated ids depends on the path | a call gets its own result |
| `group.Parallel` | `isPlanned`, `unexpectedPanic` | runs branches | tools | a stopped branch must stop the function | the function does not return early |
| HTTP invocation (`handler.go`) | – | `invoke`, `handler.invoke` | manager, executor | which of panic, step error and returned error wins; streaming | operations, errors and no-retry reach the executor |
| Registration, sync, inspection (`handler.go`) | options, `funcs`, a lock | `SetOptions`, `Register`, `ServeHTTP`, syncs, `inspect`, `trust` | API, Inngest | map order; the lock is held during API calls | what is synced can be invoked; every request is answered |
| Signatures and key fallback (`signature.go`, `net.go`) | – | sign, validate, retry with the fallback key | all requests | age, two keys, a rotation across instances | authentic requests pass, others do not, replies verify |
| Event client (`client.go`, `event.go`), configuration (`funcs.go`), environment | – | formatting and single requests | – | – | – |

`PROJECT.json` lists every part with its status, and the hazards at their lines.

## 2. Modules

| Module | Models | Kind |
|---|---|---|
| `AtLeastOnce` | what the reply buffer promises | abstract specification |
| `MessageBuffer` | reply buffer and the code around it | component |
| `MessageBufferProofs` | its theorems | TLAPS |
| `ConnectLoop` | caller, run loop, shutdown watcher, connect goroutines | composition of goroutines |
| `ConnectLoopProofs` | its theorems | TLAPS |
| `DurableRun` | what the SDK promises to the author of a function | abstract specification |
| `Invocation` | step tools, request manager, Parallel, reply; executor external | component and environment |
| `ReplayProofs` | lemmas about the replay of one invocation | TLAPS |
| `InvocationProofs` | the theorems of `Invocation` | TLAPS |
| `WorkerPool` | worker pool, read loop, request processing, graceful shutdown | composition of goroutines |
| `WorkerPoolProofs` | its theorems | TLAPS |
| `Heartbeat` | heartbeat goroutines and read loop, in discrete time | component |
| `HeartbeatProofs` | its theorems | TLAPS |
| `Serve` | HTTP handlers, signatures, key fallback, syncs, on several instances | component and environment |
| `ServeProofs` | its theorems | TLAPS |
| `MCMessageBuffer`, `MCConnectLoop`, `MCInvocation`, `MCWorkerPool`, `MCHeartbeat`, `MCServe` | small instances | TLC |

The connect side is covered by four views of one worker that share its steps:
`ConnectLoop` has how connections come and go, `Heartbeat` when one is given
up, `WorkerPool` how requests pass through the connection to the function and
back, `MessageBuffer` what becomes of a reply. `Serve` ends where the function
is called, and `Invocation` begins there.

In every component module a definition whose name is followed by a variation
(`RelaunchOnceMore` for `Relaunch`, announced by a comment "Mutant") is a wrong
version of the code. It is used in no specification; replacing the right one by
it must break the property that `PROJECT.json` pairs it with.

### MessageBuffer

`handler[r][v]` is the goroutine that answers delivery `v` of request `r`
(`invoking` until the function has returned, then `writing`, `failing` or
`done`); `buffered` and `pendingAck` are the two maps; `watchers` the watchers;
`flush` the owner of the mutex and its progress. `RegisterReply` is
`addPending`; `WriteReply`, `WriteReplyLost` and `WriteReplyFails` are the
outcomes of the websocket write; `BufferFailedReply` is the `append` after a
failed write; `WatcherFires` the five-second timer; `handleMessageReplyAck` an
ack that is read; `FlushBegin`/`FlushSend`/`FlushSendFails`/`FlushEnd` are
`flush`, which keeps the mutex and tries up to five times. A reply that the API
reports as failed may have arrived all the same. `ackRequestId` is what the
code decodes, not what it should.

### ConnectLoop

`caller` is the goroutine in `Connect` and `Close`; `loop` the run loop;
`watcher` the goroutine that waits for it at shutdown; `conn[c]` a connect
goroutine with its phase, the error it reports, the context it runs under and
the key it uses. A send on an unbuffered channel is a joint step of sender and
receiver (`LoopConnected`, `TakeReport`, `Initiate`, `ConnectReturns`): a
goroutine whose partner is gone stays where it is, which is how the deadlocks
of the code show. `GivesUp` is the decision of handler.go 235-295. The flush of
the run loop before its backoff and the last one of the watcher are states of
their own (`"flush"`, left by `LoopFlushed` and `WatcherFlushed`), because they
may never end: the API is called under `context.Background()` (buffer.go 41) by
a client without a timeout (workerapi.go 15). `Conns` is the pool of goroutines;
a new one is taken from the idle ones.

### Invocation

The user's function is a constant `Program`, a sequence of step calls; calls of
the same `block` are branches of one Parallel, which the code runs one after
the other. An invocation is a record with what the manager keeps. One action is
one call of a tool, including the panic that it raises and how far that panic
takes the control (`Hijack`, `Panic`, `Goto`). `Run` has six outcomes: success,
error, an error that is or wraps a step error, a value that cannot be encoded, a
panic, and being skipped or planned. A stored result may fail to decode
(`Redeploys`: the type of a step changed while the run was in progress), and for
`Infer` so may a stored error, which fails the invocation instead of the call.
`barred` and `lapsed` are history: the steps whose code returned a NoRetryError,
and those of them whose mark the SDK dropped, recorded by cause, not by effect.
The causes are a NoRetryError around a StepError (`RunReturnsStepError`) and a
streamed reply with operations (`ReceiveOps` over `"stream"`); a later
NoRetryError of the step ends the lapse.
`Transports` says how requests may come: `HttpReply` and `StreamReply` are
`handler.invoke` after the call, `connectInvoke` its counterpart for connect.
The executor (`Send`, `Receive...`,
`Resume`) is outside the repository and modelled from what the SDK assumes: it
stores results by hash, schedules a planned or deferred step once, retries a
failed request or gives up, and asks for plans after a reply with several
operations.

`ProgramAssumption` is the shape of a program: blocks and branches are
contiguous, and every call is of a known kind. `IdsAssumption` is what the
author of a function owes the SDK: branches of one Parallel use different ids,
and no id with its number has the hash of another one. `NoneAssumption` keeps
"no result" apart from results and hashes.

`DurableRun` knows neither requests nor hashes nor retries. Calls are settled
one by one in the order of the code, branches in any order, each once; an error
ends its branch, or the function; success comes after the last call. The
mapping takes the outcome of a call from the stored results (`Outcome`, under
the hash that a replay of these results gives to the call) and the end of the
run from `finished`; everything that happens inside a request is a stutter.

The behaviour of `Infer` for pointer and raw output types, the options of the
tools, retry-at times and the content of values are left out.

### WorkerPool

`queue` is the channel, `inProgress` the counter of the WaitGroup, `worker[w]`
what a goroutine of the pool handles. `stage[r]` follows a request from the
gateway through `Add` (which counts it and may then block: `ReadRequest`,
`Added`), the channel, the ack, the function and the reply; `ws[r]` is the
socket it came on, which the request keeps although connections are replaced.
`reader` is `handleConnection` of the current connection: flush, read loop,
drain, and at a shutdown `Pause` and `Wait`. A connection that drains stays open
until its successor is connected. `callerDone` and `workerDone` are the two
contexts: the pool's goroutines end with the first, the read loop and the
shutdown begin with the second. `CloseReturns` may happen at any time after
`Close`, since the watcher gives up after five seconds (`ConnectLoop` has when
exactly). A redelivered request counts as another one.

### Heartbeat

`now` counts units of time; both tickers fire at multiples of `Interval`, and
the goroutines that are due run in either order before time goes on. `answers`
holds the worker heartbeats whose answer was not read yet; each is read at most
`MaxLag` later, in any order. The first firing of the checker only ends its
initial wait (`CheckerStarts`). `GatewayDies` loses all answers without closing
the socket.

### Serve

A call is one HTTP request with its kind, the key it was signed with, the state
of its body and the age of its signature, and later its reply. Each handler is
one step up to the handler's lock or an API call: `invoke` then `Lookup`;
`register`, `SyncLock`, `Fetch` and `Refetch` for an out-of-band sync, which
keeps the lock all the while; `inspect`, `trust` and `inBandSync` in one step.
`keys[i]` are the signing key and the fallback of an instance and `key` the one
that Inngest uses. `Restart` and `Rotate` are the operator's procedure: both
keys everywhere, the switch at Inngest, and the old key removed once no request
with a valid old signature is under way. `Registered` is `Register` for the
list `Code`: the last one of a slug is kept; the lookup takes any match, since
the order of the list comes from a map. Nothing keeps a function from having an
id that is another one's slug, and then two of them match (`Ambiguous`).

A slug is a sequence of its parts between dashes. `slug.Make`, which derives
one from a name, and everything else in a function's config is left out. The
read of a request and its signature check use the same key, since options do
not change while requests are served.

## 3. Runs

| Run | Shows |
|---|---|
| `buffer` | `TypeOK`, `NoReplyLost`, `FlushIsExact`, refinement of `AtLeastOnce`, `PendingResolves`; 8 378 states |
| `loop` | `TypeOK`, `OneActive`, `Supervised`, `NoStaleKey`, `ConnectOkMeansEstablished`, `ClosedIsFinal`, `CloseTerminates`, `FailureIsNoticed`, `GivesUpOrReconnects`; 23 008 states |
| `invocation_safety` | `TypeOK`, `RunsOnce`, `OneStepPerRequest`, `OwnResult`, `ParallelJoins`, `NoRetryIsFinal`, refinement of `DurableRun`; over all three transports; 101 292 states up to symmetry |
| `invocation_liveness` | `Finishes`, over connect and streamed HTTP; 139 013 states |
| `pool` | `TypeOK`, `CountIsExact`, `WaitIsExact`, `RunsIffAcked`, `ReadIsHandled`, `ShutdownEnds`; 580 170 states |
| `heartbeat` | `TypeOK`, `HealthyIsKept`, `SilenceIsNoticed`, `DeadGatewayEnds`, `GoroutinesEnd`; 5 138 states |
| `serve` | `TypeOK`, `RotationIsSeamless`, `RepliesVerify`, `OnlyAuthentic`, `SyncIsAuthorised`, `ServesTheLatest`, `EveryCallIsAnswered`; 1 013 656 states |
| `buffer_ack_ignored` | violated: an acknowledged reply is sent again |
| `loop_cancelled_connect` | violated: a cancelled `Connect` never returns |
| `loop_reconnect_context` | violated: reconnects run under a cancelled context |
| `loop_connection_loss` | violated: a connection loss ends the run loop |
| `invocation_step_error` | violated: a failed step next to a sleep is a failed request |

The violated ones state what a comment in the code says; the quotations are
under "findings".

**Bounds.** `buffer`: two requests and two flushers make a flush race with a
reply, a watcher and another flush. `loop`: three connect goroutines let a
successor drain while its predecessor still drains; attempts go to the code's
own limit of five. `invocation_safety`: the program repeats an id before and
after a Parallel with a sleep, a branch of two steps and a single step, and two
handlers run at once; one failure suffices to reach each error path, since each
failure ends its request. With two failures over HTTP and streamed HTTP (328 577
states) the same properties hold; that is not among the runs for its length.
`invocation_liveness` has the tools that the other lacks, `Invoke` in a
Parallel with two steps and `Infer` after it. Its steps are planned, and each is
requested by itself: the request for the second has to pass the first, and both
are handled at once. `pool`: with one goroutine and so
one place in the channel, three requests are what it takes to have one handled,
one queued and one that blocks the read loop; two connections let a request
outlive its own. `heartbeat`: an interval of four units and a lag of three is
the worst the assumption `MaxLag < Interval` allows, and eight intervals leave
room for a death at every instant of the first four. `serve`: two instances are
in different stages of the rotation, and two requests suffice for one sync to
hold the lock that the other request needs; one of two functions is registered
twice, and the other one's id is its slug, so that a lookup can have two matches
and two instances can choose differently.

Deadlock is not checked: a worker that was closed, a buffer without work, a
finished run, requests that were all answered and the end of the horizon rightly
stop. Liveness properties say where stopping is wrong.

**Fairness.** Goroutines that can run do run and timers fire. In `MessageBuffer`
waiting for the mutex is strongly fair, because `sync.Mutex` hands itself to a
starving waiter. In `ConnectLoop` what is done under the context of `Connect`
has a timeout and ends. A flush has none, nor has the set-up of a drained
connection's successor, and nothing is assumed of either; nor of connections
breaking, functions returning or `Close` being called. `CloseTerminates` and
`GivesUpOrReconnects` therefore say "unless it hangs in a flush" (`FlushHangs`).
In `Invocation` the executor is fair and
does not retry a request for ever. In `WorkerPool` functions return, because
nothing bounds them in the code and its shutdown waits for them; nobody has to
connect, send requests or call `Close`. In `Heartbeat` time passes and a
cancelled read ends. In `Serve` a request that was sent arrives somewhere.

Three models assume that the API answers or the call fails, which the code does
not enforce. A flush holds the buffer's mutex during its calls (buffer.go 41), so
`PendingResolves` and the flushes of `WorkerPool` rest on it; a sync holds the
handler's write lock during calls of `http.DefaultClient`, which has no timeout
either, so `EveryCallIsAnswered` does. If the API neither answers nor closes the
connection, a watcher stays at the mutex and a request at the lock. Two requests that compete for the handler's
lock need only weak fairness, since each has it for one sync only.

## 4. Proofs

All theorems hold for every value of the constants.

`MessageBufferProofs` proves `TypeCorrect`, `FlushExact`, `ReplyNotLost` and
`Refinement` (`Spec => AtLeastOnce`). The inductive invariant adds to `TypeOK`
and `FlushIsExact` that each answered request is held or arrived and that an
acked reply has arrived: without the latter, an ack could forget a reply that
was lost. Every step is summarised by what it adds to or takes from three sets
(accepted, remembered, delivered; `NextSets`), and the refinement follows from
that summary. The proof does not depend on which id an ack decodes to, so it
survives a correction of `handleMessageReplyAck`.

`ConnectLoopProofs` proves `TypeCorrect`, `AtMostOneActive`, `AlwaysSupervised`,
`KeyIsCurrent`, `ConnectIsHonest` and `CloseIsFinal`. The invariant is a token
argument: exactly one of the caller, the run loop or a connect goroutine may
launch the next connection, and a launch, a report and a drain move the token.
`OneActive` alone is not inductive, since a report taken in the wrong state of
the run loop would let it launch a second connection.

`WorkerPoolProofs` proves `TypeCorrect`, `CountExact`, `WaitExact` and
`RunsAcked`, for any number of requests, goroutines and connections. A count is
exact only if no request is in two places, so the invariant says where each
stage is: the queue holds the queued requests without repetition (`QueueOK`), no
two goroutines have the same request and what they have is past the queue
(`WorkersOK`), and the read loop adds at most one (`AddingOK`). `Done` then
takes a request out of a finite set that contains it, which also shows that the
counter never goes below zero.

`HeartbeatProofs` proves `TypeCorrect`, `HealthyKept` and `SilenceNoticed` for
every interval and every lag below it. The invariant places the recorded
heartbeat relative to the tick before: with a gateway that is up, the answer to
the last tick is read or still due, so at a check the recorded time is younger
than two intervals, or the checker is in its initial wait.

`ServeProofs` proves `TypeCorrect` and the five safety properties of `Serve` for
any number of instances, requests and functions, whatever their ids. The
invariant relates the
operator's stage to the keys (before the switch no instance is without the old
key, after it none without the new one) and a fresh old signature to instances
that still have the old key; each call carries what was established about it
when it was validated. That the order of a map does not matter (`OrderIsIrrelevant`)
follows from `Register`, which leaves one function for an id: two matches of a
request are both by slug or both by id, and then the same, or the id is
`Ambiguous`.

`ReplayProofs` and `InvocationProofs` prove, for every program, any number of
concurrent requests, every transport and every number of failures:
`TypeCorrect`, `RunsOneStep`, `GivesOwnResult`, `RunsAtMostOnce`,
`ParallelIsABarrier`, `SuccessIsComplete` (a run succeeds only when every call
is settled), `StoredForGood` (a stored result is never replaced),
`NoRetryHolds`, `RunIsNeverLost` and `Refinement` (`Spec => DurableRunSpec`).
The argument has three layers.

- *Results* (`ReplayProofs`). `HashOf(r, s)` is the hash a replay of the results
  `r` gives to call `s`, and `Open(r, s)` says that such a replay reaches `s`.
  Adding a result never closes or renumbers a call that was open, and two open
  calls never share a hash. This is where `IdsAssumption` is used: a call's
  number depends only on calls that are settled when it is reached.
- *One request* (`LocalInv`). An invocation is at an open call, has counted the
  ids on the path to it, has executed at most one step, and the operations that
  it reports are those of open calls without a result, with outcomes that fit.
  Every tool has one lemma that it keeps this.
- *The executor* (`GlobalInv`). Requests carry a subset of the stored results
  (`Seen`). Until a plan was asked for there is only one request, job or wait in
  the whole run (`Token`); from then on a planned step belongs to at most one
  job or request and has no result yet (`Claims`), and a result that was stored
  without a plan is known to every request in flight (`Unscheduled`). `RunsOnce`
  is not inductive without them: an old request could be for a step that another
  one has just completed.

`NoRetryHolds` adds `Barred`: the step of a NoRetryError has its result, or the
request that will report the error is still in flight, or the run has failed and
nothing in flight can reach the step. It holds for the steps outside `lapsed`,
over any transports, streamed ones included: a reply drops the mark only where
it is streamed, has operations and is not an error (`ReplyOf`). For the steps in
`lapsed` it is false (section 5).

`RunIsNeverLost` is the safety part of `Finishes`: an unfinished run
always has a request to send, a request that is handled, or a sleep, wait or
invoke in progress. Its invariant `Going` says that a scheduled step without a
result has its job, request or wait (`Pending`), and that the function will be
called again with all results or such a step exists (`Alive`); it rests on
`AnsweredOK` of one request, which never answers without the step it was for
unless it fails.

TLC checked the parts of these invariants on four programs before they were
proved.

Assumptions: those named in the component modules (`None` and `ZeroId` are
not a reply or a request, and the like). Three say something about the world:
`LagAssumption` (a heartbeat is answered, and the answer read, before the next
one is sent), `KeysAssumption` (the keys differ) and `IdsAssumption` (section 2;
without it calls swap results, section 5).

Only model-checked, because fairness is beyond the prover: `PendingResolves`,
`CloseTerminates`, `FailureIsNoticed`, `GivesUpOrReconnects`, `Finishes`,
`ReadIsHandled`, `ShutdownEnds`, `DeadGatewayEnds`, `GoroutinesEnd` and
`EveryCallIsAnswered`.

## 5. Behaviours worth knowing that no run states

- A close reason of authentication failure is retried with the same key; only
  `ErrUnauthenticated` switches to the fallback key (handler.go 276-278).
- `Close` does not return while a flush of the run loop or of the watcher waits
  for an API that does not answer: `flush` passes `context.Background()`
  (buffer.go 41), and the client has no timeout (workerapi.go 15). Without its
  exception `FlushHangs`, `CloseTerminates` fails.
- `Close` during a drain leaves the successor's socket open (connection.go 63,
  287): its goroutine waits for a run loop that has ended.
- Two branches of a Parallel that use one step id may swap results, because
  ids are numbered in the order in which a replay reaches them (manager.go 123).
  `OwnResult` is checked for ids that are distinct across branches.
- The second call of id `a` and the first call of id `a:1` have one hash.
- A request for one step makes the sleeps, waits and invokes of other branches
  report themselves again; the executor has to recognise them by their hash.
- A stored result that does not decode, in one branch of a Parallel, turns the
  whole reply into an error, so a step that another branch has just executed is
  executed again by the retry.
- Buffered replies are sent only when the worker reconnects or shuts down.
- The goroutine of `addPending` never ends (the `break`s at buffer.go 88 and 90
  leave the `select`, not the loop) and stores the reply it captured. When the
  gateway hands out a request a second time, which invoke.go 106 expects, the
  first watcher replaces the newer reply in `pendingAck` by the older one in the
  buffer. `MessageBuffer` with two `Versions` shows it.
- With `UseStreaming` a 206 reply carries neither `NoRetry` nor `RetryAt`
  (handler.go 956), although "These may be added even for 2xx codes with step
  errors" (handler.go 968): a step that returned a NoRetryError is run again.
- So is a step that returned a NoRetryError around a StepError, over any
  transport. `IsStepError` unwraps (errors.go 32), so Run takes it for a StepError
  and sets a plain error instead (run.go 102-104); the reply is a 500 without the
  no-retry mark, although NoRetryError "wraps an error, preventing retries in the
  SDK" (errors.go 36). Without the exemption of `lapsed`, `NoRetryIsFinal` fails
  in both ways.
- The pool's goroutines stop with the context that was passed to `Connect`
  (handler.go 72 in `connect/`), although "Once the worker is running, it can
  only be stopped by calling Close()" (line 54). Afterwards requests are read
  and counted but never taken; the read loop and the shutdown hang. The liveness
  properties of `WorkerPool` are stated up to that point.
- "Handle invoke in a non-blocking way" (connection.go 248): `Add` blocks when
  the channel is full. `ReadIsHandled` shows that it does not block for ever;
  for how long depends on the functions. A block longer than the grace period
  less the lag makes the heartbeat check cut a healthy connection, which is why
  `MaxLag` of `Heartbeat` includes it.
- "If we're shutting down (context is canceled) we will not ack" (invoke.go 93):
  the context is `context.Background()` (handler.go 433 in `connect/`), so
  requests that are queued at a shutdown are acked and run, and `Wait` waits for
  them. A request that is read on a socket that the cancelled `Read` has closed
  is refused, and `WORKER_PAUSE` cannot be written to it either.
- A value that cannot be encoded leaves an acked request without a reply
  (`InvokeUnencodable`).
- A function whose id is the app name, a dash and another function's id is found
  under that function's slug, too (`isOldFormat`, handler.go 882), and map order
  decides which one runs, on each instance anew. `ServesTheLatest` has the
  exception (`Ambiguous`), and fails without it.
- A sync during which the key is switched between the two attempts of
  `fetchWithAuthFallback` is rejected although both keys are right
  (`SyncIsAuthorised` has the exception).
- A request for a step whose result came with it finds nothing to run and may
  answer 200 with the value of the function (step/run.go 80). The executor of
  `Invocation` sends a targeted request once per plan or retry.
- The goroutine that streams padding checks for cancellation before it writes,
  so it may write after the body has begun (handler.go 900).
- A handshake that fails after the websocket was dialled does not close it
  (connection.go 149).
- `SetOptions` fills in its defaults after it has copied the options
  (handler.go 300-307), so a handler without a logger has none.

## 6. Not modelled

Cryptography, JSON and HTTP plumbing, logging, configuration beyond slugs, the
content of events and inspections. The event client and the entry point of
connect have neither state nor retries. Hosts, ports and gateway groups are
reduced to the choice of a connection. Retry-at times and backoff durations are
unspecified delays. The padding that is written while a streamed function runs
is not in a model. `lastGatewayHeartbeatReceived` is read atomically: every
mixture of two values of it compares like one of the two.

## 7. Plan

1. The safety part of more liveness properties, as `RunIsNeverLost` is that of
   `Finishes`: where a request of `WorkerPool`, a call of `Serve` or the run
   loop of `ConnectLoop` waits, whoever it waits for is still there.
2. `Worker`: the end of the process as an action of `MessageBuffer`, and with it
   the replies that are pending at a shutdown.
3. Padding while streaming.
