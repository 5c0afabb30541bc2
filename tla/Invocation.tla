----------------------------- MODULE Invocation -----------------------------
(***************************************************************************)
(* How a function with steps is run: the step tools (step/*.go), the       *)
(* request manager (internal/sdkrequest/manager.go), group.Parallel, the   *)
(* invoke function and the replies of the HTTP handler (handler.go) and of *)
(* the websocket worker (connect/invoke.go).                               *)
(*                                                                         *)
(* The function is replayed by every request.  A step whose result came    *)
(* with the request returns it; the first one without a result ends the    *)
(* invocation by a panic (a "hijack"), after it ran or planned the step.   *)
(*                                                                         *)
(* The user's function is a list of step calls in program order.  Calls    *)
(* with the same block are the branches of one Parallel, which runs its    *)
(* branches one after the other; any other call is a block of its own.     *)
(* A call whose error is returned ends its branch, or the function.        *)
(*                                                                         *)
(* The executor is external.  It keeps the results, sends requests that    *)
(* may run at the same time, and retries.  It schedules a planned step,    *)
(* a sleep or a wait once, and asks for plans once it has seen several     *)
(* operations in one reply.                                                *)
(***************************************************************************)
EXTENDS Naturals, Sequences

CONSTANTS
  Program,      \* sequence of [block, branch, parallel, id, kind]
  Workers,      \* goroutines that handle requests
  Transports,   \* how requests may arrive: over HTTP, streamed HTTP, connect
  Redeploys,    \* may a stored result not decode, as its type has changed?
  MaxFailures,  \* bound: how often the code of a step may fail
  None

ASSUME TransportsAssumption ==
  Transports \subseteq {"http", "stream", "connect"} /\ Transports # {}
ASSUME RedeploysAssumption == Redeploys \in BOOLEAN
ASSUME MaxFailuresAssumption == MaxFailures \in Nat

Sites == 1 .. Len(Program)

\* A step id is a sequence of its parts between colons: <<"a", 1>> is "a:1".
Ids == {Program[s].id : s \in Sites}

\* UnhashedOp.Hash; sha1 is injective for all that matters.
Hash(id, pos) == IF pos = 0 THEN id ELSE Append(id, pos)

\* Before call s there are at most s - 1 calls of its id.
Hashes == UNION {{Hash(Program[s].id, pos) : pos \in 0 .. s - 1} : s \in Sites}

\* What the executor stores for a step, and which call it stored it for.  A
\* "bad" result does not decode as the type that the step returns, and a
\* "badError" of Infer does not decode as a StepError.
Values == {"data", "error", "bad", "badError"}
Results == [value : Values, site : Sites]

Errors == {"none", "plain", "noRetry", "step"}
Deferred == {"sleep", "wait", "invoke", "infer"}
OpNames == {"StepPlanned", "StepRun", "StepError"} \cup Deferred
Ops == [hash : Hashes, op : OpNames, site : Sites]

VARIABLES
  inv,          \* inv[w]: the invocation that w handles
  results,      \* executor: hash -> result
  jobs,         \* executor: requests to send, by target
  scheduled,    \* executor: hashes whose step it has scheduled
  waiting,      \* executor: sleeps, waits and invokes in progress
  planning,     \* executor: disable_immediate_execution of its requests
  finished,     \* executor: how the run ended
  failures,     \* how often the code of a step has failed
  barred,       \* steps whose code returned a NoRetryError
  lapsed        \* those of them whose mark the SDK dropped, see NoRetryIsFinal

executor == <<results, jobs, scheduled, waiting, planning, finished>>
marks == <<barred, lapsed>>
history == <<failures, marks>>
vars == <<inv, executor, history>>

\* Idle, running, or ended: by return, by a hijack or by a panic.
Statuses == {"idle", "running", "returned", "hijacked", "panicked"}

Invocations ==
  [status : Statuses,
   steps : [Hashes -> Results \cup {None}],     \* request.Steps
   target : Hashes \cup {None},                 \* the step id of the request
   plan : BOOLEAN,                              \* DisableImmediateExecution
   at : Sites,                                  \* the call that comes next
   calls : [Ids -> Nat],                        \* mgr.indexes
   ops : Seq(Ops),                              \* mgr.ops
   err : Errors,                                \* mgr.err
   ret : Errors,                                \* what the function returned
   cancelled : BOOLEAN,                         \* fCtx is done
   planned : BOOLEAN,                           \* isPlanned of Parallel
   unexpected : BOOLEAN]                        \* unexpectedPanic of Parallel

NoResults == [h \in Hashes |-> None]

Fresh(steps, target, plan) ==
  [status |-> "running", steps |-> steps, target |-> target, plan |-> plan,
   at |-> 1, calls |-> [id \in Ids |-> 0], ops |-> <<>>, err |-> "none",
   ret |-> "none", cancelled |-> FALSE, planned |-> FALSE, unexpected |-> FALSE]

IdleInvocation == [Fresh(NoResults, None, FALSE) EXCEPT !.status = "idle"]

TypeOK ==
  /\ inv \in [Workers -> Invocations]
  /\ results \in [Hashes -> Results \cup {None}]
  /\ jobs \subseteq Hashes \cup {None}
  /\ scheduled \subseteq Hashes
  /\ waiting \subseteq Ops
  /\ planning \in BOOLEAN
  /\ finished \in {"no", "ok", "failed"}
  /\ failures \in 0 .. MaxFailures
  /\ barred \subseteq Sites
  /\ lapsed \subseteq barred

Init ==
  /\ inv = [w \in Workers |-> IdleInvocation]
  /\ results = NoResults
  /\ jobs = {None}
  /\ scheduled = {}
  /\ waiting = {}
  /\ planning = FALSE
  /\ finished = "no"
  /\ failures = 0
  /\ barred = {}
  /\ lapsed = {}

-----------------------------------------------------------------------------
(* Control flow of the user's function.                                    *)

SameBlock(s, t) == t \in Sites /\ Program[t].block = Program[s].block
SameBranch(s, t) == SameBlock(s, t) /\ Program[t].branch = Program[s].branch

\* The branches of a Parallel and the calls of a branch are contiguous, and a
\* call outside a Parallel is a block of its own.
ASSUME ProgramAssumption ==
  /\ Len(Program) \in Nat \ {0}
  /\ \A s \in Sites : /\ Program[s].parallel \in BOOLEAN
                     /\ Program[s].kind \in {"run"} \cup Deferred
  /\ \A s, t, u \in Sites : s < u /\ u < t =>
       /\ SameBlock(s, t) => SameBlock(s, u)
       /\ SameBranch(s, t) => SameBranch(s, u)
  /\ \A s, t \in Sites : SameBlock(s, t) /\ ~Program[s].parallel => s = t

\* Two branches of a Parallel share no id, and no id reads like a numbered
\* repetition of another: else two calls have the same hash.
ASSUME IdsAssumption ==
  /\ \A s, t \in Sites :
       SameBlock(s, t) /\ Program[s].id = Program[t].id => SameBranch(s, t)
  /\ \A s, t \in Sites : \A p \in 0 .. s - 1, q \in 0 .. t - 1 :
       Hash(Program[s].id, p) = Hash(Program[t].id, q)
       => Program[s].id = Program[t].id /\ p = q

ASSUME NoneAssumption == None \notin Hashes /\ None \notin Results

\* The first call after the branch of s.
AfterBranch(s) ==
  CHOOSE t \in s + 1 .. Len(Program) + 1 :
    /\ ~SameBranch(s, t)
    /\ \A u \in s + 1 .. t - 1 : SameBranch(s, u)

End(i, status) == [i EXCEPT !.status = status]

\* Mutant: Parallel forgets that one of its branches was hijacked.
GotoUnplanned(i, t) ==
  IF SameBlock(i.at, t) THEN [i EXCEPT !.at = t]
  ELSE IF i.unexpected THEN End(i, "panicked")
  ELSE IF t \notin Sites THEN End(i, "returned")
  ELSE [i EXCEPT !.at = t, !.planned = FALSE]

\* Go on with call t.  When a Parallel is over it panics again if one of its
\* branches did.
Goto(i, t) ==
  IF SameBlock(i.at, t) THEN [i EXCEPT !.at = t]
  ELSE IF i.unexpected THEN End(i, "panicked")
  ELSE IF i.planned THEN End(i, "hijacked")
  ELSE IF t \notin Sites THEN End(i, "returned")
  ELSE [i EXCEPT !.at = t]

Parallel(i) == Program[i.at].parallel

\* panic(ControlHijack{}).
Hijack(i) ==
  IF Parallel(i) THEN Goto([i EXCEPT !.planned = TRUE], AfterBranch(i.at))
  ELSE End(i, "hijacked")

\* Any other panic.
Panic(i) ==
  IF Parallel(i) THEN Goto([i EXCEPT !.unexpected = TRUE], AfterBranch(i.at))
  ELSE End(i, "panicked")

\* The call returns a value, or an error that the user's code returns.
Value(i) == Goto(i, i.at + 1)
Error(i, err) ==
  IF Parallel(i) THEN Goto(i, AfterBranch(i.at))
  ELSE [End(i, "returned") EXCEPT !.ret = err]

-----------------------------------------------------------------------------
(* The step tools.                                                         *)

\* Mutant: repeated ids are not numbered.
NewOpUncounted(i) == i

\* NewOp: count this call of its id.
NewOp(i) == [i EXCEPT !.calls[Program[i.at].id] = @ + 1]

\* The hash of the operation that NewOp creates.
OpHash(i) == Hash(Program[i.at].id, i.calls[Program[i.at].id])

\* Mutant: the operation keeps the opcode of its UnhashedOp.
AppendOpUnnamed(i, op) ==
  [i EXCEPT !.ops = Append(@, [hash |-> OpHash(i), op |-> Program[i.at].kind,
                               site |-> i.at])]

AppendOp(i, op) ==
  [i EXCEPT !.ops = Append(@, [hash |-> OpHash(i), op |-> op, site |-> i.at])]

\* preflight: another tool has already run.
Preflight(w) ==
  /\ inv[w].status = "running"
  /\ inv[w].cancelled
  /\ inv' = [inv EXCEPT ![w] = Hijack(@)]
  /\ UNCHANGED <<executor, history>>

Called(w) == inv[w].status = "running" /\ ~inv[w].cancelled
Kind(w) == Program[inv[w].at].kind

\* mgr.Step: the request has a result for the operation.
Memoized(w) == inv[w].steps[OpHash(inv[w])] # None

\* The error that a tool returns for a stored result: a StepError of Run or
\* Infer, the NoRetryError of Invoke, ErrEventNotReceived, or Infer's error
\* when it cannot decode its result.  Sleep returns nothing.
ErrorOf(kind, value) ==
  CASE kind = "sleep" \/ value = "data" -> "none"
    [] kind = "infer" /\ value = "bad" -> "plain"
    [] kind \in {"run", "infer"} /\ value = "error" -> "step"
    [] kind = "invoke" -> "noRetry"
    [] OTHER -> "plain"

\* Sleep does not look at its result, Infer returns the data that it could
\* decode.
Usable(kind, value) ==
  \/ value \in {"data", "error"}
  \/ kind = "sleep"
  \/ kind = "infer" /\ value = "bad"

MemoValue(w) == inv[w].steps[OpHash(inv[w])].value

ReturnResult(w) ==
  /\ Called(w)
  /\ Memoized(w)
  /\ Usable(Kind(w), MemoValue(w))
  /\ LET err == ErrorOf(Kind(w), MemoValue(w))
     IN  inv' = [inv EXCEPT ![w] = IF err = "none" THEN Value(NewOp(@))
                                                  ELSE Error(NewOp(@), err)]
  /\ UNCHANGED <<executor, history>>

\* Mutant: the error is not kept.
FailInvocationSilently(i) == Hijack(NewOp(i))

\* mgr.SetErr and a hijack: the invocation fails and no operation is added.
FailInvocation(i) == Hijack([NewOp(i) EXCEPT !.err = "plain"])

\* Run, WaitForEvent and Invoke: a stored result that does not decode.  Infer:
\* a stored error that does not.
ReturnBadResult(w) ==
  /\ Called(w)
  /\ Memoized(w)
  /\ ~Usable(Kind(w), MemoValue(w))
  /\ inv' = [inv EXCEPT ![w] = FailInvocation(@)]
  /\ UNCHANGED <<executor, history>>

\* A tool that leaves the work to the executor.  None of them looks at the
\* target of the request.
Defer(w, kind) ==
  /\ Called(w)
  /\ ~Memoized(w)
  /\ Kind(w) = kind
  /\ inv' = [inv EXCEPT ![w] = Hijack(NewOp(AppendOp(@, kind)))]
  /\ UNCHANGED <<executor, history>>

Sleep(w) == Defer(w, "sleep")
WaitForEvent(w) == Defer(w, "wait")
Invoke(w) == Defer(w, "invoke")
Infer(w) == Defer(w, "infer")

\* Infer: the body of the request cannot be encoded.
InferUnencodable(w) ==
  /\ Called(w)
  /\ ~Memoized(w)
  /\ Kind(w) = "infer"
  /\ failures < MaxFailures
  /\ failures' = failures + 1
  /\ inv' = [inv EXCEPT ![w] = FailInvocation(@)]
  /\ UNCHANGED <<executor, marks>>

\* Mutant: Run ignores which step the request is for.
OtherTargetIgnored(w) == FALSE

\* The request is for another step.
OtherTarget(w) == inv[w].target \notin {None, OpHash(inv[w])}

\* Run: the request is for another step.
SkipRun(w) ==
  /\ Called(w)
  /\ ~Memoized(w)
  /\ Kind(w) = "run"
  /\ OtherTarget(w)
  /\ inv' = [inv EXCEPT ![w] = Hijack(NewOp(@))]
  /\ UNCHANGED <<executor, history>>

\* Mutant: a step of a Parallel is planned although the request is for it.
PlansTarget(w) == Parallel(inv[w]) \/ inv[w].plan

\* Run: the step is planned, not run.
Plans(w) ==
  /\ inv[w].target = None
  /\ Parallel(inv[w]) \/ inv[w].plan

PlanRun(w) ==
  /\ Called(w)
  /\ ~Memoized(w)
  /\ Kind(w) = "run"
  /\ Plans(w)
  /\ inv' = [inv EXCEPT ![w] = Hijack(NewOp(AppendOp(@, "StepPlanned")))]
  /\ UNCHANGED <<executor, history>>

\* Run: the code of the step is executed.
Runs(w) ==
  /\ Called(w)
  /\ ~Memoized(w)
  /\ Kind(w) = "run"
  /\ ~OtherTarget(w)
  /\ ~Plans(w)

\* mgr.Cancel, deferred: it is called however the code of the step ends.
Cancel(i) == [i EXCEPT !.cancelled = TRUE]

\* Mutant: Run does not cancel the context.
RunSucceedsUncancelled(w) ==
  /\ Runs(w)
  /\ inv' = [inv EXCEPT ![w] = Hijack(NewOp(AppendOp(@, "StepRun")))]
  /\ UNCHANGED <<executor, history>>

RunSucceeds(w) ==
  /\ Runs(w)
  /\ inv' = [inv EXCEPT ![w] = Hijack(Cancel(NewOp(AppendOp(@, "StepRun"))))]
  /\ UNCHANGED <<executor, history>>

\* The code of the step returns an error.
RunFails(w, err) ==
  /\ Runs(w)
  /\ failures < MaxFailures
  /\ failures' = failures + 1
  /\ inv' = [inv EXCEPT ![w] =
               LET i == Cancel(NewOp(AppendOp(@, "StepError")))
               IN  Hijack([i EXCEPT !.err = err])]
  /\ IF err = "noRetry"
       THEN barred' = barred \cup {inv[w].at} /\ lapsed' = lapsed \ {inv[w].at}
       ELSE UNCHANGED marks
  /\ UNCHANGED executor

\* It returns the StepError of another step, which a NoRetryError may wrap:
\* the invocation fails with a plain error, and there is no operation.
RunReturnsStepError(w, wrapped) ==
  /\ Runs(w)
  /\ failures < MaxFailures
  /\ failures' = failures + 1
  /\ inv' = [inv EXCEPT ![w] = FailInvocation(Cancel(@))]
  /\ IF wrapped
       THEN barred' = barred \cup {inv[w].at} /\ lapsed' = lapsed \cup {inv[w].at}
       ELSE UNCHANGED marks
  /\ UNCHANGED executor

\* It returns a value that cannot be encoded: an operation and an error.
RunUnencodable(w) ==
  /\ Runs(w)
  /\ failures < MaxFailures
  /\ failures' = failures + 1
  /\ inv' = [inv EXCEPT ![w] =
               LET i == Cancel(NewOp(AppendOp(@, "StepRun")))
               IN  Hijack([i EXCEPT !.err = "plain"])]
  /\ UNCHANGED <<executor, marks>>

\* It panics.
RunPanics(w) ==
  /\ Runs(w)
  /\ failures < MaxFailures
  /\ failures' = failures + 1
  /\ inv' = [inv EXCEPT ![w] = Panic(Cancel(NewOp(@)))]
  /\ UNCHANGED <<executor, marks>>

-----------------------------------------------------------------------------
(* The reply.                                                              *)

Ended(w) == inv[w].status \in {"returned", "hijacked", "panicked"}

\* invoke: a panic comes before mgr.Err(), which comes before the error that
\* the function returned.
InvokeError(i) ==
  IF i.status = "panicked" THEN "plain"
  ELSE IF i.err # "none" THEN i.err
  ELSE i.ret

\* handler.invoke: the error of a failed step is ignored.
IgnoredError(i) == Len(i.ops) = 1 /\ i.ops[1].op = "StepError"

\* The error that is left, and the status for it.  Operations come before
\* the value of the function.
LeftError(i) == IF IgnoredError(i) THEN "none" ELSE InvokeError(i)

Status(i) ==
  IF LeftError(i) # "none" THEN "error"
  ELSE IF i.ops # <<>> THEN "notCompleted"
  ELSE "done"

\* Mutant: the error of a step is ignored before its kind is checked.
NoRetryTooLate(i) == LeftError(i) \in {"noRetry", "step"}

\* No retry: a NoRetryError, of the function or of a step, or a StepError
\* that the function returns.
NoRetry(i) == InvokeError(i) = "noRetry" \/ LeftError(i) = "step"

\* 500, 206 or 200, and the no-retry header with any of them.
HttpReply(i) == [status |-> Status(i), ops |-> i.ops, noRetry |-> NoRetry(i)]

\* A streamed reply with operations says nothing about retries.
StreamReply(i) ==
  [status |-> Status(i), ops |-> i.ops,
   noRetry |-> NoRetry(i) /\ Status(i) = "error"]

\* SDKResponse of connect.
connectInvoke(i) ==
  [status |-> Status(i), ops |-> i.ops, noRetry |-> NoRetry(i)]

Reply(i, transport) ==
  CASE transport = "http" -> HttpReply(i)
    [] transport = "stream" -> StreamReply(i)
    [] transport = "connect" -> connectInvoke(i)

\* The instances of an app may be reached in different ways.
Replies(i) == {Reply(i, transport) : transport \in Transports}

-----------------------------------------------------------------------------
(* The executor.                                                           *)

OpsNamed(ops, names) == {ops[n] : n \in {k \in 1 .. Len(ops) : ops[k].op \in names}}

Send(w, target) ==
  /\ finished = "no"
  /\ inv[w].status = "idle"
  /\ target \in jobs
  /\ jobs' = jobs \ {target}
  /\ inv' = [inv EXCEPT ![w] = Fresh(results, target, planning)]
  /\ UNCHANGED <<results, scheduled, waiting, planning, finished, history>>

Free(w) == inv' = [inv EXCEPT ![w] = IdleInvocation]

\* A reply with operations.  A failed step is retried with the same request,
\* or its error becomes its result.
ReceiveOps(w) ==
  /\ Ended(w)
  /\ \E transport \in Transports :
     LET i == inv[w]
         reply == Reply(i, transport)
         new == {o \in OpsNamed(reply.ops, OpNames) : o.hash \notin scheduled}
         planned == {o \in new : o.op = "StepPlanned"}
         deferred == {o \in new : o.op \in Deferred}
         success == OpsNamed(reply.ops, {"StepRun"})
         failure == OpsNamed(reply.ops, {"StepError"})
     IN  /\ reply.status = "notCompleted"
         /\ scheduled' = scheduled \cup {o.hash : o \in planned \cup deferred}
         /\ waiting' = waiting \cup deferred
         /\ planning' = (planning \/ Len(reply.ops) > 1)
         /\ lapsed' = IF transport = "stream"
                        THEN lapsed \cup ({o.site : o \in failure} \cap barred)
                        ELSE lapsed
         /\ \E giveUp \in IF reply.noRetry THEN {TRUE} ELSE BOOLEAN,
              decodes \in IF Redeploys THEN BOOLEAN ELSE {TRUE} :
              LET final == success \cup IF giveUp THEN failure ELSE {}
              IN  /\ results' =
                       [h \in Hashes |->
                          IF \E o \in final : o.hash = h
                          THEN LET o == CHOOSE o \in final : o.hash = h
                               IN  [value |-> IF ~decodes THEN "bad"
                                              ELSE IF o.op = "StepRun" THEN "data"
                                              ELSE "error",
                                    site |-> o.site]
                          ELSE results[h]]
                  /\ jobs' = UNION {jobs, {o.hash : o \in planned},
                                    IF final # {} THEN {None} ELSE {},
                                    IF final # success \cup failure
                                      THEN {i.target} ELSE {}}
  /\ Free(w)
  /\ UNCHANGED <<finished, failures, barred>>

\* The function has returned.
ReceiveDone(w) ==
  /\ Ended(w)
  /\ \E reply \in Replies(inv[w]) : reply.status = "done"
  /\ finished' = IF finished = "no" THEN "ok" ELSE finished
  /\ Free(w)
  /\ UNCHANGED <<results, jobs, scheduled, waiting, planning, history>>

\* The request is retried, or the run fails.
ReceiveError(w) ==
  /\ Ended(w)
  /\ \E reply \in Replies(inv[w]) :
       /\ reply.status = "error"
       /\ \/ /\ ~reply.noRetry
             /\ jobs' = jobs \cup {inv[w].target}
             /\ UNCHANGED finished
          \/ /\ finished' = IF finished = "no" THEN "failed" ELSE finished
             /\ UNCHANGED jobs
  /\ Free(w)
  /\ UNCHANGED <<results, scheduled, waiting, planning, history>>

\* What may become the result of a sleep, which is only over, of a wait, an
\* invoke or an inference.
ResumedWith(kind) ==
  IF kind = "sleep" THEN {"data"}
  ELSE UNION {{"data", "error"},
              IF Redeploys THEN {"bad"} ELSE {},
              IF Redeploys /\ kind = "infer" THEN {"badError"} ELSE {}}

\* A sleep is over, an event arrives or does not, an invoked function ends.
Resume(o) ==
  /\ o \in waiting
  /\ waiting' = waiting \ {o}
  /\ \E value \in ResumedWith(o.op) :
       results' = [results EXCEPT ![o.hash] = [value |-> value, site |-> o.site]]
  /\ jobs' = jobs \cup {None}
  /\ UNCHANGED <<inv, scheduled, planning, finished, history>>

-----------------------------------------------------------------------------

Step(w) ==
  \/ Preflight(w)
  \/ ReturnResult(w)
  \/ ReturnBadResult(w)
  \/ Sleep(w)
  \/ WaitForEvent(w)
  \/ Invoke(w)
  \/ Infer(w)
  \/ InferUnencodable(w)
  \/ SkipRun(w)
  \/ PlanRun(w)
  \/ RunSucceeds(w)
  \/ \E err \in {"plain", "noRetry"} : RunFails(w, err)
  \/ \E wrapped \in BOOLEAN : RunReturnsStepError(w, wrapped)
  \/ RunUnencodable(w)
  \/ RunPanics(w)

Receive(w) == ReceiveOps(w) \/ ReceiveDone(w) \/ ReceiveError(w)

Next ==
  \/ \E w \in Workers : Step(w) \/ Receive(w)
  \/ \E w \in Workers, target \in Hashes \cup {None} : Send(w, target)
  \/ \E o \in waiting : Resume(o)

Spec == Init /\ [][Next]_vars

\* A handler that can run does run, and the executor keeps going.  A request
\* is not retried for ever (ReceiveError may always end the run).
Fairness ==
  /\ \A w \in Workers : WF_vars(Step(w)) /\ WF_vars(Receive(w))
  /\ WF_vars(\E w \in Workers, target \in Hashes \cup {None} : Send(w, target))
  /\ WF_vars(\E o \in waiting : Resume(o))
  /\ \A w \in Workers : SF_vars(ReceiveError(w) /\ finished' # "no")

FairSpec == Spec /\ Fairness

-----------------------------------------------------------------------------

HasResult(s) == \E h \in Hashes : results[h] # None /\ results[h].site = s
Failed(s) ==
  \E h \in Hashes : /\ results[h] # None
                    /\ results[h].site = s
                    /\ ErrorOf(Program[s].kind, results[h].value) # "none"

\* A call has its result, or comes after an error in its branch.
Settled(s) == HasResult(s) \/ \E t \in 1 .. s - 1 : SameBranch(s, t) /\ Failed(t)

\* The code of a step whose result is stored is not run again, although
\* requests carry the results of the time they were sent, branches are
\* requested at the same time, and failing requests are retried.
RunsOnce == \A w \in Workers : Runs(w) => ~HasResult(inv[w].at)

\* One request runs the code of at most one step: after it, every other tool
\* does nothing.
OneStepPerRequest ==
  \A w \in Workers :
    LET ops == inv[w].ops
        executed == {n \in 1 .. Len(ops) : ops[n].op \in {"StepRun", "StepError"}}
    IN  \A m, n \in executed : m = n /\ n = Len(ops) /\ inv[w].cancelled

\* A call is given the result that was stored for this very call: replays
\* number the calls of an id in the same way.
OwnResult ==
  \A w \in Workers :
    Called(w) /\ Memoized(w) => inv[w].steps[OpHash(inv[w])].site = inv[w].at

\* Parallel is a barrier: no call after it is made, in any replay, before all
\* of its branches are settled.
ParallelJoins ==
  \A w \in Workers : Called(w) =>
    \A s \in 1 .. inv[w].at - 1 : SameBlock(s, inv[w].at) \/ Settled(s)

\* The run succeeds only when every call is settled: no reply of an
\* invocation that was stopped is taken for the end of the function.
FinishedIsComplete == finished = "ok" => \A s \in Sites : Settled(s)

\* A step whose code returned a NoRetryError is never run again, unless the
\* SDK dropped the mark in one of two places: the error wraps a StepError, which
\* Run replaces by a plain error, or it was reported by a streamed reply with
\* operations, which has no field for it.
NoRetryIsFinal == \A w \in Workers : Runs(w) => inv[w].at \notin barred \ lapsed

Outcome(s) ==
  IF Failed(s) THEN "error" ELSE IF HasResult(s) THEN "ok" ELSE "none"

Durable == INSTANCE DurableRun WITH
  outcome <- [s \in Sites |-> Outcome(s)],
  over <- finished

\* Replays, retries and requests that run at the same time are invisible: the
\* results that are stored are those of a function whose steps are settled in
\* the order of its code, each once and for good, and which ends after them.
DurableRunSpec == Durable!Spec

\* Every run comes to an end.
Finishes == <>(finished # "no")

-----------------------------------------------------------------------------
(* What comments say and the code does not do.                             *)

\* handler.go: "When triggering step errors, we should have an OpcodeStepError
\* within ops alongside an error.  We can safely ignore that error".
StepErrorIsReported ==
  \A w \in Workers :
    Ended(w) /\ OpsNamed(inv[w].ops, {"StepError"}) # {}
    => \A reply \in Replies(inv[w]) : reply.status = "notCompleted"

=============================================================================
