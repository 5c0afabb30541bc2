-------------------------- MODULE InvocationProofs --------------------------
(***************************************************************************)
(* Proofs about Invocation, for every program, every number of requests    *)
(* at the same time and every number of failures.                          *)
(*                                                                         *)
(* ReplayProofs shows that an invocation keeps LocalInv.  Here the results *)
(* that it carries are related to the results that the executor has by     *)
(* now.  Before planning is on, at most one request, job or wait exists    *)
(* (Token), so that an invocation without a target has all results.  With  *)
(* planning on, only the one request for a step runs it (Claims).          *)
(***************************************************************************)
EXTENDS ReplayProofs

InFlight(w) == inv[w].status # "idle"

IdleOK == \A w \in Workers : ~InFlight(w) => inv[w] = IdleInvocation

\* The results that a request carries are still the results.
Seen == \A w \in Workers : Extends(inv[w].steps, results)

\* Sleeps, waits and invokes in progress.
Waits ==
  /\ \A o \in waiting : /\ Known(results, o.hash, o.site)
                        /\ results[o.hash] = None
                        /\ o.hash \in scheduled
  /\ \A o, p \in waiting : o.hash = p.hash => o = p

\* A step that was planned is run by one request at a time.
Runnable(h) == \E s \in Sites : Known(results, h, s) /\ Program[s].kind = "run"

Claimed(h) == h \in jobs \/ \E w \in Workers : inv[w].target = h

Claims ==
  /\ \A h \in Hashes : Claimed(h) =>
       /\ results[h] = None
       /\ h \in scheduled
       /\ \A o \in waiting : o.hash # h
       /\ Runnable(h)
  /\ \A w, v \in Workers : inv[w].target \in Hashes =>
       inv[w].target \notin jobs /\ (inv[v].target = inv[w].target => v = w)

\* Until planning is on, a run is sequential.
Sequential ==
  /\ \A w \in Workers : InFlight(w) =>
       /\ \A v \in Workers : InFlight(v) => v = w
       /\ jobs = {} /\ waiting = {}
       /\ inv[w].steps = results /\ ~inv[w].plan
  /\ waiting # {} => jobs = {}
  /\ \A o, p \in waiting : o = p
  /\ \A g, h \in jobs : g = h

Token ==
  /\ ~planning => Sequential
  /\ \A w \in Workers :
       InFlight(w) /\ inv[w].target = None /\ ~inv[w].plan => ~planning

\* A result of a step that was not scheduled is known to every request.
Unscheduled == \A h \in Hashes : h \notin scheduled /\ results[h] # None =>
  \A w \in Workers : InFlight(w) => inv[w].steps[h] # None

Complete == finished = "ok" => \A s \in Sites : SettledIn(results, s)

GlobalInv ==
  /\ IdleOK
  /\ Consistent(results)
  /\ Seen
  /\ Waits
  /\ Claims
  /\ Token
  /\ Unscheduled
  /\ Complete

IInv ==
  /\ TypeOK
  /\ \A w \in Workers : LocalInv(inv[w])
  /\ GlobalInv

-----------------------------------------------------------------------------

LEMMA ResultsType ==
  ASSUME TypeOK
  PROVE  results \in ResultMap /\ \A w \in Workers : inv[w] \in Invocations
BY DEF TypeOK, ResultMap

LEMMA NoneIsNoHash == None \notin Hashes
BY NoneAssumption

LEMMA InitInv == Init => IInv
<1> SUFFICES ASSUME Init
             PROVE  IInv
  OBVIOUS
<1> USE DEF Init
<1>1. TypeOK
  <2>1. inv \in [Workers -> Invocations]
    BY IdleStep
  <2>2. results \in [Hashes -> Results \cup {None}]
    BY IdleStep DEF ResultMap
  <2>3. failures \in 0 .. MaxFailures
    BY MaxFailuresAssumption
  <2> QED
    BY <2>1, <2>2, <2>3 DEF TypeOK
<1>2. \A w \in Workers : inv[w] = IdleInvocation /\ LocalInv(inv[w])
  BY IdleStep
<1>3. \A h \in Hashes : results[h] = None
  BY DEF NoResults
<1>4. IdleOK /\ Consistent(results)
  BY <1>2, IdleStep DEF IdleOK
<1>5. Seen
  BY <1>2, <1>3, IdleStep DEF Seen, Extends
<1>6. Waits /\ Complete /\ Unscheduled
  BY <1>3 DEF Waits, Complete, Unscheduled
<1>7. Claims
  BY <1>2, IdleStep, NoneIsNoHash DEF Claims, Claimed
<1>8. Token
  BY <1>2, IdleStep DEF Token, Sequential, InFlight
<1> QED
  BY <1>1, <1>2, <1>4, <1>5, <1>6, <1>7, <1>8 DEF IInv, GlobalInv

\* The steps of an invocation leave the executor alone, and what matters to
\* the executor of an invocation.
LEMMA StepInv ==
  ASSUME IInv, NEW w \in Workers, Step(w)
  PROVE  IInv'
<1> USE DEF IInv
<1>1. PICK k : /\ inv' = [inv EXCEPT ![w] = k]
               /\ inv[w].status = "running"
               /\ StepKeeps(inv[w], k)
  BY StepLocal
<1>2. /\ UNCHANGED executor
      /\ failures' \in 0 .. MaxFailures
      /\ barred' \subseteq Sites /\ lapsed' \subseteq barred'
  <2>1. /\ failures \in 0 .. MaxFailures /\ MaxFailures \in Nat
        /\ barred \subseteq Sites /\ lapsed \subseteq barred
    BY MaxFailuresAssumption DEF TypeOK
  <2>2. inv[w].at \in Sites
    BY ResultsType, InvocationType
  <2>3. failures < MaxFailures => failures + 1 \in 0 .. MaxFailures
    BY <2>1
  <2>4. ASSUME NEW err, RunFails(w, err)
        PROVE  /\ UNCHANGED executor /\ failures' \in 0 .. MaxFailures
               /\ barred' \subseteq Sites /\ lapsed' \subseteq barred'
    BY <2>1, <2>2, <2>3, <2>4 DEF RunFails, marks
  <2>5. ASSUME NEW wrapped, RunReturnsStepError(w, wrapped)
        PROVE  /\ UNCHANGED executor /\ failures' \in 0 .. MaxFailures
               /\ barred' \subseteq Sites /\ lapsed' \subseteq barred'
    BY <2>1, <2>2, <2>3, <2>5 DEF RunReturnsStepError, marks
  <2> QED
    BY <2>1, <2>3, <2>4, <2>5
       DEF Step, Preflight, ReturnResult, ReturnBadResult, Sleep, WaitForEvent,
           Invoke, Infer, Defer, InferUnencodable, SkipRun, PlanRun, RunSucceeds,
           RunUnencodable, RunPanics, history, marks
<1>3. /\ results' = results /\ jobs' = jobs /\ scheduled' = scheduled
      /\ waiting' = waiting /\ planning' = planning /\ finished' = finished
  BY <1>2 DEF executor
<1>4. /\ inv' \in [Workers -> Invocations]
      /\ \A v \in Workers : /\ LocalInv(inv'[v])
                            /\ inv'[v].steps = inv[v].steps
                            /\ inv'[v].target = inv[v].target
                            /\ inv'[v].plan = inv[v].plan
                            /\ (inv'[v].status # "idle") <=> (inv[v].status # "idle")
                            /\ inv[v].status = "idle" => inv'[v] = inv[v]
  <2>1. inv \in [Workers -> Invocations]
    BY DEF TypeOK
  <2>2. inv'[w] = k /\ \A v \in Workers : v # w => inv'[v] = inv[v]
    BY <1>1, <2>1
  <2> QED
    BY <1>1, <2>1, <2>2 DEF StepKeeps, Kept
<1>5. TypeOK'
  BY <1>2, <1>3, <1>4 DEF TypeOK
<1>6. IdleOK' /\ Consistent(results)' /\ Seen' /\ Unscheduled' /\ Complete' /\ Waits'
  BY <1>3, <1>4 DEF GlobalInv, IdleOK, Seen, Unscheduled, Complete, Waits, InFlight
<1>7. Claims'
  BY <1>3, <1>4 DEF GlobalInv, Claims, Claimed, Runnable
<1>8. Token'
  BY <1>3, <1>4 DEF GlobalInv, Token, Sequential, InFlight
<1> QED
  BY <1>4, <1>5, <1>6, <1>7, <1>8 DEF GlobalInv

\* Another request: a job of the executor becomes an invocation.
LEMMA SendInv ==
  ASSUME IInv, NEW w \in Workers, NEW target \in Hashes \cup {None},
         Send(w, target)
  PROVE  IInv'
<1> USE DEF IInv
<1> DEFINE k == Fresh(results, target, planning)
<1>1. /\ inv[w].status = "idle" /\ target \in jobs /\ jobs' = jobs \ {target}
      /\ inv' = [inv EXCEPT ![w] = k]
      /\ results' = results /\ scheduled' = scheduled /\ waiting' = waiting
      /\ planning' = planning /\ finished' = finished
      /\ failures' = failures /\ barred' = barred /\ lapsed' = lapsed
  BY DEF Send, history, marks
<1>2. results \in ResultMap /\ Consistent(results) /\ planning \in BOOLEAN
  BY ResultsType DEF GlobalInv, TypeOK
<1>3. target # None =>
        /\ results[target] = None
        /\ \E s \in Sites : Known(results, target, s) /\ Program[s].kind = "run"
  BY <1>1 DEF GlobalInv, Claims, Claimed, Runnable
<1>4. /\ k \in Invocations /\ LocalInv(k) /\ k.status = "running"
      /\ k.steps = results /\ k.target = target /\ k.plan = planning
  BY <1>2, <1>3, FreshFacts, FreshStep
<1> HIDE DEF k
<1>5. /\ inv' \in [Workers -> Invocations]
      /\ inv'[w] = k
      /\ \A v \in Workers : v # w => inv'[v] = inv[v]
  BY <1>1, <1>4 DEF TypeOK
<1>6. TypeOK'
  BY <1>1, <1>5 DEF TypeOK
<1>7. \A v \in Workers : LocalInv(inv'[v])
  BY <1>4, <1>5
<1>8. IdleOK' /\ Consistent(results)' /\ Waits' /\ Complete'
  BY <1>1, <1>4, <1>5 DEF GlobalInv, IdleOK, InFlight, Waits, Complete
<1>9. Seen'
  BY <1>1, <1>4, <1>5 DEF GlobalInv, Seen, Extends
<1>10. Unscheduled'
  BY <1>1, <1>4, <1>5 DEF GlobalInv, Unscheduled, InFlight
<1>11. Claims'
  <2>1. inv[w].target = None
    BY <1>1, IdleStep DEF GlobalInv, IdleOK, InFlight
  <2>2. \A h \in Hashes : Claimed(h)' => Claimed(h)
    BY <1>1, <1>4, <1>5 DEF Claimed
  <2>3. \A h \in Hashes : Runnable(h)' = Runnable(h)
    BY <1>1 DEF Runnable
  <2>4. \A v \in Workers : target \in Hashes => inv[v].target # target
    BY <1>1 DEF GlobalInv, Claims
  <2>5. ASSUME NEW u \in Workers, NEW v \in Workers, inv'[u].target \in Hashes
        PROVE  /\ inv'[u].target \notin jobs'
               /\ inv'[v].target = inv'[u].target => v = u
    BY <1>1, <1>4, <1>5, <2>1, <2>4, <2>5 DEF GlobalInv, Claims
  <2> QED
    BY <1>1, <2>2, <2>3, <2>5 DEF GlobalInv, Claims
<1>12. Token'
  <2>1. ~planning => Sequential'
    <3> SUFFICES ASSUME ~planning
                 PROVE  Sequential'
      OBVIOUS
    <3>1. Sequential
      BY DEF GlobalInv, Token
    <3>2. \A v \in Workers : ~InFlight(v)
      BY <1>1, <3>1 DEF Sequential
    <3>3. jobs' = {} /\ waiting = {}
      BY <1>1, <3>1 DEF Sequential
    <3> QED
      BY <1>1, <1>4, <1>5, <3>2, <3>3 DEF Sequential, InFlight
  <2> QED
    BY <1>1, <1>4, <1>5, <2>1 DEF GlobalInv, Token, InFlight
<1> QED
  BY <1>6, <1>7, <1>8, <1>9, <1>10, <1>11, <1>12 DEF GlobalInv

-----------------------------------------------------------------------------
(* Replies.                                                                *)

\* Only a streamed reply with operations says nothing about retries.
LEMMA ReplyOf ==
  ASSUME NEW i, NEW transport \in Transports
  PROVE  LET reply == Reply(i, transport)
         IN  /\ reply.ops = i.ops /\ reply.status = Status(i)
             /\ transport # "stream" \/ Status(i) = "error"
                => reply.noRetry = NoRetry(i)
<1>1. transport \in {"http", "stream", "connect"}
  BY TransportsAssumption
<1>2. CASE transport = "http"
  BY <1>2 DEF Reply, HttpReply
<1>3. CASE transport = "stream"
  BY <1>3 DEF Reply, StreamReply, NoRetry
<1>4. CASE transport = "connect"
  BY <1>4 DEF Reply, connectInvoke
<1> QED
  BY <1>1, <1>2, <1>3, <1>4

LEMMA ReplyFacts ==
  ASSUME NEW i, NEW reply \in Replies(i)
  PROVE  /\ reply.ops = i.ops /\ reply.status = Status(i)
         /\ Status(i) = "error" => reply.noRetry = NoRetry(i)
BY ReplyOf DEF Replies

\* The end of an invocation frees its goroutine.
LEMMA FreeFacts ==
  ASSUME IInv, NEW w \in Workers, Free(w)
  PROVE  /\ inv' \in [Workers -> Invocations]
         /\ \A v \in Workers :
              /\ LocalInv(inv'[v])
              /\ InFlight(v)' => v # w /\ inv'[v] = inv[v] /\ InFlight(v)
              /\ inv'[v].target # None => v # w /\ inv'[v] = inv[v]
              /\ Extends(inv'[v].steps, results)
         /\ IdleOK'
<1>1. inv \in [Workers -> Invocations] /\ IdleOK /\ Seen
  BY DEF IInv, GlobalInv, TypeOK
<1>2. /\ inv' \in [Workers -> Invocations]
      /\ inv'[w] = IdleInvocation
      /\ \A v \in Workers : v # w => inv'[v] = inv[v]
  BY <1>1, IdleStep DEF Free
<1>3. Extends(NoResults, results)
  BY DEF Extends, NoResults
<1>4. IdleOK'
  BY <1>1, <1>2 DEF IdleOK, InFlight
<1> QED
  BY <1>1, <1>2, <1>3, <1>4, IdleStep DEF IInv, InFlight, Seen

\* The function has returned and all of its calls are settled.
LEMMA ReceiveDoneInv ==
  ASSUME IInv, NEW w \in Workers, ReceiveDone(w)
  PROVE  IInv'
<1> DEFINE i == inv[w]
<1>1. /\ Status(i) = "done"
      /\ results' = results /\ jobs' = jobs /\ scheduled' = scheduled
      /\ waiting' = waiting /\ planning' = planning
      /\ failures' = failures /\ barred' = barred /\ lapsed' = lapsed
      /\ finished' = IF finished = "no" THEN "ok" ELSE finished
      /\ Free(w) /\ Ended(w)
  BY ReplyFacts DEF ReceiveDone, history, marks
<1>2. /\ inv' \in [Workers -> Invocations]
      /\ \A v \in Workers :
           /\ LocalInv(inv'[v])
           /\ InFlight(v)' => v # w /\ inv'[v] = inv[v] /\ InFlight(v)
           /\ inv'[v].target # None => v # w /\ inv'[v] = inv[v]
           /\ Extends(inv'[v].steps, results)
      /\ IdleOK'
  BY <1>1, FreeFacts
<1>3. TypeOK'
  BY <1>1, <1>2 DEF IInv, TypeOK
<1>4. Complete'
  <2>1. i.ops = <<>> /\ LeftError(i) = "none"
    BY <1>1 DEF Status
  <2>2. ~IgnoredError(i)
    BY <2>1 DEF IgnoredError
  <2>3. i.status # "panicked" /\ i.err = "none" /\ i.ret = "none"
    BY <2>1, <2>2 DEF LeftError, InvokeError
  <2>4. i.status # "hijacked"
    BY <2>1, <2>3 DEF IInv, LocalInv, StatusOK, Reports
  <2>5. i.status = "returned"
    BY <1>1, <2>3, <2>4 DEF Ended
  <2>6. \A s \in Sites : SettledIn(i.steps, s)
    BY <2>3, <2>5 DEF IInv, LocalInv, ReturnedOK
  <2>7. \A s \in Sites : SettledIn(results, s)
    BY <2>6, MoreResults DEF IInv, GlobalInv, Seen
  <2> QED
    BY <1>1, <2>7 DEF Complete
<1>5. Consistent(results)' /\ Waits' /\ Seen'
  BY <1>1, <1>2 DEF IInv, GlobalInv, Waits, Seen
<1>6. Unscheduled'
  BY <1>1, <1>2 DEF IInv, GlobalInv, Unscheduled
<1>7. Claims'
  <2>1. \A h \in Hashes : Claimed(h)' => Claimed(h)
    BY <1>1, <1>2, NoneIsNoHash DEF Claimed
  <2>2. \A h \in Hashes : Runnable(h)' = Runnable(h)
    BY <1>1 DEF Runnable
  <2>3. ASSUME NEW u \in Workers, NEW v \in Workers, inv'[u].target \in Hashes
        PROVE  /\ inv'[u].target \notin jobs'
               /\ inv'[v].target = inv'[u].target => v = u
    BY <1>1, <1>2, <2>3, NoneIsNoHash DEF IInv, GlobalInv, Claims
  <2> QED
    BY <1>1, <2>1, <2>2, <2>3 DEF IInv, GlobalInv, Claims
<1>8. Token'
  BY <1>1, <1>2 DEF IInv, GlobalInv, Token, Sequential, InFlight
<1> QED
  BY <1>2, <1>3, <1>4, <1>5, <1>6, <1>7, <1>8 DEF IInv, GlobalInv

\* The request is sent again, or the run fails.
LEMMA ReceiveErrorInv ==
  ASSUME IInv, NEW w \in Workers, ReceiveError(w)
  PROVE  IInv'
<1> DEFINE i == inv[w]
<1>1. /\ results' = results /\ scheduled' = scheduled
      /\ waiting' = waiting /\ planning' = planning
      /\ failures' = failures /\ barred' = barred /\ lapsed' = lapsed
      /\ jobs' = jobs \/ jobs' = jobs \cup {i.target}
      /\ finished' \in {finished, "failed"}
      /\ Free(w) /\ InFlight(w)
  BY DEF ReceiveError, history, marks, Ended, InFlight
<1>2. /\ inv' \in [Workers -> Invocations]
      /\ \A v \in Workers :
           /\ LocalInv(inv'[v])
           /\ InFlight(v)' => v # w /\ inv'[v] = inv[v] /\ InFlight(v)
           /\ inv'[v].target # None => v # w /\ inv'[v] = inv[v]
           /\ Extends(inv'[v].steps, results)
      /\ IdleOK'
  BY <1>1, FreeFacts
<1>3. TypeOK'
  <2>1. i.target \in Hashes \cup {None}
    BY ResultsType, InvocationType DEF IInv
  <2> QED
    BY <1>1, <1>2, <2>1 DEF IInv, TypeOK
<1>4. Consistent(results)' /\ Waits' /\ Seen' /\ Complete'
  BY <1>1, <1>2 DEF IInv, GlobalInv, Waits, Seen, Complete
<1>5. Unscheduled'
  BY <1>1, <1>2 DEF IInv, GlobalInv, Unscheduled
<1>6. Claims'
  <2>1. \A h \in Hashes : Claimed(h)' => Claimed(h)
    BY <1>1, <1>2, NoneIsNoHash DEF Claimed
  <2>2. \A h \in Hashes : Runnable(h)' = Runnable(h)
    BY <1>1 DEF Runnable
  <2>3. ASSUME NEW u \in Workers, NEW v \in Workers, inv'[u].target \in Hashes
        PROVE  /\ inv'[u].target \notin jobs'
               /\ inv'[v].target = inv'[u].target => v = u
    <3>1. u # w /\ inv'[u] = inv[u] /\ inv[u].target \in Hashes
      BY <1>2, <2>3, NoneIsNoHash
    <3>2. inv[u].target \notin jobs /\ inv[w].target # inv[u].target
      BY <3>1 DEF IInv, GlobalInv, Claims
    <3> QED
      BY <1>1, <1>2, <3>1, <3>2, NoneIsNoHash DEF IInv, GlobalInv, Claims
  <2> QED
    BY <1>1, <2>1, <2>2, <2>3 DEF IInv, GlobalInv, Claims
<1>7. Token'
  <2>1. ~planning => Sequential'
    <3> SUFFICES ASSUME ~planning
                 PROVE  Sequential'
      OBVIOUS
    <3>1. /\ jobs = {} /\ waiting = {}
          /\ \A v \in Workers : InFlight(v) => v = w
      BY <1>1 DEF IInv, GlobalInv, Token, Sequential
    <3>2. \A v \in Workers : ~InFlight(v)'
      BY <1>2, <3>1
    <3> QED
      BY <1>1, <3>1, <3>2 DEF Sequential
  <2> QED
    BY <1>1, <1>2, <2>1 DEF IInv, GlobalInv, Token, InFlight
<1> QED
  BY <1>2, <1>3, <1>4, <1>5, <1>6, <1>7 DEF IInv, GlobalInv

-----------------------------------------------------------------------------
(* A result is stored.                                                     *)

\* Everything that the executor knew stays true.
Stored(h) ==
  /\ results' \in ResultMap
  /\ Consistent(results')
  /\ Extends(results, results')
  /\ \A g \in Hashes : g # h => results'[g] = results[g]
  /\ \A g, s : Known(results, g, s) => Known(results', g, s)
  /\ \A s \in Sites : SettledIn(results, s) => SettledIn(results', s)
  /\ \A v \in Workers : Extends(inv[v].steps, results')

LEMMA StoredFacts ==
  ASSUME IInv, NEW h \in Hashes, NEW s, Known(results, h, s), results[h] = None,
         NEW v \in Results, v.site = s,
         results' = [results EXCEPT ![h] = v]
  PROVE  Stored(h) /\ HasResultIn(results', s)
<1>1. results \in ResultMap /\ Consistent(results) /\ Seen
  BY ResultsType DEF IInv, GlobalInv
<1>2. s \in Sites /\ Open(results, s) /\ h = HashOf(results, s)
  BY DEF Known
<1> DEFINE r == results
           q == results'
<1>3. q \in ResultMap /\ q = [r EXCEPT ![HashOf(r, s)] = v]
  BY <1>1, <1>2 DEF ResultMap
<1>4. r[HashOf(r, s)] = None
  BY <1>2
<1>5. \A g \in Hashes : g # h => q[g] = r[g]
  BY <1>1 DEF ResultMap
<1> HIDE DEF r, q
<1>6. Extends(r, q) /\ Consistent(q) /\ HasResultIn(q, s)
  BY <1>1, <1>2, <1>3, <1>4, AddResult DEF r
<1>7. \A g, t : Known(r, g, t) => Known(q, g, t)
  BY <1>6, KnownStays DEF Known
<1>8. \A t : SettledIn(r, t) => SettledIn(q, t)
  BY <1>6, MoreResults
<1>9. \A u \in Workers : Extends(inv[u].steps, q)
  BY <1>1, <1>6 DEF Seen, Extends, r
<1> QED
  BY <1>3, <1>5, <1>6, <1>7, <1>8, <1>9 DEF Stored, r, q

LEMMA ResumedValue == \A kind : ResumedWith(kind) \subseteq Values
BY DEF ResumedWith, Values

LEMMA ResumeInv ==
  ASSUME IInv, NEW o \in waiting, Resume(o)
  PROVE  IInv'
<1>1. /\ waiting' = waiting \ {o} /\ jobs' = jobs \cup {None}
      /\ inv' = inv /\ scheduled' = scheduled /\ planning' = planning
      /\ finished' = finished
      /\ failures' = failures /\ barred' = barred /\ lapsed' = lapsed
  BY DEF Resume, history, marks
<1>2. o \in Ops /\ o.hash \in Hashes /\ o.site \in Sites
  BY DEF IInv, TypeOK, Ops
<1>3. PICK value \in Values :
        results' = [results EXCEPT ![o.hash] = [value |-> value, site |-> o.site]]
  BY ResumedValue DEF Resume
<1> DEFINE h == o.hash
           x == [value |-> value, site |-> o.site]
<1>4. Known(results, h, o.site) /\ results[h] = None /\ h \in scheduled
      /\ \A p \in waiting : p.hash = h => p = o
  BY DEF IInv, GlobalInv, Waits
<1>5. x \in Results /\ x.site = o.site
  BY <1>2 DEF Results
<1>6. Stored(h)
  <2> HIDE DEF x, h
  <2> QED
    BY <1>2, <1>3, <1>4, <1>5, StoredFacts DEF x, h
<1> HIDE DEF h, x
<1>7. h \in Hashes
  BY <1>2 DEF h
<1>8. TypeOK'
  BY <1>1, <1>6 DEF IInv, TypeOK, Stored, ResultMap
<1>9. \A v \in Workers : LocalInv(inv'[v])
  BY <1>1 DEF IInv
<1>10. IdleOK' /\ Consistent(results)' /\ Seen' /\ Complete'
  BY <1>1, <1>6 DEF IInv, GlobalInv, IdleOK, InFlight, Seen, Complete, Stored
<1>11. Waits'
  <2> SUFFICES ASSUME NEW p \in waiting'
               PROVE  /\ Known(results', p.hash, p.site)
                      /\ results'[p.hash] = None
                      /\ p.hash \in scheduled'
    BY <1>1 DEF IInv, GlobalInv, Waits
  <2>1. p \in waiting /\ p.hash # h /\ p.hash \in Hashes
    BY <1>1, <1>4 DEF IInv, TypeOK, Ops
  <2> QED
    BY <1>1, <1>6, <2>1 DEF IInv, GlobalInv, Waits, Stored
<1>12. ~Claimed(h)
  BY <1>7 DEF IInv, GlobalInv, Claims, h
<1>13. Claims'
  <2>1. \A g \in Hashes : Claimed(g)' => Claimed(g) /\ g # h
    BY <1>1, <1>12, NoneIsNoHash DEF Claimed
  <2>2. \A g \in Hashes : Runnable(g) => Runnable(g)'
    BY <1>6 DEF Runnable, Stored
  <2>3. \A g \in Hashes : Claimed(g)' =>
          /\ results'[g] = None /\ g \in scheduled'
          /\ \A p \in waiting' : p.hash # g
          /\ Runnable(g)'
    BY <1>1, <1>6, <2>1, <2>2 DEF IInv, GlobalInv, Claims, Stored
  <2> QED
    BY <1>1, <2>3, NoneIsNoHash DEF IInv, GlobalInv, Claims
<1>14. Token'
  <2>1. ~planning => Sequential'
    <3> SUFFICES ASSUME ~planning
                 PROVE  Sequential'
      OBVIOUS
    <3>1. /\ jobs = {} /\ \A p \in waiting : p = o
          /\ \A v \in Workers : ~InFlight(v)
      BY DEF IInv, GlobalInv, Token, Sequential
    <3>2. waiting' = {} /\ jobs' = {None} /\ \A v \in Workers : ~InFlight(v)'
      BY <1>1, <3>1 DEF InFlight
    <3> QED
      BY <3>2 DEF Sequential
  <2> QED
    BY <1>1, <2>1 DEF IInv, GlobalInv, Token, InFlight
<1>15. Unscheduled'
  <2>1. \A g \in Hashes : g \notin scheduled => g # h
    BY <1>4
  <2> QED
    BY <1>1, <1>6, <2>1 DEF IInv, GlobalInv, Unscheduled, InFlight, Stored
<1> QED
  BY <1>8, <1>9, <1>10, <1>11, <1>13, <1>14, <1>15 DEF IInv, GlobalInv

-----------------------------------------------------------------------------
(* A reply with operations.                                                *)

OpSet(i) == {i.ops[n] : n \in 1 .. Len(i.ops)}

\* The operations of an invocation are for different calls, and a step was
\* executed by nobody else.
LEMMA OpSetFacts ==
  ASSUME IInv, NEW w \in Workers, InFlight(w)
  PROVE  LET i == inv[w]
         IN  /\ \A o \in OpSet(i) :
                  /\ o \in Ops /\ o.hash \in Hashes /\ o.site \in Sites
                  /\ Known(results, o.hash, o.site)
                  /\ o.op = "StepPlanned" => Program[o.site].kind = "run"
                  /\ o.hash \notin scheduled => results[o.hash] = None
             /\ \A o, p \in OpSet(i) : o.hash = p.hash => o = p
             /\ \A o \in OpSet(i) : o.op \in Executed =>
                  /\ results[o.hash] = None
                  /\ i.target = o.hash \/ (i.target = None /\ ~planning)
                  /\ \A p \in OpSet(i) : p.op \in Executed => p = o
             /\ Len(i.ops) <= 1 => \A o, p \in OpSet(i) : o = p
<1> DEFINE i == inv[w]
           r == i.steps
           q == results
<1>1. /\ i \in Invocations /\ LocalInv(i) /\ Consistent(q) /\ Extends(r, q)
      /\ i.ops \in Seq(Ops) /\ Len(i.ops) \in Nat
  BY ResultsType, InvocationType DEF IInv, GlobalInv, Seen
<1>2. \A n \in 1 .. Len(i.ops) :
        /\ i.ops[n] \in Ops /\ r[i.ops[n].hash] = None
        /\ Known(r, i.ops[n].hash, i.ops[n].site)
        /\ i.ops[n].op = "StepPlanned" => Program[i.ops[n].site].kind = "run"
        /\ \A m \in 1 .. n - 1 : i.ops[m].site < i.ops[n].site
  BY <1>1 DEF LocalInv, OpsOK
<1>3. \A n \in 1 .. Len(i.ops) : i.ops[n].op \in Executed =>
        /\ n = Len(i.ops)
        /\ i.target = i.ops[n].hash \/ (i.target = None /\ ~i.plan)
  BY <1>1 DEF LocalInv, ExecutedOK
<1> HIDE DEF i, r, q
<1>4. ASSUME NEW o \in OpSet(i)
      PROVE  /\ o \in Ops /\ o.hash \in Hashes /\ o.site \in Sites
             /\ r[o.hash] = None
             /\ Known(r, o.hash, o.site)
             /\ o.op = "StepPlanned" => Program[o.site].kind = "run"
             /\ o.op \in Executed =>
                  i.target = o.hash \/ (i.target = None /\ ~i.plan)
  <2>1. PICK n \in 1 .. Len(i.ops) : o = i.ops[n]
    BY DEF OpSet
  <2> QED
    BY <1>2, <1>3, <2>1 DEF Ops
<1>5. ASSUME NEW o \in OpSet(i)
      PROVE  /\ Known(q, o.hash, o.site)
             /\ o.hash \notin scheduled => q[o.hash] = None
  <2>1. Known(q, o.hash, o.site)
    BY <1>1, <1>4, KnownStays DEF Known
  <2>2. o.hash \notin scheduled => q[o.hash] = None
    BY <1>4 DEF IInv, GlobalInv, Unscheduled, i, r, q
  <2> QED
    BY <2>1, <2>2
<1>6. ASSUME NEW o \in OpSet(i), NEW p \in OpSet(i), o.hash = p.hash
      PROVE  o = p
  <2>1. PICK n \in 1 .. Len(i.ops) : o = i.ops[n]
    BY DEF OpSet
  <2>2. PICK m \in 1 .. Len(i.ops) : p = i.ops[m]
    BY DEF OpSet
  <2>3. o.site = p.site
    BY <1>4, <1>6, OpenHashes DEF Known
  <2>4. o.site \in Nat /\ p.site \in Nat
    BY <1>4, SitesAreNumbers
  <2>5. ~(n < m)
    BY <1>1, <1>2, <2>1, <2>2, <2>3, <2>4
  <2>6. ~(m < n)
    BY <1>1, <1>2, <2>1, <2>2, <2>3, <2>4
  <2>7. n = m
    BY <1>1, <2>5, <2>6
  <2> QED
    BY <2>1, <2>2, <2>7
<1>7. ASSUME NEW o \in OpSet(i), o.op \in Executed
      PROVE  /\ q[o.hash] = None
             /\ i.target = o.hash \/ (i.target = None /\ ~planning)
             /\ \A p \in OpSet(i) : p.op \in Executed => p = o
  <2>1. i.target = o.hash => q[o.hash] = None
    BY <1>4 DEF IInv, GlobalInv, Claims, Claimed, i, q
  <2>2. i.target = None /\ ~i.plan => ~planning /\ r = q
    BY DEF IInv, GlobalInv, Token, Sequential, i, r, q
  <2>3. q[o.hash] = None /\ (i.target = o.hash \/ (i.target = None /\ ~planning))
    BY <1>4, <1>7, <2>1, <2>2
  <2>4. \A p \in OpSet(i) : p.op \in Executed => p = o
    BY <1>3, <1>7 DEF OpSet
  <2> QED
    BY <2>3, <2>4
<1>8. Len(i.ops) <= 1 => \A o, p \in OpSet(i) : o = p
  <2>1. Len(i.ops) <= 1 => \A n \in 1 .. Len(i.ops) : n = 1
    BY <1>1
  <2> QED
    BY <2>1 DEF OpSet
<1> QED
  BY <1>4, <1>5, <1>6, <1>7, <1>8 DEF i, q

Planned(w) == {o \in OpSet(inv[w]) : o.hash \notin scheduled /\ o.op = "StepPlanned"}
DeferredBy(w) == {o \in OpSet(inv[w]) : o.hash \notin scheduled /\ o.op \in Deferred}
ExecutedBy(w) == {o \in OpSet(inv[w]) : o.op \in Executed}

HashesOf(ops) == {o.hash : o \in ops}

\* The steps that failed, without a mark when the reply is streamed.
FailedBy(w) == {o.site : o \in OpsNamed(inv[w].ops, {"StepError"})}

\* What the executor does with the operations: at most one of them is final.
LEMMA ReceiveOpsEffect ==
  ASSUME IInv, NEW w \in Workers, ReceiveOps(w)
  PROVE  /\ Free(w) /\ InFlight(w)
         /\ OpSet(inv[w]) # {}
         /\ scheduled' = scheduled \cup HashesOf(Planned(w) \cup DeferredBy(w))
         /\ waiting' = waiting \cup DeferredBy(w)
         /\ planning' = (planning \/ Len(inv[w].ops) > 1)
         /\ finished' = finished /\ failures' = failures /\ barred' = barred
         /\ lapsed' \in {lapsed, lapsed \cup (FailedBy(w) \cap barred)}
         /\ \/ /\ results' = results
               /\ jobs' = UNION {jobs, HashesOf(Planned(w)),
                                 IF ExecutedBy(w) # {} THEN {inv[w].target} ELSE {}}
               /\ ExecutedBy(w) # {} =>
                    ~NoRetry(inv[w]) \/ lapsed' = lapsed \cup (FailedBy(w) \cap barred)
            \/ /\ \E e \in ExecutedBy(w), value \in Values :
                    results' = [results EXCEPT ![e.hash] =
                                  [value |-> value, site |-> e.site]]
               /\ jobs' = UNION {jobs, HashesOf(Planned(w)), {None}}
<1> DEFINE i == inv[w]
<1>1. /\ InFlight(w) /\ Free(w)
      /\ finished' = finished /\ failures' = failures /\ barred' = barred
  BY DEF ReceiveOps, Ended, InFlight
<1> DEFINE new(reply) == {o \in OpsNamed(reply.ops, OpNames) : o.hash \notin scheduled}
           planned(reply) == {o \in new(reply) : o.op = "StepPlanned"}
           deferred(reply) == {o \in new(reply) : o.op \in Deferred}
           success(reply) == OpsNamed(reply.ops, {"StepRun"})
           failure(reply) == OpsNamed(reply.ops, {"StepError"})
           final(reply, giveUp) == success(reply) \cup IF giveUp THEN failure(reply) ELSE {}
           dropped(reply) == lapsed \cup ({o.site : o \in failure(reply)} \cap barred)
<1>2. PICK transport, reply :
        /\ transport \in Transports /\ reply = Reply(i, transport)
        /\ reply.status = "notCompleted"
        /\ lapsed' = IF transport = "stream" THEN dropped(reply) ELSE lapsed
        /\ scheduled' = scheduled \cup {o.hash : o \in planned(reply) \cup deferred(reply)}
        /\ waiting' = waiting \cup deferred(reply)
        /\ planning' = (planning \/ Len(reply.ops) > 1)
        /\ \E giveUp \in IF reply.noRetry THEN {TRUE} ELSE BOOLEAN,
              decodes \in IF Redeploys THEN BOOLEAN ELSE {TRUE} :
             /\ results' =
                  [h \in Hashes |->
                     IF \E o \in final(reply, giveUp) : o.hash = h
                     THEN LET o == CHOOSE o \in final(reply, giveUp) : o.hash = h
                          IN  [value |-> IF ~decodes THEN "bad"
                                         ELSE IF o.op = "StepRun" THEN "data"
                                         ELSE "error",
                               site |-> o.site]
                     ELSE results[h]]
             /\ jobs' = UNION {jobs, {o.hash : o \in planned(reply)},
                               IF final(reply, giveUp) # {} THEN {None} ELSE {},
                               IF final(reply, giveUp) # success(reply) \cup failure(reply)
                                 THEN {i.target} ELSE {}}
  BY DEF ReceiveOps
<1>3. /\ reply.ops = i.ops /\ Status(i) = "notCompleted"
      /\ transport # "stream" => reply.noRetry = NoRetry(i)
      /\ lapsed' = IF transport = "stream" THEN dropped(reply) ELSE lapsed
  BY <1>2, ReplyOf
<1>4. /\ \A o \in OpSet(i) : o \in Ops /\ o.op \in OpNames
      /\ \A o, p \in ExecutedBy(w) : o = p
      /\ \A o \in ExecutedBy(w) : o \in OpSet(i) /\ o.hash \in Hashes
  <2>1. \A o \in OpSet(i) :
          /\ o \in Ops /\ o.hash \in Hashes
          /\ o.op \in Executed => \A p \in OpSet(i) : p.op \in Executed => p = o
    BY <1>1, OpSetFacts
  <2> QED
    BY <2>1 DEF Ops, ExecutedBy
<1>5. OpSet(i) # {}
  <2>1. i.ops # <<>>
    BY <1>3 DEF Status
  <2>2. i.ops \in Seq(Ops)
    BY ResultsType, InvocationType DEF IInv
  <2>3. 1 \in 1 .. Len(i.ops)
    BY <2>1, <2>2
  <2> QED
    BY <2>3 DEF OpSet
<1>6. /\ planned(reply) = Planned(w)
      /\ deferred(reply) = DeferredBy(w)
      /\ success(reply) \cup failure(reply) = ExecutedBy(w)
      /\ dropped(reply) = lapsed \cup (FailedBy(w) \cap barred)
  <2>1. \A names : OpsNamed(reply.ops, names) = {o \in OpSet(i) : o.op \in names}
    BY <1>3 DEF OpsNamed, OpSet
  <2>2. planned(reply) = Planned(w) /\ deferred(reply) = DeferredBy(w)
    BY <1>4, <2>1 DEF Planned, DeferredBy
  <2>3. success(reply) \cup failure(reply) = ExecutedBy(w)
    BY <2>1 DEF ExecutedBy, Executed
  <2>4. dropped(reply) = lapsed \cup (FailedBy(w) \cap barred)
    BY <1>3 DEF FailedBy
  <2> QED
    BY <2>2, <2>3, <2>4
<1> HIDE DEF dropped, planned, deferred, success, failure
<1>7. PICK giveUp \in IF reply.noRetry THEN {TRUE} ELSE BOOLEAN,
           decodes \in IF Redeploys THEN BOOLEAN ELSE {TRUE} :
        /\ results' =
             [h \in Hashes |->
                IF \E o \in final(reply, giveUp) : o.hash = h
                THEN LET o == CHOOSE o \in final(reply, giveUp) : o.hash = h
                     IN  [value |-> IF ~decodes THEN "bad"
                                    ELSE IF o.op = "StepRun" THEN "data"
                                    ELSE "error",
                          site |-> o.site]
                ELSE results[h]]
        /\ jobs' = UNION {jobs, {o.hash : o \in planned(reply)},
                          IF final(reply, giveUp) # {} THEN {None} ELSE {},
                          IF final(reply, giveUp) # success(reply) \cup failure(reply)
                            THEN {i.target} ELSE {}}
  BY <1>2
<1> DEFINE F == final(reply, giveUp)
<1>8. F \subseteq ExecutedBy(w) /\ (giveUp => F = ExecutedBy(w))
  BY <1>6
<1> HIDE DEF final
<1>9. CASE F = {}
  <2>1. results' = results
    BY <1>7, <1>9, ResultsType DEF IInv, ResultMap
  <2>2. jobs' = UNION {jobs, HashesOf(Planned(w)),
                       IF ExecutedBy(w) # {} THEN {i.target} ELSE {}}
    BY <1>6, <1>7, <1>9 DEF HashesOf
  <2>3. ExecutedBy(w) # {} => ~giveUp
    BY <1>8, <1>9
  <2>4. ExecutedBy(w) # {} => ~reply.noRetry
    BY <1>7, <2>3
  <2> QED
    BY <1>1, <1>2, <1>3, <1>5, <1>6, <2>1, <2>2, <2>4 DEF HashesOf
<1>10. CASE F # {}
  <2>1. PICK e \in ExecutedBy(w) : F = {e} /\ ExecutedBy(w) = {e}
    BY <1>4, <1>8, <1>10
  <2>2. jobs' = UNION {jobs, HashesOf(Planned(w)), {None}}
    BY <1>6, <1>7, <1>10, <2>1 DEF HashesOf
  <2> DEFINE value == IF ~decodes THEN "bad"
                      ELSE IF e.op = "StepRun" THEN "data"
                      ELSE "error"
  <2>3. value \in Values
    BY DEF Values
  <2>4. results' = [results EXCEPT ![e.hash] = [value |-> value, site |-> e.site]]
    <3>1. \A h \in Hashes : (\E o \in F : o.hash = h) <=> h = e.hash
      BY <2>1
    <3>2. (CHOOSE o \in F : o.hash = e.hash) = e
      BY <2>1
    <3>3. results' = [h \in Hashes |-> IF h = e.hash
                                       THEN [value |-> value, site |-> e.site]
                                       ELSE results[h]]
      BY <1>7, <3>1, <3>2
    <3> QED
      BY <3>3, ResultsType DEF IInv, ResultMap
  <2> HIDE DEF value
  <2>5. \E g \in ExecutedBy(w), x \in Values :
          results' = [results EXCEPT ![g.hash] = [value |-> x, site |-> g.site]]
    BY <2>3, <2>4
  <2> QED
    BY <1>1, <1>2, <1>3, <1>5, <1>6, <2>2, <2>5 DEF HashesOf
<1> QED
  BY <1>9, <1>10

LEMMA ReceiveOpsInv ==
  ASSUME IInv, NEW w \in Workers, ReceiveOps(w)
  PROVE  IInv'
<1> DEFINE i == inv[w]
           P == Planned(w)
           D == DeferredBy(w)
           E == ExecutedBy(w)
           O == OpSet(i)
<1>1. /\ Free(w) /\ InFlight(w)
      /\ O # {}
      /\ scheduled' = scheduled \cup HashesOf(P \cup D)
      /\ waiting' = waiting \cup D
      /\ planning' = (planning \/ Len(i.ops) > 1)
      /\ finished' = finished /\ failures' = failures /\ barred' = barred
      /\ lapsed' \in {lapsed, lapsed \cup (FailedBy(w) \cap barred)}
      /\ \/ /\ results' = results
            /\ jobs' = UNION {jobs, HashesOf(P), IF E # {} THEN {i.target} ELSE {}}
         \/ /\ \E e \in E, value \in Values :
                 results' = [results EXCEPT ![e.hash] =
                               [value |-> value, site |-> e.site]]
            /\ jobs' = UNION {jobs, HashesOf(P), {None}}
  BY ReceiveOpsEffect
<1>2. /\ inv' \in [Workers -> Invocations]
      /\ \A v \in Workers :
           /\ LocalInv(inv'[v])
           /\ InFlight(v)' => v # w /\ inv'[v] = inv[v] /\ InFlight(v)
           /\ inv'[v].target # None => v # w /\ inv'[v] = inv[v]
           /\ Extends(inv'[v].steps, results)
      /\ IdleOK'
  BY <1>1, FreeFacts
<1>3. /\ \A o \in O :
           /\ o \in Ops /\ o.hash \in Hashes /\ o.site \in Sites
           /\ Known(results, o.hash, o.site)
           /\ o.op = "StepPlanned" => Program[o.site].kind = "run"
           /\ o.hash \notin scheduled => results[o.hash] = None
      /\ \A o, p \in O : o.hash = p.hash => o = p
      /\ \A o \in O : o.op \in Executed =>
           /\ results[o.hash] = None
           /\ i.target = o.hash \/ (i.target = None /\ ~planning)
           /\ \A p \in O : p.op \in Executed => p = o
      /\ Len(i.ops) <= 1 => \A o, p \in O : o = p
  BY <1>1, OpSetFacts
<1>4. /\ \A o \in P : o \in O /\ o.hash \notin scheduled /\ o.op = "StepPlanned"
      /\ \A o \in D : o \in O /\ o.hash \notin scheduled /\ o.op \in Deferred
      /\ \A o \in E : o \in O /\ o.op \in Executed
      /\ P \cap D = {} /\ P \cap E = {} /\ D \cap E = {}
  BY DEF Planned, DeferredBy, ExecutedBy, Executed, Deferred
<1>5. i.target \in Hashes \cup {None} /\ results \in ResultMap
  BY ResultsType, InvocationType DEF IInv
<1> HIDE DEF P, D, E, O
\* The hash of the result that is stored, if one is.
<1>6. PICK f \in Hashes \cup {None} :
        /\ Stored(f)
        /\ f # None => /\ \E e \in E : e.hash = f
                       /\ results[f] = None
                       /\ i.target = f \/ (i.target = None /\ ~planning)
                       /\ jobs' = UNION {jobs, HashesOf(P), {None}}
        /\ f = None => /\ results' = results
                       /\ jobs' = UNION {jobs, HashesOf(P),
                                         IF E # {} THEN {i.target} ELSE {}}
  <2>1. CASE /\ results' = results
             /\ jobs' = UNION {jobs, HashesOf(P), IF E # {} THEN {i.target} ELSE {}}
    <3>1. Stored(None)
      BY <1>5, <2>1 DEF Stored, IInv, GlobalInv, Seen, Extends
    <3> QED
      BY <2>1, <3>1
  <2>2. CASE /\ \E e \in E, value \in Values :
                  results' = [results EXCEPT ![e.hash] =
                                [value |-> value, site |-> e.site]]
             /\ jobs' = UNION {jobs, HashesOf(P), {None}}
    <3>1. PICK e \in E, value \in Values :
            results' = [results EXCEPT ![e.hash] = [value |-> value, site |-> e.site]]
      BY <2>2
    <3>2. /\ e \in O /\ e.op \in Executed /\ e.hash \in Hashes /\ e.site \in Sites
          /\ Known(results, e.hash, e.site) /\ results[e.hash] = None
          /\ i.target = e.hash \/ (i.target = None /\ ~planning)
      BY <1>3, <1>4
    <3> DEFINE x == [value |-> value, site |-> e.site]
    <3>3. x \in Results /\ x.site = e.site
      BY <3>2 DEF Results
    <3>4. Stored(e.hash)
      <4> HIDE DEF x
      <4>1. results' = [results EXCEPT ![e.hash] = x]
        BY <3>1 DEF x
      <4> QED
        BY <3>2, <3>3, <4>1, StoredFacts
    <3> QED
      BY <2>2, <3>2, <3>4, NoneIsNoHash
  <2> QED
    BY <1>1, <2>1, <2>2
<1>7. \A h \in Hashes : h # f => results'[h] = results[h]
  BY <1>6 DEF Stored
<1>8. \A o \in P \cup D : /\ o \in O /\ o.hash # f /\ o.hash \in Hashes
                          /\ o.hash \notin scheduled
                          /\ results'[o.hash] = None
                          /\ Known(results', o.hash, o.site)
  <2> SUFFICES ASSUME NEW o \in P \cup D
               PROVE  /\ o \in O /\ o.hash # f /\ o.hash \in Hashes
                      /\ o.hash \notin scheduled
                      /\ results'[o.hash] = None
                      /\ Known(results', o.hash, o.site)
    OBVIOUS
  <2>1. o \in O /\ o \notin E /\ o.hash \notin scheduled /\ o.hash \in Hashes
        /\ results[o.hash] = None /\ Known(results, o.hash, o.site)
    BY <1>3, <1>4
  <2>2. o.hash # f
    BY <1>3, <1>4, <1>6, <2>1, NoneIsNoHash
  <2> QED
    BY <1>6, <1>7, <2>1, <2>2 DEF Stored
<1>9. ASSUME f # None, NEW v \in Workers, v # w
      PROVE  inv[v].target # f
  <2>1. CASE i.target = f
    BY <1>5, <1>9, <2>1 DEF IInv, GlobalInv, Claims
  <2>2. CASE ~planning
    <3>1. ~InFlight(v)
      BY <1>1, <1>9, <2>2 DEF IInv, GlobalInv, Token, Sequential
    <3> QED
      BY <1>9, <3>1, IdleStep DEF IInv, GlobalInv, IdleOK
  <2> QED
    BY <1>6, <1>9, <2>1, <2>2
<1>10. f # None => f \notin jobs /\ \A o \in waiting : o.hash # f
  <2>1. CASE f # None /\ i.target = f
    BY <1>5, <2>1 DEF IInv, GlobalInv, Claims, Claimed
  <2>2. CASE f # None /\ ~planning
    BY <1>1, <2>2 DEF IInv, GlobalInv, Token, Sequential
  <2> QED
    BY <1>6, <2>1, <2>2
<1>11. TypeOK'
  <2>1. HashesOf(P) \subseteq Hashes /\ HashesOf(P \cup D) \subseteq Hashes
        /\ D \subseteq Ops
    BY <1>3, <1>4 DEF HashesOf
  <2>2. jobs' \subseteq Hashes \cup {None}
    <3>1. jobs \subseteq Hashes \cup {None}
      BY DEF IInv, TypeOK
    <3> QED
      BY <1>5, <1>6, <2>1, <3>1
  <2>3. results' \in [Hashes -> Results \cup {None}]
    BY <1>6 DEF Stored, ResultMap
  <2> QED
    BY <1>1, <1>2, <2>1, <2>2, <2>3 DEF IInv, TypeOK
<1>12. Consistent(results)' /\ Complete'
  BY <1>1, <1>6 DEF IInv, GlobalInv, Complete, Stored
<1>13. Seen'
  <2>1. Extends(results, results')
    BY <1>6 DEF Stored
  <2> QED
    BY <1>2, <2>1 DEF Seen, Extends
<1>14. Waits'
  <2>1. ASSUME NEW o \in waiting'
        PROVE  /\ Known(results', o.hash, o.site)
               /\ results'[o.hash] = None
               /\ o.hash \in scheduled'
    <3>1. CASE o \in waiting
      <4>1. o.hash \in Hashes /\ o.hash # f
        BY <1>10, <3>1, NoneIsNoHash DEF IInv, TypeOK, Ops
      <4> QED
        BY <1>1, <1>6, <1>7, <3>1, <4>1 DEF IInv, GlobalInv, Waits, Stored
    <3>2. CASE o \in D
      BY <1>1, <1>8, <3>2 DEF HashesOf
    <3> QED
      BY <1>1, <2>1, <3>1, <3>2
  <2>2. ASSUME NEW o \in waiting', NEW p \in waiting', o.hash = p.hash
        PROVE  o = p
    <3>1. \A x \in waiting, y \in D : x.hash # y.hash
      BY <1>8 DEF IInv, GlobalInv, Waits
    <3>2. \A x, y \in D : x.hash = y.hash => x = y
      BY <1>3, <1>4
    <3> QED
      BY <1>1, <2>2, <3>1, <3>2 DEF IInv, GlobalInv, Waits
  <2> QED
    BY <2>1, <2>2 DEF Waits
<1>15. f = None /\ E # {} => i.target \in {None} \cup Hashes
  BY <1>5
<1>16. ASSUME NEW h \in Hashes, Claimed(h)'
       PROVE  /\ h # f
              /\ Claimed(h) \/ \E o \in P : o.hash = h
  <2>1. CASE \E v \in Workers : inv'[v].target = h
    BY <1>2, <1>9, <2>1, NoneIsNoHash DEF Claimed
  <2>2. CASE h \in jobs'
    <3>1. CASE h \in jobs
      BY <1>10, <3>1, NoneIsNoHash DEF Claimed
    <3>2. CASE h \in HashesOf(P)
      BY <1>8, <3>2 DEF HashesOf
    <3>3. CASE f = None /\ h = i.target
      BY <3>3, NoneIsNoHash DEF Claimed
    <3> QED
      BY <1>6, <2>2, <3>1, <3>2, <3>3, NoneIsNoHash
  <2> QED
    BY <1>16, <2>1, <2>2 DEF Claimed
<1>17. Claims'
  <2>1. ASSUME NEW h \in Hashes, Claimed(h)'
        PROVE  /\ results'[h] = None
               /\ h \in scheduled'
               /\ \A o \in waiting' : o.hash # h
               /\ Runnable(h)'
    <3>1. CASE Claimed(h)
      <4>1. /\ results[h] = None /\ h \in scheduled
            /\ \A o \in waiting : o.hash # h
            /\ Runnable(h)
        BY <3>1 DEF IInv, GlobalInv, Claims
      <4>2. h # f /\ \A o \in D : o.hash # h
        BY <1>8, <1>16, <2>1, <4>1
      <4>3. Runnable(h)'
        BY <1>6, <4>1 DEF Runnable, Stored
      <4> QED
        BY <1>1, <1>7, <4>1, <4>2, <4>3
    <3>2. CASE \E o \in P : o.hash = h
      <4>1. PICK o \in P : o.hash = h
        BY <3>2
      <4>2. /\ results'[h] = None /\ h \in scheduled' /\ h \notin scheduled
            /\ Known(results', h, o.site)
            /\ o.site \in Sites /\ Program[o.site].kind = "run"
        BY <1>1, <1>3, <1>4, <1>8, <4>1 DEF HashesOf
      <4>3. \A p \in waiting : p.hash # h
        BY <4>2 DEF IInv, GlobalInv, Waits
      <4>4. \A p \in D : p.hash # h
        BY <1>3, <1>4, <4>1
      <4> QED
        BY <1>1, <4>2, <4>3, <4>4 DEF Runnable
    <3> QED
      BY <1>16, <2>1, <3>1, <3>2
  <2>2. ASSUME NEW u \in Workers, NEW v \in Workers, inv'[u].target \in Hashes
        PROVE  /\ inv'[u].target \notin jobs'
               /\ inv'[v].target = inv'[u].target => v = u
    <3>1. u # w /\ inv'[u] = inv[u] /\ inv[u].target \in Hashes
      BY <1>2, <2>2, NoneIsNoHash
    <3>2. /\ inv[u].target \notin jobs /\ inv[w].target # inv[u].target
          /\ inv[u].target \in scheduled
          /\ inv[v].target = inv[u].target => v = u
      BY <3>1 DEF IInv, GlobalInv, Claims, Claimed
    <3>3. inv[u].target \notin HashesOf(P)
      BY <1>4, <3>2 DEF HashesOf
    <3>4. inv[u].target \notin jobs'
      BY <1>6, <3>1, <3>2, <3>3, NoneIsNoHash
    <3> QED
      BY <1>2, <3>1, <3>2, <3>4, NoneIsNoHash
  <2> QED
    BY <2>1, <2>2 DEF Claims
<1>18. Token'
  <2>1. ASSUME ~planning'
        PROVE  Sequential'
    <3>1. ~planning /\ ~(Len(i.ops) > 1)
      BY <1>1, <2>1
    <3>2. /\ jobs = {} /\ waiting = {}
          /\ \A v \in Workers : InFlight(v) => v = w
      BY <1>1, <3>1 DEF IInv, GlobalInv, Token, Sequential
    <3>3. \A v \in Workers : ~InFlight(v)'
      BY <1>2, <3>2
    <3>4. \A o, p \in O : o = p
      <4>1. Len(i.ops) \in Nat
        BY ResultsType, InvocationType DEF IInv
      <4>2. Len(i.ops) <= 1
        BY <3>1, <4>1
      <4> QED
        BY <1>3, <4>2
    <3>5. waiting' = D
      BY <1>1, <3>2
    <3>6. \A o, p \in D : o = p
      BY <1>4, <3>4
    <3>7. D # {} => jobs' = {}
      <4> SUFFICES ASSUME D # {}
                   PROVE  jobs' = {}
        OBVIOUS
      <4>1. P = {} /\ E = {}
        BY <1>4, <3>4
      <4> QED
        BY <1>6, <3>2, <4>1 DEF HashesOf
    <3>8. \A g, h \in jobs' : g = h
      <4>1. CASE P = {}
        BY <1>6, <3>2, <4>1 DEF HashesOf
      <4>2. CASE P # {}
        <5>1. E = {} /\ \A o, p \in P : o = p
          BY <1>4, <3>4, <4>2
        <5>2. jobs' = HashesOf(P)
          BY <1>6, <3>2, <5>1
        <5> QED
          BY <5>1, <5>2 DEF HashesOf
      <4> QED
        BY <4>1, <4>2
    <3> QED
      BY <3>3, <3>5, <3>6, <3>7, <3>8 DEF Sequential
  <2>2. ASSUME NEW v \in Workers, InFlight(v)', inv'[v].target = None, ~inv'[v].plan
        PROVE  ~planning'
    <3>1. v # w /\ inv'[v] = inv[v] /\ InFlight(v)
      BY <1>2, <2>2
    <3>2. ~planning
      BY <2>2, <3>1 DEF IInv, GlobalInv, Token
    <3> QED
      BY <1>1, <3>1, <3>2 DEF IInv, GlobalInv, Token, Sequential
  <2> QED
    BY <2>1, <2>2 DEF Token, InFlight
<1>19. Unscheduled'
  <2> SUFFICES ASSUME NEW h \in Hashes, h \notin scheduled', results'[h] # None,
                      NEW v \in Workers, InFlight(v)'
               PROVE  inv'[v].steps[h] # None
    BY DEF Unscheduled, InFlight
  <2>1. v # w /\ inv'[v] = inv[v] /\ InFlight(v) /\ h \notin scheduled
    BY <1>1, <1>2
  <2>2. h # f
    <3> SUFFICES ASSUME h = f
                 PROVE  FALSE
      OBVIOUS
    <3>1. f # None /\ (i.target = f \/ ~planning)
      BY <1>6, NoneIsNoHash
    <3>2. CASE i.target = f
      BY <2>1, <3>2 DEF IInv, GlobalInv, Claims, Claimed
    <3>3. CASE ~planning
      BY <1>1, <2>1, <3>3 DEF IInv, GlobalInv, Token, Sequential
    <3> QED
      BY <3>1, <3>2, <3>3
  <2> QED
    BY <1>7, <2>1, <2>2 DEF IInv, GlobalInv, Unscheduled
<1> QED
  BY <1>2, <1>11, <1>12, <1>13, <1>14, <1>17, <1>18, <1>19 DEF IInv, GlobalInv

-----------------------------------------------------------------------------
(* The theorems.                                                           *)

LEMMA NextInv == IInv /\ [Next]_vars => IInv'
<1> SUFFICES ASSUME IInv, [Next]_vars
             PROVE  IInv'
  OBVIOUS
<1>1. ASSUME NEW w \in Workers, Step(w)
      PROVE  IInv'
  BY <1>1, StepInv
<1>2. ASSUME NEW w \in Workers, Receive(w)
      PROVE  IInv'
  BY <1>2, ReceiveOpsInv, ReceiveDoneInv, ReceiveErrorInv DEF Receive
<1>3. ASSUME NEW w \in Workers, NEW target \in Hashes \cup {None}, Send(w, target)
      PROVE  IInv'
  BY <1>3, SendInv
<1>4. ASSUME NEW o \in waiting, Resume(o)
      PROVE  IInv'
  BY <1>4, ResumeInv
<1>5. CASE UNCHANGED vars
  <2>1. /\ inv' = inv /\ results' = results /\ jobs' = jobs
        /\ scheduled' = scheduled /\ waiting' = waiting /\ planning' = planning
        /\ finished' = finished
        /\ failures' = failures /\ barred' = barred /\ lapsed' = lapsed
    BY <1>5 DEF vars, executor, history, marks
  <2> QED
    BY <2>1 DEF IInv, TypeOK, GlobalInv, IdleOK, Seen, Waits, Claims, Claimed,
                Runnable, Token, Sequential, Unscheduled, Complete, InFlight
<1> QED
  BY <1>1, <1>2, <1>3, <1>4, <1>5 DEF Next

\* The inductive invariant holds in every state: an invocation replays what
\* its results say, and the executor's results, jobs and waits fit together.
THEOREM Invariance == Spec => []IInv
BY InitInv, NextInv, PTL DEF Spec

\* The state has its type: mgr.ops holds hashes that the executor knows how
\* to store, for every program.
THEOREM TypeCorrect == Spec => []TypeOK
<1>1. IInv => TypeOK
  BY DEF IInv
<1> QED
  BY <1>1, Invariance, PTL

\* One request runs the code of at most one step.
THEOREM RunsOneStep == Spec => []OneStepPerRequest
<1>1. IInv => OneStepPerRequest
  BY DEF IInv, LocalInv, ExecutedOK, OneStepPerRequest, Executed
<1> QED
  BY <1>1, Invariance, PTL

\* Replays number the calls of an id in the same way, so that a call is given
\* the result that was stored for this very call.
THEOREM GivesOwnResult == Spec => []OwnResult
<1>1. IInv => OwnResult
  <2> SUFFICES ASSUME IInv, NEW w \in Workers, Called(w), Memoized(w)
               PROVE  inv[w].steps[OpHash(inv[w])].site = inv[w].at
    BY DEF OwnResult
  <2>1. inv[w] \in Invocations /\ LocalInv(inv[w])
    BY ResultsType DEF IInv
  <2> QED
    BY <2>1, CurrentCall DEF Called, Memoized
<1> QED
  BY <1>1, Invariance, PTL

LEMMA SettledNow ==
  ASSUME NEW s
  PROVE  /\ HasResult(s) <=> HasResultIn(results, s)
         /\ Settled(s) <=> SettledIn(results, s)
<1>1. \A t : HasResult(t) <=> HasResultIn(results, t)
  BY DEF HasResult, HasResultIn
<1>2. \A t : Failed(t) <=> FailedIn(results, t)
  BY DEF Failed, FailedIn
<1> QED
  BY <1>1, <1>2 DEF Settled, SettledIn, CutIn

\* Where the code of a step runs: the request is for this step, or it is the
\* only one and has all results.
LEMMA RunsFacts ==
  ASSUME IInv, NEW w \in Workers, Runs(w)
  PROVE  LET i == inv[w]
         IN  /\ i \in Invocations /\ i.at \in Sites /\ InFlight(w)
             /\ Open(i.steps, i.at) /\ Open(results, i.at)
             /\ OpHash(i) = HashOf(results, i.at)
             /\ OpHash(i) \in Hashes /\ results[OpHash(i)] = None
             /\ i.target = OpHash(i) \/ (i.target = None /\ ~i.plan /\ ~planning)
             /\ ~i.cancelled
<1> DEFINE i == inv[w]
<1>1. /\ i.status = "running" /\ ~i.cancelled /\ i.steps[OpHash(i)] = None
      /\ i.target = OpHash(i) \/ (i.target = None /\ ~i.plan)
  BY DEF Runs, Called, Memoized, OtherTarget, Plans
<1>2. /\ i \in Invocations /\ LocalInv(i) /\ i.at \in Sites
      /\ Consistent(results) /\ Extends(i.steps, results)
  BY ResultsType, InvocationType DEF IInv, GlobalInv, Seen
<1>3. InFlight(w)
  BY <1>1 DEF InFlight
<1> HIDE DEF i
<1>4. Known(i.steps, OpHash(i), i.at) /\ OpHash(i) \in Hashes
  BY <1>1, <1>2, CurrentCall
<1>5. Open(results, i.at) /\ OpHash(i) = HashOf(results, i.at)
  BY <1>2, <1>4, KnownStays DEF Known
<1>6. i.target = OpHash(i) => results[OpHash(i)] = None
  BY <1>4 DEF IInv, GlobalInv, Claims, Claimed, i
<1>7. i.target = None /\ ~i.plan => ~planning /\ i.steps = results
  BY <1>3 DEF IInv, GlobalInv, Token, Sequential, i
<1> QED
  BY <1>1, <1>2, <1>3, <1>4, <1>5, <1>6, <1>7 DEF Known, i

\* The code of a step whose result is stored is not run again, however old
\* the results are that its request carries.
THEOREM RunsAtMostOnce == Spec => []RunsOnce
<1>1. IInv => RunsOnce
  <2> SUFFICES ASSUME IInv, NEW w \in Workers, Runs(w), HasResult(inv[w].at)
               PROVE  FALSE
    BY DEF RunsOnce
  <2>1. Consistent(results) /\ HasResultIn(results, inv[w].at)
    BY SettledNow DEF IInv, GlobalInv
  <2>2. inv[w].at \in Sites /\ results[HashOf(results, inv[w].at)] = None
    BY RunsFacts
  <2> QED
    BY <2>1, <2>2, OneResult
<1> QED
  BY <1>1, Invariance, PTL

\* No call after a Parallel is made before all of its branches are settled.
THEOREM ParallelIsABarrier == Spec => []ParallelJoins
<1>1. IInv => ParallelJoins
  <2> SUFFICES ASSUME IInv, NEW w \in Workers, Called(w),
                      NEW s \in 1 .. inv[w].at - 1, ~SameBlock(s, inv[w].at)
               PROVE  Settled(s)
    BY DEF ParallelJoins
  <2> DEFINE i == inv[w]
  <2>1. i \in Invocations /\ LocalInv(i) /\ i.at \in Sites /\ Extends(i.steps, results)
    BY ResultsType, InvocationType DEF IInv, GlobalInv, Seen
  <2>2. s \in Sites
    BY <2>1, SitesAreNumbers DEF Sites
  <2>3. ~Elsewhere(s, i.at)
    BY <2>1, <2>2, ElsewhereFacts
  <2>4. SettledIn(i.steps, s)
    BY <2>1, <2>3 DEF LocalInv, PathOK, Past, Called
  <2>5. SettledIn(results, s)
    BY <2>1, <2>4, MoreResults
  <2> QED
    BY <2>5, SettledNow
<1> QED
  BY <1>1, Invariance, PTL

\* The run succeeds only when every call is settled.
THEOREM SuccessIsComplete == Spec => []FinishedIsComplete
<1>1. IInv => FinishedIsComplete
  BY SettledNow DEF IInv, GlobalInv, Complete, FinishedIsComplete
<1> QED
  BY <1>1, Invariance, PTL

-----------------------------------------------------------------------------
(* A stored result is never replaced.                                      *)

LEMMA ReceiveExtends ==
  ASSUME IInv, NEW w \in Workers, Receive(w)
  PROVE  Extends(results, results')
<1>1. CASE ReceiveOps(w)
  <2>1. CASE results' = results
    BY <2>1 DEF Extends
  <2>2. ASSUME NEW e \in ExecutedBy(w), NEW value,
               results' = [results EXCEPT ![e.hash] = [value |-> value, site |-> e.site]]
        PROVE  Extends(results, results')
    <3>1. e \in OpSet(inv[w]) /\ e.op \in Executed
      BY DEF ExecutedBy
    <3>2. results[e.hash] = None
      BY <1>1, <3>1, ReceiveOpsEffect, OpSetFacts
    <3>3. results \in ResultMap
      BY ResultsType DEF IInv
    <3> QED
      BY <2>2, <3>2, <3>3 DEF Extends, ResultMap
  <2> QED
    BY <1>1, <2>1, <2>2, ReceiveOpsEffect
<1>2. CASE ReceiveDone(w) \/ ReceiveError(w)
  BY <1>2 DEF ReceiveDone, ReceiveError, Extends
<1> QED
  BY <1>1, <1>2 DEF Receive

LEMMA ResumeExtends ==
  ASSUME IInv, NEW o \in waiting, Resume(o)
  PROVE  Extends(results, results')
<1>1. results[o.hash] = None /\ results \in ResultMap
  BY ResultsType DEF IInv, GlobalInv, Waits
<1> QED
  BY <1>1 DEF Resume, Extends, ResultMap

\* A result stays as it was stored: neither the reply to a request that was
\* sent with older results nor the end of a sleep, a wait or an invoke
\* replaces it.
ResultsAreFinal == [][Extends(results, results')]_vars

\* Every replay is given the result that the first one was given, for every
\* interleaving of the requests of a run and of their retries.
THEOREM StoredForGood == Spec => ResultsAreFinal
<1>1. IInv /\ [Next]_vars => Extends(results, results')
  <2> SUFFICES ASSUME IInv, [Next]_vars
               PROVE  Extends(results, results')
    OBVIOUS
  <2>1. ASSUME NEW w \in Workers, Step(w)
        PROVE  results' = results
    BY <2>1 DEF Step, Preflight, ReturnResult, ReturnBadResult, Sleep, WaitForEvent,
         Invoke, Infer, Defer, InferUnencodable, SkipRun, PlanRun, RunSucceeds,
         RunFails, RunReturnsStepError, RunUnencodable, RunPanics, executor
  <2>2. ASSUME NEW w \in Workers, NEW target, Send(w, target)
        PROVE  results' = results
    BY <2>2 DEF Send
  <2>3. UNCHANGED vars => results' = results
    BY DEF vars, executor
  <2>4. results' = results => Extends(results, results')
    BY DEF Extends
  <2> QED
    BY <2>1, <2>2, <2>3, <2>4, ReceiveExtends, ResumeExtends DEF Next
<1> QED
  BY <1>1, Invariance, PTL DEF Spec, ResultsAreFinal

-----------------------------------------------------------------------------
(* A NoRetryError is final.                                                *)

\* The invocation has run step s, which must not be tried again, and the
\* executor has not been told.
Reporting(i, s) ==
  /\ i.status \in {"running", "hijacked"}
  /\ i.err = "noRetry" /\ ~i.unexpected
  /\ \E o \in OpSet(i) : o.op = "StepError" /\ o.site = s

\* The run is over, and no request is left that would run step s.
Abandoned(s) ==
  /\ finished # "no"
  /\ Open(results, s)
  /\ \A w \in Workers : InFlight(w) =>
       /\ inv[w].target # HashOf(results, s)
       /\ inv[w].target # None \/ inv[w].plan

Barred ==
  \A s \in barred \ lapsed :
    \/ HasResultIn(results, s)
    \/ Abandoned(s)
    \/ \E w \in Workers : Reporting(inv[w], s)

\* A request that reports a step is the only one that could run it.
LEMMA ReportingFacts ==
  ASSUME IInv, NEW w \in Workers, NEW s, Reporting(inv[w], s)
  PROVE  /\ InFlight(w) /\ inv[w].cancelled /\ inv[w].ops # <<>>
         /\ s \in Sites /\ Open(results, s) /\ HashOf(results, s) \in Hashes
         /\ \A v \in Workers : InFlight(v) /\ v # w =>
              /\ inv[v].target # HashOf(results, s)
              /\ inv[v].target # None \/ inv[v].plan
         /\ \A e \in ExecutedBy(w) : e.site = s
         /\ ExecutedBy(w) # {}
<1> DEFINE i == inv[w]
<1>1. InFlight(w)
  BY DEF Reporting, InFlight
<1>2. PICK o \in OpSet(i) : o.op = "StepError" /\ o.site = s
  BY DEF Reporting
<1>3. o.op \in Executed
  BY <1>2 DEF Executed
<1>4. /\ o.hash \in Hashes /\ o.site \in Sites /\ Known(results, o.hash, o.site)
      /\ i.target = o.hash \/ (i.target = None /\ ~planning)
      /\ \A e \in OpSet(i) : e.op \in Executed => e = o
  BY <1>1, <1>3, OpSetFacts
<1>5. i.cancelled /\ i.ops # <<>>
  <2>1. PICK n \in 1 .. Len(i.ops) : o = i.ops[n]
    BY DEF OpSet
  <2>2. LocalInv(i) /\ i.ops \in Seq(Ops)
    BY ResultsType, InvocationType DEF IInv
  <2> QED
    BY <1>3, <2>1, <2>2 DEF LocalInv, ExecutedOK
<1>6. Open(results, s) /\ o.hash = HashOf(results, s)
  BY <1>2, <1>4 DEF Known
<1>7. ASSUME NEW v \in Workers, InFlight(v), v # w
      PROVE  /\ inv[v].target # o.hash
             /\ inv[v].target # None \/ inv[v].plan
  <2>1. planning
    BY <1>1, <1>7 DEF IInv, GlobalInv, Token, Sequential
  <2>2. i.target = o.hash
    BY <1>4, <2>1
  <2> QED
    BY <1>4, <1>7, <2>1, <2>2 DEF IInv, GlobalInv, Token, Claims
<1>8. o \in ExecutedBy(w) /\ \A e \in ExecutedBy(w) : e = o
  BY <1>3, <1>4 DEF ExecutedBy
<1> QED
  BY <1>1, <1>2, <1>4, <1>5, <1>6, <1>7, <1>8

\* What is barred stays barred while results are added and requests end.
LEMMA StillBarred ==
  ASSUME IInv, Consistent(results'), Extends(results, results'),
         finished # "no" => finished' # "no",
         \A w \in Workers : InFlight(w)' =>
           /\ InFlight(w)
           /\ inv'[w].target = inv[w].target /\ inv'[w].plan = inv[w].plan,
         NEW s \in Sites
  PROVE  /\ HasResultIn(results, s) => HasResultIn(results', s)
         /\ Abandoned(s) => Abandoned(s)'
<1>1. HasResultIn(results, s) => HasResultIn(results', s)
  BY MoreResults
<1>2. Open(results, s) => Open(results', s) /\ HashOf(results', s) = HashOf(results, s)
  BY KnownStays
<1> QED
  BY <1>1, <1>2 DEF Abandoned

\* After the step, only preflight is called.
LEMMA StepBarred ==
  ASSUME IInv, Barred, NEW w \in Workers, Step(w)
  PROVE  Barred'
<1> DEFINE i == inv[w]
<1>1. PICK k : /\ inv' = [inv EXCEPT ![w] = k]
               /\ i.status = "running"
               /\ StepKeeps(i, k)
  BY StepLocal DEF IInv
<1>2. i \in Invocations /\ LocalInv(i) /\ inv \in [Workers -> Invocations]
  BY ResultsType DEF IInv, TypeOK
<1>3. /\ inv'[w] = k /\ k.target = i.target /\ k.plan = i.plan
      /\ \A v \in Workers : v # w => inv'[v] = inv[v]
  BY <1>1, <1>2 DEF StepKeeps, Kept
<1>4. /\ results' = results /\ finished' = finished
      /\ \/ barred' \ lapsed' \subseteq barred \ lapsed
         \/ /\ RunFails(w, "noRetry")
            /\ barred' \ lapsed' \subseteq (barred \ lapsed) \cup {i.at}
  BY DEF Step, Preflight, ReturnResult, ReturnBadResult, Sleep, WaitForEvent,
         Invoke, Infer, Defer, InferUnencodable, SkipRun, PlanRun, RunSucceeds,
         RunFails, RunReturnsStepError, RunUnencodable, RunPanics,
         history, marks, executor
<1>5. \A v \in Workers : InFlight(v)' =>
        /\ InFlight(v)
        /\ inv'[v].target = inv[v].target /\ inv'[v].plan = inv[v].plan
  BY <1>1, <1>3 DEF InFlight
<1>6. Consistent(results') /\ Extends(results, results')
  BY <1>4 DEF IInv, GlobalInv, Extends
<1>7. ASSUME NEW s \in barred \ lapsed
      PROVE  \/ HasResultIn(results', s) \/ Abandoned(s)'
             \/ \E v \in Workers : Reporting(inv'[v], s)
  <2>1. s \in Sites
    BY DEF IInv, TypeOK
  <2>2. CASE HasResultIn(results, s) \/ Abandoned(s)
    BY <1>4, <1>5, <1>6, <2>1, <2>2, StillBarred
  <2>3. ASSUME NEW v \in Workers, Reporting(inv[v], s)
        PROVE  Reporting(inv'[v], s)
    <3>1. CASE v # w
      BY <1>3, <2>3, <3>1
    <3>2. CASE v = w
      <4>1. i.cancelled
        BY <2>3, <3>2, ReportingFacts
      <4>2. Preflight(w)
        BY <4>1 DEF Step, ReturnResult, ReturnBadResult, Sleep, WaitForEvent,
              Invoke, Infer, Defer, InferUnencodable, SkipRun, PlanRun, RunSucceeds,
              RunFails, RunReturnsStepError, RunUnencodable, RunPanics, Runs, Called
      <4>3. inv'[w] = Hijack(i)
        BY <1>2, <4>2 DEF Preflight
      <4>4. /\ k.ops = i.ops /\ k.err = i.err /\ k.unexpected = i.unexpected
            /\ ~k.unexpected => k.status \in {"running", "hijacked"}
        BY <1>1, <1>2, <1>3, <4>3, HijackFacts
      <4> QED
        BY <1>3, <2>3, <3>2, <4>4 DEF Reporting, OpSet
    <3> QED
      BY <3>1, <3>2
  <2> QED
    BY <2>2, <2>3 DEF Barred
<1>8. ASSUME RunFails(w, "noRetry")
      PROVE  Reporting(inv'[w], i.at)
  <2>1. ~i.cancelled /\ ~i.unexpected
    BY <1>1, <1>2, <1>8 DEF RunFails, Runs, Called, LocalInv, StatusOK
  <2> DEFINE c == Cancel(NewOp(AppendOp(i, "StepError")))
             e == [c EXCEPT !.err = "noRetry"]
  <2>2. inv'[w] = Hijack(e)
    BY <1>2, <1>8 DEF RunFails
  <2>3. "StepError" \in OpNames /\ "noRetry" \in Errors
    BY DEF OpNames, Errors
  <2>4. Appended(i, e, "StepError") /\ e.err = "noRetry"
    BY <1>1, <1>2, <2>1, <2>3, AppendedFacts
  <2> HIDE DEF c, e
  <2>5. e \in Invocations /\ e.status = "running" /\ ~e.unexpected
    BY <1>1, <2>1, <2>4 DEF Appended
  <2>6. /\ k.ops = e.ops /\ k.err = "noRetry" /\ ~k.unexpected
        /\ k.status \in {"running", "hijacked"}
    BY <1>3, <2>2, <2>4, <2>5, HijackFacts
  <2> DEFINE o == OpOf(i, "StepError")
  <2>7. o.op = "StepError" /\ o.site = i.at
    BY DEF OpOf
  <2>8. o \in OpSet(k)
    <3>1. i.ops \in Seq(Ops) /\ o \in Ops /\ k.ops = Append(i.ops, o)
      BY <1>2, <2>4, <2>6, InvocationType DEF Appended
    <3> HIDE DEF o
    <3>2. Len(k.ops) \in 1 .. Len(k.ops) /\ k.ops[Len(k.ops)] = o
      BY <3>1
    <3> QED
      BY <3>2 DEF OpSet
  <2> QED
    BY <1>3, <2>6, <2>7, <2>8 DEF Reporting
<1> QED
  BY <1>4, <1>7, <1>8 DEF Barred

\* The end of a request that reports nothing bars nothing.
LEMMA ReceiveBarred ==
  ASSUME IInv, Barred, NEW w \in Workers, Receive(w)
  PROVE  Barred'
<1> DEFINE i == inv[w]
<1>1. Free(w) /\ Ended(w) /\ barred' = barred /\ lapsed \subseteq lapsed'
  BY DEF Receive, ReceiveOps, ReceiveDone, ReceiveError, history, marks
<1>2. \A v \in Workers : InFlight(v)' => v # w /\ inv'[v] = inv[v] /\ InFlight(v)
  BY <1>1, FreeFacts
<1>3. \A v \in Workers : v # w => inv'[v] = inv[v]
  BY <1>1 DEF Free, IInv, TypeOK
<1>4. Extends(results, results') /\ Consistent(results')
  <2>1. IInv'
    BY ReceiveOpsInv, ReceiveDoneInv, ReceiveErrorInv DEF Receive
  <2> QED
    BY <2>1, ReceiveExtends DEF IInv, GlobalInv
<1>5. finished # "no" => finished' # "no"
  BY DEF Receive, ReceiveOps, ReceiveDone, ReceiveError
<1>6. ASSUME NEW s \in barred, Reporting(i, s)
      PROVE  HasResultIn(results', s) \/ Abandoned(s)' \/ s \in lapsed'
  <2>1. /\ i.ops # <<>> /\ s \in Sites /\ Open(results, s)
        /\ \A v \in Workers : InFlight(v) /\ v # w =>
             /\ inv[v].target # HashOf(results, s)
             /\ inv[v].target # None \/ inv[v].plan
        /\ \A e \in ExecutedBy(w) : e.site = s
        /\ ExecutedBy(w) # {}
    BY <1>6, ReportingFacts
  <2>2. InvokeError(i) = "noRetry" /\ NoRetry(i)
    BY <1>1, <1>6 DEF Reporting, Ended, InvokeError, NoRetry
  <2>3. CASE ReceiveOps(w) /\ s \in lapsed'
    BY <2>3
  <2>4. CASE ReceiveOps(w) /\ s \notin lapsed'
    <3>0. s \in FailedBy(w)
      BY <1>6 DEF Reporting, FailedBy, OpsNamed, OpSet
    <3>1. PICK e \in ExecutedBy(w), value \in Values :
            results' = [results EXCEPT ![e.hash] = [value |-> value, site |-> e.site]]
      BY <1>6, <2>1, <2>2, <2>4, <3>0, ReceiveOpsEffect
    <3>2. e.hash \in Hashes /\ e.site = s
      BY <1>1, <2>1, OpSetFacts DEF ExecutedBy, Ended, InFlight
    <3>3. [value |-> value, site |-> e.site] # None
      BY <2>1, <3>2, NoneAssumption DEF Results
    <3>4. results'[e.hash] = [value |-> value, site |-> e.site]
      BY <3>1, <3>2, ResultsType DEF IInv, ResultMap
    <3>5. results'[e.hash] # None /\ results'[e.hash].site = s
      BY <3>2, <3>3, <3>4
    <3> QED
      BY <3>2, <3>5 DEF HasResultIn
  <2>5. CASE ReceiveDone(w)
    <3>1. Status(i) = "done"
      BY <2>5, ReplyFacts DEF ReceiveDone
    <3> QED
      BY <2>1, <3>1 DEF Status
  <2>6. CASE ReceiveError(w)
    <3>1. finished' # "no" /\ results' = results
      BY <2>2, <2>6, ReplyFacts DEF ReceiveError
    <3> QED
      BY <1>2, <2>1, <3>1 DEF Abandoned
  <2> QED
    BY <2>3, <2>4, <2>5, <2>6 DEF Receive
<1>7. ASSUME NEW s \in barred \ lapsed
      PROVE  \/ HasResultIn(results', s) \/ Abandoned(s)'
             \/ \E v \in Workers : Reporting(inv'[v], s)
             \/ s \in lapsed'
  <2>1. s \in Sites
    BY DEF IInv, TypeOK
  <2>2. CASE HasResultIn(results, s) \/ Abandoned(s)
    BY <1>2, <1>4, <1>5, <2>1, <2>2, StillBarred
  <2>3. ASSUME NEW v \in Workers, Reporting(inv[v], s), v # w
        PROVE  Reporting(inv'[v], s)
    BY <1>3, <2>3
  <2> QED
    BY <1>6, <2>2, <2>3 DEF Barred
<1> QED
  BY <1>1, <1>7 DEF Barred

LEMMA SendBarred ==
  ASSUME IInv, Barred, NEW w \in Workers, NEW target, Send(w, target)
  PROVE  Barred'
<1>1. /\ results' = results /\ finished = "no"
      /\ barred' = barred /\ lapsed' = lapsed
      /\ inv[w].status = "idle"
      /\ \A v \in Workers : v # w => inv'[v] = inv[v]
  BY DEF Send, history, marks, IInv, TypeOK
<1>2. \A s \in Sites : ~Reporting(inv[w], s)
  BY <1>1 DEF Reporting
<1>3. \A s \in barred \ lapsed : s \in Sites /\ ~Abandoned(s)
  BY <1>1 DEF IInv, TypeOK, Abandoned
<1>4. ASSUME NEW s \in barred \ lapsed, NEW v \in Workers, Reporting(inv[v], s)
      PROVE  Reporting(inv'[v], s)
  BY <1>1, <1>2, <1>3, <1>4
<1> QED
  BY <1>1, <1>3, <1>4 DEF Barred

LEMMA ResumeBarred ==
  ASSUME IInv, Barred, NEW o \in waiting, Resume(o)
  PROVE  Barred'
<1>1. /\ inv' = inv /\ finished' = finished
      /\ barred' = barred /\ lapsed' = lapsed
  BY DEF Resume, history, marks
<1>2. Consistent(results')
  BY ResumeInv DEF IInv, GlobalInv
<1>3. Extends(results, results')
  BY ResumeExtends
<1>4. \A v \in Workers : InFlight(v)' => InFlight(v)
  BY <1>1 DEF InFlight
<1>5. \A s \in barred \ lapsed : s \in Sites
  BY DEF IInv, TypeOK
<1>6. \A s \in barred \ lapsed :
        /\ HasResultIn(results, s) => HasResultIn(results', s)
        /\ Abandoned(s) => Abandoned(s)'
  BY <1>1, <1>2, <1>3, <1>4, <1>5, StillBarred
<1> QED
  BY <1>1, <1>6 DEF Barred

LEMMA NextBarred ==
  ASSUME IInv, Barred, [Next]_vars
  PROVE  Barred'
<1>1. CASE Next
  BY <1>1, StepBarred, ReceiveBarred, SendBarred, ResumeBarred DEF Next
<1>2. CASE UNCHANGED vars
  <2>1. /\ inv' = inv /\ results' = results /\ finished' = finished
        /\ barred' = barred /\ lapsed' = lapsed
    BY <1>2 DEF vars, executor, history, marks
  <2>2. \A s : Abandoned(s)' = Abandoned(s)
    BY <2>1 DEF Abandoned, InFlight
  <2> QED
    BY <2>1, <2>2 DEF Barred
<1> QED
  BY <1>1, <1>2

\* A step whose code returned a NoRetryError is never run again, whatever the
\* transports: the error becomes its result, or the run fails.  Run drops the
\* mark of an error that wraps a StepError, and so does a streamed reply with
\* operations; these steps are in lapsed, and no others.
THEOREM NoRetryHolds == Spec => []NoRetryIsFinal
<1>1. Init => Barred
  BY DEF Init, Barred
<1>2. IInv /\ Barred /\ [Next]_vars => Barred'
  BY NextBarred
<1>3. IInv /\ Barred => NoRetryIsFinal
  <2> SUFFICES ASSUME IInv, Barred, NEW w \in Workers, Runs(w),
                      inv[w].at \in barred \ lapsed
               PROVE  FALSE
    BY DEF NoRetryIsFinal
  <2> DEFINE s == inv[w].at
  <2>1. /\ s \in Sites /\ InFlight(w) /\ ~inv[w].cancelled
        /\ results[HashOf(results, s)] = None
        /\ \/ inv[w].target = HashOf(results, s)
           \/ inv[w].target = None /\ ~inv[w].plan
    BY RunsFacts
  <2>2. ~HasResultIn(results, s)
    BY <2>1, OneResult DEF IInv, GlobalInv
  <2>3. ~Abandoned(s)
    BY <2>1 DEF Abandoned
  <2>4. PICK v \in Workers : Reporting(inv[v], s)
    BY <2>2, <2>3 DEF Barred
  <2> QED
    BY <2>1, <2>4, ReportingFacts
<1> QED
  BY <1>1, <1>2, <1>3, Invariance, PTL DEF Spec

-----------------------------------------------------------------------------
(* A run is never lost.                                                    *)

\* The executor still has something to do for a run that is not finished: a
\* request to send, a reply to come or an event to wait for.
NotLost ==
  finished = "no" => jobs # {} \/ waiting # {} \/ \E w \in Workers : InFlight(w)

\* Every scheduled step is on its way to a result.
Pending ==
  \A h \in scheduled : results[h] = None =>
    Claimed(h) \/ \E o \in waiting : o.hash = h

\* A replay with all results is under way or will be requested, or a step is
\* on its way that leads to another one.
Alive ==
  \/ None \in jobs
  \/ \E w \in Workers :
       InFlight(w) /\ inv[w].target = None /\ inv[w].steps = results
  \/ \E h \in scheduled : results[h] = None

Going == finished = "no" => Pending /\ Alive

LEMMA InitGoing == Init => Going
BY DEF Init, Going, Pending, Alive

LEMMA StepGoing ==
  ASSUME IInv, Going, NEW w \in Workers, Step(w)
  PROVE  Going'
<1>1. PICK k : /\ inv' = [inv EXCEPT ![w] = k]
               /\ inv[w].status = "running"
               /\ StepKeeps(inv[w], k)
  BY StepLocal DEF IInv
<1>2. UNCHANGED executor
  BY DEF Step, Preflight, ReturnResult, ReturnBadResult, Sleep, WaitForEvent,
         Invoke, Infer, Defer, InferUnencodable, SkipRun, PlanRun, RunSucceeds,
         RunFails, RunReturnsStepError, RunUnencodable, RunPanics
<1>3. /\ results' = results /\ jobs' = jobs /\ scheduled' = scheduled
      /\ waiting' = waiting /\ finished' = finished
  BY <1>2 DEF executor
<1>4. \A v \in Workers : /\ inv'[v].target = inv[v].target
                         /\ inv'[v].steps = inv[v].steps
                         /\ InFlight(v) => InFlight(v)'
  BY <1>1 DEF IInv, TypeOK, InFlight, StepKeeps, Kept
<1>5. Pending => Pending'
  BY <1>3, <1>4 DEF Pending, Claimed
<1>6. Alive => Alive'
  BY <1>3, <1>4 DEF Alive
<1> QED
  BY <1>3, <1>5, <1>6 DEF Going

LEMMA SendGoing ==
  ASSUME IInv, Going, NEW w \in Workers, NEW target \in Hashes \cup {None},
         Send(w, target)
  PROVE  Going'
<1>1. /\ results' = results /\ jobs' = jobs \ {target} /\ scheduled' = scheduled
      /\ waiting' = waiting /\ finished' = finished /\ finished = "no"
      /\ inv' = [inv EXCEPT ![w] = Fresh(results, target, planning)]
      /\ inv[w].status = "idle"
  BY DEF Send
<1>2. Pending /\ Alive
  BY <1>1 DEF Going
<1>3. /\ inv'[w].target = target /\ inv'[w].steps = results
      /\ inv'[w].status = "running"
      /\ \A v \in Workers : v # w => inv'[v] = inv[v]
  <2> DEFINE k == Fresh(results, target, planning)
  <2>1. results \in ResultMap /\ planning \in BOOLEAN /\ inv \in [Workers -> Invocations]
    BY DEF IInv, TypeOK, ResultMap
  <2>2. k.target = target /\ k.steps = results /\ k.status = "running"
    BY <2>1, FreshFacts
  <2> HIDE DEF k
  <2>3. inv' = [inv EXCEPT ![w] = k]
    BY <1>1 DEF k
  <2> QED
    BY <2>1, <2>2, <2>3
<1>4. inv[w].target = None /\ ~InFlight(w) /\ InFlight(w)'
  BY <1>1, <1>3, IdleStep DEF IInv, GlobalInv, IdleOK, InFlight
<1>5. Pending'
  <2> SUFFICES ASSUME NEW h \in scheduled, results[h] = None
               PROVE  Claimed(h)' \/ \E o \in waiting : o.hash = h
    BY <1>1 DEF Pending
  <2>1. h \in Hashes
    BY DEF IInv, TypeOK
  <2>2. Claimed(h) => Claimed(h)'
    BY <1>1, <1>3, <1>4, <2>1, NoneIsNoHash DEF Claimed
  <2> QED
    BY <1>2, <2>2 DEF Pending
<1>6. Alive'
  <2>1. CASE None \in jobs
    <3>1. CASE target = None
      BY <1>1, <1>3, <1>4, <3>1 DEF Alive
    <3>2. CASE target # None
      BY <1>1, <2>1, <3>2 DEF Alive
    <3> QED
      BY <3>1, <3>2
  <2>2. CASE \E v \in Workers :
               InFlight(v) /\ inv[v].target = None /\ inv[v].steps = results
    BY <1>1, <1>3, <1>4, <2>2 DEF Alive, InFlight
  <2>3. CASE \E h \in scheduled : results[h] = None
    BY <1>1, <2>3 DEF Alive
  <2> QED
    BY <1>2, <2>1, <2>2, <2>3 DEF Alive
<1> QED
  BY <1>5, <1>6 DEF Going

LEMMA ResumeGoing ==
  ASSUME IInv, Going, NEW o \in waiting, Resume(o)
  PROVE  Going'
<1>1. /\ waiting' = waiting \ {o} /\ jobs' = jobs \cup {None}
      /\ inv' = inv /\ scheduled' = scheduled /\ finished' = finished
  BY DEF Resume
<1>2. PICK value : results' = [results EXCEPT ![o.hash] = [value |-> value, site |-> o.site]]
  BY DEF Resume
<1>3. o.hash \in Hashes /\ o.site \in Sites /\ results \in ResultMap
  BY ResultsType DEF IInv, TypeOK, Ops
<1>4. results'[o.hash] # None
  <2>1. PICK v \in Values : results'[o.hash] = [value |-> v, site |-> o.site]
    BY <1>3, ResumedValue DEF Resume, ResultMap
  <2>2. [value |-> v, site |-> o.site] \in Results
    BY <1>3 DEF Results
  <2> QED
    BY <2>1, <2>2, NoneAssumption
<1>5. \A h \in Hashes : h # o.hash => results'[h] = results[h]
  BY <1>2, <1>3 DEF ResultMap
<1>6. Pending => Pending'
  <2> SUFFICES ASSUME Pending, NEW h \in scheduled, results'[h] = None
               PROVE  Claimed(h)' \/ \E p \in waiting' : p.hash = h
    BY <1>1 DEF Pending
  <2>1. h # o.hash /\ results[h] = None
    BY <1>4, <1>5 DEF IInv, TypeOK
  <2>2. Claimed(h) => Claimed(h)'
    BY <1>1 DEF Claimed
  <2> QED
    BY <1>1, <2>1, <2>2 DEF Pending
<1>7. Alive'
  BY <1>1 DEF Alive
<1> QED
  BY <1>1, <1>6, <1>7 DEF Going

LEMMA ReceiveErrorGoing ==
  ASSUME IInv, Going, NEW w \in Workers, ReceiveError(w)
  PROVE  Going'
<1> SUFFICES ASSUME finished' = "no"
             PROVE  Pending' /\ Alive'
  BY DEF Going
<1>1. /\ results' = results /\ scheduled' = scheduled /\ waiting' = waiting
      /\ finished = "no" /\ jobs' = jobs \cup {inv[w].target} /\ Free(w)
  BY DEF ReceiveError
<1>2. Pending /\ Alive
  BY <1>1 DEF Going
<1>3. \A v \in Workers : v # w => inv'[v] = inv[v]
  BY <1>1 DEF Free, IInv, TypeOK
<1>4. Pending'
  <2>1. \A h : Claimed(h) => Claimed(h)'
    BY <1>1, <1>3 DEF Claimed
  <2> QED
    BY <1>1, <1>2, <2>1 DEF Pending
<1>5. Alive'
  BY <1>1, <1>2, <1>3 DEF Alive, InFlight
<1> QED
  BY <1>4, <1>5

\* The reply to a request for a step has the outcome of that step.
LEMMA TargetIsAnswered ==
  ASSUME IInv, NEW w \in Workers, ReceiveOps(w), inv[w].target # None
  PROVE  ExecutedBy(w) # {}
<1> DEFINE i == inv[w]
<1>1. Ended(w) /\ Status(i) = "notCompleted"
  BY ReplyOf DEF ReceiveOps
<1>2. LocalInv(i) /\ i.ops \in Seq(Ops)
  BY ResultsType, InvocationType DEF IInv
<1>3. \E n \in 1 .. Len(i.ops) : i.ops[n].op \in Executed
  <2>1. CASE IgnoredError(i)
    <3>1. 1 \in 1 .. Len(i.ops)
      BY <2>1 DEF IgnoredError
    <3> QED
      BY <2>1, <3>1 DEF IgnoredError, Executed
  <2>2. CASE ~IgnoredError(i)
    <3>1. i.status # "panicked" /\ i.err = "none"
      BY <1>1, <2>2 DEF Status, LeftError, InvokeError
    <3> QED
      BY <1>1, <1>2, <3>1 DEF Ended, LocalInv, AnsweredOK, Answers
  <2> QED
    BY <2>1, <2>2
<1> QED
  BY <1>3 DEF ExecutedBy, OpSet

LEMMA ReceiveOpsGoing ==
  ASSUME IInv, Going, NEW w \in Workers, ReceiveOps(w)
  PROVE  Going'
<1> DEFINE i == inv[w]
           O == OpSet(i)
           P == Planned(w)
           D == DeferredBy(w)
           E == ExecutedBy(w)
<1> SUFFICES ASSUME finished' = "no"
             PROVE  Pending' /\ Alive'
  BY DEF Going
<1>1. /\ Free(w) /\ InFlight(w) /\ O # {}
      /\ scheduled' = scheduled \cup HashesOf(P \cup D)
      /\ waiting' = waiting \cup D
      /\ finished' = finished
      /\ \/ /\ results' = results
            /\ jobs' = UNION {jobs, HashesOf(P), IF E # {} THEN {i.target} ELSE {}}
         \/ /\ \E e \in E, value \in Values :
                 results' = [results EXCEPT ![e.hash] = [value |-> value, site |-> e.site]]
            /\ jobs' = UNION {jobs, HashesOf(P), {None}}
  BY ReceiveOpsEffect
<1>2. Pending /\ Alive
  BY <1>1 DEF Going
<1>3. \A v \in Workers : v # w => inv'[v] = inv[v]
  BY <1>1 DEF Free, IInv, TypeOK
<1>4. i.target # None => E # {}
  BY TargetIsAnswered
<1>5. /\ \A o \in O : o \in Ops /\ o.hash \in Hashes
      /\ \A e \in E : e \in O /\ (i.target = e.hash \/ i.target = None)
  BY <1>1, OpSetFacts DEF ExecutedBy
<1>6. \A o \in O : o \in E \/ o.hash \in scheduled \/ o \in P \cup D
  BY <1>5 DEF Ops, OpNames, Planned, DeferredBy, ExecutedBy, Executed
<1> HIDE DEF i, O, P, D, E
<1>7. CASE results' = results
           /\ jobs' = UNION {jobs, HashesOf(P), IF E # {} THEN {i.target} ELSE {}}
  <2>1. Pending'
    <3> SUFFICES ASSUME NEW h \in scheduled', results[h] = None
                 PROVE  Claimed(h)' \/ \E o \in waiting' : o.hash = h
      BY <1>7 DEF Pending
    <3>1. CASE h \in scheduled
      <4>1. h \in Hashes
        BY <3>1 DEF IInv, TypeOK
      <4>2. Claimed(h) => Claimed(h)'
        <5>1. h = i.target => h \in jobs'
          BY <1>4, <1>7, <4>1, NoneIsNoHash
        <5> QED
          BY <1>3, <1>7, <5>1 DEF Claimed, i
      <4> QED
        BY <1>1, <1>2, <3>1, <4>2 DEF Pending
    <3>2. CASE h \in HashesOf(P)
      BY <1>7, <3>2 DEF Claimed
    <3>3. CASE h \in HashesOf(D)
      BY <1>1, <3>3 DEF HashesOf
    <3> QED
      BY <1>1, <3>1, <3>2, <3>3 DEF HashesOf
  <2>2. Alive'
    <3>1. CASE None \in jobs \/ \E h \in scheduled : results[h] = None
      BY <1>1, <1>7, <3>1 DEF Alive
    <3>2. ASSUME NEW v \in Workers, v # w,
                 InFlight(v), inv[v].target = None, inv[v].steps = results
          PROVE  Alive'
      BY <1>3, <1>7, <3>2 DEF Alive, InFlight
    <3>3. CASE i.target = None /\ i.steps = results
      <4>1. CASE E # {}
        BY <1>7, <3>3, <4>1 DEF Alive
      <4>2. CASE E = {}
        <5>1. PICK o \in O : TRUE
          BY <1>1
        <5>2. i.steps[o.hash] = None
          <6>1. PICK n \in 1 .. Len(i.ops) : o = i.ops[n]
            BY DEF O, OpSet
          <6>2. OpsOK(i)
            BY DEF IInv, LocalInv, i
          <6> QED
            BY <6>1, <6>2 DEF OpsOK
        <5>3. o.hash \in scheduled'
          BY <1>1, <1>6, <4>2 DEF HashesOf
        <5> QED
          BY <1>7, <3>3, <5>2, <5>3 DEF Alive
      <4> QED
        BY <4>1, <4>2
    <3> QED
      BY <1>2, <3>1, <3>2, <3>3 DEF Alive, i
  <2> QED
    BY <2>1, <2>2
<1>8. ASSUME NEW e \in E, NEW value \in Values,
             results' = [results EXCEPT ![e.hash] = [value |-> value, site |-> e.site]],
             jobs' = UNION {jobs, HashesOf(P), {None}}
      PROVE  Pending' /\ Alive'
  <2>1. Alive'
    BY <1>8 DEF Alive
  <2>2. e.hash \in Hashes /\ e.site \in Sites /\ results \in ResultMap
    BY <1>5, ResultsType DEF IInv, Ops
  <2>3. results'[e.hash] # None
    <3>1. results'[e.hash] = [value |-> value, site |-> e.site]
      BY <1>8, <2>2 DEF ResultMap
    <3>2. [value |-> value, site |-> e.site] \in Results
      BY <2>2 DEF Results
    <3> QED
      BY <3>1, <3>2, NoneAssumption
  <2>4. \A h \in Hashes : h # e.hash => results'[h] = results[h]
    BY <1>8, <2>2 DEF ResultMap
  <2>5. Pending'
    <3> SUFFICES ASSUME NEW h \in scheduled', results'[h] = None
                 PROVE  Claimed(h)' \/ \E o \in waiting' : o.hash = h
      BY DEF Pending
    <3>1. CASE h \in scheduled
      <4>1. h \in Hashes /\ h # e.hash /\ results[h] = None
        BY <2>3, <2>4, <3>1 DEF IInv, TypeOK
      <4>2. h # i.target
        BY <1>5, <4>1, NoneIsNoHash
      <4>3. Claimed(h) => Claimed(h)'
        BY <1>3, <1>8, <4>2 DEF Claimed, i
      <4> QED
        BY <1>1, <1>2, <3>1, <4>1, <4>3 DEF Pending
    <3>2. CASE h \in HashesOf(P)
      BY <1>8, <3>2 DEF Claimed
    <3>3. CASE h \in HashesOf(D)
      BY <1>1, <3>3 DEF HashesOf
    <3> QED
      BY <1>1, <3>1, <3>2, <3>3 DEF HashesOf
  <2> QED
    BY <2>1, <2>5
<1> QED
  BY <1>1, <1>7, <1>8

\* A run that is not finished is never lost: some request is still to be sent
\* or to be answered, or some sleep, wait or invoke is in progress, however
\* the replies of concurrent requests are ordered.
THEOREM RunIsNeverLost == Spec => []NotLost
<1>1. Init => Going
  BY InitGoing
<1>2. IInv /\ Going /\ [Next]_vars => Going'
  <2> SUFFICES ASSUME IInv, Going, [Next]_vars
               PROVE  Going'
    OBVIOUS
  <2>1. ASSUME NEW w \in Workers, ReceiveDone(w)
        PROVE  Going'
    BY <2>1 DEF ReceiveDone, Going
  <2>2. CASE UNCHANGED vars
    BY <2>2 DEF vars, executor, Going, Pending, Alive, Claimed, InFlight
  <2> QED
    BY <2>1, <2>2, StepGoing, SendGoing, ResumeGoing, ReceiveErrorGoing,
       ReceiveOpsGoing DEF Next, Receive
<1>3. IInv /\ Going => NotLost
  <2> SUFFICES ASSUME IInv, Going, finished = "no",
                      jobs = {}, waiting = {}, \A w \in Workers : ~InFlight(w)
               PROVE  FALSE
    BY DEF NotLost
  <2>1. PICK h \in scheduled : results[h] = None
    BY DEF Going, Alive
  <2>2. h \in Hashes /\ Claimed(h)
    BY <2>1 DEF Going, Pending, IInv, TypeOK
  <2>3. PICK w \in Workers : inv[w].target = h
    BY <2>2 DEF Claimed
  <2> QED
    BY <2>2, <2>3, IdleStep, NoneIsNoHash DEF IInv, GlobalInv, IdleOK
<1> QED
  BY <1>1, <1>2, <1>3, Invariance, PTL DEF Spec

-----------------------------------------------------------------------------
(* A run is durable.                                                       *)

outcomes == [s \in Sites |-> Outcome(s)]

LEMMA OutcomeFacts ==
  ASSUME NEW s \in Sites
  PROVE  /\ outcomes[s] # "none" <=> HasResultIn(results, s)
         /\ outcomes[s] = "error" <=> FailedIn(results, s)
<1>1. outcomes[s] = Outcome(s)
  BY DEF outcomes
<1>2. HasResult(s) <=> HasResultIn(results, s)
  BY SettledNow
<1>3. Failed(s) <=> FailedIn(results, s)
  BY DEF Failed, FailedIn
<1>4. FailedIn(results, s) => HasResultIn(results, s)
  BY FailedHasResult
<1> QED
  BY <1>1, <1>2, <1>3, <1>4 DEF Outcome

\* The words of DurableRun are those of the proofs.
LEMMA DurableWords ==
  /\ Durable!Calls = Sites
  /\ \A s \in Sites : Durable!Settled(s) <=> SettledIn(results, s)
  /\ \A s \in Sites : Open(results, s) => Durable!Reached(s)
<1>1. /\ Durable!Calls = Sites
      /\ \A s, t : /\ Durable!Block(s, t) <=> SameBlock(s, t)
                   /\ Durable!Branch(s, t) <=> SameBranch(s, t)
  BY DEF Durable!Calls, Durable!Block, Durable!Branch, SameBlock, SameBranch, Sites
<1>2. \A s \in Sites : \A t \in 1 .. s - 1 : t \in Sites
  BY SitesAreNumbers DEF Sites
<1>3. ASSUME NEW s \in Sites
      PROVE  Durable!Settled(s) <=> SettledIn(results, s)
  <2>1. Durable!Settled(s) <=>
          outcomes[s] # "none" \/
          \E t \in 1 .. s - 1 : SameBranch(s, t) /\ outcomes[t] = "error"
    BY <1>1 DEF Durable!Settled, outcomes
  <2> QED
    BY <1>2, <2>1, OutcomeFacts DEF SettledIn, CutIn
<1>4. ASSUME NEW s \in Sites, Open(results, s)
      PROVE  Durable!Reached(s)
  <2> SUFFICES ASSUME NEW u \in 1 .. s - 1
               PROVE  \/ SameBlock(s, u) /\ ~SameBranch(s, u)
                      \/ /\ Durable!Settled(u)
                         /\ outcomes[u] = "error" => Program[u].parallel /\ ~SameBlock(s, u)
    BY <1>1 DEF Durable!Reached, outcomes
  <2>1. u \in Sites
    BY <1>2
  <2>2. Elsewhere(u, s) \/ Past(results, u, s)
    BY <1>4 DEF Open
  <2> QED
    BY <1>3, <2>1, <2>2, OutcomeFacts DEF Elsewhere, Past
<1> QED
  BY <1>1, <1>3, <1>4

LEMMA SameOutcomes ==
  ASSUME results' = results
  PROVE  outcomes' = outcomes
<1>1. \A s : Outcome(s)' = Outcome(s)
  BY DEF Outcome, HasResult, Failed
<1> QED
  BY <1>1 DEF outcomes

\* The result of an open call is stored.
LEMMA SettleStep ==
  ASSUME IInv, NEW h \in Hashes, NEW s, Known(results, h, s), results[h] = None,
         NEW v \in Results, v.site = s,
         results' = [results EXCEPT ![h] = v], finished' = finished
  PROVE  Durable!Next
<1>1. s \in Sites /\ Open(results, s) /\ h = HashOf(results, s)
  BY DEF Known
<1>2. outcomes[s] = "none"
  <2>1. ~HasResultIn(results, s)
    BY <1>1, OneResult DEF IInv, GlobalInv
  <2> QED
    BY <1>1, <2>1, OutcomeFacts
<1>3. results \in ResultMap /\ v # None
  BY ResultsType, NoneAssumption DEF IInv
<1>4. results'[h] = v /\ \A g \in Hashes : g # h => results'[g] = results[g]
  BY <1>3 DEF ResultMap
<1>5. ASSUME NEW t \in Sites, t # s
      PROVE  Outcome(t)' = Outcome(t)
  <2>1. \A g \in Hashes : results'[g] # None /\ results'[g].site = t <=>
                          results[g] # None /\ results[g].site = t
    BY <1>3, <1>4, <1>5
  <2>2. \A g \in Hashes : results[g] # None /\ results[g].site = t => results'[g] = results[g]
    BY <1>4
  <2>3. HasResult(t)' <=> HasResult(t)
    BY <2>1 DEF HasResult
  <2>4. Failed(t)' <=> Failed(t)
    BY <2>1, <2>2 DEF Failed
  <2> QED
    BY <2>3, <2>4 DEF Outcome
<1>6. Outcome(s)' \in {"ok", "error"}
  <2>1. HasResult(s)'
    BY <1>3, <1>4 DEF HasResult
  <2> QED
    BY <2>1 DEF Outcome
<1>7. outcomes' = [outcomes EXCEPT ![s] = Outcome(s)']
  BY <1>5 DEF outcomes
<1>8. Durable!Reached(s) /\ s \in Durable!Calls
  BY <1>1, DurableWords
<1>9. Durable!Settle(s)
  BY <1>2, <1>6, <1>7, <1>8 DEF Durable!Settle, outcomes
<1> QED
  BY <1>8, <1>9 DEF Durable!Next

LEMMA DurableStep == IInv /\ [Next]_vars => [Durable!Next]_(Durable!vars)
<1> SUFFICES ASSUME IInv, [Next]_vars
             PROVE  Durable!Next \/ (outcomes' = outcomes /\ finished' = finished)
  BY DEF Durable!vars, outcomes
<1>1. ASSUME results' = results, finished' = finished
      PROVE  outcomes' = outcomes /\ finished' = finished
  BY <1>1, SameOutcomes
<1>2. ASSUME NEW w \in Workers, Step(w)
      PROVE  results' = results /\ finished' = finished
  BY <1>2 DEF Step, Preflight, ReturnResult, ReturnBadResult, Sleep, WaitForEvent,
       Invoke, Infer, Defer, InferUnencodable, SkipRun, PlanRun, RunSucceeds,
       RunFails, RunReturnsStepError, RunUnencodable, RunPanics, executor
<1>3. ASSUME NEW w \in Workers, NEW target, Send(w, target)
      PROVE  results' = results /\ finished' = finished
  BY <1>3 DEF Send
<1>4. ASSUME NEW o \in waiting, Resume(o)
      PROVE  Durable!Next
  <2>1. finished' = finished
    BY <1>4 DEF Resume
  <2>2. PICK value \in Values :
          results' = [results EXCEPT ![o.hash] = [value |-> value, site |-> o.site]]
    BY <1>4, ResumedValue DEF Resume
  <2>3. /\ o.hash \in Hashes /\ o.site \in Sites
        /\ Known(results, o.hash, o.site) /\ results[o.hash] = None
    BY DEF IInv, GlobalInv, Waits, TypeOK, Ops
  <2> DEFINE v == [value |-> value, site |-> o.site]
  <2>4. v \in Results /\ v.site = o.site
    BY <2>3 DEF Results
  <2>5. results' = [results EXCEPT ![o.hash] = v]
    BY <2>2
  <2> HIDE DEF v
  <2> QED
    BY <2>1, <2>3, <2>4, <2>5, SettleStep
<1>5. ASSUME NEW w \in Workers, ReceiveOps(w)
      PROVE  Durable!Next \/ (results' = results /\ finished' = finished)
  <2>1. finished' = finished /\ InFlight(w)
    BY <1>5, ReceiveOpsEffect
  <2>2. ASSUME NEW e \in ExecutedBy(w), NEW value \in Values,
               results' = [results EXCEPT ![e.hash] = [value |-> value, site |-> e.site]]
        PROVE  Durable!Next
    <3>1. e \in OpSet(inv[w]) /\ e.op \in Executed
      BY DEF ExecutedBy
    <3>2. /\ e.hash \in Hashes /\ e.site \in Sites
          /\ Known(results, e.hash, e.site) /\ results[e.hash] = None
      BY <2>1, <3>1, OpSetFacts
    <3> DEFINE v == [value |-> value, site |-> e.site]
    <3>3. v \in Results /\ v.site = e.site
      BY <3>2 DEF Results
    <3>4. results' = [results EXCEPT ![e.hash] = v]
      BY <2>2
    <3> HIDE DEF v
    <3> QED
      BY <2>1, <3>2, <3>3, <3>4, SettleStep
  <2> QED
    BY <1>5, <2>1, <2>2, ReceiveOpsEffect
<1>6. ASSUME NEW w \in Workers, ReceiveDone(w)
      PROVE  Durable!Next \/ (results' = results /\ finished' = finished)
  <2>1. results' = results /\ finished' = IF finished = "no" THEN "ok" ELSE finished
    BY <1>6 DEF ReceiveDone
  <2>2. CASE finished = "no"
    <3>1. finished' = "ok" /\ IInv'
      BY <1>6, <2>1, <2>2, ReceiveDoneInv
    <3>2. \A s \in Sites : SettledIn(results, s)
      BY <2>1, <3>1 DEF IInv, GlobalInv, Complete
    <3>3. \A s \in Durable!Calls : Durable!Settled(s)
      BY <3>2, DurableWords
    <3>4. outcomes' = outcomes
      BY <2>1, SameOutcomes
    <3> QED
      BY <2>2, <3>1, <3>3, <3>4 DEF Durable!Next, Durable!Succeed, outcomes
  <2> QED
    BY <2>1, <2>2
<1>7. ASSUME NEW w \in Workers, ReceiveError(w)
      PROVE  Durable!Next \/ (results' = results /\ finished' = finished)
  <2>1. results' = results /\ (finished' = finished \/ (finished = "no" /\ finished' = "failed"))
    BY <1>7 DEF ReceiveError
  <2>2. CASE finished = "no" /\ finished' = "failed"
    <3>1. outcomes' = outcomes
      BY <2>1, SameOutcomes
    <3> QED
      BY <2>2, <3>1 DEF Durable!Next, Durable!Fail, outcomes
  <2> QED
    BY <2>1, <2>2
<1>8. UNCHANGED vars => results' = results /\ finished' = finished
  BY DEF vars, executor
<1> QED
  BY <1>1, <1>2, <1>3, <1>4, <1>5, <1>6, <1>7, <1>8 DEF Next, Receive

\* The SDK with its executor implements DurableRun: every stored result
\* settles one call that the code has reached and that had no outcome, and a
\* run succeeds after its last call, whatever is replayed and retried.
THEOREM Refinement == Spec => DurableRunSpec
<1>1. Init => Durable!Init
  <2> SUFFICES ASSUME Init
               PROVE  outcomes = [s \in Sites |-> "none"] /\ finished = "no"
    BY DurableWords DEF Durable!Init, outcomes
  <2>1. \A s : ~HasResult(s) /\ ~Failed(s)
    BY DEF Init, NoResults, HasResult, Failed
  <2> QED
    BY <2>1 DEF Init, outcomes, Outcome
<1>2. IInv /\ [Next]_vars => [Durable!Next]_(Durable!vars)
  BY DurableStep
<1> QED
  BY <1>1, <1>2, Invariance, PTL DEF Spec, DurableRunSpec, Durable!Spec

=============================================================================
