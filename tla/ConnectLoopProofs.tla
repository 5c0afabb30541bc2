------------------------- MODULE ConnectLoopProofs -------------------------
(***************************************************************************)
(* Proofs about ConnectLoop for every set of connect goroutines, with and  *)
(* without a fallback key.                                                 *)
(*                                                                         *)
(* The right to run a connection is a token: the caller has it until the   *)
(* first launch, then the active connection, and from its report to the    *)
(* next launch the run loop.  TokenWithCaller and TokenWithLoop say that   *)
(* there is no active connection while somebody else has the token, which  *)
(* makes OneActive and Supervised inductive.                               *)
(***************************************************************************)
EXTENDS ConnectLoop, TLAPS

TokenWithCaller ==
  caller = "initiate" => /\ Active = {}
                         /\ attempts = 0
                         /\ loop = "select"

TokenWithLoop ==
  loop \in {"flush", "backoff", "sendFailed", "sendNil"} => Active = {}

\* A connection shuts down, and reports no error, only in a shutdown.
CleanEndMeansShutdown ==
  \A c \in Conns :
    conn[c].pc = "shutdown" \/ (conn[c].pc = "report" /\ conn[c].err = "none")
    => workerCancelled

\* The worker is shut down by Close, so nobody waits for its first connection.
ShutdownByClose ==
  /\ workerCancelled => caller \in {"cancelled", "failed", "closing", "closed"}
  /\ loop = "sendNil" => workerCancelled

\* Whoever knows of a connection knows of one that completed its handshake.
HandlingIsEstablished ==
  /\ \A c \in Conns : conn[c].pc \in Handling => established
  /\ loop \in {"sendConnected", "connected"} => established

\* The watcher moves only after the run loop, Close returns only after both.
EndsInOrder ==
  /\ watcher # "waitLoop" => loop = "exited"
  /\ caller = "closed" => watcher = "done" /\ state = "CLOSED"

IInv ==
  /\ TypeOK
  /\ OneActive /\ Supervised /\ TokenWithCaller /\ TokenWithLoop
  /\ NoStaleKey
  /\ CleanEndMeansShutdown /\ ShutdownByClose
  /\ HandlingIsEstablished /\ ConnectOkMeansEstablished
  /\ EndsInOrder

-----------------------------------------------------------------------------
(* What a step of one connect goroutine does to conn. *)

\* A goroutine that moves on changes its own program counter only.
LEMMA GotoEffect ==
  ASSUME conn \in [Conns -> Goroutines], NEW c \in Conns,
         NEW pc \in ConnStates, Goto(c, pc)
  PROVE  /\ conn' \in [Conns -> Goroutines]
         /\ conn'[c].pc = pc
         /\ conn'[c].err = conn[c].err
         /\ conn'[c].fallback = conn[c].fallback
         /\ \A d \in Conns : d # c => conn'[d] = conn[d]
BY DEF Goto, Goroutines

\* A goroutine that reports an error keeps its key.
LEMMA ReportEffect ==
  ASSUME conn \in [Conns -> Goroutines], NEW c \in Conns,
         NEW err \in Errors, Report(c, err)
  PROVE  /\ conn' \in [Conns -> Goroutines]
         /\ conn'[c].pc = "report"
         /\ conn'[c].err = err
         /\ conn'[c].fallback = conn[c].fallback
         /\ \A d \in Conns : d # c => conn'[d] = conn[d]
BY DEF Report, Goroutines, ConnStates

\* A goroutine that ends leaves the others alone.
LEMMA IdleEffect ==
  ASSUME conn \in [Conns -> Goroutines], NEW c \in Conns,
         conn' = [conn EXCEPT ![c] = Idle]
  PROVE  /\ conn' \in [Conns -> Goroutines]
         /\ conn'[c].pc = "idle"
         /\ \A d \in Conns : d # c => conn'[d] = conn[d]
BY DEF Idle, Goroutines, ConnStates, Errors

\* A launched goroutine was idle and gets the key it is given.
LEMMA LaunchEffect ==
  ASSUME conn \in [Conns -> Goroutines], NEW c \in Conns,
         NEW key \in BOOLEAN, Launch(c, "start", key)
  PROVE  /\ conn[c].pc = "idle"
         /\ conn' \in [Conns -> Goroutines]
         /\ conn'[c].pc = "start"
         /\ conn'[c].fallback = key
         /\ \A d \in Conns : d # c => conn'[d] = conn[d]
BY DEF Launch, Goroutines, ConnStates, Preparing, Errors

\* A draining connection launches a successor with its own key.
LEMMA DrainEffect ==
  ASSUME conn \in [Conns -> Goroutines], NEW c \in Conns, NEW d \in Conns,
         GatewayCloses(c, d)
  PROVE  /\ conn[c].pc = "reading" /\ conn[d].pc = "idle" /\ c # d
         /\ conn' \in [Conns -> Goroutines]
         /\ conn'[c].pc = "drain"
         /\ conn'[d].pc = "start"
         /\ conn'[d].fallback = conn[c].fallback
         /\ \A e \in Conns : e \notin {c, d} => conn'[e] = conn[e]
BY DEF GatewayCloses, Goroutines, ConnStates, Preparing, Errors

-----------------------------------------------------------------------------

\* Nothing runs before Connect initiates the first connection.
LEMMA InitIInv == Init => IInv
<1> SUFFICES ASSUME Init PROVE IInv
  OBVIOUS
<1>1. conn \in [Conns -> Goroutines] /\ \A c \in Conns : conn[c].pc = "idle"
  BY DEF Init, Idle, Goroutines, ConnStates, Errors
<1>2. Active = {}
  BY <1>1 DEF Active
<1>3. TypeOK
  <2>1. attempts \in 0 .. MaxAttempts
    BY DEF Init, MaxAttempts
  <2> QED BY <1>1, <2>1, Zenon DEF Init, TypeOK, CallerStates, LoopStates
<1>4. OneActive /\ Supervised /\ TokenWithCaller /\ TokenWithLoop /\ NoStaleKey
  BY <1>2 DEF Init, OneActive, Supervised, TokenWithCaller, TokenWithLoop,
              NoStaleKey
<1>5. CleanEndMeansShutdown /\ ShutdownByClose /\ EndsInOrder
  BY <1>1 DEF Init, CleanEndMeansShutdown, ShutdownByClose, EndsInOrder
<1>6. HandlingIsEstablished /\ ConnectOkMeansEstablished
  BY <1>1 DEF Init, HandlingIsEstablished, Handling, ConnectOkMeansEstablished
<1> QED BY <1>3, <1>4, <1>5, <1>6 DEF IInv

\* What PrepareStep and its siblings have in common: c moves on, and nothing
\* else changes except that a handshake may complete.
Moves(c) ==
  /\ conn' \in [Conns -> Goroutines]
  /\ conn[c].pc \in Preparing \cup Handling
  /\ conn'[c].pc \in Preparing \cup Handling \cup {"report"}
  /\ conn'[c].fallback = conn[c].fallback
  /\ \A d \in Conns : d # c => conn'[d] = conn[d]
  /\ conn'[c].pc \in Handling => established'
  /\ conn'[c].pc = "shutdown" \/ (conn'[c].pc = "report" /\ conn'[c].err = "none")
     => workerCancelled
  /\ established' \in BOOLEAN
  /\ established => established'
  /\ UNCHANGED <<caller, contexts, loopVars, watcher>>

\* The steps of a connect goroutine, its drain and its end apart, are moves.
LEMMA ConnectMoves ==
  ASSUME IInv, NEW c \in Conns,
         \/ PrepareStep(c) \/ PrepareFails(c) \/ FlushDone(c) \/ ReadFails(c)
         \/ ShutdownBegins(c) \/ ShutdownDone(c)
  PROVE  Moves(c)
<1>0. conn \in [Conns -> Goroutines] /\ established \in BOOLEAN
  BY DEF IInv, TypeOK
<1>a. conn[c].pc \in Handling => established
  BY DEF IInv, HandlingIsEstablished
<1>1. CASE PrepareStep(c)
  <2>1. /\ AfterPhase[conn[c].pc] \in Preparing \cup {"notify"}
        /\ AfterPhase[conn[c].pc] = "notify" => conn[c].pc = "ready"
    BY <1>1 DEF PrepareStep, Preparing, AfterPhase
  <2>2. Goto(c, AfterPhase[conn[c].pc]) /\ AfterPhase[conn[c].pc] \in ConnStates
    BY <1>1, <2>1 DEF PrepareStep, ConnStates, Preparing, Handling
  <2> QED BY <1>0, <1>1, <2>1, <2>2, GotoEffect
             DEF PrepareStep, Moves, Preparing, Handling
<1>2. CASE PrepareFails(c)
  <2>1. PICK err \in Errors \ {"none"} : Report(c, err)
    BY <1>2 DEF PrepareFails, Preparing, PhaseErrors, StartErrors, CloseReasons,
                ReadErrors, Errors
  <2> QED BY <1>0, <1>2, <2>1, ReportEffect
             DEF PrepareFails, Moves, Preparing, Handling
<1>3. CASE FlushDone(c)
  <2>1. \/ Goto(c, "reading") /\ "reading" \in ConnStates
        \/ Report(c, "other") /\ "other" \in Errors
    BY <1>3 DEF FlushDone, ConnStates, Handling, Errors, StartErrors
  <2>2. /\ conn' \in [Conns -> Goroutines]
        /\ \/ conn'[c].pc = "reading"
           \/ conn'[c].pc = "report" /\ conn'[c].err = "other"
        /\ conn'[c].fallback = conn[c].fallback
        /\ \A d \in Conns : d # c => conn'[d] = conn[d]
    BY <1>0, <2>1, GotoEffect, ReportEffect
  <2> QED BY <1>0, <1>a, <1>3, <2>2 DEF FlushDone, Moves, Preparing, Handling
<1>4. CASE ReadFails(c)
  <2>1. PICK err \in Errors \ {"none"} : Report(c, err)
    BY <1>4 DEF ReadFails, ReadErrors, CloseReasons, Errors
  <2> QED BY <1>0, <1>4, <2>1, ReportEffect
             DEF ReadFails, Moves, Preparing, Handling
<1>5. CASE ShutdownBegins(c)
  <2>1. Goto(c, "shutdown") /\ "shutdown" \in ConnStates
    BY <1>5 DEF ShutdownBegins, ConnStates, Handling
  <2> QED BY <1>0, <1>a, <1>5, <2>1, GotoEffect
             DEF ShutdownBegins, Moves, Preparing, Handling
<1>6. CASE ShutdownDone(c)
  <2>1. Report(c, "none") /\ "none" \in Errors
    BY <1>6 DEF ShutdownDone, Errors
  <2>2. workerCancelled
    BY <1>6 DEF ShutdownDone, IInv, CleanEndMeansShutdown
  <2> QED BY <1>0, <1>6, <2>1, <2>2, ReportEffect
             DEF ShutdownDone, Moves, Preparing, Handling
<1> QED BY <1>1, <1>2, <1>3, <1>4, <1>5, <1>6

\* A connect goroutine that moves on keeps the invariant.
LEMMA MovesIInv ==
  ASSUME IInv, NEW c \in Conns, Moves(c)
  PROVE  IInv'
<1> USE DEF Moves, contexts, loopVars
<1>1. Active' = Active /\ c \in Active
  BY DEF Active, Preparing, Handling
<1>2. TypeOK'
  BY DEF IInv, TypeOK
<1>3. (OneActive /\ Supervised /\ TokenWithCaller /\ TokenWithLoop)'
  BY <1>1 DEF IInv, OneActive, Supervised, TokenWithCaller, TokenWithLoop
<1>4. NoStaleKey'
  BY <1>1 DEF IInv, NoStaleKey, Active
<1>5. (CleanEndMeansShutdown /\ ShutdownByClose /\ EndsInOrder)'
  BY DEF IInv, CleanEndMeansShutdown, ShutdownByClose, EndsInOrder
<1>6. (HandlingIsEstablished /\ ConnectOkMeansEstablished)'
  BY DEF IInv, HandlingIsEstablished, ConnectOkMeansEstablished
<1> QED BY <1>2, <1>3, <1>4, <1>5, <1>6 DEF IInv

\* A connection that hands over to its successor keeps the invariant: the
\* successor is the active connection, with the same key.
LEMMA GatewayClosesIInv ==
  ASSUME IInv, NEW c \in Conns, NEW d \in Conns, GatewayCloses(c, d)
  PROVE  IInv'
<1>0. /\ conn \in [Conns -> Goroutines]
      /\ ~workerCancelled
      /\ UNCHANGED <<caller, contexts, loopVars, watcher, established>>
  BY DEF IInv, TypeOK, GatewayCloses
<1>1. /\ conn[c].pc = "reading" /\ conn[d].pc = "idle" /\ c # d
      /\ conn' \in [Conns -> Goroutines]
      /\ conn'[c].pc = "drain"
      /\ conn'[d].pc = "start"
      /\ conn'[d].fallback = conn[c].fallback
      /\ \A e \in Conns : e \notin {c, d} => conn'[e] = conn[e]
  BY <1>0, DrainEffect
<1> USE DEF contexts, loopVars
<1>2. c \in Active /\ d \in Active' /\ Active' = {d}
  <2>1. c \in Active /\ Active \subseteq {c}
    BY <1>1 DEF IInv, OneActive, Active
  <2> QED BY <1>1, <2>1 DEF Active
<1>3. TypeOK'
  BY <1>0, <1>1 DEF IInv, TypeOK
<1>4. (OneActive /\ Supervised /\ TokenWithCaller /\ TokenWithLoop)'
  BY <1>0, <1>2
     DEF IInv, OneActive, Supervised, TokenWithCaller, TokenWithLoop
<1>5. NoStaleKey'
  BY <1>0, <1>1, <1>2 DEF IInv, NoStaleKey
<1>6. (CleanEndMeansShutdown /\ ShutdownByClose /\ EndsInOrder)'
  BY <1>0, <1>1 DEF IInv, CleanEndMeansShutdown, ShutdownByClose, EndsInOrder
<1>7. (HandlingIsEstablished /\ ConnectOkMeansEstablished)'
  BY <1>0, <1>1
     DEF IInv, HandlingIsEstablished, Handling, ConnectOkMeansEstablished
<1> QED BY <1>3, <1>4, <1>5, <1>6, <1>7 DEF IInv

\* A goroutine that ends keeps what the invariant says about connections.
LEMMA EndOfGoroutine ==
  ASSUME IInv, NEW c \in Conns, conn' = [conn EXCEPT ![c] = Idle]
  PROVE  /\ conn' \in [Conns -> Goroutines]
         /\ Active' = Active \ {c}
         /\ \A d \in Active' : conn'[d] = conn[d]
         /\ \A d \in Conns : conn'[d] = conn[d] \/ conn'[d].pc = "idle"
<1>1. /\ conn' \in [Conns -> Goroutines]
      /\ conn'[c].pc = "idle"
      /\ \A d \in Conns : d # c => conn'[d] = conn[d]
  BY IdleEffect DEF IInv, TypeOK
<1> QED BY <1>1 DEF Active

\* The end of a drained connection, and a report that the watcher takes.
LEMMA GoroutineEndsIInv ==
  ASSUME IInv, NEW c \in Conns, DrainEnds(c) \/ WatcherTakesReport(c)
  PROVE  IInv'
<1>0. /\ conn' = [conn EXCEPT ![c] = Idle]
      /\ UNCHANGED <<caller, contexts, loopVars, established>>
      /\ \/ UNCHANGED watcher
         \/ watcher = "waitDone" /\ watcher' = "flush"
  BY DEF DrainEnds, WatcherTakesReport
<1>1. /\ conn' \in [Conns -> Goroutines]
      /\ Active' = Active \ {c}
      /\ \A d \in Active' : conn'[d] = conn[d]
      /\ \A d \in Conns : conn'[d] = conn[d] \/ conn'[d].pc = "idle"
  BY <1>0, EndOfGoroutine
<1> USE DEF contexts, loopVars
<1>2. TypeOK'
  BY <1>0, <1>1 DEF IInv, TypeOK
<1>3. (OneActive /\ Supervised /\ TokenWithCaller /\ TokenWithLoop)'
  BY <1>0, <1>1
     DEF IInv, OneActive, Supervised, TokenWithCaller, TokenWithLoop
<1>4. NoStaleKey'
  BY <1>0, <1>1 DEF IInv, NoStaleKey
<1>5. (CleanEndMeansShutdown /\ ShutdownByClose /\ EndsInOrder)'
  BY <1>0, <1>1 DEF IInv, CleanEndMeansShutdown, ShutdownByClose, EndsInOrder
<1>6. (HandlingIsEstablished /\ ConnectOkMeansEstablished)'
  BY <1>0, <1>1
     DEF IInv, HandlingIsEstablished, Handling, ConnectOkMeansEstablished
<1> QED BY <1>2, <1>3, <1>4, <1>5, <1>6 DEF IInv

\* The run loop takes a report: it now has the token, or has ended in a
\* shutdown, and it still runs, so that Close has not returned.
LEMMA LoopReportIInv ==
  ASSUME IInv, NEW c \in Conns,
         LoopClean(c) \/ LoopGivesUp(c) \/ LoopRetries(c)
  PROVE  IInv'
<1>0. /\ loop = "select" /\ conn[c].pc = "report"
      /\ conn' = [conn EXCEPT ![c] = Idle]
      /\ loop' \in {"flush", "sendFailed", "sendNil", "exited"}
      /\ loop' = "sendNil" => conn[c].err = "none"
      /\ state' \in {"CLOSED", "RECONNECTING"}
      /\ isInitial' \in BOOLEAN /\ fallback' \in BOOLEAN
      /\ UNCHANGED <<caller, contexts, attempts, watcher, established>>
  BY DEF LoopClean, LoopGivesUp, LoopRetries, TakeReport, Return, IInv, TypeOK
<1>1. /\ conn' \in [Conns -> Goroutines]
      /\ Active' = Active \ {c}
      /\ \A d \in Active' : conn'[d] = conn[d]
      /\ \A d \in Conns : conn'[d] = conn[d] \/ conn'[d].pc = "idle"
  BY <1>0, EndOfGoroutine
<1>2. c \in Active /\ Active' = {}
  BY <1>0, <1>1 DEF IInv, OneActive, Active
<1> USE DEF contexts
<1>3. caller \notin {"initiate", "closed"}
  BY <1>0, <1>2 DEF IInv, TokenWithCaller, EndsInOrder
<1>4. TypeOK'
  BY <1>0, <1>1 DEF IInv, TypeOK, LoopStates
<1>5. (OneActive /\ Supervised /\ TokenWithCaller /\ TokenWithLoop)'
  BY <1>0, <1>2, <1>3 DEF OneActive, Supervised, TokenWithCaller, TokenWithLoop
<1>6. NoStaleKey'
  BY <1>2 DEF NoStaleKey
<1>7. (CleanEndMeansShutdown /\ ShutdownByClose /\ EndsInOrder)'
  BY <1>0, <1>1, <1>3
     DEF IInv, CleanEndMeansShutdown, ShutdownByClose, EndsInOrder
<1>8. (HandlingIsEstablished /\ ConnectOkMeansEstablished)'
  BY <1>0, <1>1
     DEF IInv, HandlingIsEstablished, Handling, ConnectOkMeansEstablished
<1> QED BY <1>4, <1>5, <1>6, <1>7, <1>8 DEF IInv

\* A launch moves the token from the caller or the run loop to the new
\* connection, which gets the key in use.
LEMMA LaunchIInv ==
  ASSUME IInv, NEW c \in Conns, Initiate(c) \/ Relaunch(c)
  PROVE  IInv'
<1>0. /\ Launch(c, "start", fallback)
      /\ loop' = "select"
      /\ attempts' = attempts + 1
      /\ \/ caller = "initiate" /\ caller' = "wait"
         \/ loop = "backoff" /\ attempts < MaxAttempts /\ caller' = caller
      /\ UNCHANGED <<contexts, isInitial, state, fallback, watcher, established>>
  BY DEF Initiate, Relaunch
<1>1. /\ conn[c].pc = "idle"
      /\ conn' \in [Conns -> Goroutines]
      /\ conn'[c].pc = "start"
      /\ conn'[c].fallback = fallback
      /\ \A d \in Conns : d # c => conn'[d] = conn[d]
  BY <1>0, LaunchEffect DEF IInv, TypeOK
<1>2. Active = {}
  BY <1>0 DEF IInv, TokenWithCaller, TokenWithLoop
<1>3. Active' = {c}
  BY <1>1, <1>2 DEF Active
<1> USE DEF contexts
<1>4. caller' \in CallerStates \ {"initiate"} /\ caller # "closed"
  BY <1>0 DEF IInv, TypeOK, CallerStates, TokenWithCaller, EndsInOrder
<1>5. attempts' \in 0 .. MaxAttempts
  BY <1>0 DEF IInv, TypeOK, TokenWithCaller, MaxAttempts
<1>6. TypeOK'
  BY <1>0, <1>1, <1>4, <1>5 DEF IInv, TypeOK, LoopStates
<1>7. (OneActive /\ Supervised /\ TokenWithCaller /\ TokenWithLoop)'
  BY <1>0, <1>3, <1>4
     DEF OneActive, Supervised, TokenWithCaller, TokenWithLoop
<1>8. NoStaleKey'
  BY <1>0, <1>1, <1>3 DEF NoStaleKey
<1>9. (CleanEndMeansShutdown /\ ShutdownByClose /\ EndsInOrder)'
  <2>1. watcher = "waitLoop"
    BY <1>0 DEF IInv, TypeOK, TokenWithCaller, EndsInOrder
  <2>2. CleanEndMeansShutdown'
    BY <1>0, <1>1 DEF IInv, CleanEndMeansShutdown
  <2>3. ShutdownByClose'
    BY <1>0 DEF IInv, ShutdownByClose
  <2> QED BY <1>0, <1>4, <2>1, <2>2, <2>3 DEF EndsInOrder
<1>10. (HandlingIsEstablished /\ ConnectOkMeansEstablished)'
  BY <1>0, <1>1
     DEF IInv, HandlingIsEstablished, Handling, ConnectOkMeansEstablished
<1> QED BY <1>6, <1>7, <1>8, <1>9, <1>10 DEF IInv

\* The run loop hears of a connection that completed its handshake.
LEMMA LoopConnectedIInv ==
  ASSUME IInv, NEW c \in Conns, LoopConnected(c)
  PROVE  IInv'
<1>0. /\ loop = "select" /\ conn[c].pc = "notify"
      /\ Goto(c, "flush") /\ "flush" \in ConnStates
      /\ loop' \in {"sendConnected", "connected"}
      /\ isInitial' = FALSE
      /\ UNCHANGED <<caller, contexts, attempts, state, fallback, watcher,
                     established>>
  BY DEF LoopConnected, ConnStates, Handling
<1>1. /\ conn' \in [Conns -> Goroutines]
      /\ conn'[c].pc = "flush"
      /\ conn'[c].fallback = conn[c].fallback
      /\ \A d \in Conns : d # c => conn'[d] = conn[d]
  BY <1>0, GotoEffect DEF IInv, TypeOK
<1>2. Active' = Active /\ c \in Active
  BY <1>0, <1>1 DEF Active
<1> USE DEF contexts
<1>3. caller \notin {"initiate", "closed"}
  BY <1>0, <1>2 DEF IInv, TokenWithCaller, EndsInOrder
<1>4. TypeOK'
  BY <1>0, <1>1 DEF IInv, TypeOK, LoopStates
<1>5. (OneActive /\ Supervised /\ TokenWithCaller /\ TokenWithLoop)'
  BY <1>0, <1>2, <1>3
     DEF IInv, OneActive, Supervised, TokenWithCaller, TokenWithLoop
<1>6. NoStaleKey'
  BY <1>0, <1>1, <1>2 DEF IInv, NoStaleKey, Active
<1>7. (CleanEndMeansShutdown /\ ShutdownByClose /\ EndsInOrder)'
  BY <1>0, <1>1, <1>3
     DEF IInv, CleanEndMeansShutdown, ShutdownByClose, EndsInOrder
<1>8. (HandlingIsEstablished /\ ConnectOkMeansEstablished)'
  BY <1>0, <1>1
     DEF IInv, HandlingIsEstablished, Handling, ConnectOkMeansEstablished
<1> QED BY <1>4, <1>5, <1>6, <1>7, <1>8 DEF IInv

-----------------------------------------------------------------------------
(* The steps that leave every connection alone.                            *)

\* The run loop goes on after the caller was told, or ends.
LEMMA LoopIInv ==
  ASSUME IInv,
         \/ LoopActive \/ LoopFlushed \/ AttemptsExhausted \/ BackoffCancelled
         \/ LoopDone
  PROVE  IInv'
<1>0. /\ UNCHANGED <<caller, contexts, fallback, watcher, conn, established>>
      /\ loop \in {"connected", "flush", "backoff", "select"}
      /\ state' \in {state, "ACTIVE"}
      /\ attempts' \in {attempts, 0}
      /\ isInitial' \in BOOLEAN
      /\ \/ loop = "connected" /\ loop' = "select"
         \/ loop = "flush" /\ loop' = "backoff"
         \/ loop = "backoff" /\ loop' \in {"sendFailed", "exited"}
         \/ loop = "backoff" /\ loop' \in {"sendNil", "exited"} /\ workerCancelled
         \/ loop = "select" /\ loop' = "exited" /\ workerCancelled
  BY DEF LoopActive, LoopFlushed, AttemptsExhausted, BackoffCancelled, LoopDone,
         Return, IInv, TypeOK
<1>1. Active' = Active
  BY <1>0 DEF Active
<1> USE DEF contexts
<1>2. /\ caller \notin {"initiate", "closed"} \/ (caller = "initiate" /\ loop = "select")
      /\ watcher = "waitLoop"
      /\ workerCancelled => caller # "initiate"
  BY <1>0 DEF IInv, TypeOK, TokenWithCaller, EndsInOrder, ShutdownByClose
<1>3. TypeOK'
  BY <1>0 DEF IInv, TypeOK, LoopStates, MaxAttempts
<1>4. (OneActive /\ Supervised /\ TokenWithCaller /\ TokenWithLoop)'
  BY <1>0, <1>1, <1>2
     DEF IInv, OneActive, Supervised, TokenWithCaller, TokenWithLoop
<1>5. NoStaleKey'
  BY <1>0, <1>1 DEF IInv, NoStaleKey
<1>6. CleanEndMeansShutdown'
  BY <1>0 DEF IInv, CleanEndMeansShutdown
<1>7. ShutdownByClose' /\ EndsInOrder'
  BY <1>0, <1>2 DEF IInv, ShutdownByClose, EndsInOrder
<1>8. (HandlingIsEstablished /\ ConnectOkMeansEstablished)'
  BY <1>0 DEF IInv, HandlingIsEstablished, ConnectOkMeansEstablished
<1> QED BY <1>3, <1>4, <1>5, <1>6, <1>7, <1>8 DEF IInv

\* The watcher moves on, or the start context is done.
LEMMA TimerIInv ==
  ASSUME IInv,
         RunLoopEnded \/ WatcherTimesOut \/ WatcherFlushed \/ StartCtxDone
  PROVE  IInv'
<1>0. /\ UNCHANGED <<caller, workerCancelled, loopVars, conn, established>>
      /\ startCancelled' \in BOOLEAN
      /\ watcher' \in {"waitLoop", "waitDone", "flush", "done"}
      /\ watcher' # "waitLoop" => loop = "exited"
      /\ watcher = "done" => watcher' = "done"
  BY DEF RunLoopEnded, WatcherTimesOut, WatcherFlushed, StartCtxDone, contexts, IInv, TypeOK,
         EndsInOrder
<1>1. Active' = Active
  BY <1>0 DEF Active
<1> USE DEF loopVars
<1>2. TypeOK'
  BY <1>0 DEF IInv, TypeOK
<1>3. (OneActive /\ Supervised /\ TokenWithCaller /\ TokenWithLoop)'
  BY <1>0, <1>1
     DEF IInv, OneActive, Supervised, TokenWithCaller, TokenWithLoop
<1>4. NoStaleKey'
  BY <1>0, <1>1 DEF IInv, NoStaleKey
<1>5. (CleanEndMeansShutdown /\ ShutdownByClose /\ EndsInOrder)'
  BY <1>0 DEF IInv, CleanEndMeansShutdown, ShutdownByClose, EndsInOrder
<1>6. (HandlingIsEstablished /\ ConnectOkMeansEstablished)'
  BY <1>0 DEF IInv, HandlingIsEstablished, ConnectOkMeansEstablished
<1> QED BY <1>2, <1>3, <1>4, <1>5, <1>6 DEF IInv

\* The caller hears of the first outcome, cancels, closes, or Close returns.
LEMMA CallerIInv ==
  ASSUME IInv, ConnectReturns \/ ConnectCancelled \/ Close \/ CloseReturns
  PROVE  IInv'
<1>0. /\ UNCHANGED <<isInitial, attempts, fallback, watcher, conn, established>>
      /\ startCancelled' \in BOOLEAN
      /\ \/ /\ caller = "wait" /\ UNCHANGED <<workerCancelled, state>>
            /\ \/ loop = "sendFailed" /\ caller' = "failed" /\ loop' = "exited"
               \/ loop = "sendNil" /\ caller' = "connected" /\ loop' = "exited"
               \/ /\ loop = "sendConnected" /\ caller' = "connected"
                  /\ loop' = "connected"
         \/ /\ caller = "wait" /\ caller' = "cancelled"
            /\ workerCancelled' = TRUE /\ UNCHANGED <<loop, state>>
         \/ /\ caller = "connected" /\ caller' = "closing"
            /\ workerCancelled' = TRUE /\ UNCHANGED <<loop, state>>
         \/ /\ \/ caller = "cancelled" /\ caller' = "failed"
               \/ caller = "closing" /\ caller' = "closed"
            /\ watcher = "done" /\ state' = "CLOSED"
            /\ UNCHANGED <<workerCancelled, loop>>
  BY DEF ConnectReturns, ConnectCancelled, Close, CloseReturns, contexts,
         loopVars, IInv, TypeOK
<1>1. Active' = Active
  BY <1>0 DEF Active
<1>2. TypeOK'
  <2>1. caller' \in CallerStates /\ loop' \in LoopStates
    BY <1>0 DEF IInv, TypeOK, CallerStates, LoopStates
  <2>2. /\ workerCancelled' \in BOOLEAN
        /\ state' \in {"CONNECTING", "ACTIVE", "RECONNECTING", "CLOSED"}
    BY <1>0 DEF IInv, TypeOK
  <2> QED BY <1>0, <2>1, <2>2 DEF IInv, TypeOK
<1>3. ShutdownByClose'
  BY <1>0 DEF IInv, ShutdownByClose
<1>4. (OneActive /\ Supervised /\ TokenWithCaller /\ TokenWithLoop)'
  BY <1>0, <1>1
     DEF IInv, OneActive, Supervised, TokenWithCaller, TokenWithLoop
<1>5. NoStaleKey'
  BY <1>0, <1>1 DEF IInv, NoStaleKey
<1>6. CleanEndMeansShutdown'
  BY <1>0 DEF IInv, CleanEndMeansShutdown
<1>7. EndsInOrder'
  BY <1>0 DEF IInv, EndsInOrder
<1>8. HandlingIsEstablished'
  BY <1>0 DEF IInv, HandlingIsEstablished
<1>9. ConnectOkMeansEstablished'
  BY <1>0 DEF IInv, ShutdownByClose, HandlingIsEstablished,
              ConnectOkMeansEstablished
<1> QED BY <1>2, <1>3, <1>4, <1>5, <1>6, <1>7, <1>8, <1>9 DEF IInv

-----------------------------------------------------------------------------

\* Every step of the worker keeps the invariant.
LEMMA NextIInv == IInv /\ [Next]_vars => IInv'
<1> SUFFICES ASSUME IInv, [Next]_vars PROVE IInv'
  OBVIOUS
<1>1. ASSUME NEW c \in Conns, connect(c) \/ ShutdownDone(c) \/ ReadFails(c)
      PROVE  IInv'
  BY <1>1, ConnectMoves, MovesIInv, GoroutineEndsIInv DEF connect
<1>2. ASSUME NEW c \in Conns, NEW d \in Conns, GatewayCloses(c, d)
      PROVE  IInv'
  BY <1>2, GatewayClosesIInv
<1>3. CASE runLoop \/ LoopDone \/ LoopFlushed
  BY <1>3, LoopIInv, LoopConnectedIInv, LoopReportIInv, LaunchIInv DEF runLoop
<1>4. CASE waitForRunLoop \/ WatcherFlushed \/ StartCtxDone
  BY <1>4, TimerIInv, GoroutineEndsIInv DEF waitForRunLoop
<1>5. CASE Connect \/ Close
  BY <1>5, CallerIInv, LaunchIInv DEF Connect
<1>6. CASE UNCHANGED vars
  BY <1>6 DEF vars, IInv, TypeOK, OneActive, Supervised, TokenWithCaller,
     TokenWithLoop, NoStaleKey, CleanEndMeansShutdown, ShutdownByClose,
     HandlingIsEstablished, ConnectOkMeansEstablished, EndsInOrder, Active
<1> QED BY <1>1, <1>2, <1>3, <1>4, <1>5, <1>6 DEF Next

\* The worker always satisfies the inductive invariant.
THEOREM Invariance == Spec => []IInv
BY InitIInv, NextIInv, PTL DEF Spec

\* The variables of the caller, the run loop, the watcher and the connect
\* goroutines keep their types; attempts never exceeds 5.
THEOREM TypeCorrect == Spec => []TypeOK
<1>1. IInv => TypeOK
  BY DEF IInv
<1> QED BY <1>1, Invariance, PTL

\* The run loop and gateway draining together never let two connections be
\* active at once.
THEOREM AtMostOneActive == Spec => []OneActive
<1>1. IInv => OneActive
  BY DEF IInv
<1> QED BY <1>1, Invariance, PTL

\* No active connection outlives the run loop except in a shutdown.
THEOREM AlwaysSupervised == Spec => []Supervised
<1>1. IInv => Supervised
  BY DEF IInv
<1> QED BY <1>1, Invariance, PTL

\* After the switch to the fallback key no active connection carries the
\* signing key that was rejected.
THEOREM KeyIsCurrent == Spec => []NoStaleKey
<1>1. IInv => NoStaleKey
  BY DEF IInv
<1> QED BY <1>1, Invariance, PTL

\* Connect succeeds only after a completed handshake, although a cancelled
\* backoff sends the same nil over initialConnectionDone.
THEOREM ConnectIsHonest == Spec => []ConnectOkMeansEstablished
<1>1. IInv => ConnectOkMeansEstablished
  BY DEF IInv
<1> QED BY <1>1, Invariance, PTL

\* When Close has returned, the state is CLOSED and the run loop is gone.
THEOREM CloseIsFinal == Spec => []ClosedIsFinal
<1>1. IInv => ClosedIsFinal
  BY DEF IInv, TypeOK, EndsInOrder, ClosedIsFinal
<1> QED BY <1>1, Invariance, PTL

=============================================================================
