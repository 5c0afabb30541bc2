----------------------------- MODULE Heartbeat -----------------------------
(***************************************************************************)
(* The heartbeats of one connection (connect/connection.go): a goroutine   *)
(* that sends WORKER_HEARTBEAT, a goroutine that checks when the last      *)
(* GATEWAY_HEARTBEAT was read and cancels the read loop when it is too     *)
(* long ago, and the read loop that records it.                            *)
(*                                                                         *)
(* Time passes in steps of Tick.  The two tickers have the same phase, so  *)
(* both fire at the same instants and their goroutines then run in either  *)
(* order; a goroutine that may run does so before time passes.  A gateway  *)
(* heartbeat is read at most MaxLag after the worker's heartbeat that it   *)
(* answers: the latency of the network and the time for which the read     *)
(* loop is blocked in workerPool.Add.                                      *)
(*                                                                         *)
(* lastGatewayHeartbeatReceived is written and read without a lock.  It is *)
(* a time.Time of several words, but each mixture of an old and a new one  *)
(* compares like the old or like the new one, so the read is atomic here.  *)
(***************************************************************************)
EXTENDS Integers

CONSTANTS
  Interval,   \* WorkerHeartbeatInterval, in units of time
  MaxLag,     \* bound on the time from a heartbeat to its answer being read
  Horizon     \* bound on time

ASSUME IntervalAssumption == Interval \in Nat \ {0}
ASSUME LagAssumption == MaxLag \in Nat /\ MaxLag < Interval
ASSUME HorizonAssumption == Horizon \in Nat

VARIABLES
  now,        \* time since the connection began to be read
  nextTick,   \* when the tickers fire next
  due,        \* tickers that have fired and whose goroutine has not run yet
  checker,    \* the checking goroutine: "wait", "ticking" or "gone"
  sender,     \* the sending goroutine: "ticking" or "gone"
  last,       \* lastGatewayHeartbeatReceived, Never if it was never assigned
  answers,    \* when the worker heartbeats were sent whose answer is not read
  gateway,    \* does the gateway, with the link to it, still answer?
  missed,     \* cancelReaderLifetimeContext was called
  ended       \* the read loop ended and handleConnection returned

vars == <<now, nextTick, due, checker, sender, last, answers, gateway, missed,
          ended>>

\* The zero time.Time is before every deadline.
Never == -1

gracePeriod == 2 * Interval

TypeOK ==
  /\ now \in Nat
  /\ nextTick \in Nat
  /\ due \subseteq {"send", "check"}
  /\ checker \in {"wait", "ticking", "gone"}
  /\ sender \in {"ticking", "gone"}
  /\ last \in Nat \cup {Never}
  /\ answers \subseteq Nat
  /\ gateway \in {"up", "down"}
  /\ missed \in BOOLEAN
  /\ ended \in BOOLEAN

Init ==
  /\ now = 0
  /\ nextTick = Interval
  /\ due = {}
  /\ checker = "wait"
  /\ sender = "ticking"
  /\ last = Never
  /\ answers = {}
  /\ gateway = "up"
  /\ missed = FALSE
  /\ ended = FALSE

-----------------------------------------------------------------------------
\* An answer that must have been read by now.
Overdue == \E t \in answers : now >= t + MaxLag

\* What fires when the tickers do.  For the checker the first time is the end
\* of its wait for the initial heartbeat, which starts its ticker.
Fires == (IF sender = "ticking" THEN {"send"} ELSE {})
         \cup (IF checker # "gone" THEN {"check"} ELSE {})

Tick ==
  /\ now < Horizon
  /\ due = {}
  /\ ~Overdue
  /\ now' = now + 1
  /\ IF now + 1 = nextTick
     THEN due' = Fires /\ nextTick' = nextTick + Interval
     ELSE UNCHANGED <<due, nextTick>>
  /\ UNCHANGED <<checker, sender, last, answers, gateway, missed, ended>>

-----------------------------------------------------------------------------
\* The heartbeat is written to the socket and a gateway that is up answers; an
\* error of the write is only logged.
SendHeartbeat ==
  /\ "send" \in due
  /\ ~ended
  /\ due' = due \ {"send"}
  /\ answers' = IF gateway = "up" THEN answers \cup {now} ELSE answers
  /\ UNCHANGED <<now, nextTick, checker, sender, last, gateway, missed, ended>>

\* <-ctx.Done(); a heartbeat that the select prefers to it is written to a
\* closed socket, which changes nothing.
SenderStops ==
  /\ sender = "ticking"
  /\ ended
  /\ sender' = "gone"
  /\ due' = due \ {"send"}
  /\ UNCHANGED <<now, nextTick, checker, last, answers, gateway, missed, ended>>

\* <-time.After(WorkerHeartbeatInterval), which does not look at the context.
CheckerStarts ==
  /\ checker = "wait"
  /\ "check" \in due
  /\ checker' = "ticking"
  /\ due' = due \ {"check"}
  /\ UNCHANGED <<now, nextTick, sender, last, answers, gateway, missed, ended>>

\* Mutant: a connection without any heartbeat yet is given more time.
LastIsStaleLate == last # Never /\ last < now - gracePeriod

\* lastGatewayHeartbeatReceived.Before(time.Now().Add(-gracePeriod))
LastIsStale == last = Never \/ last < now - gracePeriod

\* Mutant: the checker does not wait for the initial heartbeat.
CheckAtOnce ==
  /\ checker # "gone"
  /\ "check" \in due
  /\ ~ended
  /\ missed' = (missed \/ LastIsStale)
  /\ due' = due \ {"check"}
  /\ UNCHANGED <<now, nextTick, checker, sender, last, answers, gateway, ended>>

Check ==
  /\ checker = "ticking"
  /\ "check" \in due
  /\ ~ended
  /\ missed' = (missed \/ LastIsStale)
  /\ due' = due \ {"check"}
  /\ UNCHANGED <<now, nextTick, checker, sender, last, answers, gateway, ended>>

\* Mutant: the goroutine ends with the read loop's context, not handleConnection's.
CheckerStopsIfMissed ==
  /\ checker = "ticking"
  /\ missed
  /\ ended
  /\ checker' = "gone"
  /\ due' = due \ {"check"}
  /\ UNCHANGED <<now, nextTick, sender, last, answers, gateway, missed, ended>>

CheckerStops ==
  /\ checker = "ticking"
  /\ ended
  /\ checker' = "gone"
  /\ due' = due \ {"check"}
  /\ UNCHANGED <<now, nextTick, sender, last, answers, gateway, missed, ended>>

-----------------------------------------------------------------------------
\* Mutant: the deadline is recorded instead of the time.
ReadHeartbeatDeadline ==
  /\ ~ended
  /\ \E t \in answers : answers' = answers \ {t}
  /\ last' = now - gracePeriod
  /\ UNCHANGED <<now, nextTick, due, checker, sender, gateway, missed, ended>>

\* GATEWAY_HEARTBEAT.
ReadHeartbeat ==
  /\ ~ended
  /\ \E t \in answers : answers' = answers \ {t}
  /\ last' = now
  /\ UNCHANGED <<now, nextTick, due, checker, sender, gateway, missed, ended>>

\* The gateway, or the link to it, dies without a word: no answer that was not
\* read yet arrives, no later heartbeat is answered, and no Read fails.
GatewayDies ==
  /\ gateway = "up"
  /\ gateway' = "down"
  /\ answers' = {}
  /\ UNCHANGED <<now, nextTick, due, checker, sender, last, missed, ended>>

\* The read loop ends, because it was cancelled or for any other reason, and
\* handleConnection returns: its deferred cancel ends the context.  (Between
\* the two a draining connection waits for its successor, and nothing it does
\* then depends on heartbeats.)
End ==
  /\ ~ended
  /\ ended' = TRUE
  /\ answers' = {}
  /\ UNCHANGED <<now, nextTick, due, checker, sender, last, gateway, missed>>

Next ==
  \/ Tick
  \/ SendHeartbeat \/ SenderStops
  \/ CheckerStarts \/ Check \/ CheckerStops
  \/ ReadHeartbeat \/ GatewayDies \/ End

(* Fairness: time passes, goroutines that can run do run, and a read that  *)
(* was cancelled ends.                                                     *)
Fairness ==
  /\ WF_vars(Tick)
  /\ WF_vars(SendHeartbeat) /\ WF_vars(SenderStops)
  /\ WF_vars(CheckerStarts) /\ WF_vars(Check) /\ WF_vars(CheckerStops)
  /\ WF_vars(ReadHeartbeat)
  /\ WF_vars(missed /\ End)

Spec == Init /\ [][Next]_vars /\ Fairness

-----------------------------------------------------------------------------
(* Properties.                                                             *)

\* A gateway that answers within MaxLag is never taken for dead: neither before
\* its first answer nor between two answers that jitter, in whatever order the
\* two tickers and the read loop run (connection.go, gracePeriod and the wait
\* for the initial heartbeat).
HealthyIsKept == gateway = "up" => ~missed

\* Silence is noticed in time: at the latest two intervals after the connection
\* began, or three after the last heartbeat that was read.
SilenceIsNoticed ==
  ~missed /\ ~ended =>
    now <= (IF last = Never THEN gracePeriod ELSE last + 3 * Interval)

\* A gateway that died without closing the socket, so that Read never fails, is
\* noticed, and the connection ends.
DeadGatewayEnds == (gateway = "down" /\ now + 4 * Interval < Horizon) ~> ended

\* The goroutines of a connection do not outlive it by more than the checker's
\* initial wait, which does not look at the context.
GoroutinesEnd ==
  ended /\ now + Interval < Horizon ~> sender = "gone" /\ checker = "gone"
=============================================================================
