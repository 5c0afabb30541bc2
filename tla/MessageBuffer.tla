--------------------------- MODULE MessageBuffer ---------------------------
(***************************************************************************)
(* The reply buffer of a connect worker (connect/buffer.go) together with  *)
(* its clients: the goroutine that answers one executor request            *)
(* (handleInvokeMessage), the read loop that receives WORKER_REPLY_ACK     *)
(* (handleMessageReplyAck) and the three places that flush the buffer      *)
(* through the HTTP API.                                                   *)
(*                                                                         *)
(* Every operation of the buffer runs under one mutex.  flush keeps it for *)
(* all of its API calls, so it is modelled step by step, and every other   *)
(* operation waits for the mutex.                                          *)
(*                                                                         *)
(* The gateway, the websocket and the API are external: a reply written to *)
(* the socket reaches Inngest or is silently lost, an API call may fail    *)
(* before or after the message was stored.                                 *)
(***************************************************************************)
EXTENDS Naturals

CONSTANTS
  Requests,     \* request ids
  Versions,     \* the replies that processing one request id may produce,
                \* one per time the gateway hands the request to the worker
  Flushers,     \* goroutines that may flush: run loop, connection, shutdown
  None,         \* "no entry" in the buffer's maps, nobody owns the mutex
  ZeroId        \* the request id of a zero-valued WorkerReplyAckData: ""

ASSUME NoneAssumption == None \notin Versions \cup Flushers
ASSUME ZeroIdAssumption == ZeroId \notin Requests

VARIABLES
  handler,      \* handler[r][v]: where the goroutine that produced reply v is
  buffered,     \* m.buffered, request id -> reply
  pendingAck,   \* m.pendingAck, request id -> reply
  watchers,     \* goroutines started by addPending, by captured reply
  flusher,      \* flusher[f]: where a goroutine that flushes is
  flush,        \* the flush in progress, which owns the mutex
  received,     \* replies that reached Inngest
  acks,         \* WORKER_REPLY_ACK messages on their way to the worker
  acked         \* requests whose ack the read loop has handled

vars == <<handler, buffered, pendingAck, watchers, flusher, flush, received,
          acks, acked>>

maps == <<buffered, pendingAck>>

MaxFlushAttempts == 5

Replies == Requests \X Versions
Unlocked == [by |-> None, attempt |-> 0, todo |-> {}]
Locked == [by : Flushers, attempt : 0 .. MaxFlushAttempts - 1,
           todo : SUBSET Requests]

HandlerStates == {"invoking", "writing", "failing", "done"}
FlusherStates == {"running", "locking", "flushing"}

TypeOK ==
  /\ handler \in [Requests -> [Versions -> HandlerStates]]
  /\ buffered \in [Requests -> Versions \cup {None}]
  /\ pendingAck \in [Requests -> Versions \cup {None}]
  /\ watchers \subseteq Replies
  /\ flusher \in [Flushers -> FlusherStates]
  /\ flush \in Locked \cup {Unlocked}
  /\ received \subseteq Replies
  /\ acks \subseteq Requests
  /\ acked \subseteq Requests

\* newMessageBuffer: both maps empty, mutex free.
Init ==
  /\ handler = [r \in Requests |-> [v \in Versions |-> "invoking"]]
  /\ buffered = [r \in Requests |-> None]
  /\ pendingAck = [r \in Requests |-> None]
  /\ watchers = {}
  /\ flusher = [f \in Flushers |-> "running"]
  /\ flush = Unlocked
  /\ received = {}
  /\ acks = {}
  /\ acked = {}

-----------------------------------------------------------------------------
(* The maps. *)

Keys(m) == {r \in Requests : m[r] # None}
Delete(m, id) == [r \in Requests |-> IF r = id THEN None ELSE m[r]]
LockFree == flush = Unlocked

hasMessages == Keys(buffered) # {}

\* Mutant: append forgets the pending entry before the reply is buffered.
AppendWithoutBuffering(r, v) ==
  /\ LockFree
  /\ pendingAck' = Delete(pendingAck, r)
  /\ UNCHANGED buffered

\* append: buffer the reply, and drop a pending entry for its id.
append(r, v) ==
  /\ LockFree
  /\ buffered' = [buffered EXCEPT ![r] = v]
  /\ pendingAck' = Delete(pendingAck, r)

\* Mutant: addPending starts no goroutine.
AddPendingUnwatched(r, v) ==
  /\ LockFree
  /\ pendingAck' = [pendingAck EXCEPT ![r] = v]
  /\ UNCHANGED <<buffered, watchers>>

\* addPending: remember the reply and start the goroutine that watches it.
addPending(r, v) ==
  /\ LockFree
  /\ pendingAck' = [pendingAck EXCEPT ![r] = v]
  /\ watchers' = watchers \cup {<<r, v>>}
  /\ UNCHANGED buffered

\* acknowledge: forget a pending reply.
acknowledge(id) ==
  /\ LockFree
  /\ pendingAck' = Delete(pendingAck, id)
  /\ UNCHANGED buffered

-----------------------------------------------------------------------------
(* The goroutine that answers a request: handleInvokeMessage after the     *)
(* function returned.  Its context is context.Background(), so it is never *)
(* cancelled.                                                              *)

RegisterReply(r, v) ==
  /\ handler[r][v] = "invoking"
  /\ addPending(r, v)
  /\ handler' = [handler EXCEPT ![r][v] = "writing"]
  /\ UNCHANGED <<flusher, flush, received, acks, acked>>

\* The write succeeds and the gateway takes the reply; it will be acked.
WriteReply(r, v) ==
  /\ handler[r][v] = "writing"
  /\ handler' = [handler EXCEPT ![r][v] = "done"]
  /\ received' = received \cup {<<r, v>>}
  /\ acks' = acks \cup {r}
  /\ UNCHANGED <<maps, watchers, flusher, flush, acked>>

\* The write succeeds locally, but the reply never reaches the executor.
WriteReplyLost(r, v) ==
  /\ handler[r][v] = "writing"
  /\ handler' = [handler EXCEPT ![r][v] = "done"]
  /\ UNCHANGED <<maps, watchers, flusher, flush, received, acks, acked>>

WriteReplyFails(r, v) ==
  /\ handler[r][v] = "writing"
  /\ handler' = [handler EXCEPT ![r][v] = "failing"]
  /\ UNCHANGED <<maps, watchers, flusher, flush, received, acks, acked>>

BufferFailedReply(r, v) ==
  /\ handler[r][v] = "failing"
  /\ append(r, v)
  /\ handler' = [handler EXCEPT ![r][v] = "done"]
  /\ UNCHANGED <<watchers, flusher, flush, received, acks, acked>>

-----------------------------------------------------------------------------
(* The goroutine started by addPending.  The "break" of its select leaves  *)
(* the select, not the loop: the goroutine wakes up every 5 seconds, for   *)
(* ever, and each time looks for an entry of its request id.               *)

\* Mutant: the watcher does not take the mutex.
WatcherFiresUnlocked(r, v) ==
  /\ <<r, v>> \in watchers
  /\ pendingAck[r] # None
  /\ buffered' = [buffered EXCEPT ![r] = v]
  /\ pendingAck' = Delete(pendingAck, r)
  /\ UNCHANGED <<handler, watchers, flusher, flush, received, acks, acked>>

WatcherFires(r, v) ==
  /\ <<r, v>> \in watchers
  /\ LockFree
  /\ pendingAck[r] # None
  /\ buffered' = [buffered EXCEPT ![r] = v]
  /\ pendingAck' = Delete(pendingAck, r)
  /\ UNCHANGED <<handler, watchers, flusher, flush, received, acks, acked>>

-----------------------------------------------------------------------------
(* The read loop handles an ack.  handleMessageReplyAck unmarshals the     *)
(* payload into the message it came in, not into the WorkerReplyAckData    *)
(* whose request id it then acknowledges: that id is always "".            *)

ackRequestId(r) == ZeroId

handleMessageReplyAck(r) ==
  /\ r \in acks
  /\ acknowledge(ackRequestId(r))
  /\ acks' = acks \ {r}
  /\ acked' = acked \cup {r}
  /\ UNCHANGED <<handler, watchers, flusher, flush, received>>

\* The connection breaks before the ack is read.
LoseAck(r) ==
  /\ r \in acks
  /\ acks' = acks \ {r}
  /\ UNCHANGED <<handler, maps, watchers, flusher, flush, received, acked>>

-----------------------------------------------------------------------------
(* flush.  The callers test hasMessages first, under a lock of its own.    *)

WantFlush(f) ==
  /\ flusher[f] = "running"
  /\ LockFree
  /\ hasMessages
  /\ flusher' = [flusher EXCEPT ![f] = "locking"]
  /\ UNCHANGED <<handler, maps, watchers, flush, received, acks, acked>>

FlushBegin(f) ==
  /\ flusher[f] = "locking"
  /\ LockFree
  /\ flusher' = [flusher EXCEPT ![f] = "flushing"]
  /\ flush' = [by |-> f, attempt |-> 0, todo |-> Keys(buffered)]
  /\ UNCHANGED <<handler, maps, watchers, received, acks, acked>>

\* One message is stored by the API and leaves the buffer.
FlushSend(f, r) ==
  /\ flush.by = f
  /\ r \in flush.todo
  /\ received' = received \cup {<<r, buffered[r]>>}
  /\ buffered' = Delete(buffered, r)
  /\ flush' = [flush EXCEPT !.todo = @ \ {r}]
  /\ UNCHANGED <<handler, pendingAck, watchers, flusher, acks, acked>>

\* Mutant: flush tries once more than it should.
FlushSendFailsOnceMore(f, r) ==
  /\ flush.by = f
  /\ r \in flush.todo
  /\ \/ /\ flush.attempt < MaxFlushAttempts
        /\ flush' = [flush EXCEPT !.attempt = @ + 1, !.todo = Keys(buffered)]
        /\ UNCHANGED flusher
     \/ /\ flush.attempt = MaxFlushAttempts
        /\ flush' = Unlocked
        /\ flusher' = [flusher EXCEPT ![f] = "running"]
  /\ UNCHANGED <<handler, maps, watchers, received, acks, acked>>

\* Mutant: flush deletes the message although the API call failed.
FlushSendFailsAndDrops(f, r) ==
  /\ flush.by = f
  /\ r \in flush.todo
  /\ buffered' = Delete(buffered, r)
  /\ flush' = [flush EXCEPT !.todo = @ \ {r}]
  /\ UNCHANGED <<handler, pendingAck, watchers, flusher, received, acks, acked>>

\* One message fails, which ends this attempt; its message stays in the
\* buffer, although the API may have stored it.  After the last attempt
\* flush gives up.
FlushSendFails(f, r) ==
  /\ flush.by = f
  /\ r \in flush.todo
  /\ \/ UNCHANGED received
     \/ received' = received \cup {<<r, buffered[r]>>}
  /\ \/ /\ flush.attempt + 1 < MaxFlushAttempts
        /\ flush' = [flush EXCEPT !.attempt = @ + 1, !.todo = Keys(buffered)]
        /\ UNCHANGED flusher
     \/ /\ flush.attempt + 1 = MaxFlushAttempts
        /\ flush' = Unlocked
        /\ flusher' = [flusher EXCEPT ![f] = "running"]
  /\ UNCHANGED <<handler, maps, watchers, acks, acked>>

\* The buffer is empty.
FlushEnd(f) ==
  /\ flush.by = f
  /\ flush.todo = {}
  /\ flush' = Unlocked
  /\ flusher' = [flusher EXCEPT ![f] = "running"]
  /\ UNCHANGED <<handler, maps, watchers, received, acks, acked>>

-----------------------------------------------------------------------------

Reply(r, v) ==
  \/ RegisterReply(r, v)
  \/ WriteReply(r, v)
  \/ WriteReplyLost(r, v)
  \/ WriteReplyFails(r, v)
  \/ BufferFailedReply(r, v)

Flush(f) ==
  \/ FlushBegin(f)
  \/ FlushEnd(f)
  \/ \E r \in Requests : FlushSend(f, r) \/ FlushSendFails(f, r)

Next ==
  \/ \E r \in Requests, v \in Versions : Reply(r, v) \/ WatcherFires(r, v)
  \/ \E r \in Requests : handleMessageReplyAck(r) \/ LoseAck(r)
  \/ \E f \in Flushers : WantFlush(f) \/ Flush(f)

Spec == Init /\ [][Next]_vars

\* A goroutine that can run does run, and the API answers.  sync.Mutex hands
\* itself to a waiter that starves, so waiting for it is strongly fair.
Fairness ==
  /\ \A r \in Requests, v \in Versions :
       /\ SF_vars(Reply(r, v))
       /\ SF_vars(WatcherFires(r, v))
  /\ \A f \in Flushers : SF_vars(Flush(f))

FairSpec == Spec /\ Fairness

-----------------------------------------------------------------------------

Answered(r) == \E v \in Versions : handler[r][v] # "invoking"
Arrived(r) == \E v \in Versions : <<r, v>> \in received
Held(r) == buffered[r] # None \/ pendingAck[r] # None

Accepted == {r \in Requests : Answered(r)}
Remembered == {r \in Requests : Held(r)}
Delivered == {r \in Requests : Arrived(r)}

\* A request that was answered is never forgotten before its reply reached
\* Inngest: whatever the interleaving of the reply goroutine, the watcher,
\* acks and failing flushes, its reply is pending, buffered or received.
NoReplyLost == \A r \in Requests : Answered(r) => Held(r) \/ Arrived(r)

\* While flush runs, what it still has to send is exactly what is buffered:
\* nothing is added or removed behind its back, so when it returns without an
\* error the buffer is empty (flush keeps the mutex during its API calls).
FlushIsExact == flush # Unlocked => flush.todo = Keys(buffered)

\* The reply buffer promises at-least-once delivery.
ALO == INSTANCE AtLeastOnce WITH
         accepted <- Accepted,
         held <- Remembered,
         delivered <- Delivered

AtLeastOnceSpec == ALO!Spec

\* A pending reply does not stay pending: its ack, its watcher or its failed
\* write takes it out of pendingAck.
PendingResolves ==
  \A r \in Requests : pendingAck[r] # None ~> pendingAck[r] = None

\* buffer.go: "If message is still in outgoing messages, it wasn't
\* acknowledged. Add to buffer."  An acknowledged reply is never moved into
\* the buffer, to be sent a second time.
AckedIsNotBuffered ==
  [][\A r \in acked : buffered[r] = None => buffered'[r] = None]_vars

=============================================================================
