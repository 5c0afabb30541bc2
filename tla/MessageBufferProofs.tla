------------------------ MODULE MessageBufferProofs ------------------------
(***************************************************************************)
(* Proofs about MessageBuffer for every set of requests, replies and       *)
(* flushing goroutines.  TypeOK needs FlushIsExact: what FlushSend adds to *)
(* received is a reply only because flush.todo names buffered requests.    *)
(* That every step is a step of AtLeastOnce needs two facts more: what the *)
(* worker holds was answered, and what is acked has arrived.               *)
(* NoReplyLost is then a consequence of the abstract specification.        *)
(*                                                                         *)
(* The argument does not depend on handleMessageReplyAck reading the wrong *)
(* request id: it only uses AckId, which also holds of the right id.       *)
(***************************************************************************)
EXTENDS MessageBuffer, TLAPS

HeldIsAnswered == Remembered \subseteq Accepted
AckedHasArrived == acks \subseteq Delivered

IInv ==
  /\ TypeOK
  /\ FlushIsExact
  /\ HeldIsAnswered
  /\ AckedHasArrived

\* Deleting an entry of a map gives a map, without that entry.
LEMMA DeleteType ==
  ASSUME NEW m \in [Requests -> Versions \cup {None}], NEW id
  PROVE  /\ Delete(m, id) \in [Requests -> Versions \cup {None}]
         /\ Keys(Delete(m, id)) = Keys(m) \ {id}
         /\ \A r \in Requests : r # id => Delete(m, id)[r] = m[r]
         /\ id \in Requests => Delete(m, id)[id] = None
BY DEF Delete, Keys

\* Putting a reply into a map gives a map, with that entry.
LEMMA PutType ==
  ASSUME NEW m \in [Requests -> Versions \cup {None}],
         NEW id \in Requests, NEW v \in Versions
  PROVE  /\ [m EXCEPT ![id] = v] \in [Requests -> Versions \cup {None}]
         /\ [m EXCEPT ![id] = v][id] = v
         /\ v # None
         /\ \A r \in Requests : r # id => [m EXCEPT ![id] = v][r] = m[r]
BY NoneAssumption

\* The mutex is free, or a flush owns it and has fewer than 5 failed attempts.
LEMMA FlushCases ==
  ASSUME TypeOK, flush # Unlocked
  PROVE  /\ flush \in Locked
         /\ flush = [by |-> flush.by, attempt |-> flush.attempt,
                     todo |-> flush.todo]
         /\ flush.by \in Flushers
         /\ flush.attempt \in 0 .. MaxFlushAttempts - 1
         /\ flush.todo \subseteq Requests
BY DEF TypeOK, Locked

\* A flusher that owns the mutex: the mutex is not free.
LEMMA OwnerLocks ==
  ASSUME NEW f \in Flushers, flush.by = f
  PROVE  flush # Unlocked
BY NoneAssumption DEF Unlocked

-----------------------------------------------------------------------------

\* newMessageBuffer and the code around it start in the invariant.
LEMMA InitIInv == Init => IInv
BY DEF Init, IInv, TypeOK, FlushIsExact, HeldIsAnswered, AckedHasArrived,
       Remembered, Held, HandlerStates, FlusherStates, Unlocked

\* Every step keeps the variables in their types, given that flush.todo names
\* only buffered requests.
LEMMA NextTypeOK == TypeOK /\ FlushIsExact /\ [Next]_vars => TypeOK'
<1> SUFFICES ASSUME TypeOK, FlushIsExact, [Next]_vars PROVE TypeOK'
  OBVIOUS
<1> USE DEF TypeOK, HandlerStates, FlusherStates, Replies
<1>1. ASSUME NEW r \in Requests, NEW v \in Versions, RegisterReply(r, v)
      PROVE  TypeOK'
  BY <1>1, PutType DEF RegisterReply, addPending
<1>2. ASSUME NEW r \in Requests, NEW v \in Versions, WriteReply(r, v)
      PROVE  TypeOK'
  BY <1>2 DEF WriteReply, maps
<1>3. ASSUME NEW r \in Requests, NEW v \in Versions, WriteReplyLost(r, v)
      PROVE  TypeOK'
  BY <1>3 DEF WriteReplyLost, maps
<1>4. ASSUME NEW r \in Requests, NEW v \in Versions, WriteReplyFails(r, v)
      PROVE  TypeOK'
  BY <1>4 DEF WriteReplyFails, maps
<1>5. ASSUME NEW r \in Requests, NEW v \in Versions, BufferFailedReply(r, v)
      PROVE  TypeOK'
  BY <1>5, PutType, DeleteType DEF BufferFailedReply, append
<1>6. ASSUME NEW r \in Requests, NEW v \in Versions, WatcherFires(r, v)
      PROVE  TypeOK'
  BY <1>6, PutType, DeleteType DEF WatcherFires
<1>7. ASSUME NEW r \in Requests, handleMessageReplyAck(r)
      PROVE  TypeOK'
  BY <1>7, DeleteType DEF handleMessageReplyAck, acknowledge
<1>8. ASSUME NEW r \in Requests, LoseAck(r)
      PROVE  TypeOK'
  BY <1>8 DEF LoseAck, maps
<1>9. ASSUME NEW f \in Flushers, WantFlush(f)
      PROVE  TypeOK'
  BY <1>9 DEF WantFlush, maps
<1>10. ASSUME NEW f \in Flushers, FlushBegin(f)
       PROVE  TypeOK'
  <2>1. flush' \in Locked
    BY <1>10 DEF FlushBegin, Locked, Keys, MaxFlushAttempts
  <2> QED BY <1>10, <2>1 DEF FlushBegin, maps
<1>11. ASSUME NEW f \in Flushers, FlushEnd(f)
       PROVE  TypeOK'
  BY <1>11 DEF FlushEnd, maps
<1>12. ASSUME NEW f \in Flushers, NEW r \in Requests, FlushSend(f, r)
       PROVE  TypeOK'
  <2>1. flush # Unlocked
    BY <1>12, OwnerLocks DEF FlushSend
  <2>2. buffered[r] \in Versions
    BY <1>12, <2>1 DEF FlushSend, FlushIsExact, Keys
  <2>3. flush' \in Locked
    BY <1>12, <2>1, FlushCases DEF FlushSend, Locked
  <2>4. buffered' \in [Requests -> Versions \cup {None}]
    BY <1>12, DeleteType DEF FlushSend
  <2>5. received' \subseteq Replies
    BY <1>12, <2>2 DEF FlushSend
  <2> QED BY <1>12, <2>3, <2>4, <2>5 DEF FlushSend
<1>13. ASSUME NEW f \in Flushers, NEW r \in Requests, FlushSendFails(f, r)
       PROVE  TypeOK'
  <2>1. flush # Unlocked
    BY <1>13, OwnerLocks DEF FlushSendFails
  <2>2. buffered[r] \in Versions
    BY <1>13, <2>1 DEF FlushSendFails, FlushIsExact, Keys
  <2>3. received' \subseteq Replies
    BY <1>13, <2>2 DEF FlushSendFails
  <2>4. flush' \in Locked \cup {Unlocked}
    <3>1. CASE flush.attempt + 1 < MaxFlushAttempts
      <4>1. flush' = [flush EXCEPT !.attempt = @ + 1, !.todo = Keys(buffered)]
        BY <1>13, <3>1 DEF FlushSendFails, MaxFlushAttempts
      <4>2. /\ flush \in Locked
            /\ flush.attempt + 1 \in 0 .. MaxFlushAttempts - 1
            /\ Keys(buffered) \subseteq Requests
        BY <2>1, <3>1, FlushCases DEF Keys, MaxFlushAttempts
      <4> QED BY <4>1, <4>2 DEF Locked
    <3>2. CASE ~(flush.attempt + 1 < MaxFlushAttempts)
      BY <1>13, <3>2 DEF FlushSendFails
    <3> QED BY <3>1, <3>2
  <2>5. flusher' \in [Flushers -> FlusherStates]
    BY <1>13 DEF FlushSendFails
  <2> QED BY <1>13, <2>3, <2>4, <2>5 DEF FlushSendFails, maps
<1>14. CASE UNCHANGED vars
  BY <1>14 DEF vars
<1> QED
  BY <1>1, <1>2, <1>3, <1>4, <1>5, <1>6, <1>7, <1>8, <1>9, <1>10, <1>11,
     <1>12, <1>13, <1>14 DEF Next, Reply, Flush

\* While the mutex is taken only its owner changes the buffer, so that what a
\* flush has left to send stays equal to what is buffered.
LEMMA NextFlushIsExact ==
  TypeOK /\ FlushIsExact /\ [Next]_vars => FlushIsExact'
<1> SUFFICES ASSUME TypeOK, FlushIsExact, [Next]_vars, flush' # Unlocked
             PROVE  flush'.todo = Keys(buffered')
  BY DEF FlushIsExact, Keys
<1> USE DEF FlushIsExact
<1>1. ASSUME NEW r \in Requests, NEW v \in Versions,
             Reply(r, v) \/ WatcherFires(r, v)
      PROVE  flush'.todo = Keys(buffered')
  BY <1>1 DEF Reply, RegisterReply, addPending, WriteReply, WriteReplyLost,
              WriteReplyFails, BufferFailedReply, append, WatcherFires,
              LockFree, maps, Keys
<1>2. ASSUME NEW r \in Requests, handleMessageReplyAck(r) \/ LoseAck(r)
      PROVE  flush'.todo = Keys(buffered')
  BY <1>2 DEF handleMessageReplyAck, acknowledge, LoseAck, LockFree, maps, Keys
<1>3. ASSUME NEW f \in Flushers, WantFlush(f) \/ FlushBegin(f) \/ FlushEnd(f)
      PROVE  flush'.todo = Keys(buffered')
  BY <1>3 DEF WantFlush, FlushBegin, FlushEnd, maps, Keys
<1>4. ASSUME NEW f \in Flushers, NEW r \in Requests, FlushSend(f, r)
      PROVE  flush'.todo = Keys(buffered')
  <2>1. flush # Unlocked
    BY <1>4, OwnerLocks DEF FlushSend
  <2>2. flush'.todo = flush.todo \ {r}
    BY <1>4, <2>1, FlushCases DEF FlushSend, Locked
  <2>3. Keys(buffered') = Keys(buffered) \ {r}
    BY <1>4, DeleteType DEF FlushSend, TypeOK
  <2> QED BY <2>1, <2>2, <2>3
<1>5. ASSUME NEW f \in Flushers, NEW r \in Requests, FlushSendFails(f, r)
      PROVE  flush'.todo = Keys(buffered')
  <2>1. flush # Unlocked /\ flush \in Locked
    BY <1>5, OwnerLocks, FlushCases DEF FlushSendFails
  <2>2. flush' = [flush EXCEPT !.attempt = @ + 1, !.todo = Keys(buffered)]
    BY <1>5 DEF FlushSendFails
  <2>3. flush'.todo = Keys(buffered)
    BY <2>1, <2>2 DEF Locked
  <2> QED BY <1>5, <2>3 DEF FlushSendFails, maps, Keys
<1>6. CASE UNCHANGED vars
  BY <1>6 DEF vars, Keys
<1> QED
  BY <1>1, <1>2, <1>3, <1>4, <1>5, <1>6 DEF Next, Flush

-----------------------------------------------------------------------------
(* What the steps do to the sets of answered, held and delivered requests. *)

\* The request id that is acknowledged is the acked one or none.
LEMMA AckId == \A r \in Requests : ackRequestId(r) \in {r, ZeroId}
BY DEF ackRequestId

\* The sets of AtLeastOnce after a step of MessageBuffer, action by action.
\* D is what the step delivers, F what it forgets, A what it accepts.
SetsStep(A, F, D) ==
  /\ Accepted' = Accepted \cup A
  /\ Remembered' = (Remembered \cup A) \ F
  /\ Delivered' = Delivered \cup D

\* A registered reply is accepted and remembered.
LEMMA RegisterSets ==
  ASSUME TypeOK, NEW r \in Requests, NEW v \in Versions, RegisterReply(r, v)
  PROVE  SetsStep({r}, {}, {})
<1> USE DEF RegisterReply, addPending
<1>1. Accepted' = Accepted \cup {r}
  BY DEF TypeOK, Accepted, Answered
<1>2. Remembered' = Remembered \cup {r}
  BY PutType DEF TypeOK, Remembered, Held
<1>3. Delivered' = Delivered
  BY DEF Delivered, Arrived
<1> QED BY <1>1, <1>2, <1>3 DEF SetsStep

\* A written reply was accepted, and is delivered unless the write is lost.
LEMMA WriteSets ==
  ASSUME TypeOK, NEW r \in Requests, NEW v \in Versions
  PROVE  /\ WriteReply(r, v) => r \in Accepted /\ SetsStep({}, {}, {r})
         /\ WriteReplyLost(r, v) \/ WriteReplyFails(r, v)
            => SetsStep({}, {}, {})
<1>1. ASSUME handler[r][v] = "writing",
             handler' \in {[handler EXCEPT ![r][v] = "done"],
                           [handler EXCEPT ![r][v] = "failing"]}
      PROVE  r \in Accepted /\ Accepted' = Accepted
  BY <1>1 DEF TypeOK, Accepted, Answered
<1>2. ASSUME UNCHANGED maps
      PROVE  Remembered' = Remembered
  BY <1>2 DEF maps, Remembered, Held
<1>3. WriteReply(r, v) => Delivered' = Delivered \cup {r}
  BY DEF WriteReply, Delivered, Arrived
<1>4. UNCHANGED received => Delivered' = Delivered
  BY DEF Delivered, Arrived
<1> QED
  BY <1>1, <1>2, <1>3, <1>4
     DEF WriteReply, WriteReplyLost, WriteReplyFails, SetsStep

\* A reply whose write failed is remembered in the buffer.
LEMMA BufferSets ==
  ASSUME TypeOK, NEW r \in Requests, NEW v \in Versions, BufferFailedReply(r, v)
  PROVE  SetsStep({r}, {}, {})
<1> USE DEF BufferFailedReply, append
<1>1. Accepted' = Accepted \cup {r}
  BY DEF TypeOK, Accepted, Answered
<1>2. Remembered' = Remembered \cup {r}
  <2>1. /\ \A q \in Requests : q # r => /\ buffered'[q] = buffered[q]
                                       /\ pendingAck'[q] = pendingAck[q]
        /\ buffered'[r] # None
    BY NoneAssumption DEF TypeOK, Delete
  <2> QED BY <2>1 DEF Remembered, Held
<1>3. Delivered' = Delivered
  BY DEF Delivered, Arrived
<1> QED BY <1>1, <1>2, <1>3 DEF SetsStep

\* A watcher moves a reply from one map to the other.
LEMMA WatcherSets ==
  ASSUME TypeOK, NEW r \in Requests, NEW v \in Versions, WatcherFires(r, v)
  PROVE  SetsStep({}, {}, {})
<1> USE DEF WatcherFires
<1>1. Accepted' = Accepted
  BY DEF Accepted, Answered
<1>2. Remembered' = Remembered
  BY PutType, DeleteType DEF TypeOK, Remembered, Held
<1>3. Delivered' = Delivered
  BY DEF Delivered, Arrived
<1> QED BY <1>1, <1>2, <1>3 DEF SetsStep

\* An ack forgets the acked reply or nothing.
LEMMA AckSets ==
  ASSUME TypeOK, NEW r \in Requests, handleMessageReplyAck(r)
  PROVE  \/ SetsStep({}, {}, {})
         \/ SetsStep({}, {r}, {})
<1> USE DEF handleMessageReplyAck, acknowledge
<1>1. Accepted' = Accepted
  BY DEF Accepted, Answered
<1>2. Remembered' \in {Remembered, Remembered \ {r}}
  <2>1. CASE ackRequestId(r) = r
    <3>1. /\ \A q \in Requests : q # r => pendingAck'[q] = pendingAck[q]
          /\ pendingAck'[r] = None
          /\ buffered' = buffered
      BY <2>1, DeleteType DEF TypeOK
    <3>2. CASE buffered[r] = None
      BY <3>1, <3>2 DEF Remembered, Held
    <3>3. CASE buffered[r] # None
      BY <3>1, <3>3 DEF Remembered, Held
    <3> QED BY <3>2, <3>3
  <2>2. CASE ackRequestId(r) = ZeroId
    <3>1. \A q \in Requests : /\ pendingAck'[q] = pendingAck[q]
                              /\ buffered'[q] = buffered[q]
      BY <2>2, ZeroIdAssumption DEF TypeOK, Delete
    <3> QED BY <3>1 DEF Remembered, Held
  <2> QED BY <2>1, <2>2, AckId
<1>3. Delivered' = Delivered
  BY DEF Delivered, Arrived
<1> QED BY <1>1, <1>2, <1>3 DEF SetsStep

\* A flush forgets a reply only when the API has received it.
LEMMA FlushSendSets ==
  ASSUME TypeOK, FlushIsExact, NEW f \in Flushers, NEW r \in Requests,
         FlushSend(f, r) \/ FlushSendFails(f, r)
  PROVE  /\ r \in Remembered
         /\ \/ SetsStep({}, {}, {})
            \/ SetsStep({}, {}, {r})
            \/ SetsStep({}, {r}, {r})
<1>1. flush # Unlocked /\ r \in Keys(buffered)
  BY OwnerLocks DEF FlushSend, FlushSendFails, FlushIsExact
<1>2. buffered[r] \in Versions /\ r \in Remembered
  BY <1>1 DEF TypeOK, Keys, Remembered, Held
<1>3. Accepted' = Accepted
  BY DEF FlushSend, FlushSendFails, Accepted, Answered
<1>4. CASE FlushSend(f, r)
  <2>1. Remembered' \in {Remembered, Remembered \ {r}}
    <3>1. /\ \A q \in Requests : q # r => buffered'[q] = buffered[q]
          /\ buffered'[r] = None
          /\ pendingAck' = pendingAck
      BY <1>4 DEF FlushSend, TypeOK, Delete
    <3>2. CASE pendingAck[r] = None
      BY <3>1, <3>2 DEF Remembered, Held
    <3>3. CASE pendingAck[r] # None
      BY <3>1, <3>3 DEF Remembered, Held
    <3> QED BY <3>2, <3>3
  <2>2. Delivered' = Delivered \cup {r}
    BY <1>2, <1>4 DEF FlushSend, Delivered, Arrived
  <2> QED BY <1>2, <1>3, <2>1, <2>2 DEF SetsStep
<1>5. CASE FlushSendFails(f, r)
  <2>1. Remembered' = Remembered
    BY <1>5 DEF FlushSendFails, maps, Remembered, Held
  <2>2. Delivered' \in {Delivered, Delivered \cup {r}}
    BY <1>2, <1>5 DEF FlushSendFails, Delivered, Arrived
  <2> QED BY <1>2, <1>3, <2>1, <2>2 DEF SetsStep
<1> QED BY <1>4, <1>5

\* Every other step leaves the three sets alone.
LEMMA OtherSets ==
  ASSUME \/ \E r \in Requests : LoseAck(r)
         \/ \E f \in Flushers : WantFlush(f) \/ FlushBegin(f) \/ FlushEnd(f)
         \/ UNCHANGED vars
  PROVE  SetsStep({}, {}, {})
BY DEF LoseAck, WantFlush, FlushBegin, FlushEnd, vars, maps, SetsStep, Accepted,
       Answered, Remembered, Held, Delivered, Arrived

\* Each step is one of five kinds, seen through the three sets.
LEMMA NextSets ==
  ASSUME IInv, [Next]_vars
  PROVE  \/ SetsStep({}, {}, {})
         \/ \E r \in Requests : SetsStep({r}, {}, {})
         \/ \E r \in Accepted : SetsStep({}, {}, {r})
         \/ \E r \in Accepted : SetsStep({}, {r}, {r})
         \/ \E r \in Delivered : SetsStep({}, {r}, {})
<1> USE DEF IInv
<1>1. ASSUME NEW r \in Requests, NEW v \in Versions,
             RegisterReply(r, v) \/ BufferFailedReply(r, v)
      PROVE  SetsStep({r}, {}, {})
  BY <1>1, RegisterSets, BufferSets
<1>2. ASSUME NEW r \in Requests, NEW v \in Versions, WriteReply(r, v)
      PROVE  r \in Accepted /\ SetsStep({}, {}, {r})
  BY <1>2, WriteSets
<1>3. ASSUME NEW r \in Requests, NEW v \in Versions,
             WriteReplyLost(r, v) \/ WriteReplyFails(r, v) \/ WatcherFires(r, v)
      PROVE  SetsStep({}, {}, {})
  BY <1>3, WriteSets, WatcherSets
<1>4. ASSUME NEW r \in Requests, handleMessageReplyAck(r)
      PROVE  /\ r \in Delivered
             /\ SetsStep({}, {}, {}) \/ SetsStep({}, {r}, {})
  BY <1>4, AckSets DEF handleMessageReplyAck, AckedHasArrived
<1>5. ASSUME NEW f \in Flushers, NEW r \in Requests,
             FlushSend(f, r) \/ FlushSendFails(f, r)
      PROVE  /\ r \in Accepted
             /\ \/ SetsStep({}, {}, {})
                \/ SetsStep({}, {}, {r})
                \/ SetsStep({}, {r}, {r})
  BY <1>5, FlushSendSets DEF HeldIsAnswered
<1> QED
  BY <1>1, <1>2, <1>3, <1>4, <1>5, OtherSets DEF Next, Reply, Flush

\* Every step of the buffer is a step of AtLeastOnce or leaves it unchanged.
LEMMA StepRefines == IInv /\ [Next]_vars => [ALO!Next]_ALO!vars
<1> SUFFICES ASSUME IInv, [Next]_vars PROVE ALO!Next \/ UNCHANGED ALO!vars
  OBVIOUS
<1> USE DEF SetsStep
<1>1. Accepted \subseteq Requests /\ Delivered \subseteq Requests
  BY DEF Accepted, Delivered
<1>2. CASE SetsStep({}, {}, {})
  BY <1>2 DEF ALO!vars
<1>3. ASSUME NEW r \in Requests, SetsStep({r}, {}, {})
      PROVE  ALO!Hold(r)
  BY <1>3 DEF ALO!Hold
<1>4. ASSUME NEW r \in Accepted,
             SetsStep({}, {}, {r}) \/ SetsStep({}, {r}, {r})
      PROVE  ALO!Deliver(r)
  BY <1>4 DEF ALO!Deliver
<1>5. ASSUME NEW r \in Delivered, SetsStep({}, {r}, {})
      PROVE  ALO!Forget(r)
  BY <1>5 DEF ALO!Forget
<1> HIDE DEF SetsStep
<1> QED BY <1>1, <1>2, <1>3, <1>4, <1>5, NextSets DEF ALO!Next

\* A held reply was answered, and an acked one has arrived, after every step.
LEMMA NextIInv == IInv /\ [Next]_vars => IInv'
<1> SUFFICES ASSUME IInv, [Next]_vars PROVE IInv'
  OBVIOUS
<1>1. TypeOK' /\ FlushIsExact'
  BY NextTypeOK, NextFlushIsExact DEF IInv
<1>2. HeldIsAnswered'
  BY NextSets DEF IInv, HeldIsAnswered, SetsStep
<1>3. Delivered \subseteq Delivered'
  BY NextSets DEF SetsStep
<1>4. AckedHasArrived'
  <2>1. CASE UNCHANGED acks
    BY <1>3, <2>1 DEF IInv, AckedHasArrived
  <2>2. ASSUME NEW r \in Requests, NEW v \in Versions, WriteReply(r, v)
        PROVE  AckedHasArrived'
    <3>1. r \in Delivered'
      BY <2>2, WriteSets DEF IInv, SetsStep
    <3> QED BY <1>3, <2>2, <3>1 DEF WriteReply, IInv, AckedHasArrived
  <2>3. ASSUME NEW r \in Requests, handleMessageReplyAck(r) \/ LoseAck(r)
        PROVE  AckedHasArrived'
    BY <1>3, <2>3 DEF handleMessageReplyAck, LoseAck, IInv, AckedHasArrived
  <2> QED
    BY <2>1, <2>2, <2>3
       DEF Next, Reply, Flush, RegisterReply, WriteReplyLost, WriteReplyFails,
           BufferFailedReply, WatcherFires, WantFlush, FlushBegin, FlushSend,
           FlushSendFails, FlushEnd, vars
<1> QED BY <1>1, <1>2, <1>4 DEF IInv

\* The state of the reply buffer always satisfies the inductive invariant.
THEOREM Invariance == Spec => []IInv
BY InitIInv, NextIInv, PTL DEF Spec

\* buffer.go and its callers keep the maps, the watcher goroutines and the
\* flush in progress well formed.
THEOREM TypeCorrect == Spec => []TypeOK
<1>1. IInv => TypeOK
  BY DEF IInv
<1> QED BY <1>1, Invariance, PTL

\* While flush runs under its mutex, what it has left to send is what is
\* buffered: nobody adds or removes a reply behind its back.
THEOREM FlushExact == Spec => []FlushIsExact
<1>1. IInv => FlushIsExact
  BY DEF IInv
<1> QED BY <1>1, Invariance, PTL

\* The buffer implements at-least-once delivery of the replies it accepts.
THEOREM Refinement == Spec => AtLeastOnceSpec
<1>1. Init => ALO!Init
  BY DEF Init, ALO!Init, Accepted, Answered, Remembered, Held, Delivered, Arrived
<1>2. IInv /\ [Next]_vars => [ALO!Next]_ALO!vars
  BY StepRefines
<1> QED
  BY <1>1, <1>2, Invariance, PTL DEF Spec, AtLeastOnceSpec, ALO!Spec

\* An answered request is pending, buffered or received, whatever the
\* interleaving of reply goroutines, watchers, acks and failing flushes.
THEOREM ReplyNotLost == Spec => []NoReplyLost
<1>1. Init => NoReplyLost
  BY DEF Init, NoReplyLost, Answered
<1>2. IInv /\ NoReplyLost /\ [Next]_vars => NoReplyLost'
  <2> SUFFICES ASSUME IInv, Accepted \subseteq Remembered \cup Delivered,
                      [Next]_vars
               PROVE  Accepted' \subseteq Remembered' \cup Delivered'
    BY DEF NoReplyLost, Accepted, Remembered, Delivered
  <2> QED BY NextSets DEF SetsStep
<1> QED BY <1>1, <1>2, Invariance, PTL DEF Spec

=============================================================================
