---------------------------- MODULE ServeProofs ----------------------------
(***************************************************************************)
(* Proofs about Serve, for every number of instances and requests and for  *)
(* every app: a rotation of the signing key is seamless, replies can be    *)
(* verified, only authentic requests are served, and what a sync announced *)
(* can be invoked.                                                         *)
(*                                                                         *)
(* The invariant says how far the rotation has come (Rollout), that every  *)
(* instance still has the key of a request that is under way, and what a   *)
(* goroutine knows at each of its steps (CallOK).                          *)
(***************************************************************************)
EXTENDS Serve, SequenceTheorems, TLAPS

USE KeysAssumption, NoneAssumption

SignKeys == {OldKey, NewKey, NoKey}

\* No instance lacks the key that Inngest uses.
Rollout ==
  \A i \in Instances :
    /\ key = OldKey => keys[i] \in {OldOnly, Both}
    /\ key = NewKey => keys[i] \in {Both, NewOnly}

\* A request under way was signed with a key that every instance still has.
Underway(c) ==
  call[c].pc = "sent" =>
    /\ call[c].key = NewKey => key = NewKey
    /\ call[c].key = OldKey /\ call[c].age = "fresh"
         => \A i \in Instances : keys[i] # NewOnly

\* Before the answer there is no outcome.
Unanswered(c) ==
  call[c].pc # "answered" => /\ call[c].status = 0
                             /\ call[c].signed = NoKey
                             /\ call[c].ran = None
                             /\ call[c].secure = FALSE

\* What the goroutine of a request knows after its first step.
Served(c) ==
  /\ call[c].pc \in {"lookup", "sync", "fetch", "refetch"}
       => call[c].at \in Instances
  /\ call[c].pc = "lookup" /\ ~config.dev => Authentic(c)
  /\ call[c].pc = "refetch" =>
       keys[call[c].at] = Both /\ (key = OldKey \/ call[c].rotated)

\* What an answer says of its request.
Outcome(c) ==
  /\ call[c].status = 401 /\ (Authentic(c) \/ call[c].kind = "outOfBand")
       => call[c].rotated
  /\ call[c].status = 410 => Matches(call[c].fn) = {}
  /\ call[c].ran # None => call[c].ran \in Matches(call[c].fn)
  /\ call[c].signed # NoKey => call[c].signed = call[c].key
  /\ ~config.dev /\ (call[c].ran # None \/ call[c].secure) => Authentic(c)

CallOK(c) == Underway(c) /\ Unanswered(c) /\ Served(c) /\ Outcome(c)

IInv == TypeOK /\ Rollout /\ \A c \in Calls : CallOK(c)

\* An answer that CallOK allows.
Allowed(c, s, k, b) ==
  /\ s \in Statuses /\ k \in SignKeys /\ b \in BOOLEAN
  /\ s = 410 => Matches(call[c].fn) = {}
  /\ s = 401 /\ (Authentic(c) \/ call[c].kind = "outOfBand") => call[c].rotated
  /\ k # NoKey => k = call[c].key
  /\ ~config.dev /\ b => Authentic(c)

\* What a step of a goroutine leaves alone.
Keeps ==
  /\ UNCHANGED <<config, key, keys>>
  /\ lock' \in [Instances -> Calls \cup {None}]
  /\ synced' \subseteq {Slug(AppName, f) : f \in Registered}

\* The three stages of a rotation differ.
LEMMA StagesDiffer ==
  OldOnly # Both /\ Both # NewOnly /\ OldOnly # NewOnly
BY DEF OldOnly, Both, NewOnly

\* Nothing was sent yet.
LEMMA InitIInv == Init => IInv
<1> SUFFICES ASSUME Init PROVE IInv
  OBVIOUS
<1>1. Idle \in Call
  BY DEF Idle, Call, CallStates, Kinds, Bodies, Statuses
<1>2. TypeOK
  BY <1>1 DEF Init, TypeOK
<1>3. Rollout
  BY DEF Init, Rollout
<1>4. ASSUME NEW c \in Calls PROVE CallOK(c)
  BY DEF Init, CallOK, Underway, Unanswered, Served, Outcome, Idle
<1> QED BY <1>2, <1>3, <1>4 DEF IInv

\* A step that changes one request only.
LEMMA OneCall ==
  ASSUME IInv, NEW c \in Calls, NEW r \in Call,
         call' = [call EXCEPT ![c] = r],
         CallOK(c)',
         Keeps
  PROVE  IInv'
<1> USE DEF Keeps
<1>1. TypeOK'
  BY DEF IInv, TypeOK
<1>2. Rollout'
  BY DEF IInv, Rollout
<1>3. ASSUME NEW d \in Calls, d # c PROVE CallOK(d)'
  <2>1. call'[d] = call[d]
    BY <1>3 DEF IInv, TypeOK
  <2>2. CallOK(d)
    BY DEF IInv
  <2>3. Underway(d)' /\ Unanswered(d)'
    BY <2>1, <2>2 DEF CallOK, Underway, Unanswered
  <2>4. Served(d)'
    BY <2>1, <2>2 DEF CallOK, Served, Authentic
  <2>5. Outcome(d)'
    BY <2>1, <2>2 DEF CallOK, Outcome, Authentic
  <2> QED BY <2>3, <2>4, <2>5 DEF CallOK
<1> QED BY <1>1, <1>2, <1>3 DEF IInv

\* ValidateRequestSignature finds the key of an authentic request, and only of
\* such a one.
LEMMA Validation ==
  ASSUME IInv, NEW c \in Calls, NEW i \in Instances, call[c].pc = "sent"
  PROVE  LET v == ValidateRequestSignature(c, i) IN
         /\ v.valid \in BOOLEAN
         /\ v.key \in SignKeys
         /\ v.key # NoKey => v.key = call[c].key
         /\ ~config.dev /\ v.valid => Authentic(c)
         /\ Authentic(c) => v.valid
<1>1. /\ call[c].key \in SignKeys
      /\ keys[i] \in {OldOnly, Both, NewOnly}
      /\ config.dev \in BOOLEAN
      /\ key \in {OldKey, NewKey}
  BY DEF IInv, TypeOK, Call, SignKeys
<1>2. Authentic(c) => call[c].key \in {keys[i].primary, keys[i].fallback}
  BY <1>1 DEF IInv, CallOK, Underway, Rollout, Authentic, OldOnly, Both, NewOnly,
              SignKeys
<1>3. keys[i].primary \in {OldKey, NewKey} /\ keys[i].fallback \in {OldKey, NoKey}
  BY <1>1 DEF OldOnly, Both, NewOnly
<1> QED BY <1>1, <1>2, <1>3 DEF ValidateRequestSignature, Valid, Invalid,
              validateRequestSignature, Authentic, SignKeys

\* A request that was not answered yet is answered, as CallOK demands.
LEMMA AnswerIInv ==
  ASSUME IInv, NEW c \in Calls, call[c].pc # "answered",
         NEW s, NEW k, NEW b, Answer(c, s, k, b), Allowed(c, s, k, b),
         Keeps
  PROVE  IInv'
<1> DEFINE r == [call[c] EXCEPT !.pc = "answered", !.at = None, !.status = s,
                                !.signed = k, !.secure = b]
<1>1. call \in [Calls -> Call] /\ call[c] \in Call
  BY DEF IInv, TypeOK
<1>2. call' = [call EXCEPT ![c] = r]
  BY <1>1 DEF Answer, Call
<1>3. r \in Call
  BY <1>1 DEF Call, CallStates, SignKeys, Allowed
<1>4. call'[c] = r
  BY <1>1, <1>2
<1>5. /\ r.pc = "answered" /\ r.status = s /\ r.signed = k /\ r.secure = b
      /\ r.fn = call[c].fn /\ r.key = call[c].key /\ r.kind = call[c].kind
      /\ r.body = call[c].body /\ r.age = call[c].age /\ r.ran = call[c].ran
      /\ r.rotated = call[c].rotated
  BY <1>1 DEF Call
<1>6. call[c].ran = None
  BY DEF IInv, CallOK, Unanswered
<1>7. CallOK(c)'
  <2>1. Underway(c)' /\ Unanswered(c)' /\ Served(c)'
    BY <1>4, <1>5 DEF Underway, Unanswered, Served
  <2>2. Outcome(c)'
    BY <1>4, <1>5, <1>6 DEF Outcome, Authentic, Allowed, Keeps
  <2> QED BY <2>1, <2>2 DEF CallOK
<1> QED BY <1>2, <1>3, <1>7, OneCall

\* The goroutine of a request goes on.
LEMMA GotoIInv ==
  ASSUME IInv, NEW c \in Calls, NEW i \in Instances,
         NEW pc \in {"lookup", "sync", "fetch", "refetch"},
         call[c].pc # "answered",
         Goto(c, i, pc),
         pc = "lookup" /\ ~config.dev => Authentic(c),
         pc = "refetch" => keys[i] = Both /\ key = OldKey,
         Keeps
  PROVE  IInv'
<1> DEFINE r == [call[c] EXCEPT !.pc = pc, !.at = i]
<1>1. call \in [Calls -> Call] /\ call[c] \in Call
  BY DEF IInv, TypeOK
<1>2. call' = [call EXCEPT ![c] = r]
  BY <1>1 DEF Goto, Call
<1>3. r \in Call
  BY <1>1 DEF Call, CallStates
<1>4. call'[c] = r
  BY <1>1, <1>2
<1>5. /\ r.pc = pc /\ r.at = i
      /\ r.status = call[c].status /\ r.signed = call[c].signed
      /\ r.secure = call[c].secure
      /\ r.fn = call[c].fn /\ r.key = call[c].key /\ r.kind = call[c].kind
      /\ r.body = call[c].body /\ r.age = call[c].age /\ r.ran = call[c].ran
      /\ r.rotated = call[c].rotated
  BY <1>1 DEF Call
<1>6. Unanswered(c)
  BY DEF IInv, CallOK
<1>7. CallOK(c)'
  <2>1. Underway(c)' /\ Unanswered(c)'
    BY <1>4, <1>5, <1>6 DEF Underway, Unanswered
  <2>2. Served(c)'
    BY <1>4, <1>5 DEF Served, Authentic, Keeps
  <2>3. Outcome(c)'
    BY <1>4, <1>5, <1>6 DEF Outcome, Unanswered
  <2> QED BY <2>1, <2>2, <2>3 DEF CallOK
<1> QED BY <1>2, <1>3, <1>7, OneCall

\* A refusal, which is neither signed nor holds anything.
LEMMA RefuseIInv ==
  ASSUME IInv, NEW c \in Calls, call[c].pc # "answered",
         NEW s \in Statuses, Refuse(c, s),
         s = 410 => Matches(call[c].fn) = {},
         s = 401 => \/ ~Authentic(c) /\ call[c].kind # "outOfBand"
                    \/ call[c].rotated,
         Keeps
  PROVE  IInv'
<1>1. Allowed(c, s, NoKey, FALSE)
  BY DEF Allowed, SignKeys
<1>2. Answer(c, s, NoKey, FALSE)
  BY DEF Refuse
<1> QED BY <1>1, <1>2, AnswerIInv

\* The first steps of the handlers.
LEMMA ServeIInv ==
  ASSUME IInv, NEW c \in Calls, NEW i \in Instances, ServeHTTP(c, i)
  PROVE  IInv'
<1> DEFINE v == ValidateRequestSignature(c, i)
           secure == call[c].key # NoKey /\ v.valid
<1>1. call[c].pc = "sent" /\ call[c].pc # "answered"
  BY DEF ServeHTTP, inspect, trust, invoke, inBandSync, register, Arrives
<1>2. /\ v.valid \in BOOLEAN
      /\ v.key \in SignKeys
      /\ v.key # NoKey => v.key = call[c].key
      /\ ~config.dev /\ v.valid => Authentic(c)
      /\ Authentic(c) => v.valid
  BY <1>1, Validation
<1>3. ASSUME NEW large \in {400, 500}
      PROVE  /\ Checks(c, i, large) \in {200, 401, large}
             /\ Checks(c, i, large) = 200 => v.valid
             /\ Checks(c, i, large) = 401 => ~Authentic(c)
  BY <1>2 DEF Checks, Authentic
<1>4. Keeps
  <2>1. UNCHANGED <<config, key, keys, lock>>
    BY DEF ServeHTTP, inspect, trust, invoke, inBandSync, register
  <2>2. synced' = synced \/ synced' = createFunctionConfigs
    BY DEF ServeHTTP, inspect, trust, invoke, inBandSync, register
  <2> QED BY <2>1, <2>2 DEF Keeps, IInv, TypeOK, createFunctionConfigs
<1>5. ASSUME NEW s \in {400, 401, 500}, Refuse(c, s),
             s = 401 => ~Authentic(c), call[c].kind # "outOfBand"
      PROVE  IInv'
  <2>1. s \in Statuses /\ s # 410
    BY <1>5 DEF Statuses
  <2> QED BY <1>1, <1>4, <1>5, <2>1, RefuseIInv
<1>6. CASE inspect(c, i)
  <2>1. Answer(c, 200, NoKey, secure)
    BY <1>6 DEF inspect
  <2>2. Allowed(c, 200, NoKey, secure)
    BY <1>2 DEF Allowed, Statuses, SignKeys
  <2> HIDE DEF secure
  <2> QED BY <1>1, <1>4, <2>1, <2>2, AnswerIInv
<1>7. CASE trust(c, i)
  <2>1. call[c].kind = "trust"
    BY <1>7 DEF trust, Arrives
  <2>2. CASE config.dev
    <3>1. Refuse(c, 200)
      BY <1>7, <2>2 DEF trust, Refuse
    <3>2. 200 \in Statuses /\ 200 # 401 /\ 200 # 410
      BY DEF Statuses
    <3> QED BY <1>1, <1>4, <3>1, <3>2, RefuseIInv
  <2>3. CASE ~config.dev /\ Checks(c, i, 400) # 200
    <3>1. Refuse(c, Checks(c, i, 400))
      BY <1>7, <2>3 DEF trust
    <3>2. Checks(c, i, 400) \in {400, 401, 500}
      BY <1>3, <2>3
    <3> QED BY <1>3, <1>5, <2>1, <3>1, <3>2
  <2>4. CASE ~config.dev /\ Checks(c, i, 400) = 200
    <3>1. Answer(c, 200, v.key, FALSE)
      BY <1>7, <2>4 DEF trust
    <3>2. Allowed(c, 200, v.key, FALSE)
      BY <1>2 DEF Allowed, Statuses
    <3> HIDE DEF v
    <3> QED BY <1>1, <1>4, <3>1, <3>2, AnswerIInv
  <2> QED BY <2>2, <2>3, <2>4
<1>8. CASE invoke(c, i)
  <2>1. call[c].kind = "invoke"
    BY <1>8 DEF invoke, Arrives
  <2>2. CASE Checks(c, i, 400) = 200 /\ call[c].body # "malformed"
    <3>1. Goto(c, i, "lookup")
      BY <1>8, <2>2 DEF invoke
    <3>2. ~config.dev => Authentic(c)
      BY <1>2, <1>3, <2>2
    <3> QED BY <1>1, <1>4, <3>1, <3>2, GotoIInv
  <2>3. CASE Checks(c, i, 400) = 200 /\ call[c].body = "malformed"
    <3>1. Refuse(c, 400)
      BY <1>8, <2>3 DEF invoke
    <3> QED BY <1>5, <2>1, <3>1
  <2>4. CASE Checks(c, i, 400) # 200
    <3>1. Refuse(c, Checks(c, i, 400))
      BY <1>8, <2>4 DEF invoke
    <3>2. Checks(c, i, 400) \in {400, 401, 500}
      BY <1>3, <2>4
    <3> QED BY <1>3, <1>5, <2>1, <3>1, <3>2
  <2> QED BY <2>2, <2>3, <2>4
<1>9. CASE inBandSync(c, i)
  <2>1. call[c].kind = "inBand"
    BY <1>9 DEF inBandSync, Arrives
  <2>2. CASE Checks(c, i, 500) = 200 /\ call[c].body # "malformed"
    <3>1. Answer(c, 200, v.key, TRUE)
      BY <1>9, <2>2 DEF inBandSync
    <3>2. Allowed(c, 200, v.key, TRUE)
      BY <1>2, <1>3, <2>2 DEF Allowed, Statuses
    <3> HIDE DEF v
    <3> QED BY <1>1, <1>4, <3>1, <3>2, AnswerIInv
  <2>3. CASE Checks(c, i, 500) = 200 /\ call[c].body = "malformed"
    <3>1. Refuse(c, 400)
      BY <1>9, <2>3 DEF inBandSync
    <3> QED BY <1>5, <2>1, <3>1
  <2>4. CASE Checks(c, i, 500) # 200
    <3>1. Refuse(c, Checks(c, i, 500))
      BY <1>9, <2>4 DEF inBandSync
    <3>2. Checks(c, i, 500) \in {400, 401, 500}
      BY <1>3, <2>4
    <3> QED BY <1>3, <1>5, <2>1, <3>1, <3>2
  <2> QED BY <2>2, <2>3, <2>4
<1>10. CASE register(c, i)
  <2>1. Goto(c, i, "sync")
    BY <1>10 DEF register
  <2> QED BY <1>1, <1>4, <2>1, GotoIInv
<1> QED BY <1>6, <1>7, <1>8, <1>9, <1>10 DEF ServeHTTP

\* The lookup finds a function or there is none.
LEMMA LookupIInv ==
  ASSUME IInv, NEW c \in Calls, Lookup(c) PROVE IInv'
<1>1. /\ call[c].pc = "lookup" /\ call[c].pc # "answered"
      /\ UNCHANGED <<config, key, keys, lock, synced>>
  BY DEF Lookup
<1>2. Keeps
  BY <1>1 DEF Keeps, IInv, TypeOK
<1>3. CASE Matches(call[c].fn) = {}
  <2>1. Refuse(c, 410)
    BY <1>3 DEF Lookup
  <2>2. 410 \in Statuses /\ 410 # 401
    BY DEF Statuses
  <2> QED BY <1>1, <1>2, <1>3, <2>1, <2>2, RefuseIInv
<1>4. CASE Matches(call[c].fn) # {}
  <2>1. PICK f \in Matches(call[c].fn) :
          call' = [call EXCEPT ![c].pc = "answered", ![c].at = None,
                               ![c].status = 200, ![c].ran = f]
    BY <1>4 DEF Lookup
  <2> DEFINE r == [call[c] EXCEPT !.pc = "answered", !.at = None,
                                  !.status = 200, !.ran = f]
  <2>2. call \in [Calls -> Call] /\ call[c] \in Call
    BY DEF IInv, TypeOK
  <2>3. call' = [call EXCEPT ![c] = r]
    BY <2>1, <2>2, ZenonT(60) DEF Call
  <2>4. f \in Registered
    BY <2>1 DEF Matches
  <2>5. r \in Call
    <3>1. "answered" \in CallStates /\ 200 \in Statuses
      BY DEF CallStates, Statuses
    <3> QED BY <2>2, <2>4, <3>1, ZenonT(60) DEF Call
  <2>6. call'[c] = r
    BY <2>2, <2>3
  <2>7. /\ r.pc = "answered" /\ r.status = 200 /\ r.ran = f
        /\ r.signed = call[c].signed /\ r.secure = call[c].secure
        /\ r.fn = call[c].fn /\ r.key = call[c].key /\ r.kind = call[c].kind
        /\ r.body = call[c].body /\ r.age = call[c].age
    BY <2>2 DEF Call
  <2>8. /\ call[c].signed = NoKey
        /\ ~config.dev => Authentic(c)
    BY <1>1 DEF IInv, CallOK, Unanswered, Served
  <2> HIDE DEF r
  <2>9. Underway(c)' /\ Unanswered(c)' /\ Served(c)'
    BY <2>6, <2>7 DEF Underway, Unanswered, Served
  <2>10. Outcome(c)'
    BY <1>1, <2>1, <2>6, <2>7, <2>8 DEF Outcome, Authentic
  <2>11. CallOK(c)'
    BY <2>9, <2>10 DEF CallOK
  <2> QED BY <1>2, <2>3, <2>5, <2>11, OneCall
<1> QED BY <1>3, <1>4

\* An out-of-band sync, whose two keys are rejected only if Inngest switches
\* between the two attempts.
LEMMA SyncIInv ==
  ASSUME IInv, NEW c \in Calls, SyncLock(c) \/ Fetch(c) \/ Refetch(c)
  PROVE  IInv'
<1> DEFINE i == call[c].at
<1>1. call[c].pc \in {"sync", "fetch", "refetch"} /\ call[c].pc # "answered"
  BY DEF SyncLock, Fetch, Refetch
<1>2. i \in Instances /\ CallOK(c)
  BY <1>1 DEF IInv, CallOK, Served
<1>3. /\ key \in {OldKey, NewKey}
      /\ keys[i] \in {OldOnly, Both, NewOnly}
  BY <1>2 DEF IInv, TypeOK
<1>4. Keeps
  <2>1. lock \in [Instances -> Calls \cup {None}]
    BY DEF IInv, TypeOK
  <2>2. lock' = lock \/ \E d \in Calls \cup {None} : lock' = [lock EXCEPT ![i] = d]
    BY DEF SyncLock, Fetch, Refetch, Unlock, Synced
  <2>3. UNCHANGED <<config, key, keys>>
    BY DEF SyncLock, Fetch, Refetch
  <2>4. synced' = synced \/ synced' = createFunctionConfigs
    BY DEF SyncLock, Fetch, Refetch, Synced
  <2> QED BY <2>1, <2>2, <2>3, <2>4 DEF Keeps, IInv, TypeOK, createFunctionConfigs
<1>5. ASSUME NEW s \in {200, 401, 500}, Refuse(c, s),
             s = 401 => call[c].rotated
      PROVE  IInv'
  <2>1. s \in Statuses /\ s # 410
    BY <1>5 DEF Statuses
  <2> QED BY <1>1, <1>4, <1>5, <2>1, RefuseIInv
<1> HIDE DEF i
<1>6. CASE SyncLock(c)
  <2>1. Goto(c, i, "fetch")
    BY <1>6 DEF SyncLock, i
  <2> QED BY <1>1, <1>2, <1>4, <2>1, GotoIInv
<1>7. CASE Fetch(c)
  <2>1. ~Accepts(keys[i].primary) => keys[i] = Both /\ key = OldKey
    BY <1>2, <1>3 DEF IInv, Rollout, Accepts, OldOnly, Both, NewOnly
  <2>2. Both.fallback # NoKey
    BY DEF Both
  <2>3. \/ Synced(c, i)
        \/ /\ ~Accepts(keys[i].primary)
           /\ keys[i].fallback # NoKey => Goto(c, i, "refetch")
        \/ Refuse(c, 500)
    BY <1>7 DEF Fetch, i
  <2>4. Synced(c, i) => Refuse(c, 200)
    BY DEF Synced, Refuse
  <2>5. \/ Refuse(c, 200)
        \/ ~Accepts(keys[i].primary) /\ Goto(c, i, "refetch")
        \/ Refuse(c, 500)
    BY <2>1, <2>2, <2>3, <2>4
  <2>6. CASE ~Accepts(keys[i].primary) /\ Goto(c, i, "refetch")
    BY <1>1, <1>2, <1>4, <2>1, <2>6, GotoIInv
  <2> QED BY <1>5, <2>5, <2>6
<1>8. CASE Refetch(c)
  <2>1. call[c].pc = "refetch"
    BY <1>8 DEF Refetch
  <2>2. keys[i] = Both /\ (key = OldKey \/ call[c].rotated)
    BY <1>2, <2>1 DEF CallOK, Served, i
  <2>3. ~Accepts(keys[i].fallback) => call[c].rotated
    BY <2>2 DEF Accepts, Both
  <2>4. \/ Refuse(c, 200)
        \/ call[c].rotated /\ Refuse(c, 401)
        \/ Refuse(c, 500)
    BY <1>8, <2>3 DEF Refetch, Refuse, Synced, i
  <2> QED BY <1>5, <2>4
<1> QED BY <1>6, <1>7, <1>8

\* A request is sent, or it is under way for too long.
LEMMA SentIInv ==
  ASSUME IInv, NEW c \in Calls, Send(c) \/ Delay(c) PROVE IInv'
<1>1. Keeps
  BY DEF Send, Delay, Keeps, IInv, TypeOK
<1>2. call \in [Calls -> Call] /\ call[c] \in Call /\ CallOK(c)
  BY DEF IInv, TypeOK
<1>3. UNCHANGED <<config, key, keys>>
  BY <1>1 DEF Keeps
<1>4. CASE Send(c)
  <2>1. PICK kind \in Kinds : \E k \in SentKeys(kind) :
          \E body \in SentBodies(kind, k) : \E fn \in SentIds(kind, body) :
            call' = [call EXCEPT ![c] = [Idle EXCEPT !.pc = "sent",
                       !.kind = kind, !.key = k, !.body = body, !.fn = fn]]
    BY <1>4 DEF Send
  <2>2. PICK k \in SentKeys(kind) :
          \E body \in SentBodies(kind, k) : \E fn \in SentIds(kind, body) :
            call' = [call EXCEPT ![c] = [Idle EXCEPT !.pc = "sent",
                       !.kind = kind, !.key = k, !.body = body, !.fn = fn]]
    BY <2>1
  <2>3. PICK body \in SentBodies(kind, k) : \E fn \in SentIds(kind, body) :
          call' = [call EXCEPT ![c] = [Idle EXCEPT !.pc = "sent",
                     !.kind = kind, !.key = k, !.body = body, !.fn = fn]]
    BY <2>2
  <2>4. PICK fn \in SentIds(kind, body) :
          call' = [call EXCEPT ![c] = [Idle EXCEPT !.pc = "sent",
                     !.kind = kind, !.key = k, !.body = body, !.fn = fn]]
    BY <2>3
  <2> DEFINE r == [Idle EXCEPT !.pc = "sent", !.kind = kind, !.key = k,
                               !.body = body, !.fn = fn]
  <2>5. k \in {key, NoKey} /\ k \in SignKeys
    BY DEF SentKeys, SignKeys, IInv, TypeOK
  <2>6. body \in Bodies
    BY DEF SentBodies, Bodies
  <2>7. fn \in {<<>>} \cup {Slug(AppName, f) : f \in Registered}
                     \cup {Slug(<<>>, f) : f \in Registered}
                     \cup {<<"missing">>}
    BY DEF SentIds, IInv, TypeOK
  <2>8. Idle \in Call
    BY DEF Idle, Call, CallStates, Kinds, Bodies, Statuses
  <2>9. r \in Call
    <3>1. "sent" \in CallStates
      BY DEF CallStates
    <3> QED BY <2>5, <2>6, <2>7, <2>8, <3>1 DEF Call, SignKeys
  <2>10. call'[c] = r
    BY <1>2, <2>4
  <2>11. /\ r.pc = "sent" /\ r.key = k /\ r.age = "fresh" /\ r.status = 0
        /\ r.signed = NoKey /\ r.ran = None /\ r.secure = FALSE
    BY DEF Idle
  <2> HIDE DEF r
  <2>12. Underway(c)'
    BY <1>3, <2>5, <2>10, <2>11, StagesDiffer DEF Underway, IInv, Rollout, TypeOK
  <2>13. Unanswered(c)' /\ Served(c)' /\ Outcome(c)'
    BY <2>10, <2>11 DEF Unanswered, Served, Outcome
  <2>14. CallOK(c)'
    BY <2>12, <2>13 DEF CallOK
  <2>15. call' = [call EXCEPT ![c] = r]
    BY <2>4 DEF r
  <2> QED BY <1>1, <2>9, <2>14, <2>15, OneCall
<1>5. CASE Delay(c)
  <2> DEFINE r == [call[c] EXCEPT !.age = "expired"]
  <2>1. call[c].pc = "sent" /\ call' = [call EXCEPT ![c] = r]
    BY <1>2, <1>5 DEF Delay, Call
  <2>2. r \in Call
    BY <1>2 DEF Call
  <2>3. call'[c] = r
    BY <1>2, <2>1
  <2>4. /\ r.pc = "sent" /\ r.key = call[c].key /\ r.age = "expired"
        /\ r.status = call[c].status /\ r.signed = call[c].signed
        /\ r.ran = call[c].ran /\ r.secure = call[c].secure
    BY <1>2, <2>1 DEF Call
  <2>5. Unanswered(c) /\ Underway(c)
    BY <1>2 DEF CallOK
  <2>6. r.status = 0 /\ r.signed = NoKey /\ r.ran = None /\ r.secure = FALSE
    BY <2>1, <2>4, <2>5 DEF Unanswered
  <2> HIDE DEF r
  <2>7. Underway(c)'
    BY <1>3, <2>1, <2>3, <2>4, <2>5 DEF Underway
  <2>8. Unanswered(c)' /\ Served(c)' /\ Outcome(c)'
    BY <2>3, <2>4, <2>6 DEF Unanswered, Served, Outcome
  <2>9. CallOK(c)'
    BY <2>7, <2>8 DEF CallOK
  <2> QED BY <1>1, <2>1, <2>2, <2>9, OneCall
<1> QED BY <1>4, <1>5

\* An idle instance is restarted with the next stage of its keys.
LEMMA RestartIInv ==
  ASSUME IInv, NEW i \in Instances, Restart(i) PROVE IInv'
<1>1. UNCHANGED <<config, key, lock, call, synced>> /\ Serving(i) = {}
  BY DEF Restart
<1>2. \/ keys[i] = OldOnly /\ keys' = [keys EXCEPT ![i] = Both]
      \/ /\ keys[i] = Both /\ key = NewKey /\ ~OldUnderway
         /\ keys' = [keys EXCEPT ![i] = NewOnly]
  BY DEF Restart
<1>3. keys \in [Instances -> {OldOnly, Both, NewOnly}] /\ key \in {OldKey, NewKey}
  BY DEF IInv, TypeOK
<1>4. TypeOK'
  BY <1>1, <1>2 DEF IInv, TypeOK
<1>5. Rollout'
  BY <1>1, <1>2, <1>3, StagesDiffer DEF IInv, Rollout
<1>6. ASSUME NEW c \in Calls PROVE CallOK(c)'
  <2>1. CallOK(c)
    BY DEF IInv
  <2>2. Underway(c)'
    BY <1>1, <1>2, <1>3, <2>1, StagesDiffer DEF CallOK, Underway, OldUnderway
  <2>3. call[c].at # i
    BY <1>1 DEF Serving
  <2>4. Served(c)'
    BY <1>1, <1>2, <1>3, <2>1, <2>3 DEF CallOK, Served, Authentic
  <2>5. Unanswered(c)' /\ Outcome(c)'
    BY <1>1, <2>1 DEF CallOK, Unanswered, Outcome, Authentic
  <2> QED BY <2>2, <2>4, <2>5 DEF CallOK
<1> QED BY <1>4, <1>5, <1>6 DEF IInv

\* Inngest switches to the new key.
LEMMA RotateIInv == ASSUME IInv, Rotate PROVE IInv'
<1>1. /\ key = OldKey /\ key' = NewKey
      /\ \A i \in Instances : keys[i] = Both
      /\ UNCHANGED <<config, keys, lock, synced>>
      /\ call' = [c \in Calls |-> [call[c] EXCEPT
                    !.rotated = (@ \/ call[c].pc = "refetch")]]
  BY DEF Rotate
<1>2. ASSUME NEW c \in Calls
      PROVE  /\ call'[c] \in Call
             /\ call'[c] = [call[c] EXCEPT
                              !.rotated = (@ \/ call[c].pc = "refetch")]
             /\ call'[c].rotated = (call[c].rotated \/ call[c].pc = "refetch")
             /\ call'[c].pc = call[c].pc /\ call'[c].at = call[c].at
             /\ call'[c].key = call[c].key /\ call'[c].body = call[c].body
             /\ call'[c].age = call[c].age /\ call'[c].kind = call[c].kind
             /\ call'[c].fn = call[c].fn /\ call'[c].ran = call[c].ran
             /\ call'[c].status = call[c].status
             /\ call'[c].signed = call[c].signed
             /\ call'[c].secure = call[c].secure
  <2>1. call[c] \in Call
    BY DEF IInv, TypeOK
  <2> QED BY <1>1, <2>1 DEF Call
<1>3. TypeOK'
  <2>1. call' \in [Calls -> Call]
    BY <1>1, <1>2
  <2> QED BY <1>1, <2>1 DEF IInv, TypeOK
<1>4. Rollout'
  BY <1>1 DEF Rollout
<1>5. ASSUME NEW c \in Calls PROVE CallOK(c)'
  <2>1. CallOK(c)
    BY DEF IInv
  <2>2. Underway(c)'
    BY <1>1, StagesDiffer DEF Underway
  <2>3. Unanswered(c)'
    BY <1>2, <2>1 DEF CallOK, Unanswered
  <2>4. Authentic(c)' <=> Authentic(c)
    BY <1>2 DEF Authentic
  <2>5. Served(c)'
    <3>1. Served(c)
      BY <2>1 DEF CallOK
    <3>2. /\ call'[c].pc = call[c].pc /\ call'[c].at = call[c].at
          /\ call[c].pc = "refetch" => call'[c].rotated
      BY <1>2
    <3>3. call[c].pc \in {"lookup", "sync", "fetch", "refetch"}
            => call'[c].at \in Instances
      BY <3>1, <3>2 DEF Served
    <3>4. call[c].pc = "lookup" /\ ~config'.dev => Authentic(c)'
      BY <1>1, <2>4, <3>1 DEF Served
    <3>5. call[c].pc = "refetch" => keys'[call'[c].at] = Both
      BY <1>1, <3>1, <3>2 DEF Served
    <3> QED BY <3>2, <3>3, <3>4, <3>5 DEF Served
  <2>6. call[c].rotated => call'[c].rotated
    BY <1>2
  <2>7. Matches(call[c].fn)' = Matches(call[c].fn)
    BY <1>2
  <2>8. Outcome(c)'
    BY <1>1, <1>2, <2>1, <2>4, <2>6, <2>7 DEF CallOK, Outcome
  <2> QED BY <2>2, <2>3, <2>5, <2>8 DEF CallOK
<1> QED BY <1>3, <1>4, <1>5 DEF IInv

\* Every reachable state satisfies the invariant.
THEOREM Invariance == Spec => []IInv
<1>1. IInv /\ [Next]_vars => IInv'
  <2> SUFFICES ASSUME IInv, [Next]_vars PROVE IInv'
    OBVIOUS
  <2>1. CASE Next
    BY <2>1, ServeIInv, LookupIInv, SyncIInv, SentIInv, RestartIInv, RotateIInv
       DEF Next, Continue
  <2>2. CASE UNCHANGED vars
    <3>1. ASSUME NEW c \in Calls PROVE CallOK(c)'
      BY <2>2 DEF vars, IInv, CallOK, Underway, Unanswered, Served, Outcome,
                  Authentic
    <3> QED BY <2>2, <3>1 DEF vars, IInv, TypeOK, Rollout
  <2> QED BY <2>1, <2>2
<1> QED BY InitIInv, <1>1, PTL DEF Spec

\* Requests, keys and locks are well formed, and Inngest knows no slug that is
\* not the slug of a registered function.
THEOREM TypeCorrect == Spec => []TypeOK
BY Invariance, PTL DEF IInv

\* No authentic request is refused during a rotation of the signing key.
THEOREM SeamlessRotation == Spec => []RotationIsSeamless
<1>1. IInv => RotationIsSeamless
  BY DEF IInv, CallOK, Outcome, RotationIsSeamless
<1> QED BY Invariance, <1>1, PTL

\* A signed reply is signed with the key of its request.
THEOREM VerifiableReplies == Spec => []RepliesVerify
<1>1. IInv => RepliesVerify
  BY DEF IInv, CallOK, Outcome, RepliesVerify
<1> QED BY Invariance, <1>1, PTL

\* Outside of dev mode only authentic requests are served.
THEOREM Authenticity == Spec => []OnlyAuthentic
<1>1. IInv => OnlyAuthentic
  BY DEF IInv, CallOK, Outcome, OnlyAuthentic
<1> QED BY Invariance, <1>1, PTL

\* A sync is rejected only if the key is switched between its two attempts.
THEOREM AuthorisedSync == Spec => []SyncIsAuthorised
<1>1. IInv => SyncIsAuthorised
  BY DEF IInv, CallOK, Outcome, SyncIsAuthorised
<1> QED BY Invariance, <1>1, PTL

\* What a sync announced can be invoked: its slug matches a function.
THEOREM ServedSync == Spec => []SyncedIsServed
<1>1. IInv => SyncedIsServed
  <2> SUFFICES ASSUME IInv, NEW c \in Calls, call[c].fn \in synced,
                      call[c].status = 410
               PROVE  FALSE
    BY DEF SyncedIsServed
  <2>1. PICK f \in Registered : call[c].fn = Slug(AppName, f)
    BY DEF IInv, TypeOK
  <2>2. f \in Matches(call[c].fn)
    BY <2>1 DEF Matches
  <2> QED BY <2>2 DEF IInv, CallOK, Outcome
<1> QED BY Invariance, <1>1, PTL

\* A function that is not registered again is the one Registered keeps for its
\* slug, and the old format of its slug is its id.
LEMMA RegisteredOnce ==
  ASSUME NEW f \in Registered
  PROVE  \E n \in DOMAIN Code :
           /\ f = Code[n]
           /\ n \in Nat
           /\ Slug(<<>>, f) = f.id
           /\ \A l \in n + 1 .. Len(Code) :
                Slug(AppName, Code[l]) # Slug(AppName, f)
<1>1. PICK n \in DOMAIN Code :
        /\ f = Code[n]
        /\ \A l \in n + 1 .. Len(Code) : Slug(AppName, Code[l]) # Slug(AppName, Code[n])
  BY DEF Registered
<1>2. DOMAIN Code = 1 .. Len(Code) /\ Len(Code) \in Nat
  BY CodeAssumption
<1>3. Code[n] \in [id : Seq(STRING), version : Nat]
  BY <1>2, CodeAssumption, ElementOfSeq
<1>4. Slug(<<>>, f) = f.id
  <2>1. f.id \in Seq(STRING)
    BY <1>1, <1>3
  <2> QED BY <2>1, ConcatEmptySeq DEF Slug
<1> QED BY <1>1, <1>2, <1>4

\* Functions of one slug are one function.
LEMMA OneForSlug ==
  ASSUME NEW f \in Registered, NEW g \in Registered,
         Slug(AppName, f) = Slug(AppName, g)
  PROVE  f = g
<1>1. PICK m \in DOMAIN Code :
        /\ f = Code[m] /\ m \in Nat
        /\ \A l \in m + 1 .. Len(Code) : Slug(AppName, Code[l]) # Slug(AppName, f)
  BY RegisteredOnce
<1>2. PICK n \in DOMAIN Code :
        /\ g = Code[n] /\ n \in Nat
        /\ \A l \in n + 1 .. Len(Code) : Slug(AppName, Code[l]) # Slug(AppName, g)
  BY RegisteredOnce
<1>3. DOMAIN Code = 1 .. Len(Code) /\ Len(Code) \in Nat
  BY CodeAssumption
<1>4. ~(m < n) /\ ~(n < m)
  BY <1>1, <1>2, <1>3
<1> QED BY <1>1, <1>2, <1>4

\* The function that is run is the last one registered under the slug of the
\* request, or under its old id.
THEOREM LatestRuns == Spec => []RunsTheLatest
<1>1. IInv => RunsTheLatest
  <2> SUFFICES ASSUME IInv, NEW c \in Calls, call[c].ran # None
               PROVE  \E n \in DOMAIN Code :
                        /\ call[c].ran = Code[n]
                        /\ call[c].fn \in {AppName \o Code[n].id, Code[n].id}
                        /\ \A m \in n + 1 .. Len(Code) : Code[m].id # Code[n].id
    BY DEF RunsTheLatest
  <2>1. call[c].ran \in Matches(call[c].fn)
    BY DEF IInv, CallOK, Outcome
  <2>2. PICK n \in DOMAIN Code :
          /\ call[c].ran = Code[n]
          /\ Slug(<<>>, call[c].ran) = call[c].ran.id
          /\ \A l \in n + 1 .. Len(Code) :
               Slug(AppName, Code[l]) # Slug(AppName, call[c].ran)
    BY <2>1, RegisteredOnce DEF Matches
  <2>3. call[c].fn \in {AppName \o Code[n].id, Code[n].id}
    BY <2>1, <2>2 DEF Matches, Slug
  <2>4. \A m \in n + 1 .. Len(Code) : Code[m].id # Code[n].id
    BY <2>2 DEF Slug
  <2> QED BY <2>2, <2>3, <2>4
<1> QED BY Invariance, <1>1, PTL

\* The order of the map of Register decides which function is run only where
\* an id is the slug of another function.
THEOREM OrderIsIrrelevant == Spec => []OrderDoesNotMatter
<1>1. IInv => OrderDoesNotMatter
  <2> SUFFICES ASSUME IInv, NEW c \in Calls, NEW d \in Calls,
                      call[c].ran # None, call[d].ran # None,
                      call[c].fn = call[d].fn, ~Ambiguous(call[c].fn)
               PROVE  call[c].ran = call[d].ran
    BY DEF OrderDoesNotMatter
  <2> DEFINE f == call[c].ran
             g == call[d].ran
             fnId == call[c].fn
  <2>1. f \in Matches(fnId) /\ g \in Matches(fnId)
    BY DEF IInv, CallOK, Outcome
  <2>2. f \in Registered /\ g \in Registered
    BY <2>1 DEF Matches
  <2>3. /\ Slug(<<>>, f) = f.id /\ Slug(<<>>, g) = g.id
        /\ \E m \in DOMAIN Code : f = Code[m]
        /\ \E n \in DOMAIN Code : g = Code[n]
    BY <2>2, RegisteredOnce
  <2>4. /\ fnId = AppName \o f.id \/ fnId = f.id
        /\ fnId = AppName \o g.id \/ fnId = g.id
    BY <2>1, <2>3 DEF Matches, Slug
  <2>5. AppName \o f.id = AppName \o g.id
    BY <2>3, <2>4 DEF Ambiguous
  <2> QED BY <2>2, <2>5, OneForSlug DEF Slug
<1> QED BY Invariance, <1>1, PTL

\* What a sync announced is served, by the function registered last and by the
\* same one on every instance unless its slug is also another function's id.
THEOREM LatestServed == Spec => []ServesTheLatest
BY ServedSync, LatestRuns, OrderIsIrrelevant, PTL DEF ServesTheLatest
=============================================================================
