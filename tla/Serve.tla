------------------------------- MODULE Serve -------------------------------
(***************************************************************************)
(* The HTTP side of the SDK (handler.go, signature.go, net.go): several    *)
(* instances of an app serve requests of Inngest and of others, while its  *)
(* operator rotates the signing key.                                       *)
(*                                                                         *)
(* ServeHTTP dispatches to inspect, trust, invoke, and to the two kinds of *)
(* sync.  Each request has a goroutine of its own; what a goroutine does   *)
(* between two accesses to shared state is one step.  Shared are the       *)
(* handler's lock, which an out-of-band sync holds during its API calls    *)
(* and which the lookup of a function needs, and, outside of the process,  *)
(* the key that Inngest signs with and accepts.                            *)
(*                                                                         *)
(* Inngest, the network and the operator are external.  The operator first *)
(* restarts every instance with the new key and the old one as fallback,   *)
(* then switches the key at Inngest, and restarts the instances without    *)
(* the fallback when no request with a valid old signature is under way.   *)
(* What happens inside an invoked function is the subject of Invocation.   *)
(***************************************************************************)
EXTENDS Naturals, Sequences

CONSTANTS
  Instances,      \* processes that serve the app
  Calls,          \* HTTP requests
  OldKey, NewKey, \* signing keys
  NoKey,          \* no key configured, no signature header
  None,           \* nobody holds the lock, no instance, no function
  AppName,        \* h.appName, a sequence of the parts between its dashes
  Code            \* the arguments of Register: [id, version] in order

ASSUME KeysAssumption == OldKey # NewKey /\ NoKey \notin {OldKey, NewKey}
ASSUME NoneAssumption == None \notin Instances \cup Calls
ASSUME AppNameAssumption == AppName \in Seq(STRING)
ASSUME CodeAssumption == Code \in Seq([id : Seq(STRING), version : Nat])

VARIABLES
  config,       \* h.HandlerOpts as far as it is fixed: dev mode, in-band sync
  key,          \* the key that Inngest signs with and that its API accepts
  keys,         \* keys[i]: signing key and fallback of an instance
  lock,         \* lock[i]: h.l, the out-of-band sync that has it, or None
  call,         \* call[c]: an HTTP request and the goroutine that serves it
  synced        \* slugs of the functions that Inngest knows

vars == <<config, key, keys, lock, call, synced>>

-----------------------------------------------------------------------------
(* Function slugs.  A slug is a sequence of the parts between dashes.      *)

Slug(app, f) == app \o f.id

\* Mutant: the first registration of a slug wins.
RegisteredFirst ==
  {Code[n] : n \in {m \in DOMAIN Code :
     \A l \in 1 .. m - 1 : Slug(AppName, Code[l]) # Slug(AppName, Code[m])}}

\* Register: of several functions with one slug the last one is kept.  The
\* order of h.funcs is that of a map, which is arbitrary.
Registered ==
  {Code[n] : n \in {m \in DOMAIN Code :
     \A l \in m + 1 .. Len(Code) :
       Slug(AppName, Code[l]) # Slug(AppName, Code[m])}}

\* The lookup of invoke: the slug, or the old format without the app name.
Matches(fnId) ==
  {f \in Registered : Slug(AppName, f) = fnId \/ Slug(<<>>, f) = fnId}

\* Mutant: the configs carry slugs in the old format.
OldFunctionConfigs == {Slug(<<>>, f) : f \in Registered}

\* createFunctionConfigs, as far as Inngest needs it to invoke a function.
createFunctionConfigs == {Slug(AppName, f) : f \in Registered}

-----------------------------------------------------------------------------
(* A request.  "altered" is a body that is not the signed one, "large" one *)
(* beyond MaxBodySize, "malformed" one that is signed as it is but cannot  *)
(* be decoded.  age is "expired" once the signature is older than          *)
(* signatureTimeDeltaMax.                                                  *)
Kinds == {"inspect", "trust", "invoke", "inBand", "outOfBand"}
Bodies == {"ok", "altered", "large", "malformed"}

CallStates == {"idle", "sent", "lookup", "sync", "fetch", "refetch",
               "answered"}
Statuses == {0, 200, 400, 401, 410, 500}

Call == [pc : CallStates, kind : Kinds, key : {OldKey, NewKey, NoKey},
         body : Bodies, age : {"fresh", "expired"},
         fn : {<<>>} \cup {Slug(AppName, f) : f \in Registered}
                     \cup {Slug(<<>>, f) : f \in Registered}
                     \cup {<<"missing">>},
         at : Instances \cup {None}, status : Statuses,
         signed : {OldKey, NewKey, NoKey}, ran : Registered \cup {None},
         secure : BOOLEAN, rotated : BOOLEAN]

Idle == [pc |-> "idle", kind |-> "inspect", key |-> NoKey, body |-> "ok",
         age |-> "fresh", fn |-> <<>>, at |-> None, status |-> 0,
         signed |-> NoKey, ran |-> None, secure |-> FALSE, rotated |-> FALSE]

OldOnly == [primary |-> OldKey, fallback |-> NoKey]
Both == [primary |-> NewKey, fallback |-> OldKey]
NewOnly == [primary |-> NewKey, fallback |-> NoKey]

TypeOK ==
  /\ config \in [dev : BOOLEAN, inBand : BOOLEAN]
  /\ key \in {OldKey, NewKey}
  /\ keys \in [Instances -> {OldOnly, Both, NewOnly}]
  /\ lock \in [Instances -> Calls \cup {None}]
  /\ call \in [Calls -> Call]
  /\ synced \subseteq {Slug(AppName, f) : f \in Registered}

Init ==
  /\ config \in [dev : BOOLEAN, inBand : BOOLEAN]
  /\ key = OldKey
  /\ keys = [i \in Instances |-> OldOnly]
  /\ lock = [i \in Instances |-> None]
  /\ call = [c \in Calls |-> Idle]
  /\ synced = {}

-----------------------------------------------------------------------------
(* The operator and Inngest.                                               *)

Serving(i) == {c \in Calls : call[c].at = i}

\* A request that carries a valid signature with the old key.
OldUnderway == \E c \in Calls : /\ call[c].pc = "sent"
                                /\ call[c].key = OldKey
                                /\ call[c].age = "fresh"

\* An instance that has answered what it was asked is restarted.
Restart(i) ==
  /\ Serving(i) = {}
  /\ \/ keys[i] = OldOnly /\ keys' = [keys EXCEPT ![i] = Both]
     \/ /\ keys[i] = Both
        /\ key = NewKey
        /\ ~OldUnderway
        /\ keys' = [keys EXCEPT ![i] = NewOnly]
  /\ UNCHANGED <<config, key, lock, call, synced>>

Rotate ==
  /\ key = OldKey
  /\ \A i \in Instances : keys[i] = Both
  /\ key' = NewKey
  /\ call' = [c \in Calls |-> [call[c] EXCEPT
                !.rotated = (@ \/ call[c].pc = "refetch")]]
  /\ UNCHANGED <<config, keys, lock, synced>>

\* Inngest sends what it signs, and the body may be altered on the way; others,
\* and the dev server, send requests without a signature.  Without one the body
\* does not matter outside of dev mode.
SentKeys(kind) == IF kind = "outOfBand" THEN {NoKey} ELSE {key, NoKey}

SentBodies(kind, k) ==
  IF kind \in {"inspect", "outOfBand"} \/ (k = NoKey /\ ~config.dev) THEN {"ok"}
  ELSE IF kind = "trust" THEN {"ok", "altered", "large"} ELSE Bodies

\* The fnId of the query.  One function stands for all when the body is bad.
SentIds(kind, body) ==
  IF kind = "invoke" /\ body = "ok"
  THEN synced \cup {Slug(<<>>, f) : f \in Registered} \cup {<<"missing">>}
  ELSE {<<>>}

Send(c) ==
  /\ call[c].pc = "idle"
  /\ \E kind \in Kinds : \E k \in SentKeys(kind) :
       \E body \in SentBodies(kind, k) : \E fn \in SentIds(kind, body) :
         call' = [call EXCEPT ![c] = [Idle EXCEPT !.pc = "sent",
                    !.kind = kind, !.key = k, !.body = body, !.fn = fn]]
  /\ UNCHANGED <<config, key, keys, lock, synced>>

\* The request is under way for more than five minutes.
Delay(c) ==
  /\ call[c].pc = "sent"
  /\ call[c].key # NoKey
  /\ call[c].age = "fresh"
  /\ call' = [call EXCEPT ![c].age = "expired"]
  /\ UNCHANGED <<config, key, keys, lock, synced>>

-----------------------------------------------------------------------------
(* signature.go.                                                           *)

validateRequestSignature(c, k) ==
  /\ call[c].key = k
  /\ call[c].age = "fresh"
  /\ call[c].body # "altered"

Valid(k) == [valid |-> TRUE, key |-> k]
Invalid == [valid |-> FALSE, key |-> NoKey]

\* Mutant: the fallback key is not tried.
ValidateWithPrimary(c, i) ==
  IF config.dev THEN Valid(NoKey)
  ELSE IF validateRequestSignature(c, keys[i].primary)
       THEN Valid(keys[i].primary)
  ELSE Invalid

\* Mutant: the caller is told the primary key whichever key was right.
ValidateAsPrimary(c, i) ==
  IF config.dev THEN Valid(NoKey)
  ELSE IF \/ validateRequestSignature(c, keys[i].primary)
          \/ /\ keys[i].fallback # NoKey
             /\ validateRequestSignature(c, keys[i].fallback)
       THEN Valid(keys[i].primary)
  ELSE Invalid

\* Mutant: every signature passes when a fallback key is configured.
ValidateAnything(c, i) ==
  IF config.dev THEN Valid(NoKey)
  ELSE IF validateRequestSignature(c, keys[i].primary)
       THEN Valid(keys[i].primary)
  ELSE IF keys[i].fallback # NoKey THEN Valid(keys[i].fallback)
  ELSE Invalid

\* ValidateRequestSignature: in dev mode anything is valid; else the signing
\* key, then the fallback key if there is one.  Returns the key that was right.
ValidateRequestSignature(c, i) ==
  IF config.dev THEN Valid(NoKey)
  ELSE IF validateRequestSignature(c, keys[i].primary)
       THEN Valid(keys[i].primary)
  ELSE IF /\ keys[i].fallback # NoKey
          /\ validateRequestSignature(c, keys[i].fallback)
       THEN Valid(keys[i].fallback)
  ELSE Invalid

-----------------------------------------------------------------------------
(* The handlers.  Each begins when the request arrives at an instance.     *)

Arrives(c, kind) ==
  /\ call[c].pc = "sent"
  /\ call[c].kind = kind

\* The goroutine goes on with pc.
Goto(c, i, pc) == call' = [call EXCEPT ![c].pc = pc, ![c].at = i]

\* The reply: a status, the key its signature was made with, and whether it
\* holds what only an authenticated reader may see.
Answer(c, status, signed, secure) ==
  call' = [call EXCEPT ![c].pc = "answered", ![c].at = None,
             ![c].status = status, ![c].signed = signed, ![c].secure = secure]

Refuse(c, status) == Answer(c, status, NoKey, FALSE)

\* The checks at the begin of trust, invoke and inBandSync: a signature (unless
\* in dev mode), the body within its limit, the signature valid.  The status of
\* the refusal, 200 if there is none.
Checks(c, i, tooLarge) ==
  IF ~config.dev /\ call[c].key = NoKey THEN 401
  ELSE IF call[c].body = "large" THEN tooLarge
  ELSE IF ValidateRequestSignature(c, i).valid THEN 200 ELSE 401

\* inspect: a GET needs no signature, but shows less without a valid one.
inspect(c, i) ==
  /\ Arrives(c, "inspect")
  /\ Answer(c, 200, NoKey,
            call[c].key # NoKey /\ ValidateRequestSignature(c, i).valid)
  /\ UNCHANGED <<config, key, keys, lock, synced>>

\* trust: in dev mode an empty reply; else the signature is checked, and the
\* reply signed with the key that was right.
trust(c, i) ==
  LET status == Checks(c, i, 400) IN
  /\ Arrives(c, "trust")
  /\ IF config.dev THEN Answer(c, 200, NoKey, FALSE)
     ELSE IF status # 200 THEN Refuse(c, status)
     ELSE Answer(c, 200, ValidateRequestSignature(c, i).key, FALSE)
  /\ UNCHANGED <<config, key, keys, lock, synced>>

\* invoke, until it needs the lock.
invoke(c, i) ==
  LET status == Checks(c, i, 400) IN
  /\ Arrives(c, "invoke")
  /\ IF status = 200 /\ call[c].body # "malformed"
     THEN Goto(c, i, "lookup")
     ELSE Refuse(c, IF status = 200 THEN 400 ELSE status)
  /\ UNCHANGED <<config, key, keys, lock, synced>>

\* The lookup takes the read lock, which an out-of-band sync excludes; then
\* the function is run and its outcome, here 200, is answered.
Lookup(c) ==
  LET i == call[c].at IN
  /\ call[c].pc = "lookup"
  /\ lock[i] = None
  /\ IF Matches(call[c].fn) = {}
     THEN Refuse(c, 410)
     ELSE \E f \in Matches(call[c].fn) :
            call' = [call EXCEPT ![c].pc = "answered", ![c].at = None,
                                 ![c].status = 200, ![c].ran = f]
  /\ UNCHANGED <<config, key, keys, lock, synced>>

\* inBandSync: the function configs are the reply, signed like trust's.
inBandSync(c, i) ==
  LET status == Checks(c, i, 500) IN
  /\ Arrives(c, "inBand")
  /\ config.inBand
  /\ IF status = 200 /\ call[c].body # "malformed"
     THEN /\ Answer(c, 200, ValidateRequestSignature(c, i).key, TRUE)
          /\ synced' = createFunctionConfigs
     ELSE /\ Refuse(c, IF status = 200 THEN 400 ELSE status)
          /\ UNCHANGED synced
  /\ UNCHANGED <<config, key, keys, lock>>

\* register: anything that is not an in-band sync, or where that is not
\* allowed, is an out-of-band sync; it needs no signature.
register(c, i) ==
  /\ \/ Arrives(c, "outOfBand")
     \/ Arrives(c, "inBand") /\ ~config.inBand
  /\ Goto(c, i, "sync")
  /\ UNCHANGED <<config, key, keys, lock, synced>>

-----------------------------------------------------------------------------
(* outOfBandSync and fetchWithAuthFallback, under the handler's lock.      *)

SyncLock(c) ==
  LET i == call[c].at IN
  /\ call[c].pc = "sync"
  /\ lock[i] = None
  /\ lock' = [lock EXCEPT ![i] = c]
  /\ Goto(c, i, "fetch")
  /\ UNCHANGED <<config, key, keys, synced>>

Unlock(i) == lock' = [lock EXCEPT ![i] = None]

\* The API takes the functions.
Synced(c, i) ==
  /\ Answer(c, 200, NoKey, FALSE)
  /\ synced' = createFunctionConfigs
  /\ Unlock(i)

\* The API's answer to a key: in dev mode the dev server takes any.
Accepts(k) == config.dev \/ k = key

\* Mutant: a rejected key is not followed by the fallback key.
FetchOnce(c) ==
  LET i == call[c].at IN
  /\ call[c].pc = "fetch"
  /\ \/ Accepts(keys[i].primary) /\ Synced(c, i)
     \/ /\ ~Accepts(keys[i].primary)
        /\ Refuse(c, 401)
        /\ Unlock(i)
        /\ UNCHANGED synced
     \/ Refuse(c, 500) /\ Unlock(i) /\ UNCHANGED synced
  /\ UNCHANGED <<config, key, keys>>

\* The first attempt, with the signing key.  A rejected key is followed by the
\* fallback key if there is one; any other failure ends the sync.  (ServeHTTP
\* answers 500 for both; the status here tells a rejected key apart.)
Fetch(c) ==
  LET i == call[c].at IN
  /\ call[c].pc = "fetch"
  /\ \/ Accepts(keys[i].primary) /\ Synced(c, i)
     \/ /\ ~Accepts(keys[i].primary)
        /\ IF keys[i].fallback # NoKey
           THEN Goto(c, i, "refetch") /\ UNCHANGED lock
           ELSE Refuse(c, 401) /\ Unlock(i)
        /\ UNCHANGED synced
     \/ Refuse(c, 500) /\ Unlock(i) /\ UNCHANGED synced
  /\ UNCHANGED <<config, key, keys>>

\* Mutant: the lock is released only when the sync succeeds.
RefetchLocked(c) ==
  LET i == call[c].at IN
  /\ call[c].pc = "refetch"
  /\ \/ Accepts(keys[i].fallback) /\ Synced(c, i)
     \/ Refuse(c, 500) /\ UNCHANGED <<lock, synced>>
  /\ UNCHANGED <<config, key, keys>>

\* The second attempt, with the fallback key.
Refetch(c) ==
  LET i == call[c].at IN
  /\ call[c].pc = "refetch"
  /\ \/ Accepts(keys[i].fallback) /\ Synced(c, i)
     \/ /\ ~Accepts(keys[i].fallback)
        /\ Refuse(c, 401)
        /\ Unlock(i)
        /\ UNCHANGED synced
     \/ Refuse(c, 500) /\ Unlock(i) /\ UNCHANGED synced
  /\ UNCHANGED <<config, key, keys>>

-----------------------------------------------------------------------------
ServeHTTP(c, i) ==
  inspect(c, i) \/ trust(c, i) \/ invoke(c, i) \/ inBandSync(c, i)
  \/ register(c, i)

Continue(c) == Lookup(c) \/ SyncLock(c) \/ Fetch(c) \/ Refetch(c)

Next ==
  \/ \E c \in Calls, i \in Instances : ServeHTTP(c, i)
  \/ \E c \in Calls : Continue(c) \/ Send(c) \/ Delay(c)
  \/ \E i \in Instances : Restart(i)
  \/ Rotate

(* Fairness: a request that was sent arrives somewhere, its goroutine goes *)
(* on, functions return and the API answers.  Nobody has to send anything  *)
(* or to rotate the key.                                                   *)
Fairness ==
  \A c \in Calls : /\ WF_vars(\E i \in Instances : ServeHTTP(c, i))
                   /\ WF_vars(Continue(c))

Spec == Init /\ [][Next]_vars /\ Fairness

-----------------------------------------------------------------------------
(* Properties.                                                             *)

Answered(c) == call[c].pc = "answered"

\* Is the request what Inngest signed, not too long ago?
Authentic(c) ==
  call[c].key # NoKey /\ call[c].body # "altered" /\ call[c].age = "fresh"

\* A rotation of the signing key that follows the procedure is not noticed: no
\* instance, whether it has the old key, both or the new one, refuses an
\* authentic request (signature.go, ValidateRequestSignature with fallback).
RotationIsSeamless ==
  \A c \in Calls :
    Answered(c) /\ Authentic(c) /\ call[c].kind \in {"trust", "invoke", "inBand"}
      => call[c].status # 401 \/ call[c].rotated

\* Inngest can verify a signed reply, although the instance that made it may
\* have restarted with another primary key than the one Inngest used: the reply
\* is signed with the key of the request (handler.go, trust and inBandSync).
RepliesVerify ==
  \A c \in Calls : call[c].signed # NoKey => call[c].signed = call[c].key

\* Outside of dev mode a function is run, and what only Inngest may see is
\* shown, for authentic requests only, whichever keys the instance has.
OnlyAuthentic ==
  \A c \in Calls :
    ~config.dev /\ (call[c].ran # None \/ call[c].secure) => Authentic(c)

\* The API rejects both keys of an out-of-band sync only if the key is switched
\* between its two attempts (net.go, fetchWithAuthFallback).
SyncIsAuthorised ==
  \A c \in Calls :
    Answered(c) /\ call[c].kind = "outOfBand" /\ call[c].status = 401
      => call[c].rotated

\* Every function that a sync announced can be invoked, by the slug in its URL
\* (handler.go, createFunctionConfigs and the lookup of invoke).
SyncedIsServed ==
  \A c \in Calls : call[c].fn \in synced => call[c].status # 410

\* The function that is run is the last one that was registered under the slug
\* of the request, or under its old id.
RunsTheLatest ==
  \A c \in Calls : call[c].ran # None =>
    \E n \in DOMAIN Code :
      /\ call[c].ran = Code[n]
      /\ call[c].fn \in {AppName \o Code[n].id, Code[n].id}
      /\ \A m \in n + 1 .. Len(Code) : Code[m].id # Code[n].id

\* Two functions answer to fnId: it is the slug of one and the id of another.
Ambiguous(fnId) ==
  \E m, n \in DOMAIN Code : /\ Code[m].id # Code[n].id
                            /\ fnId = AppName \o Code[m].id
                            /\ fnId = Code[n].id

\* Two requests for one URL run the same function, in whatever order the map of
\* Register yields the functions on the instances that serve them.  Only where
\* an old id is another function's slug does the order decide.
OrderDoesNotMatter ==
  \A c, d \in Calls :
    call[c].ran # None /\ call[d].ran # None /\ call[c].fn = call[d].fn
      => call[c].ran = call[d].ran \/ Ambiguous(call[c].fn)

\* What a sync announced is served, by the function that was registered last
\* and by the same one everywhere, although slugs are built in three places and
\* the order of the functions is that of a map (handler.go, Register,
\* createFunctionConfigs and invoke).
ServesTheLatest == SyncedIsServed /\ RunsTheLatest /\ OrderDoesNotMatter

\* Every request is answered: neither the lock, held during API calls, nor the
\* error paths of a sync keep an invocation or another sync waiting for ever.
EveryCallIsAnswered == \A c \in Calls : call[c].pc = "sent" ~> Answered(c)
=============================================================================
