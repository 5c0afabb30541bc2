---------------------------- MODULE AtLeastOnce ----------------------------
(***************************************************************************)
(* What connect/buffer.go promises to the code that answers executor       *)
(* requests, stated without its maps, timers and lock: once a reply has    *)
(* been handed over, it is either still held by the worker or has reached  *)
(* Inngest.  A reply may reach Inngest several times, but the worker may   *)
(* forget it only after it arrived at least once.                          *)
(***************************************************************************)
CONSTANT Requests       \* request ids the gateway may send

VARIABLES
  accepted,             \* requests whose reply was handed to the buffer
  held,                 \* requests whose reply the worker still remembers
  delivered             \* requests for which a reply reached Inngest

vars == <<accepted, held, delivered>>

Init ==
  /\ accepted = {}
  /\ held = {}
  /\ delivered = {}

\* A reply is handed over, or a failed write hands it back.
Hold(r) ==
  /\ accepted' = accepted \cup {r}
  /\ held' = held \cup {r}
  /\ UNCHANGED delivered

\* The reply reaches Inngest; the worker may forget it in the same step.
Deliver(r) ==
  /\ r \in accepted
  /\ delivered' = delivered \cup {r}
  /\ held' \in {held, held \ {r}}
  /\ UNCHANGED accepted

\* The worker forgets a reply that has arrived.
Forget(r) ==
  /\ r \in delivered
  /\ held' = held \ {r}
  /\ UNCHANGED <<accepted, delivered>>

Next == \E r \in Requests : Hold(r) \/ Deliver(r) \/ Forget(r)

Spec == Init /\ [][Next]_vars

=============================================================================
