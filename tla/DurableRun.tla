----------------------------- MODULE DurableRun -----------------------------
(***************************************************************************)
(* What the SDK promises to the author of a function, stated without       *)
(* requests, replays, hashes and retries: a run settles the step calls of  *)
(* the function in the order in which its code makes them, each of them    *)
(* once and for good, with the branches of a Parallel in any order; an     *)
(* error that is returned ends its branch, or the function; and the run    *)
(* succeeds only after the last call.                                      *)
(***************************************************************************)
EXTENDS Naturals, Sequences

CONSTANT Program        \* sequence of [block, branch, parallel, id, kind]

VARIABLES
  outcome,              \* outcome[s]: how call s ended, "none" before
  over                  \* how the run ended, "no" before

vars == <<outcome, over>>

Calls == 1 .. Len(Program)

Block(s, t) == t \in Calls /\ Program[t].block = Program[s].block
Branch(s, t) == Block(s, t) /\ Program[t].branch = Program[s].branch

\* A call has its outcome, or an error before it has ended its branch.
Settled(s) ==
  outcome[s] # "none" \/ \E t \in 1 .. s - 1 : Branch(s, t) /\ outcome[t] = "error"

\* The code makes call s: every earlier call is settled and lets it pass, or
\* is in another branch of the same Parallel.
Reached(s) ==
  \A u \in 1 .. s - 1 :
    \/ Block(s, u) /\ ~Branch(s, u)
    \/ /\ Settled(u)
       /\ outcome[u] = "error" => Program[u].parallel /\ ~Block(s, u)

Init ==
  /\ outcome = [s \in Calls |-> "none"]
  /\ over = "no"

Settle(s) ==
  /\ Reached(s)
  /\ outcome[s] = "none"
  /\ \E o \in {"ok", "error"} : outcome' = [outcome EXCEPT ![s] = o]
  /\ UNCHANGED over

Succeed ==
  /\ over = "no"
  /\ \A s \in Calls : Settled(s)
  /\ over' = "ok"
  /\ UNCHANGED outcome

Fail ==
  /\ over = "no"
  /\ over' = "failed"
  /\ UNCHANGED outcome

Next == Succeed \/ Fail \/ \E s \in Calls : Settle(s)

Spec == Init /\ [][Next]_vars

=============================================================================
