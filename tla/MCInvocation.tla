---------------------------- MODULE MCInvocation ----------------------------
(***************************************************************************)
(* Bounded instances of Invocation for TLC.                                *)
(***************************************************************************)
EXTENDS Invocation, TLC

CONSTANTS w1, w2

MCWorkers == {w1, w2}

call(block, branch, parallel, id, kind) ==
  [block |-> block, branch |-> branch, parallel |-> parallel, id |-> id,
   kind |-> kind]

A == <<"a">>
B == <<"b">>
C == <<"c">>
D == <<"d">>

\* The id "a" is used twice, before and after a Parallel of a sleep, a branch
\* that waits and then runs, and a branch that runs.
MixedProgram ==
  << call(1, 1, FALSE, A, "run"),
     call(2, 1, TRUE, B, "sleep"),
     call(2, 2, TRUE, C, "wait"),
     call(2, 2, TRUE, C, "run"),
     call(2, 3, TRUE, D, "run"),
     call(3, 1, FALSE, A, "run") >>

\* A Parallel of an invoked function and of two branches that run, the first
\* of them an id that is used again after it, and then an inference.  The two
\* are planned, and a request for the second passes the first.
JoiningProgram ==
  << call(1, 1, TRUE, B, "invoke"),
     call(1, 2, TRUE, A, "run"),
     call(1, 3, TRUE, D, "run"),
     call(2, 1, FALSE, A, "run"),
     call(3, 1, FALSE, C, "infer") >>

Symmetry == Permutations(MCWorkers)

=============================================================================
