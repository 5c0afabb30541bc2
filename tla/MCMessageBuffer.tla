-------------------------- MODULE MCMessageBuffer --------------------------
(***************************************************************************)
(* Bounded instances of MessageBuffer for TLC.                             *)
(***************************************************************************)
EXTENDS MessageBuffer

CONSTANTS r1, r2, f1, f2

MCRequests == {r1, r2}
MCFlushers == {f1, f2}
MCOneVersion == {1}

=============================================================================
