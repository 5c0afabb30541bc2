---------------------------- MODULE MCWorkerPool ----------------------------
(***************************************************************************)
(* A bounded instance of WorkerPool for TLC: with one goroutine, three     *)
(* requests fill the goroutine and the channel and block the read loop.    *)
(***************************************************************************)
EXTENDS WorkerPool
=============================================================================
