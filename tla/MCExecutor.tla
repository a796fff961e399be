----------------------------- MODULE MCExecutor -----------------------------
(***************************************************************************)
(* Two queues that share an executor with one worker.  One of them can have *)
(* a message executed, one in the executor queue and one parked for want of *)
(* a resource, while the other has one that waits for its place.            *)
(***************************************************************************)
EXTENDS Executor

CONSTANTS q1, q2

MCQueue == {q1, q2}

\* q1 has enough messages to go past q2 more often than it should.
MCMaxMsg == q1 :> 3 @@ q2 :> 1
MCMaxConcurrency == q1 :> 3 @@ q2 :> 1
=============================================================================
