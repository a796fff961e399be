-------------------------- MODULE MCWorkerManager --------------------------
(***************************************************************************)
(* A definition with an interval, and a job of its own of which a resource  *)
(* may be missing; two workers, of one queue each, that compete for the     *)
(* second; one thread that serves the scheduled creations and one that      *)
(* starts and restarts jobs.                                                *)
(***************************************************************************)
EXTENDS WorkerManager, TLC

CONSTANTS w1, w2, d1, d2, r1, r2

MCWorker == {w1, w2}
MCDefinition == {d1, d2}
MCRequest == {r1, r2}
MCPlain == {d2}
MCStatuses == d1 :> {"ok"} @@ d2 :> {"ok", "blocked"}
MCWanted == w1 :> MCDefinition @@ w2 :> {d2}
MCAsked == r1 :> {"sync"} @@ r2 :> {"start"}
=============================================================================
