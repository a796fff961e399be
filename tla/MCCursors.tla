----------------------------- MODULE MCCursors -----------------------------
(***************************************************************************)
(* Three items, one without a cursor, and two runs of the job, that may     *)
(* overlap: the first keeps every partial, the second one at most.          *)
(***************************************************************************)
EXTENDS Cursors, TLC

CONSTANTS r1, r2

MCRun == {r1, r2}
MCMaxPartials == r1 :> Unlimited @@ r2 :> 1
=============================================================================
