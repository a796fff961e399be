--------------------------- MODULE MCInventories ---------------------------
(***************************************************************************)
(* Small inventories of each kind: two inputs chained or merged, a last    *)
(* batch that is not full, and more items in the root than its concurrency *)
(* allows at a time, the inventory of the last one being empty, and a loop *)
(* of three iterations.                                                    *)
(***************************************************************************)
EXTENDS Inventories, TLC

MCSize == [chained  |-> <<2, 2>>,
           fanin    |-> <<2, 2>>,
           batching |-> <<5>>,
           loop     |-> <<3>>,
           joined   |-> (0 :> 3 @@ 1 :> 2 @@ 2 :> 2 @@ 3 :> 0)]

\* Everything, but what loses items of a chained or joined inventory.
MCFaults == ({"fanin", "batching"} \X {"crash", "close", "fail"})
            \cup ({"loop"} \X {"crash", "close"})
            \cup {<<"chained", "close">>, <<"chained", "fail">>, <<"joined", "crash">>}

MCSubFails == {<<"joined", "fail">>}
=============================================================================
