---------------------------- MODULE CursorsState ----------------------------
(***************************************************************************)
(* CursorsState and Inventory.run as functions of the state of one         *)
(* inventory, for the inventories that are built out of others (module     *)
(* Inventories).  The items are 1 .. n in order, each with a cursor, and   *)
(* they are fewer than max_partials; module Cursors has a single inventory *)
(* with items without cursors and a bound on the partials.                 *)
(***************************************************************************)
EXTENDS Naturals, FiniteSetsExt

\* A cursor: the last item up to which everything is done, and what is done after.
NoCursor == [after |-> 0, partials |-> {}]
Covers(c, n) == n <= c.after \/ n \in c.partials

\* The state of a run of an inventory: the last item it went past, CursorsState's
\* after and partials, and its _pendings: those in process and those done.
Resumed(c) == [next |-> c.after, after |-> c.after, partials |-> c.partials,
               pending |-> {}, kept |-> {}]

CursorOf(inv) == [after |-> inv.after, partials |-> inv.partials \cup inv.kept]

\* The end of process_item for the items of S: the items done before any that is
\* still in process are committed.
Left(inv, S) ==
    LET pending == inv.pending \ S
        kept == inv.kept \cup S
        done == {n \in kept : \A p \in pending : n < p}
    IN  [inv EXCEPT !.pending = pending,
                    !.kept = kept \ done,
                    !.after = IF done = {} THEN @ ELSE Max(done)]

\* The items of S, the next ones, enter process_item.
Entered(inv, S) == [inv EXCEPT !.next = Max(S), !.pending = @ \cup S]

\* Item n, the next one, was processed in an earlier run: it is not yielded.
Skipped(inv, n) == Left([Entered(inv, {n}) EXCEPT !.partials = @ \ {n}], {n})
=============================================================================
