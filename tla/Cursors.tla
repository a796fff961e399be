------------------------------ MODULE Cursors ------------------------------
(***************************************************************************)
(* The progress of a job (worker/inventory.py, worker/job.py): the items of *)
(* an inventory are yielded in order, processed in any order, and a cursor  *)
(* tells a later run where to resume: the last item up to which everything  *)
(* was done and, apart from it, the items done out of order (partials).     *)
(*                                                                          *)
(* A run is the inventory object a worker builds for the job each time the  *)
(* job is assigned to it.  A worker that lost its assignment still ends     *)
(* what it has in flight while another run goes on; its state service sends *)
(* the cursor to the worker manager later, a request may be sent twice or   *)
(* arrive late, and a worker may crash at any time.                         *)
(***************************************************************************)
EXTENDS Integers, FiniteSets, FiniteSetsExt

CONSTANTS
  NumItems,    \* the items of the inventory are 1 .. NumItems, in order
  HasCursor,   \* the items that have a cursor
  Run,         \* the runs of the job
  MaxPartials, \* MaxPartials[r]: max_partials of the inventory, or Unlimited
  MaxRequests  \* bound: the requests under way at a time

Unlimited == -1

ASSUME CursorsAssumption ==
  /\ NumItems \in Nat
  /\ HasCursor \subseteq 1 .. NumItems
  /\ MaxPartials \in [Run -> Nat \cup {Unlimited}]
  /\ MaxRequests \in Nat

Item == 1 .. NumItems

VARIABLES
  status,      \* status[r]: "idle", "running", "joining" (the inventory is
               \* exhausted), "ended" (completed, failed or stopped) or "crashed"
  next,        \* next[r]: the last item the iteration went past
  after,       \* after[r]: CursorsState.after, 0 when it is None
  partials,    \* partials[r]: CursorsState.partials
  pending,     \* pending[r]: the items of _pendings still being processed
  kept,        \* kept[r]: the items of _pendings that are done
  is_done,     \* is_done[r]: _is_done_event is set
  stored,      \* stored[r]: what the state service has yet to send
  requests,    \* the requests under way to the worker manager
  db,          \* the row of the job: its cursor and its completion
  left         \* the items whose context was left, in any run (history)

runVars  == <<status, next, after, partials, pending, kept, is_done>>
vars == <<runVars, stored, requests, db, left>>

----------------------------------------------------------------------------
(* State formulae *)

NoCursor == [after |-> 0, partials |-> {}]
NoUpdate == [cursor |-> NoCursor, completion |-> "none"]

\* The items a cursor says are done
Covered(c) == {i \in Item : i <= c.after} \cup c.partials

\* The first k items of S
FirstOf(S, k) == {i \in S : Cardinality({j \in S : j <= i}) <= k}

\* CursorsState.as_dict for max_partials m: the items done out of order come
\* first, then any of the partials left from the previous run (islice of a set).
PartialsOf(m, old, done) ==
  IF m = Unlimited THEN {old \cup done}
  ELSE LET own  == FirstOf(done, m)
           room == m - Cardinality(own)
       IN  {own \cup S : S \in {T \in SUBSET old :
              \/ Cardinality(T) = room
              \/ Cardinality(T) < room /\ T = old}}

CursorsOf(r) ==
  {[after |-> after[r], partials |-> p] :
     p \in PartialsOf(MaxPartials[r], partials[r], kept[r] \cap HasCursor)}

----------------------------------------------------------------------------
Init ==
  /\ status = [r \in Run |-> "idle"]
  /\ next = [r \in Run |-> 0]
  /\ after = [r \in Run |-> 0]
  /\ partials = [r \in Run |-> {}]
  /\ pending = [r \in Run |-> {}]
  /\ kept = [r \in Run |-> {}]
  /\ is_done = [r \in Run |-> FALSE]
  /\ stored = [r \in Run |-> NoUpdate]
  /\ requests = {}
  /\ db = NoUpdate
  /\ left = {}

\* The job is assigned with its cursor, unless it is completed: Inventory.run
\* parses it and iterates from `after`.
Start(r) ==
  /\ status[r] = "idle"
  /\ db.completion = "none"
  /\ status' = [status EXCEPT ![r] = "running"]
  /\ next' = [next EXCEPT ![r] = db.cursor.after]
  /\ after' = [after EXCEPT ![r] = db.cursor.after]
  /\ partials' = [partials EXCEPT ![r] = db.cursor.partials]
  /\ UNCHANGED <<pending, kept, is_done, stored, requests, db, left>>

\* The next item is yielded; its message goes to the executor.
YieldItem(r) ==
  LET i == next[r] + 1
  IN  /\ status[r] = "running"
      /\ i \in Item
      /\ i \notin partials[r]
      /\ next' = [next EXCEPT ![r] = i]
      /\ pending' = [pending EXCEPT ![r] = @ \cup {i}]
      /\ is_done' = [is_done EXCEPT ![r] = FALSE]
      /\ UNCHANGED <<status, after, partials, kept, stored, requests, db,
                     left>>

\* Mutant: the last done item becomes `after`, whatever is pending before it.
CommitLast(r, P, K) ==
  LET cursors == K \cap HasCursor
  IN  /\ pending' = [pending EXCEPT ![r] = P]
      /\ kept' = [kept EXCEPT ![r] = {i \in K : \E p \in P : p < i}]
      /\ after' = [after EXCEPT ![r] = IF cursors = {} THEN @ ELSE Max(cursors)]
      /\ is_done' = [is_done EXCEPT ![r] = P = {}]

\* Mutant: the event is checked before the done items are removed.
CommitCheckedFirst(r, P, K) ==
  LET first == {i \in K : \A p \in P : i < p}
      cursors == first \cap HasCursor
  IN  /\ pending' = [pending EXCEPT ![r] = P]
      /\ kept' = [kept EXCEPT ![r] = K \ first]
      /\ after' = [after EXCEPT ![r] = IF cursors = {} THEN @ ELSE Max(cursors)]
      /\ is_done' = [is_done EXCEPT ![r] = P \cup K = {}]

\* The end of process_item, with items P still pending and K done: the done
\* items before every pending one are forgotten and the last of them that has
\* a cursor becomes `after`.  Then _check_has_pendings sets the event.
Commit(r, P, K) ==
  LET first == {i \in K : \A p \in P : i < p}
      cursors == first \cap HasCursor
  IN  /\ pending' = [pending EXCEPT ![r] = P]
      /\ kept' = [kept EXCEPT ![r] = K \ first]
      /\ after' = [after EXCEPT ![r] = IF cursors = {} THEN @ ELSE Max(cursors)]
      /\ is_done' = [is_done EXCEPT ![r] = P \cup (K \ first) = {}]

\* The next item is one of the partials: it is entered, left and not yielded.
SkipItem(r) ==
  LET i == next[r] + 1
  IN  /\ status[r] = "running"
      /\ i \in Item
      /\ i \in partials[r]
      /\ next' = [next EXCEPT ![r] = i]
      /\ partials' = [partials EXCEPT ![r] = @ \ {i}]
      /\ Commit(r, pending[r], kept[r] \cup {i})
      /\ UNCHANGED <<status, stored, requests, db, left>>

\* The inventory is exhausted: Job.run waits for the items in flight.
EndOfInventory(r) ==
  /\ status[r] = "running"
  /\ next[r] = NumItems
  /\ status' = [status EXCEPT ![r] = "joining"]
  /\ is_done' = [is_done EXCEPT ![r] = @ \/ pending[r] \cup kept[r] = {}]
  /\ UNCHANGED <<next, after, partials, pending, kept, stored, requests,
                 db, left>>

\* Mutant: the job does not wait for the items in flight.
CompleteAtOnce(r) ==
  /\ status[r] = "joining"
  /\ status' = [status EXCEPT ![r] = "ended"]
  /\ stored' = [stored EXCEPT ![r].completion = "success"]
  /\ UNCHANGED <<next, after, partials, pending, kept, is_done, requests,
                 db, left>>

\* inventory.join() returns: the job is completed.
Complete(r) ==
  /\ status[r] = "joining"
  /\ is_done[r]
  /\ status' = [status EXCEPT ![r] = "ended"]
  /\ stored' = [stored EXCEPT ![r].completion = "success"]
  /\ UNCHANGED <<next, after, partials, pending, kept, is_done, requests,
                 db, left>>

\* next_batch raises: the job fails at once, with items in flight.
Fail(r) ==
  /\ status[r] = "running"
  /\ status' = [status EXCEPT ![r] = "ended"]
  /\ stored' = [stored EXCEPT ![r].completion = "error"]
  /\ UNCHANGED <<next, after, partials, pending, kept, is_done, requests,
                 db, left>>

\* The context of the message of i is left: its outputs were published, it failed,
\* or the executor that closed while it waited for a resource dropped it.  Then
\* process_item ends, and item_to_topic gives the new cursor, if there is one, to
\* the state service.
Leave(r, i) ==
  /\ status[r] # "crashed"
  /\ i \in pending[r]
  /\ Commit(r, pending[r] \ {i}, kept[r] \cup {i})
  /\ left' = left \cup {i}
  /\ UNCHANGED <<status, next, partials, requests, db>>
  /\ \E c \in CursorsOf(r)' :
       stored' = IF c = NoCursor THEN stored
                 ELSE [stored EXCEPT ![r].cursor = c]

\* The assignment is lost or the worker closes: the queue is removed.
Stop(r) ==
  /\ status[r] \in {"running", "joining"}
  /\ status' = [status EXCEPT ![r] = "ended"]
  /\ UNCHANGED <<next, after, partials, pending, kept, is_done, stored,
                 requests, db, left>>

\* The process dies: what was not sent is lost.
Crash(r) ==
  /\ status[r] \notin {"idle", "crashed"}
  /\ status' = [status EXCEPT ![r] = "crashed"]
  /\ next' = [next EXCEPT ![r] = 0]
  /\ after' = [after EXCEPT ![r] = 0]
  /\ partials' = [partials EXCEPT ![r] = {}]
  /\ pending' = [pending EXCEPT ![r] = {}]
  /\ kept' = [kept EXCEPT ![r] = {}]
  /\ is_done' = [is_done EXCEPT ![r] = FALSE]
  /\ stored' = [stored EXCEPT ![r] = NoUpdate]
  /\ UNCHANGED <<requests, db, left>>

\* The state service sends what it has.  When the request fails, although it
\* may have arrived, the state is restored to be sent again.
Flush(r) ==
  /\ stored[r] # NoUpdate
  /\ Cardinality(requests \cup {stored[r]}) <= MaxRequests
  /\ requests' = requests \cup {stored[r]}
  /\ stored' \in {stored, [stored EXCEPT ![r] = NoUpdate]}
  /\ UNCHANGED <<runVars, db, left>>

\* sync_jobs_states: an absent cursor or completion changes nothing, and an
\* error, once written, stays.
Receive(u) ==
  /\ u \in requests
  /\ requests' = requests \ {u}
  /\ db' = [cursor |-> IF u.cursor = NoCursor THEN db.cursor ELSE u.cursor,
            completion |-> IF "error" \in {db.completion, u.completion} THEN "error"
                           ELSE IF u.completion = "none" THEN db.completion
                           ELSE u.completion]
  /\ UNCHANGED <<runVars, stored, left>>

Next ==
  \/ \E r \in Run :
       \/ Start(r) \/ YieldItem(r) \/ SkipItem(r) \/ EndOfInventory(r)
       \/ Complete(r) \/ Fail(r) \/ Stop(r) \/ Crash(r) \/ Flush(r)
       \/ \E i \in Item : Leave(r, i)
  \/ \E u \in requests : Receive(u)

Spec == Init /\ [][Next]_vars

----------------------------------------------------------------------------
(* Properties *)

CursorType == [after : 0 .. NumItems, partials : SUBSET Item]
Completion == {"none", "success", "error"}
Update == [cursor : CursorType, completion : Completion]

\* The values the variables take.
TypeOK ==
  /\ status \in [Run -> {"idle", "running", "joining", "ended", "crashed"}]
  /\ next \in [Run -> 0 .. NumItems] /\ after \in [Run -> 0 .. NumItems]
  /\ partials \in [Run -> SUBSET Item]
  /\ pending \in [Run -> SUBSET Item] /\ kept \in [Run -> SUBSET Item]
  /\ is_done \in [Run -> BOOLEAN]
  /\ stored \in [Run -> Update] /\ requests \subseteq Update /\ db \in Update
  /\ left \subseteq Item

\* The cursor of the job never covers an item whose context is not left, in
\* any run, whatever crashed, was sent twice or arrived late: resuming from it
\* loses no item that is still to be processed (inventory.py:144-200).
CursorCoversLeft == Covered(db.cursor) \subseteq left

\* A job is only marked as completed once the context of each of its items was
\* left, in one run or another (job.py:43-48, inventory.py:266-277).
CompletedMeansAll ==
  db.completion = "success" => Item \subseteq left

\* A job whose inventory is exhausted never waits for an event nobody is left to
\* set: when nothing is in flight, the event is set (inventory.py:244-272).
JoinWakes ==
  \A r \in Run : status[r] = "joining" /\ pending[r] = {} => is_done[r]
=============================================================================
