---------------------------- MODULE Inventories ----------------------------
(***************************************************************************)
(* A job (worker/job.py) whose inventory is built out of others: one after *)
(* the other (ChainedInventory), together (FanIn), in batches              *)
(* (BatchingInventory), or each item of a root with the items of an        *)
(* inventory of its own (JoinInventory).  Each of them makes one cursor    *)
(* out of those of its inputs, which a later run takes apart again.  A     *)
(* LoopInventory yields its iterations one at a time, until one stops it.  *)
(*                                                                         *)
(* The inputs are 1 .. n; for a joined inventory, 0 is the root and r is   *)
(* the inventory of the root's item r.  A run starts when what an earlier  *)
(* one had in flight is over (module Cursors has overlapping runs).        *)
(***************************************************************************)
EXTENDS CursorsState, FiniteSets, Sequences

CONSTANTS
    Size,               \* Size[k][i]: the number of items of input i, for kind k
    BatchSize,          \* of the batching inventory
    RootConcurrency,    \* of the joined inventory
    Faults,             \* <<kind, fault>>: what may go wrong with which kind
    MaxRuns             \* bound: the runs of the job

Kinds == {"chained", "fanin", "batching", "joined", "loop"}

ASSUME InventoriesAssumption ==
    /\ DOMAIN Size = Kinds
    /\ BatchSize \in Nat \ {0} /\ RootConcurrency \in Nat \ {0} /\ MaxRuns \in Nat
    /\ Faults \subseteq Kinds \X {"crash", "close", "fail"}

ASSUME SizeAssumption ==
    /\ Size["chained"] \in Seq(Nat) /\ Size["fanin"] \in Seq(Nat)
    /\ Size["batching"] \in [{1} -> Nat] /\ Size["loop"] \in [{1} -> Nat]
    /\ Size["joined"][0] \in Nat /\ Size["joined"] \in [0 .. Size["joined"][0] -> Nat]

VARIABLES
    kind,       \* which inventory it is
    status,     \* of the run: "idle", "running", "failing" or "ended"
    inv,        \* inv[i]: the run of input i
    slot,       \* slot[i]: its generator: "none", "running" or "ended"
    settled,    \* settled[i]: its _is_done_event is set
    current,    \* ChainedInventory: the current inventory
    outer,      \* BatchingInventory: the partials of its own CursorsState
    taken,      \* JoinInventory: the item of the root that waits for the semaphore
    active,     \* JoinInventory: the items of the root in process_item
    multi,      \* JoinInventory: MultiCursorsState
    inflight,   \* the messages yielded, each the set of its items
    cursor,     \* the cursor of the job at the worker manager
    completion, \* the completion of the job: "none", "success" or "error"
    runs,       \* the number of runs
    from,       \* the cursor of the current run (history)
    left        \* the items whose message was left, in any run (history)

inputVars == <<inv, slot, settled>>
joinVars == <<taken, active, multi>>
jobVars == <<kind, cursor, completion, runs, from, left>>
inventoryVars == <<status, inputVars, current, outer, joinVars, inflight, jobVars>>

Input == DOMAIN Size[kind]
Items(i) == 1 .. Size[kind][i]
AllItems == UNION {{i} \X Items(i) : i \in Input \ {0}}

Nothing == [current |-> 0, of |-> [i \in Input |-> NoCursor]]

\* FanIn.cursor: that of each input, by its name.
CursorsOf(invs) == [i \in Input |-> CursorOf(invs[i])]

\* ChainedInventory.cursor
CurrentCursor(invs) ==
    [i \in Input |-> IF i = current THEN CursorOf(invs[i]) ELSE NoCursor]

\* SubCursors.process: the inventories of the root's items R give their cursors to
\* the MultiCursorsState.
WithSubs(invs, R) == [i \in Input |-> IF i \in R THEN CursorOf(invs[i]) ELSE multi[i]]

\* The property cursor of each inventory, for the states of its inputs.
JobCursor(invs, m) ==
    [current |-> current,
     of |-> CASE kind = "chained" -> CurrentCursor(invs)
              [] kind = "joined" -> m
              [] OTHER -> CursorsOf(invs)]

\* The items that a run which starts at cursor c goes past.
CoveredBy(c) ==
    {x \in AllItems : LET i == x[1] IN
        \/ Covers(c.of[i], x[2])
        \/ kind = "chained" /\ i < c.current
        \/ kind = "joined" /\ Covers(c.of[0], i)}

InitInventory ==
    /\ kind \in Kinds
    /\ status = "idle"
    /\ inv = [i \in Input |-> Resumed(NoCursor)]
    /\ slot = [i \in Input |-> "none"]
    /\ settled = [i \in Input |-> FALSE]
    /\ current = 0 /\ outer = {}
    /\ taken = 0 /\ active = {} /\ multi = [i \in Input |-> NoCursor]
    /\ inflight = {}
    /\ cursor = Nothing /\ completion = "none" /\ runs = 0 /\ from = Nothing
    /\ left = {}

-----------------------------------------------------------------------------
(* The start of a run.                                                     *)

\* The chained inventory resumes at the inventory that its cursor names.
Resume == IF kind # "chained" THEN 0
          ELSE IF cursor.current = 0 THEN 1 ELSE cursor.current

StartInputs == CASE kind = "chained" -> {Resume}
                 [] kind = "joined" -> {0}
                 [] OTHER -> Input

\* Mutant: the inputs get the position of their cursor, and not its partials.
StartCursorAfter(i) == [cursor.of[i] EXCEPT !.partials = {}]

\* What iterate makes of the job's cursor for each input.  The run method of the
\* batching inventory takes the partials of its input for its own.
StartCursor(i) == IF kind = "batching"
                  THEN [cursor.of[i] EXCEPT !.partials = {}]
                  ELSE cursor.of[i]

\* LoopInventory.iterate begins again at the last iteration that was done.
Began(i) == IF kind = "loop" /\ cursor.of[i].after > 0
            THEN [Resumed(StartCursor(i)) EXCEPT !.next = @ - 1]
            ELSE Resumed(StartCursor(i))

Start ==
    /\ status = "idle" /\ completion = "none"
    /\ inflight = {} /\ runs < MaxRuns
    /\ status' = "running" /\ runs' = runs + 1 /\ from' = cursor
    /\ inv' = [i \in Input |-> Began(i)]
    /\ slot' = [i \in Input |-> IF i \in StartInputs THEN "running" ELSE "none"]
    /\ settled' = [i \in Input |-> FALSE]
    /\ current' = Resume
    /\ outer' = IF kind = "batching" THEN cursor.of[1].partials ELSE {}
    /\ multi' = cursor.of
    /\ UNCHANGED <<kind, taken, active, inflight, cursor, completion, left>>

-----------------------------------------------------------------------------
(* The inputs.                                                             *)

Message(i, S) == {<<i, n>> : n \in S}
Next1(i) == inv[i].next + 1
CanYield(i) == slot[i] = "running" /\ Next1(i) \in Items(i)

\* An input yields its next item, or goes past it: it was done in an earlier run.
\* The context of an iteration of a loop holds the lock that the next one needs.
YieldItem(i) ==
    /\ status = "running"
    /\ kind # "batching" /\ i # 0
    /\ kind = "loop" => inflight = {}
    /\ CanYield(i)
    /\ LET n == Next1(i) IN
       IF n \in inv[i].partials
       THEN /\ inv' = [inv EXCEPT ![i] = Skipped(@, n)]
            /\ settled' = [settled EXCEPT ![i] = inv[i].pending = {}]
            /\ UNCHANGED inflight
       ELSE /\ inv' = [inv EXCEPT ![i] = Entered(@, {n})]
            /\ settled' = [settled EXCEPT ![i] = FALSE]
            /\ inflight' = inflight \cup {Message(i, {n})}
    /\ UNCHANGED <<slot, status, current, outer, joinVars, jobVars>>

\* BatchingInventory.iterate: a message holds the next items of the input, with the
\* cursor of the last.  When that cursor is one of the partials, the batch is left at
\* once.
YieldBatch ==
    /\ status = "running"
    /\ kind = "batching"
    /\ CanYield(1)
    /\ LET S == {n \in Items(1) : inv[1].next < n /\ n <= inv[1].next + BatchSize}
           entered == Entered(inv[1], S)
       IN  IF Max(S) \in outer
           THEN /\ inv' = [inv EXCEPT ![1] = Left(entered, S)]
                /\ outer' = outer \ {Max(S)}
                /\ UNCHANGED inflight
           ELSE /\ inv' = [inv EXCEPT ![1] = entered]
                /\ inflight' = inflight \cup {Message(1, S)}
                /\ UNCHANGED outer
    /\ settled' = [settled EXCEPT ![1] = inv'[1].pending = {}]
    /\ UNCHANGED <<slot, status, current, joinVars, jobVars>>

\* Mutant: the end of an input does not look whether something is pending.
EndInputUnchecked(i) ==
    /\ status = "running"
    /\ slot[i] = "running" /\ Next1(i) \notin Items(i)
    /\ IF kind = "chained" /\ i + 1 \in Input
       THEN /\ current' = i + 1
            /\ slot' = [slot EXCEPT ![i] = "ended", ![i + 1] = "running"]
       ELSE /\ slot' = [slot EXCEPT ![i] = "ended"]
            /\ UNCHANGED current
    /\ UNCHANGED <<inv, settled, status, outer, joinVars, inflight, jobVars>>

\* An input has no more items.  The chained inventory goes on with the next one.
EndInput(i) ==
    /\ status = "running"
    /\ slot[i] = "running" /\ Next1(i) \notin Items(i)
    /\ settled' = [settled EXCEPT ![i] = @ \/ inv[i].pending = {}]
    /\ IF kind = "chained" /\ i + 1 \in Input
       THEN /\ current' = i + 1
            /\ slot' = [slot EXCEPT ![i] = "ended", ![i + 1] = "running"]
       ELSE /\ slot' = [slot EXCEPT ![i] = "ended"]
            /\ UNCHANGED current
    /\ UNCHANGED <<inv, status, outer, joinVars, inflight, jobVars>>

\* The pipeline of an iteration emits a StopLoopEvent: it is the last one.
StopLoop ==
    /\ status = "running"
    /\ kind = "loop" /\ inflight # {}
    /\ slot[1] = "running"
    /\ slot' = [slot EXCEPT ![1] = "ended"]
    /\ UNCHANGED <<inv, settled, status, current, outer, joinVars, inflight, jobVars>>

-----------------------------------------------------------------------------
(* The joined inventory.                                                   *)

\* join_inventories takes the next item of the root.
TakeRoot ==
    /\ status = "running"
    /\ kind = "joined" /\ taken = 0
    /\ CanYield(0)
    /\ LET r == Next1(0) IN
       IF r \in inv[0].partials
       THEN inv' = [inv EXCEPT ![0] = Skipped(@, r)] /\ UNCHANGED taken
       ELSE inv' = [inv EXCEPT ![0] = Entered(@, {r})] /\ taken' = r
    /\ UNCHANGED <<slot, settled, status, current, outer, active, multi, inflight, jobVars>>

\* It has the semaphore: the inventory of the item is scheduled.
AddSub ==
    /\ status = "running"
    /\ taken # 0 /\ Cardinality(active) < RootConcurrency
    /\ slot' = [slot EXCEPT ![taken] = "running"]
    /\ active' = active \cup {taken} /\ taken' = 0
    /\ UNCHANGED <<inv, settled, status, current, outer, multi, inflight, jobVars>>

\* The items of R leave process_item: they are done for the root, its cursor is the
\* one to resume after, and those of their inventories are dropped.
LeaveRoot(R) ==
    LET root == Left(inv[0], R) IN
    /\ inv' = [inv EXCEPT ![0] = root]
    /\ multi' = [i \in Input |-> IF i = 0 THEN CursorOf(root)
                                 ELSE IF i \in R THEN NoCursor ELSE multi[i]]
    /\ active' = active \ R

\* Mutant: an item of the root is done when its inventory has no more items.
RootDoneEarly(r) ==
    /\ status = "running"
    /\ r \in active /\ slot[r] = "ended"
    /\ LeaveRoot({r})
    /\ UNCHANGED <<slot, settled, status, current, outer, taken, inflight, jobVars>>

\* process_item: the inventory of the item ended and nothing of it is pending.
RootDone(r) ==
    /\ status = "running"
    /\ r \in active /\ slot[r] = "ended" /\ settled[r]
    /\ LeaveRoot({r})
    /\ UNCHANGED <<slot, settled, status, current, outer, taken, inflight, jobVars>>

-----------------------------------------------------------------------------
(* The job.                                                                *)

ItemsOf(m, i) == {x[2] : x \in {y \in m : y[1] = i}}

\* A message is left: its items are done for their input, and item_to_topic gives
\* the cursor of the job to the state service, from where it may be lost by a crash.
Leave(m) ==
    LET invs == [i \in Input |-> Left(inv[i], ItemsOf(m, i))]
        parts == IF kind = "joined" THEN WithSubs(invs, {x[1] : x \in m}) ELSE multi
    IN  /\ inv' = invs /\ multi' = parts
        /\ settled' = [i \in Input |-> \/ settled[i]
                                       \/ ItemsOf(m, i) # {} /\ invs[i].pending = {}]
        /\ inflight' = inflight \ {m}
        /\ left' = left \cup m
        /\ cursor' \in {cursor, JobCursor(invs, parts)}
        /\ UNCHANGED <<status, slot, current, outer, taken, active,
                       kind, completion, runs, from>>

Ends(c) == status' = "ended" /\ completion' = c

\* Mutant: the job does not join its inventory.
CompleteUnjoined ==
    /\ status = "running"
    /\ \A i \in Input : slot[i] # "running"
    /\ taken = 0 /\ active = {}
    /\ Ends("success")
    /\ UNCHANGED <<inputVars, current, outer, joinVars, inflight,
                   kind, cursor, runs, from, left>>

\* Job.run: the inventory is gone over, and it is joined.
Complete ==
    /\ status = "running"
    /\ \A i \in Input : slot[i] # "running"
    /\ taken = 0 /\ active = {}
    /\ kind # "joined" => inflight = {}
    /\ Ends("success")
    /\ UNCHANGED <<inputVars, current, outer, joinVars, inflight,
                   kind, cursor, runs, from, left>>

-----------------------------------------------------------------------------
(* What goes wrong.                                                        *)

May(fault) == <<kind, fault>> \in Faults

\* The generator of the joined inventory ends early: process_item is cancelled for
\* all the items of the root that it is at.
StopJoin == /\ LeaveRoot(active)
            /\ taken' = 0
            /\ slot' = [i \in Input |-> "ended"]
            /\ UNCHANGED settled

\* The queue of the job is removed, or its executor closes.
CloseJob ==
    /\ status = "running" /\ May("close")
    /\ status' = "idle"
    /\ IF kind = "joined" THEN StopJoin ELSE UNCHANGED <<inputVars, joinVars>>
    /\ UNCHANGED <<current, outer, inflight, jobVars>>

\* The process of the worker dies.
Crash ==
    /\ May("crash") /\ status # "idle" /\ completion = "none"
    /\ status' = "idle"
    /\ inflight' = {} /\ taken' = 0 /\ active' = {}
    /\ UNCHANGED <<inputVars, current, outer, multi, jobVars>>

\* An input raises, its retries used.
Raises(i) ==
    /\ status = "running" /\ May("fail")
    /\ slot[i] = "running"
    /\ UNCHANGED <<current, outer, inflight, kind, cursor, runs, from, left>>

\* It goes through iterate, and the job fails.
InputFails(i) ==
    /\ kind \in {"chained", "batching"}
    /\ Raises(i)
    /\ Ends("error")
    /\ UNCHANGED <<inputVars, joinVars>>

\* iterators.Scheduler cancels the other iterators first.
FanInFails(i) ==
    /\ kind = "fanin"
    /\ Raises(i)
    /\ status' = "failing"
    /\ slot' = [slot EXCEPT ![i] = "ended"]
    /\ UNCHANGED <<inv, settled, joinVars, completion>>

\* What another iterator returned at the same time is still yielded.
YieldReady(i) ==
    /\ status = "failing"
    /\ CanYield(i) /\ Next1(i) \notin inv[i].partials
    /\ inv' = [inv EXCEPT ![i] = Entered(@, {Next1(i)})]
    /\ settled' = [settled EXCEPT ![i] = FALSE]
    /\ inflight' = inflight \cup {Message(i, {Next1(i)})}
    /\ slot' = [slot EXCEPT ![i] = "ended"]
    /\ UNCHANGED <<status, current, outer, joinVars, jobVars>>

JobFails ==
    /\ status = "failing"
    /\ Ends("error")
    /\ UNCHANGED <<inputVars, current, outer, joinVars, inflight,
                   kind, cursor, runs, from, left>>

\* The scheduler of the joined inventory logs what the inventory of an item raises,
\* and goes on as if it had ended.
SubFails(r) ==
    /\ kind = "joined" /\ r # 0
    /\ Raises(r)
    /\ slot' = [slot EXCEPT ![r] = "ended"]
    /\ UNCHANGED <<inv, settled, status, completion, joinVars>>

\* What the root raises ends join_inventories, whose task is only logged.
RootFails ==
    /\ kind = "joined"
    /\ Raises(0)
    /\ StopJoin
    /\ Ends("success")

-----------------------------------------------------------------------------
Step == \/ Start \/ YieldBatch \/ TakeRoot \/ AddSub \/ Complete \/ JobFails
        \/ \E i \in Input : YieldItem(i) \/ EndInput(i) \/ RootDone(i)
        \/ \E m \in inflight : Leave(m)

Fault == \/ CloseJob \/ Crash
         \/ \E i \in Input : InputFails(i) \/ FanInFails(i) \/ YieldReady(i)

NextInventory == Step \/ StopLoop \/ Fault

InventorySpec == InitInventory /\ [][NextInventory]_inventoryVars

\* The coroutines go on, the messages are left.
FairInventorySpec == InventorySpec /\ WF_inventoryVars(Step)

\* With the inputs of the joined inventory that raise.
NextFailing == NextInventory \/ RootFails \/ \E r \in Input : SubFails(r)
SpecFailing == InitInventory /\ [][NextFailing]_inventoryVars

-----------------------------------------------------------------------------
(* Properties.                                                             *)

\* Whatever the inventory is made of, the cursor that a later run resumes at goes
\* past nothing that is still to be yielded: what is past was left, in this run or
\* an earlier one.  The cursor of a chained inventory also goes past what is still
\* in flight of the inventories before the current one.
CursorCoversLeft ==
    CoveredBy(cursor) \subseteq left \cup (IF kind = "chained" THEN UNION inflight ELSE {})

\* A run yields nothing that the cursor it started at goes past, but for the last
\* iteration of a loop, which is done again.
NothingTwice ==
    \A m \in inflight : \A x \in m \cap CoveredBy(from) :
        kind = "loop" /\ x[2] = from.of[1].after

\* The job completes only when every item of every input was left: iterate "goes over
\* the whole inventory", and its join waits for what is pending.  A loop that was
\* stopped goes over what it began.
GoesOverAll ==
    completion = "success" => \/ left = AllItems
                              \/ kind = "loop" /\ Message(1, 1 .. inv[1].next) \subseteq left

\* A run that starts ends: every item of the root gives its place to the next, and
\* the join of each inventory is awoken.
RunEnds == status = "running" ~> status # "running"
=============================================================================
