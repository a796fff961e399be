------------------------------ MODULE Executor ------------------------------
(***************************************************************************)
(* One executor of a worker and the job queues it serves (worker/executors: *)
(* executable.py, scheduler.py, queue.py, parkers.py, manager.py).          *)
(*                                                                          *)
(* Each job queue is an async generator (ExecutableQueue.run) that polls a  *)
(* message from its topic, waits while the queue is parked and yields the   *)
(* message.  The scheduler keeps one __anext__ task per queue and goes      *)
(* through the finished ones in batches; each message it yields is          *)
(* submitted: it needs a resource, if its queue uses one, and a place in    *)
(* the executor queue, which holds one message.  Workers execute messages;  *)
(* the outputs are published by another task, which owns the context of the *)
(* message from then on.  Queues are removed at any time; the executor      *)
(* closes in phases.                                                        *)
(***************************************************************************)
EXTENDS Integers, FiniteSets, SequencesExt

CONSTANTS
  Queue,           \* the job queues
  MaxMsg,          \* bound: MaxMsg[q] messages in the topic of queue q
  UsesResource,    \* the queues whose pipeline needs the resource
  NumResources,    \* how many resources of the type there are
  MaxConcurrency,  \* MaxConcurrency[q]: the semaphore of queue q
  Concurrency      \* executor.concurrency: the number of run_queue tasks

ASSUME ExecutorAssumption ==
  /\ IsFiniteSet(Queue)
  /\ MaxMsg \in [Queue -> Nat]
  /\ UsesResource \subseteq Queue
  /\ NumResources \in Nat \ {0}
  /\ MaxConcurrency \in [Queue -> Nat \ {0}]
  /\ Concurrency \in Nat \ {0}

Msg == UNION {{q} \X (1 .. MaxMsg[q]) : q \in Queue}
NoMsg == <<>>
QueueOf(m) == m[1]

VARIABLES
  stage,      \* stage[m]: where message m is
  gen,        \* gen[q]: where the generator of q is suspended
  how,        \* how[q]: why the generator of q closes
  polled,     \* polled[q]: how many messages q has polled
  counted,    \* the messages in the pending_messages_count of their queue
  entered,    \* the messages that hold the semaphore of their queue
  outputs,    \* outputs[q]: the output topics of q are "open" or "closed"
  parkers,    \* parkers[q]: the messages that park q
  slot,       \* slot[q]: the schedule slot of q
  order,      \* order[q]: how many times q was requeued
  group,      \* the queues whose __anext__ task is in the tasks group
  batch,      \* the queues left of the batch being processed
  run,        \* where Scheduler.run and ExecutorWorker.run are suspended
  putter,     \* the message that holds submit_lock, blocked in queue.put
  queue,      \* the message in the executor queue (maxsize=1), or NoMsg
  holding,    \* the messages that hold a resource
  phase,      \* how far ExecutorWorker.close has gone
  closing,    \* the queues whose task Scheduler.close waits for
  passed      \* passed[q][p]: messages of p submitted since q has one ready
              \* (history)

genVars   == <<gen, how, polled, entered, outputs>>
schedVars == <<slot, order, group, batch, run, passed>>
submitVars == <<putter, queue, holding>>
vars == <<stage, genVars, counted, parkers, schedVars, submitVars, phase,
          closing>>

----------------------------------------------------------------------------
(* State formulae *)

Current(q) == <<q, polled[q]>>
At(s) == {m \in Msg : stage[m] = s}
CountedOf(q) == {m \in counted : QueueOf(m) = q}

\* The __anext__ task of q is not done
Pending(q) ==
  \/ gen[q] \in {"polling", "parked"}
  \/ gen[q] = "closing" /\ how[q] # "aclose"

\* The __anext__ task of q is done and not yet processed
Finished(q) == q \in group /\ ~Pending(q)

InFlight ==
  At("yielded") \cup At("scheduled") \cup At("resource") \cup At("delayed")
    \cup At("queued") \cup At("executing") \cup At("publishing")
    \cup At("blocked")

NeedsResource(m) == QueueOf(m) \in UsesResource
ResourceFree == Cardinality(holding) < NumResources

\* The executor still takes messages: is_running of the ExecutorQueue
Polling == phase \in {"running", "scheduler"}

----------------------------------------------------------------------------
Init ==
  /\ stage = [m \in Msg |-> "topic"]
  /\ gen = [q \in Queue |-> "none"]
  /\ how = [q \in Queue |-> "none"]
  /\ polled = [q \in Queue |-> 0]
  /\ counted = {}
  /\ entered = {}
  /\ outputs = [q \in Queue |-> "open"]
  /\ parkers = [q \in Queue |-> {}]
  /\ slot = [q \in Queue |-> "none"]
  /\ order = [q \in Queue |-> 0]
  /\ group = {}
  /\ batch = <<>>
  /\ run = "waiting"
  /\ putter = NoMsg
  /\ queue = NoMsg
  /\ holding = {}
  /\ phase = "running"
  /\ closing = {}
  /\ passed = [q \in Queue |-> [p \in Queue |-> 0]]

----------------------------------------------------------------------------
(* The generator of a queue *)

\* Scheduler.add: the first __anext__ task.
AddQueue(q) ==
  /\ phase = "running"
  /\ gen[q] = "none"
  /\ gen' = [gen EXCEPT ![q] = "polling"]
  /\ slot' = [slot EXCEPT ![q] = "running"]
  /\ group' = group \cup {q}
  /\ UNCHANGED <<stage, how, polled, counted, entered, outputs, parkers, order,
                 batch, run, putter, queue, holding, phase, closing, passed>>

\* The topic delivers a message, once the semaphore of the queue lets it in.
PollMessage(q) ==
  LET m == <<q, polled[q] + 1>>
  IN  /\ gen[q] = "polling"
      /\ polled[q] < MaxMsg[q]
      /\ Cardinality({e \in entered : QueueOf(e) = q}) < MaxConcurrency[q]
      /\ gen' = [gen EXCEPT ![q] = "parked"]
      /\ polled' = [polled EXCEPT ![q] = @ + 1]
      /\ stage' = [stage EXCEPT ![m] = "parked"]
      /\ entered' = entered \cup {m}
      /\ UNCHANGED <<how, counted, outputs, parkers, schedVars, putter, queue,
                     holding, phase, closing>>

\* parkers.wait() returns: the message counts as pending and is yielded.
YieldMessage(q) ==
  /\ gen[q] = "parked"
  /\ parkers[q] = {}
  /\ gen' = [gen EXCEPT ![q] = "yielded"]
  /\ stage' = [stage EXCEPT ![Current(q)] = "yielded"]
  /\ counted' = counted \cup {Current(q)}
  /\ UNCHANGED <<how, polled, entered, outputs, parkers, schedVars, putter,
                 queue, holding, phase, closing>>

\* The topic ends: the generator closes the queue.
TopicEnds(q) ==
  /\ gen[q] = "polling"
  /\ gen' = [gen EXCEPT ![q] = "closing"]
  /\ how' = [how EXCEPT ![q] = "stop"]
  /\ UNCHANGED <<stage, polled, counted, entered, outputs, parkers, schedVars,
                 putter, queue, holding, phase, closing>>

\* The exit of the context of m, whatever raised: the semaphore is released
\* and the count goes down, unless the generator did it already.
LeaveContext(m) ==
  /\ counted' = counted \ {m}
  /\ entered' = entered \ {m}

\* Mutant: the outputs are closed at once.
FinishCloseAtOnce(q) ==
  /\ gen[q] = "closing"
  /\ gen' = [gen EXCEPT ![q] = "closed"]
  /\ outputs' = [outputs EXCEPT ![q] = "closed"]
  /\ IF how[q] = "aclose"
       THEN run' = "processing" /\ batch' = Tail(batch)
       ELSE UNCHANGED <<run, batch>>
  /\ UNCHANGED <<stage, how, polled, counted, entered, parkers, slot, order,
                 group, putter, queue, holding, phase, closing, passed>>

\* ExecutableQueue.close: once the count is zero the outputs are closed.  If
\* the scheduler waits for it (aclose), it goes on.
FinishClose(q) ==
  /\ gen[q] = "closing"
  /\ CountedOf(q) = {}
  /\ gen' = [gen EXCEPT ![q] = "closed"]
  /\ outputs' = [outputs EXCEPT ![q] = "closed"]
  /\ IF how[q] = "aclose"
       THEN run' = "processing" /\ batch' = Tail(batch)
       ELSE UNCHANGED <<run, batch>>
  /\ UNCHANGED <<stage, how, polled, counted, entered, parkers, slot, order,
                 group, putter, queue, holding, phase, closing, passed>>

\* task.cancel() on the pending tasks of Q.  A generator that polls or is
\* parked closes its queue, and the message it had polled is dropped; one that
\* was closing stops waiting and leaves the outputs as they are.
CancelTasks(Q) ==
  /\ gen' = [q \in Queue |->
               IF q \notin Q THEN gen[q]
               ELSE IF gen[q] = "closing" THEN "closed" ELSE "closing"]
  /\ how' = [q \in Queue |-> IF q \in Q THEN "cancel" ELSE how[q]]
  /\ stage' = [m \in Msg |->
                 IF stage[m] = "parked" /\ QueueOf(m) \in Q THEN "dropped"
                 ELSE stage[m]]

----------------------------------------------------------------------------
(* The scheduler *)

\* Scheduler.remove: the slot stops; a pending task is cancelled, a finished
\* one is still to be processed.
RemoveQueue(q) ==
  /\ slot[q] = "running"
  /\ slot' = [slot EXCEPT ![q] = "stopped"]
  /\ CancelTasks({q} \cap {p \in Queue : Pending(p)})
  /\ UNCHANGED <<polled, counted, entered, outputs, parkers, order, group,
                 batch, run, putter, queue, holding, phase, closing, passed>>

\* tasks_group.wait() returns every finished task; they are processed by
\* increasing order.  After Scheduler.close has cleared the group, the wait that
\* was under way is the last.
Batches(done) ==
  {s \in SetToSeqs(done) :
     \A i, j \in DOMAIN s : i < j => order[s[i]] <= order[s[j]]}

\* Mutant: the wait returns one finished task, whichever.
WaitTasksForOne ==
  \E q \in Queue :
    /\ run = "waiting"
    /\ Finished(q)
    /\ batch' = <<q>>
    /\ group' = group \ {q}
    /\ run' = "processing"
    /\ UNCHANGED <<stage, genVars, counted, parkers, slot, order, putter, queue,
                   holding, phase, closing, passed>>

\* Mutant: the finished tasks stay in the group.
WaitTasksKeeping ==
  LET done == {q \in Queue : Finished(q)}
  IN  /\ run = "waiting"
      /\ done # {}
      /\ batch' \in Batches(done)
      /\ run' = "processing"
      /\ UNCHANGED <<stage, genVars, counted, parkers, slot, order, group, putter,
                     queue, holding, phase, closing, passed>>

WaitTasks ==
  LET done == {q \in Queue : Finished(q)}
  IN  /\ run = "waiting"
      /\ done # {}
      /\ batch' \in Batches(done)
      /\ group' = IF Polling THEN group \ done ELSE {}
      /\ run' = "processing"
      /\ UNCHANGED <<stage, genVars, counted, parkers, slot, order, putter,
                     queue, holding, phase, closing, passed>>

\* The batch is over: wait again, or end once closed with no task left.
EndBatch ==
  /\ run = "processing"
  /\ batch = <<>>
  /\ run' = "waiting"
  /\ UNCHANGED <<stage, genVars, counted, parkers, slot, order, group, batch,
                 putter, queue, holding, phase, closing, passed>>

EndRun ==
  /\ run = "waiting"
  /\ phase # "running"
  /\ group = {}
  /\ run' = "ended"
  /\ UNCHANGED <<stage, genVars, counted, parkers, slot, order, group, batch,
                 putter, queue, holding, phase, closing, passed>>

\* process_task of a task that did not yield a message.  A cancelled task is
\* forgotten with its slot in place; at the end of a queue its slot goes.
ProcessEnded ==
  LET q == Head(batch)
  IN  /\ run = "processing"
      /\ batch # <<>>
      /\ gen[q] = "closed"
      /\ batch' = Tail(batch)
      /\ slot' = IF how[q] = "stop" THEN [slot EXCEPT ![q] = "none"] ELSE slot
      /\ UNCHANGED <<stage, genVars, counted, parkers, order, group, run,
                     putter, queue, holding, phase, closing, passed>>

\* process_task yields the message of a task, to be submitted.
ProcessMessage ==
  LET q == Head(batch)
  IN  /\ run = "processing"
      /\ batch # <<>>
      /\ gen[q] = "yielded"
      /\ stage' = [stage EXCEPT ![Current(q)] = "scheduled"]
      /\ run' = "submitting"
      /\ passed' = [p \in Queue |->
                      IF p # q /\ gen[p] = "yielded" /\ stage[Current(p)] = "yielded"
                        THEN [passed[p] EXCEPT ![q] = @ + 1]
                        ELSE [r \in Queue |-> 0]]
      /\ UNCHANGED <<genVars, counted, parkers, slot, order, group, batch,
                     putter, queue, holding, phase, closing>>

\* The message of q is submitted: its next __anext__ task is created, or, if q
\* was removed meanwhile, its generator is closed.  The generator is suspended
\* at the yield: the GeneratorExit leaves pending_context, which stops counting
\* the message, and then waits for the others.
Requeue(q) ==
  /\ gen' = [gen EXCEPT ![q] = "polling"]
  /\ order' = [order EXCEPT ![q] = @ + 1]
  /\ group' = group \cup {q}
  /\ batch' = Tail(batch)
  /\ run' = "processing"
  /\ UNCHANGED <<how, slot, counted>>

CloseGenerator(q) ==
  /\ slot' = [slot EXCEPT ![q] = "none"]
  /\ counted' = counted \ {Current(q)}
  /\ gen' = [gen EXCEPT ![q] = "closing"]
  /\ how' = [how EXCEPT ![q] = "aclose"]
  /\ run' = "aclosing"
  /\ UNCHANGED <<order, group, batch>>

AfterYield(q) ==
  IF slot[q] = "running" THEN Requeue(q) ELSE CloseGenerator(q)

----------------------------------------------------------------------------
(* ExecutorQueue.submit and the delayed submits *)

Unpark(m) == parkers' = [parkers EXCEPT ![QueueOf(m)] = @ \ {m}]

\* The context of its resources is entered, and exited with its execution.
AttachResources(m) == holding' = holding \cup {m}

\* queue.put: the message takes the place in the executor queue, or its task
\* blocks, with submit_lock.
Put(m) ==
  IF queue = NoMsg
    THEN /\ queue' = m
         /\ stage' = [stage EXCEPT ![m] = "queued"]
         /\ UNCHANGED putter
    ELSE putter' = m /\ UNCHANGED <<queue, stage>>

\* ExecutorWorker.run submits the message of the scheduler.  Without a free
\* resource, the queue is parked and a task waits for the resource; else the
\* scheduler goes on when the message is in the executor queue.
Submit ==
  LET q == Head(batch)
      m == Current(q)
  IN  /\ run = "submitting"
      /\ stage[m] = "scheduled"
      /\ putter = NoMsg
      /\ IF NeedsResource(m) /\ ~ResourceFree
           THEN /\ parkers' = [parkers EXCEPT ![q] = @ \cup {m}]
                /\ stage' = [stage EXCEPT ![m] = "resource"]
                /\ AfterYield(q)
                /\ UNCHANGED <<queue, putter, holding>>
           ELSE /\ IF NeedsResource(m) THEN AttachResources(m) ELSE UNCHANGED holding
                /\ Put(m)
                /\ IF queue = NoMsg
                     THEN AfterYield(q)
                     ELSE UNCHANGED <<gen, how, counted, slot, order, group, batch, run>>
                /\ UNCHANGED parkers
      /\ UNCHANGED <<polled, entered, outputs, phase, closing, passed>>

\* The worker took the message that filled the queue: the blocked put is done.
PutDone ==
  LET m == putter
  IN  /\ putter # NoMsg
      /\ queue = NoMsg
      /\ queue' = m
      /\ putter' = NoMsg
      /\ IF stage[m] = "scheduled"
           THEN AfterYield(QueueOf(m))
           ELSE UNCHANGED <<gen, how, counted, slot, order, group, batch, run>>
      /\ stage' = [stage EXCEPT ![m] = "queued"]
      /\ UNCHANGED <<polled, entered, outputs, parkers, holding, phase, closing,
                     passed>>

\* delayed_submit: the resource is acquired and the queue unparked, ...
AcquireDelayed(m) ==
  /\ stage[m] = "resource"
  /\ ResourceFree
  /\ AttachResources(m)
  /\ Unpark(m)
  /\ stage' = [stage EXCEPT ![m] = "delayed"]
  /\ UNCHANGED <<genVars, counted, schedVars, putter, queue, phase, closing>>

\* ... then the message is put in the executor queue.
SubmitDelayed(m) ==
  /\ stage[m] = "delayed"
  /\ putter = NoMsg
  /\ Put(m)
  /\ UNCHANGED <<genVars, counted, parkers, schedVars, holding, phase, closing>>

----------------------------------------------------------------------------
(* ExecutorQueue.run_queue, process_results and consume_output *)

\* A worker takes the message of the queue.
Poll ==
  /\ Polling
  /\ queue # NoMsg
  /\ Cardinality(At("executing")) < Concurrency
  /\ stage' = [stage EXCEPT ![queue] = "executing"]
  /\ queue' = NoMsg
  /\ UNCHANGED <<genVars, counted, parkers, schedVars, putter, holding, phase,
                 closing>>

\* The pipeline returned results: the context of the message goes to the task
\* that publishes them, and the resource is released at once.
Executed(m) ==
  /\ stage[m] = "executing"
  /\ stage' = [stage EXCEPT ![m] = "publishing"]
  /\ holding' = holding \ {m}
  /\ UNCHANGED <<genVars, counted, parkers, schedVars, putter, queue, phase,
                 closing>>

\* Mutant: a failed pipeline keeps its resource.
ExecuteFailsHolding(m) ==
  /\ stage[m] = "executing"
  /\ stage' = [stage EXCEPT ![m] = "done"]
  /\ LeaveContext(m)
  /\ UNCHANGED <<gen, how, polled, outputs, parkers, schedVars, putter, queue,
                 holding, phase, closing>>

\* The pipeline failed and no output takes the error, or its task is cancelled
\* by the close: the contexts of the message are left.
ExecuteFails(m) ==
  /\ stage[m] = "executing"
  /\ stage' = [stage EXCEPT ![m] = "done"]
  /\ holding' = holding \ {m}
  /\ LeaveContext(m)
  /\ UNCHANGED <<gen, how, polled, outputs, parkers, schedVars, putter, queue,
                 phase, closing>>

\* An output topic is full: the queue is parked until it takes the message.
PublishBlocks(m) ==
  /\ stage[m] = "publishing"
  /\ stage' = [stage EXCEPT ![m] = "blocked"]
  /\ parkers' = [parkers EXCEPT ![QueueOf(m)] = @ \cup {m}]
  /\ UNCHANGED <<genVars, counted, schedVars, putter, queue, holding, phase,
                 closing>>

\* consume_output ends, with success, an error or a cancellation.
Published(m) ==
  /\ stage[m] \in {"publishing", "blocked"}
  /\ stage' = [stage EXCEPT ![m] = "done"]
  /\ Unpark(m)
  /\ LeaveContext(m)
  /\ UNCHANGED <<gen, how, polled, outputs, schedVars, putter, queue, holding,
                 phase, closing>>

----------------------------------------------------------------------------
(* ExecutorWorker.close *)

\* Mutant: the pending tasks are waited for but not cancelled.
StartClosePatiently ==
  /\ phase = "running"
  /\ phase' = "scheduler"
  /\ closing' = {q \in group : Pending(q)}
  /\ UNCHANGED <<stage, genVars, counted, parkers, schedVars, putter, queue,
                 holding>>

\* Scheduler.close cancels the pending tasks and waits for them.
StartClose ==
  LET pending == {q \in group : Pending(q)}
  IN  /\ phase = "running"
      /\ phase' = "scheduler"
      /\ closing' = pending
      /\ CancelTasks(pending)
      /\ UNCHANGED <<polled, counted, entered, outputs, parkers, schedVars,
                     putter, queue, holding>>

\* They are done: the group is cleared, unless Scheduler.run is in the middle
\* of a wait, and every slot is stopped, with the tasks queued meanwhile.  Then
\* ExecutorQueue.close stops the workers.
CloseScheduler ==
  /\ phase = "scheduler"
  /\ \A q \in closing : gen[q] = "closed"
  /\ phase' = "workers"
  /\ group' = IF run = "waiting" THEN group ELSE {}
  /\ slot' = [q \in Queue |-> IF slot[q] = "none" THEN "none" ELSE "stopped"]
  /\ CancelTasks({q \in Queue : slot[q] # "none" /\ Pending(q)})
  /\ UNCHANGED <<polled, counted, entered, outputs, parkers, order, batch, run,
                 putter, queue, holding, closing, passed>>

\* The workers are gone: the delayed submits are cancelled.  One that waits for
\* its resource unparks its queue; one that has it drops it with the message.
CancelSubmits ==
  /\ phase = "workers"
  /\ At("executing") = {}
  /\ phase' = "consuming"
  /\ stage' = [m \in Msg |-> IF stage[m] \in {"resource", "delayed"}
                               THEN "dropped" ELSE stage[m]]
  /\ parkers' = [q \in Queue |-> parkers[q] \ At("resource")]
  /\ putter' = IF putter \in At("delayed") THEN NoMsg ELSE putter
  /\ UNCHANGED <<genVars, counted, schedVars, queue, holding, closing>>

\* The publishing tasks are done too: the executor is closed.
CloseExecutor ==
  /\ phase = "consuming"
  /\ At("publishing") \cup At("blocked") = {}
  /\ phase' = "closed"
  /\ UNCHANGED <<stage, genVars, counted, parkers, schedVars, putter, queue,
                 holding, closing>>

----------------------------------------------------------------------------
Next ==
  \/ \E q \in Queue :
       \/ AddQueue(q) \/ RemoveQueue(q)
       \/ PollMessage(q) \/ YieldMessage(q) \/ TopicEnds(q) \/ FinishClose(q)
  \/ WaitTasks \/ EndBatch \/ EndRun \/ ProcessEnded \/ ProcessMessage
  \/ Submit \/ PutDone \/ Poll
  \/ \E m \in Msg :
       \/ AcquireDelayed(m) \/ SubmitDelayed(m)
       \/ Executed(m) \/ ExecuteFails(m) \/ PublishBlocks(m) \/ Published(m)
  \/ StartClose \/ CloseScheduler \/ CancelSubmits \/ CloseExecutor

Spec == Init /\ [][Next]_vars

\* asyncio runs every task that can go on; pipelines end, and publishes too:
\* they have a place downstream or a time out at the close.  The topics, the
\* synchronisation that adds and removes queues and the close of the worker
\* promise nothing.
Fairness ==
  /\ \A q \in Queue : WF_vars(YieldMessage(q)) /\ WF_vars(FinishClose(q))
  /\ WF_vars(WaitTasks) /\ WF_vars(EndBatch) /\ WF_vars(EndRun)
  /\ WF_vars(ProcessEnded) /\ WF_vars(ProcessMessage)
  /\ WF_vars(Submit) /\ WF_vars(PutDone) /\ WF_vars(Poll)
  /\ \A m \in Msg :
       /\ WF_vars(AcquireDelayed(m)) /\ WF_vars(SubmitDelayed(m))
       /\ WF_vars(Executed(m) \/ ExecuteFails(m))
       /\ WF_vars(Published(m))
  /\ WF_vars(CloseScheduler) /\ WF_vars(CancelSubmits) /\ WF_vars(CloseExecutor)

FairSpec == Spec /\ Fairness

----------------------------------------------------------------------------
(* Properties *)

\* Scheduler: as long as it is not closed, the task of each queue it serves is
\* in exactly one place, the tasks group or the batch being processed: no queue
\* is forgotten, and none runs two __anext__ at a time.
OneTaskPerQueue ==
  phase = "running" =>
    \A q \in Queue :
      LET places == {i \in DOMAIN batch : batch[i] = q}
      IN  slot[q] = "running" =>
            Cardinality(places) + (IF q \in group THEN 1 ELSE 0) = 1

\* ExecutableQueue.close: the outputs of a queue are closed under no message in
\* flight except the one at whose yield the generator was closed.
OutputsOutliveCounted ==
  \A m \in InFlight :
    outputs[QueueOf(m)] = "closed" =>
      how[QueueOf(m)] = "aclose" /\ m = Current(QueueOf(m))

\* ExecutorWorker.run "keep polling the queues in round-robin": a queue with a
\* message ready sees at most two of any other queue go first, one of the batch
\* under way and one of the batch they are both in.
BoundedOvertaking ==
  \A p, q \in Queue : passed[p][q] <= 2

\* Messages the scheduler has taken are done in the end, as long as the executor
\* is not closed: no wait for the lock, the resource, a place in the executor
\* queue or a worker is for ever.  A queue that is removed before its message is
\* taken drops it.
MessagesDone ==
  []<>(\/ phase # "running"
       \/ \A m \in Msg : stage[m] \in {"topic", "parked", "yielded", "done", "dropped"})

\* ExecutorWorker.close ends, and so does ExecutorWorker.run, which
\* ExecutorsManager.close waits for: unless a message was left in the executor
\* queue or dropped with its context, in which case run waits for ever for a
\* place in the queue or for the count of a queue to come down.
CloseEnds ==
  phase = "scheduler" ~>
    /\ phase = "closed"
    /\ run = "ended" \/ queue # NoMsg \/ counted \cap At("dropped") # {}
=============================================================================
