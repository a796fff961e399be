------------------------------ MODULE Batching ------------------------------
(***************************************************************************)
(* A BatchingTopic over a RabbitMQ topic (worker/topics/batching.py): a     *)
(* task reads the deliveries of the topic into a queue, the generator of    *)
(* the topic collects them into batches, and a batch is one message whose   *)
(* context enters the contexts of its messages one after the other.         *)
(*                                                                          *)
(* The queue of the iterator and the queue of the BatchingTopic are one     *)
(* here: both only delay a delivery.  The batches are not flattened.  Time  *)
(* is left out: a flush times out whenever the queue is empty.              *)
(***************************************************************************)
EXTENDS RabbitMQ

CONSTANTS
  BatchSize,   \* options.batch_size
  MaxBatches   \* bound: the batches that are processed at the same time

ASSUME BatchingAssumption == {BatchSize, MaxBatches} \subseteq Nat \ {0}

VARIABLES
  reading,     \* _read_topic iterates over the messages of the topic
  inner,       \* the deliveries that were read, in order
  batch,       \* self.batch
  force_done,  \* nothing more will be read
  runner,      \* the generator of the topic: "running" or "done"
  yielded,     \* the batches whose context is not entered yet
  entered      \* the batches being processed, each a record of its
               \* deliveries and of those that a failure requeues

batchingVars == <<reading, inner, batch, force_done, runner, yielded, entered>>
vars == <<topicVars, batchingVars>>

----------------------------------------------------------------------------
Init ==
  /\ InitTopic
  /\ reading = FALSE
  /\ inner = <<>>
  /\ batch = <<>>
  /\ force_done = FALSE
  /\ runner = "running"
  /\ yielded = {}
  /\ entered = {}

----------------------------------------------------------------------------
\* RabbitMQTopic.run declares the queue and iterates over it.
Consume ==
  /\ ~reading /\ ~force_done
  /\ \/ /\ queue = "ready" /\ ~is_closed
        /\ reading' = TRUE
        /\ UNCHANGED <<queue, force_done>>
     \/ /\ queue = "none" /\ ~is_closed
        /\ queue' = "declaring"
        /\ UNCHANGED <<reading, force_done>>
     \/ /\ is_closed
        /\ force_done' = TRUE
        /\ UNCHANGED <<queue, reading>>
  /\ UNCHANGED <<publishVars, brokerVars, contextVars, is_closed, faults,
                 copies, inner, batch, runner, yielded, entered>>

\* An exception of the iterator: the loop starts again after a delay.
ConsumeFails ==
  /\ reading /\ ~is_closed /\ Faulty
  /\ Fault
  /\ reading' = FALSE
  /\ UNCHANGED <<publishVars, brokerVars, contextVars, queue, is_closed,
                 copies, inner, batch, force_done, runner, yielded, entered>>

Read ==
  /\ reading
  /\ \E d \in Delivery : Take(d) /\ inner' = Append(inner, d)
  /\ UNCHANGED <<publishVars, contextVars, queue, is_closed, faults, copies,
                 reading, batch, force_done, runner, yielded, entered>>

Suspended == Cardinality(yielded) + Cardinality(entered) >= MaxBatches

\* _run_topic_task takes a message, and flushes a batch that is complete.
Collect ==
  /\ runner = "running" /\ ~Suspended
  /\ inner # <<>>
  /\ inner' = Tail(inner)
  /\ LET collected == Append(batch, Head(inner)) IN
       IF Len(collected) >= BatchSize
         THEN batch' = <<>> /\ yielded' = yielded \cup {collected}
         ELSE batch' = collected /\ UNCHANGED yielded
  /\ UNCHANGED <<topicVars, reading, force_done, runner, entered>>

\* Mutant: an incomplete batch waits for its last message.
FlushComplete ==
  /\ runner = "running" /\ ~Suspended
  /\ inner = <<>>
  /\ Len(batch) >= BatchSize
  /\ batch' = <<>>
  /\ yielded' = yielded \cup {batch}
  /\ UNCHANGED <<topicVars, reading, inner, force_done, runner, entered>>

\* flush_timeout without a message, or the last flush: the end of the
\* generator when there is nothing left to read.
Flush ==
  /\ runner = "running" /\ ~Suspended
  /\ inner = <<>>
  /\ batch # <<>> \/ force_done
  /\ batch' = <<>>
  /\ yielded' = IF batch = <<>> THEN yielded ELSE yielded \cup {batch}
  /\ runner' = IF force_done THEN "done" ELSE runner
  /\ UNCHANGED <<topicVars, reading, inner, force_done, entered>>

Decodable(d) == d.copy[1] \notin Undecodable
RequeuedOf(ds) == {d \in ds : Requeue(d.copy[1])}

\* message_context enters the contexts of the batch.
EnterBatch(b) ==
  /\ b \in yielded
  /\ \A d \in ToSet(b) : Decodable(d)
  /\ yielded' = yielded \ {b}
  /\ entered' = entered \cup
       {[deliveries |-> ToSet(b), requeued |-> RequeuedOf(ToSet(b))]}
  /\ UNCHANGED <<topicVars, reading, inner, batch, force_done, runner>>

\* A message that cannot be deserialized fails the contexts entered before
\* it; nobody enters, and so nobody leaves, those after it.
EnterFails(b) ==
  /\ b \in yielded
  /\ \E i \in DOMAIN b :
       /\ ~Decodable(b[i])
       /\ \A j \in 1 .. i - 1 : Decodable(b[j])
       /\ LET begun == {b[j] : j \in 1 .. i} IN
            LeaveFailed(begun, RequeuedOf(begun))
  /\ yielded' = yielded \ {b}
  /\ UNCHANGED <<publishVars, queue, is_closed, faults, copies, reading, inner,
                 batch, force_done, runner, entered>>

LeaveBatch(g) ==
  /\ g \in entered
  /\ entered' = entered \ {g}
  /\ \/ LeaveDone(g.deliveries)
     \/ LeaveFailed(g.deliveries, g.requeued)
  /\ UNCHANGED <<publishVars, queue, is_closed, faults, copies, reading, inner,
                 batch, force_done, runner, yielded>>

\* BatchingTopic.close
Close ==
  /\ CloseTopic
  /\ force_done' = TRUE
  /\ reading' = FALSE
  /\ UNCHANGED <<inner, batch, runner, yielded, entered>>

----------------------------------------------------------------------------
NextBatching ==
  \/ Consume \/ ConsumeFails \/ Read \/ Collect \/ Flush \/ Close
  \/ \E b \in yielded : EnterBatch(b) \/ EnterFails(b)
  \/ \E g \in entered : LeaveBatch(g)

Next ==
  \/ Continue /\ UNCHANGED batchingVars
  \/ Continuing = {} /\ NextPublish /\ UNCHANGED batchingVars
  \/ Continuing = {} /\ NextBatching

Spec == Init /\ [][Next]_vars

\* The event loop runs what is ready, sleeps and timeouts end, the broker
\* answers, and who has a batch leaves it.  Nothing makes a caller publish,
\* a fault happen, or the topic close; what is sent after that fails.
Fairness ==
  /\ WF_vars(Continue /\ UNCHANGED batchingVars)
  /\ WF_vars((Wake \/ QueueDeclared) /\ UNCHANGED batchingVars)
  /\ WF_vars(is_closed /\ DeclareFails /\ UNCHANGED batchingVars)
  /\ \A p \in Publisher :
       WF_vars((PublishStep(p) \/ (is_closed /\ SendFails(p)))
                 /\ UNCHANGED batchingVars)
  /\ WF_vars(Consume \/ Read)
  /\ WF_vars(Collect \/ Flush)
  /\ WF_vars(\E b \in yielded : EnterBatch(b) \/ EnterFails(b))
  /\ WF_vars(\E g \in entered : LeaveBatch(g))

FairSpec == Spec /\ Fairness

----------------------------------------------------------------------------
(* Properties *)

\* Deliveries that nobody will acknowledge or reject: the messages of a batch
\* behind one that cannot be deserialized.
Stranded ==
  unacked \ (ToSet(inner) \cup ToSet(batch) \cup UNION {ToSet(b) : b \in yielded}
                \cup UNION {g.deliveries : g \in entered})

\* The publications that retry do so one at a time, under the lock, and none
\* ends with it (RabbitMQTopic.publish and SharedLock).
RetriesAlone ==
  /\ At("sleeping") \cup At("backoff") \subseteq {locker}
  /\ Locked => locker \in Entered

\* Every publication ends, whatever waits for the lock or for a reservation,
\* unless stranded deliveries keep the consumer from emptying the queue.
PublishEnds ==
  \A p \in Publisher : pc[p] # "idle" ~> pc[p] \in Answers \/ Stranded # {}

\* A message that was published is acknowledged or rejected in the end, even
\* when fewer messages than a batch may be prefetched, unless the topic closes
\* or deliveries are stranded.
Delivered ==
  \A p \in Publisher :
    pc[p] = "true" ~> p \in settled \/ is_closed \/ Stranded # {}
=============================================================================
