------------------------------ MODULE RabbitMQ ------------------------------
(***************************************************************************)
(* A topic on RabbitMQ (worker/topics/rabbitmq.py): the publications, the   *)
(* lock they share while the queue is full or failing (SharedLock of        *)
(* utils/asyncutils.py), the queue of the broker, and what a message        *)
(* context does to a delivery when it is left.                              *)
(*                                                                          *)
(* A publication first makes a reservation, which waits while the lock is   *)
(* held; then it declares the queue, sends its message and waits for the    *)
(* answer.  Refused because the queue is full, or failed, it takes the lock *)
(* before it tries again, so that one publication at a time retries and no  *)
(* other begins.  The lock is an asyncio.Lock: when it is released, it is   *)
(* free until the first of those who wait for it runs.                      *)
(*                                                                          *)
(* The broker is outside of the repository: it keeps the order, refuses     *)
(* what exceeds the length of the queue, gives the deliveries that were not *)
(* acknowledged again when the channel is lost.  Each publisher publishes   *)
(* one message; the external ones have a message_id and are in the queue    *)
(* from the beginning.                                                      *)
(***************************************************************************)
EXTENDS Integers, FiniteSets, SequencesExt

CONSTANTS
  Publisher,        \* the publications, and the messages they publish
  Immediate,        \* the publications with wait=False
  External,         \* messages of other producers, with a message_id
  Undecodable,      \* the external messages that cannot be deserialized
  MaxReservations,  \* options.max_publish_concurrency, 0 for no limit
  MaxLength,        \* options.max_length
  Prefetch,         \* options.prefetch_count
  MaxRetry,         \* options.max_retry, 0 for none
  Backoffs,         \* len(FAILURE_RETRY_BACKOFFS)
  MaxFaults,        \* bound: failures of the broker, and closing
  Nobody            \* the locker of a free lock

ASSUME RabbitMQAssumption ==
  /\ IsFiniteSet(Publisher) /\ IsFiniteSet(External)
  /\ Publisher \cap External = {}
  /\ Undecodable \subseteq External
  /\ Immediate \subseteq Publisher
  /\ MaxLength \in Nat \ {0}
  /\ Prefetch \in Nat \ {0}
  /\ {MaxReservations, MaxRetry, Backoffs, MaxFaults} \subseteq Nat
  /\ Nobody \notin Publisher

Message == Publisher \cup External
Copy == Message \X (1 .. MaxFaults + 1)
Delivery == [copy : Copy, epoch : 0 .. MaxFaults + 1]

VARIABLES
  pc,           \* pc[p]: where publish is suspended, or what it answered
  attempt,      \* attempt[p]: the attempt local to publish
  then,         \* then[p]: what p does once it has acquired the lock
  locker,       \* the publication whose reservation holds the lock
  waiters,      \* who waits for the asyncio.Lock, in order
  slotWaiters,  \* who waits for the semaphore of the reservations
  queue,        \* the cached property: "none", "declaring" or "ready"
  is_closed,    \* the topic is closed
  ready,        \* the messages of the queue, in the broker
  unacked,      \* the deliveries of the current channel
  epoch,        \* the current channel
  faults,       \* failures so far
  attempts,     \* attempt_by_message
  copies,       \* copies[m]: how many times the broker accepted m (history)
  settled       \* the messages acknowledged, or rejected for good (history)

publishVars == <<pc, attempt, then, locker, waiters, slotWaiters>>
brokerVars  == <<ready, unacked, epoch>>
contextVars == <<attempts, settled>>
topicVars   == <<publishVars, brokerVars, contextVars, queue, is_closed,
                 faults, copies>>

----------------------------------------------------------------------------
(* State formulae *)

Waits(p) == p \notin Immediate
Answers == {"true", "false", "raised"}
At(s) == {p \in Publisher : pc[p] = s}
Entered == At("declare") \cup At("awaiting") \cup At("sending")
             \cup At("failed") \cup At("acquire") \cup At("backoff")
             \cup At("sleeping")

\* The publications that hold the semaphore of the reservations
Reserving == Entered \cup At("enter") \cup At("slotted")

Locked == locker # Nobody
SlotsLocked ==
  /\ MaxReservations > 0
  /\ Cardinality(Reserving) >= MaxReservations \/ slotWaiters # <<>>

Faulty == is_closed \/ faults < MaxFaults
Fault == faults' = IF is_closed THEN faults ELSE faults + 1

Current(d) == d \in unacked /\ d.epoch = epoch
CopiesOf(ds) == {d.copy : d \in ds}

----------------------------------------------------------------------------
InitTopic ==
  /\ pc = [p \in Publisher |-> "idle"]
  /\ attempt = [p \in Publisher |-> 0]
  /\ then = [p \in Publisher |-> "declare"]
  /\ locker = Nobody
  /\ waiters = <<>>
  /\ slotWaiters = <<>>
  /\ queue = "none"
  /\ is_closed = FALSE
  /\ ready = SetToSeq({<<m, 1>> : m \in External})
  /\ unacked = {}
  /\ epoch = 0
  /\ faults = 0
  /\ attempts = [m \in External |-> 0]
  /\ copies = [m \in Message |-> IF m \in External THEN 1 ELSE 0]
  /\ settled = {}

----------------------------------------------------------------------------
(* SharedLock *)

\* The body of reserve: the lock is taken and released at once, after those
\* who wait for it, even when it is free because the first one of them has
\* not run yet.
EnterLock(p) ==
  IF ~Locked /\ waiters = <<>>
    THEN pc' = [pc EXCEPT ![p] = "declare"] /\ UNCHANGED waiters
    ELSE pc' = [pc EXCEPT ![p] = "enter"] /\ waiters' = Append(waiters, p)

\* Mutant: publish raises without leaving the context of its reservation.
EndKeepingLock(p, answer) ==
  /\ pc' = [pc EXCEPT ![p] = answer]
  /\ attempt' = [attempt EXCEPT ![p] = 0]
  /\ UNCHANGED <<locker, slotWaiters>>

\* publish returns or raises: it leaves the context of reserve, and its place
\* goes to the first one that waits for it.
End(p, answer) ==
  /\ attempt' = [attempt EXCEPT ![p] = 0]
  /\ locker' = IF locker = p THEN Nobody ELSE locker
  /\ IF slotWaiters = <<>>
       THEN pc' = [pc EXCEPT ![p] = answer] /\ UNCHANGED slotWaiters
       ELSE /\ pc' = [pc EXCEPT ![p] = answer, ![Head(slotWaiters)] = "slotted"]
            /\ slotWaiters' = Tail(slotWaiters)

\* Mutant: a reservation that finds the lock held retries without it.
AcquireAnyway(p, next) ==
  /\ pc' = [pc EXCEPT ![p] = next]
  /\ locker' = IF Locked THEN locker ELSE p
  /\ UNCHANGED <<waiters, then>>

\* reservation.acquire, with what follows it when the lock is had at once or
\* was free, and a new try at once when somebody else had it.
Acquire(p, next) ==
  IF locker = p \/ (~Locked /\ waiters = <<>>)
    THEN /\ locker' = p
         /\ pc' = [pc EXCEPT ![p] = next]
         /\ UNCHANGED <<waiters, then>>
    ELSE /\ pc' = [pc EXCEPT ![p] = "acquire"]
         /\ waiters' = Append(waiters, p)
         /\ then' = [then EXCEPT ![p] = IF Locked THEN "declare" ELSE next]
         /\ UNCHANGED locker

\* The first one that waits for the lock runs.
Wake ==
  /\ ~Locked
  /\ waiters # <<>>
  /\ LET p == Head(waiters) IN
       /\ waiters' = Tail(waiters)
       /\ \/ /\ pc[p] = "enter"
             /\ pc' = [pc EXCEPT ![p] = "declare"]
             /\ UNCHANGED locker
          \/ /\ pc[p] = "acquire"
             /\ pc' = [pc EXCEPT ![p] = then[p]]
             /\ locker' = p
       /\ then' = [then EXCEPT ![p] = "declare"]
  /\ UNCHANGED <<attempt, slotWaiters, brokerVars, contextVars,
                 queue, is_closed, faults, copies>>

GotSlot(p) ==
  /\ pc[p] = "slotted"
  /\ EnterLock(p)
  /\ UNCHANGED <<attempt, then, locker, slotWaiters, brokerVars,
                 contextVars, queue, is_closed, faults, copies>>

----------------------------------------------------------------------------
(* RabbitMQTopic.publish *)

Publish(p) ==
  /\ pc[p] = "idle"
  /\ \/ /\ is_closed
        /\ pc' = [pc EXCEPT ![p] = "raised"]
        /\ UNCHANGED <<waiters, slotWaiters>>
     \/ /\ ~is_closed /\ ~Waits(p) /\ (Locked \/ SlotsLocked)
        /\ pc' = [pc EXCEPT ![p] = "false"]
        /\ UNCHANGED <<waiters, slotWaiters>>
     \/ /\ ~is_closed /\ Waits(p) /\ SlotsLocked
        /\ pc' = [pc EXCEPT ![p] = "slot"]
        /\ slotWaiters' = Append(slotWaiters, p)
        /\ UNCHANGED waiters
     \/ /\ ~is_closed /\ ~SlotsLocked /\ (Waits(p) \/ ~Locked)
        /\ EnterLock(p)
        /\ UNCHANGED slotWaiters
  /\ UNCHANGED <<attempt, then, locker, brokerVars, contextVars, queue,
                 is_closed, faults, copies>>

\* ensure_queue: the first one declares the queue, the others share its wait.
Declare(p) ==
  /\ pc[p] = "declare"
  /\ IF queue = "ready"
       THEN pc' = [pc EXCEPT ![p] = "sending"] /\ UNCHANGED queue
       ELSE pc' = [pc EXCEPT ![p] = "awaiting"] /\ queue' = "declaring"
  /\ UNCHANGED <<attempt, then, locker, waiters, slotWaiters,
                 brokerVars, contextVars, is_closed, faults, copies>>

QueueDeclared ==
  /\ queue = "declaring"
  /\ ~is_closed
  /\ queue' = "ready"
  /\ pc' = [p \in Publisher |-> IF pc[p] = "awaiting" THEN "sending" ELSE pc[p]]
  /\ UNCHANGED <<attempt, then, locker, waiters, slotWaiters,
                 brokerVars, contextVars, is_closed, faults, copies>>

\* A property that failed is not kept, and all who wait for it fail.
DeclareFails ==
  /\ queue = "declaring"
  /\ Faulty
  /\ Fault
  /\ queue' = "none"
  /\ pc' = [p \in Publisher |-> IF pc[p] = "awaiting" THEN "failed" ELSE pc[p]]
  /\ UNCHANGED <<attempt, then, locker, waiters, slotWaiters,
                 brokerVars, contextVars, is_closed, copies>>

Enqueue(p) ==
  /\ Len(ready) < MaxLength
  /\ copies' = [copies EXCEPT ![p] = @ + 1]
  /\ ready' = Append(ready, <<p, copies[p] + 1>>)

Accepted(p) ==
  /\ pc[p] = "sending"
  /\ ~is_closed
  /\ Enqueue(p)
  /\ End(p, "true")
  /\ UNCHANGED <<then, waiters, unacked, epoch, contextVars,
                 queue, is_closed, faults>>

\* Basic.Nack: the queue is full.
Nacked(p) ==
  /\ pc[p] = "sending"
  /\ ~is_closed
  /\ Len(ready) >= MaxLength
  /\ \/ /\ ~Waits(p)
        /\ End(p, "false")
        /\ UNCHANGED <<then, waiters>>
     \/ /\ Waits(p)
        /\ Acquire(p, "sleeping")
        /\ attempt' = [attempt EXCEPT ![p] = 0]
        /\ UNCHANGED slotWaiters
  /\ UNCHANGED <<brokerVars, contextVars, queue, is_closed, faults, copies>>

\* The message is returned: raised whatever wait says.
Returned(p) ==
  /\ pc[p] = "sending"
  /\ ~is_closed /\ Faulty
  /\ Fault
  /\ End(p, "raised")
  /\ UNCHANGED <<then, waiters, brokerVars, contextVars, queue,
                 is_closed, copies>>

\* A timeout or a failure of the channel: the broker may have the message.
SendFails(p) ==
  /\ pc[p] = "sending"
  /\ Faulty
  /\ Fault
  /\ \/ UNCHANGED <<ready, copies>>
     \/ ~is_closed /\ Enqueue(p)
  /\ pc' = [pc EXCEPT ![p] = "failed"]
  /\ UNCHANGED <<attempt, then, locker, waiters, slotWaiters, unacked,
                 epoch, contextVars, queue, is_closed>>

Failed(p) ==
  /\ pc[p] = "failed"
  /\ \/ /\ ~Waits(p)
        /\ End(p, "raised")
        /\ UNCHANGED <<then, waiters>>
     \/ /\ Waits(p)
        /\ Acquire(p, "backoff")
        /\ UNCHANGED <<attempt, slotWaiters>>
  /\ UNCHANGED <<brokerVars, contextVars, queue, is_closed, faults, copies>>

\* backoff_sleep
Backoff(p) ==
  /\ pc[p] = "backoff"
  /\ \/ /\ attempt[p] >= Backoffs
        /\ End(p, "raised")
     \/ /\ attempt[p] < Backoffs
        /\ pc' = [pc EXCEPT ![p] = "sleeping"]
        /\ attempt' = [attempt EXCEPT ![p] = @ + 1]
        /\ UNCHANGED <<locker, slotWaiters>>
  /\ UNCHANGED <<then, waiters, brokerVars, contextVars, queue,
                 is_closed, faults, copies>>

Slept(p) ==
  /\ pc[p] = "sleeping"
  /\ pc' = [pc EXCEPT ![p] = "declare"]
  /\ UNCHANGED <<attempt, then, locker, waiters, slotWaiters,
                 brokerVars, contextVars, queue, is_closed, faults, copies>>

----------------------------------------------------------------------------
(* Connection and contexts *)

\* What was not acknowledged is given again, in some order, and what was
\* being sent fails.
LoseChannel ==
  /\ ready' = SetToSeq(CopiesOf(unacked)) \o ready
  /\ unacked' = {}
  /\ epoch' = epoch + 1
  /\ pc' = [p \in Publisher |-> IF pc[p] = "sending" THEN "failed" ELSE pc[p]]

\* channel_reopened forgets the cached queue.
ChannelReopened ==
  /\ ~is_closed /\ Faulty
  /\ Fault
  /\ LoseChannel
  /\ queue' = IF queue = "ready" THEN "none" ELSE queue
  /\ UNCHANGED <<attempt, then, locker, waiters, slotWaiters,
                 contextVars, is_closed, copies>>

CloseTopic ==
  /\ ~is_closed /\ Faulty
  /\ Fault
  /\ is_closed' = TRUE
  /\ LoseChannel
  /\ UNCHANGED <<attempt, then, locker, waiters, slotWaiters,
                 contextVars, queue, copies>>

\* The iterator of the queue is given a message.
Take(d) ==
  /\ Cardinality(unacked) < Prefetch
  /\ ready # <<>>
  /\ d = [copy |-> Head(ready), epoch |-> epoch]
  /\ ready' = Tail(ready)
  /\ unacked' = unacked \cup {d}
  /\ UNCHANGED epoch

\* message_context computes on entering whether a failure requeues.
Requeue(m) == m \in External /\ MaxRetry > 0 /\ attempts[m] < MaxRetry

\* Contexts left by an exception: their deliveries are rejected, and those of
\* a lost channel stay as they are.
LeaveFailed(ds, requeue) ==
  LET failed == {d.copy[1] : d \in ds}
      back   == {d.copy : d \in {e \in ds \cap requeue : Current(e)}}
      gone   == {d.copy[1] : d \in {e \in ds \ requeue : Current(e)}} IN
  /\ attempts' = [m \in External |->
                    IF m \in failed /\ MaxRetry > 0 THEN attempts[m] + 1
                                                    ELSE attempts[m]]
  /\ settled' = settled \cup gone
  /\ ready' = SetToSeq(back) \o ready
  /\ unacked' = unacked \ ds
  /\ UNCHANGED epoch

\* Contexts left normally: acknowledged, or not when their channel is lost.
LeaveDone(ds) ==
  /\ settled' = settled \cup {d.copy[1] : d \in {e \in ds : Current(e)}}
  /\ attempts' = [m \in External |->
                    IF m \in {d.copy[1] : d \in ds} THEN 0 ELSE attempts[m]]
  /\ unacked' = unacked \ ds
  /\ UNCHANGED <<ready, epoch>>

----------------------------------------------------------------------------
\* What runs at once, before anything else does: nothing is awaited between
\* the acquisition of the lock and its sleep, or the end of the reservation
\* and the declaration of the queue.
Continuing == At("declare") \cup At("backoff")
Continue == \E p \in Continuing : Declare(p) \/ Backoff(p)

PublishStep(p) ==
  GotSlot(p) \/ Accepted(p) \/ Nacked(p) \/ Failed(p) \/ Slept(p)

NextPublish ==
  \/ Wake \/ QueueDeclared \/ DeclareFails \/ ChannelReopened
  \/ \E p \in Publisher :
       Publish(p) \/ PublishStep(p) \/ Returned(p) \/ SendFails(p)
=============================================================================
