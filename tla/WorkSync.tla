------------------------------- MODULE WorkSync -------------------------------
(***************************************************************************)
(* How a worker follows its assignment.  The work manager asks the worker   *)
(* manager for it again and again, records what it is made of (queues, the  *)
(* executors that run them, the resources and the providers of resources    *)
(* they need) and hands over what is new and what has gone; the broker adds *)
(* the first and drops the second, in an order.  Meanwhile providers        *)
(* register resources of their own.                                         *)
(*                                                                          *)
(* Queues, resources, providers and executors are known by their names.     *)
(* What the queues do is the matter of Executor, who uses the resources that *)
(* of Resources, and who is assigned what that of WorkerManager.            *)
(***************************************************************************)
EXTENDS Integers, FiniteSets

CONSTANTS
  Queue, Executor, Resource, Provider, Type,
  ExecutorOf,  \* ExecutorOf[q]: the executor of q
  Needs,       \* Needs[q]: the types of resources of q
  TypeOf,      \* TypeOf[x]: the type of a resource, or of what a provider provides
  Offers,      \* Offers[p]: what the provider p may provide
  Periodic,    \* the providers that ask for their resources again and again
  BadStrategy, \* the resources whose rate limit has a strategy that is unknown
  Definitions, \* the sets of resources and providers that may be defined together
  MaxFaults    \* bound: what cannot be built or opened, and does not close

ASSUME WorkSyncAssumption ==
  /\ IsFiniteSet(Queue)
  /\ ExecutorOf \in [Queue -> Executor]
  /\ Needs \in [Queue -> SUBSET Type]
  /\ TypeOf \in [Resource \cup Provider -> Type]
  /\ Offers \in [Provider -> SUBSET Resource]
  /\ Periodic \subseteq Provider
  /\ BadStrategy \subseteq Resource
  /\ Definitions \subseteq SUBSET (Resource \cup Provider)
  /\ MaxFaults \in Nat

VARIABLES
  assigned,    \* the queues the worker manager assigns to the worker
  defined,     \* the resources and providers it has definitions of
  recorded,    \* worker_items, worker_executors, worker_resources(_providers)
  work,        \* what is left of the WorkSync the broker applies
  running,     \* the recorded queues that are in the scheduler of their executor
  stale,       \* the queues whose former object is, though it was not dropped
  executors,   \* the executors of ExecutorsManager
  open,        \* the providers that are open
  managed,     \* managed[p]: _managed_resources
  registered,  \* the resources of ResourcesManager
  broker,      \* "up", "waiting" for an executor to close, "down" or "closed"
  cause,       \* why it is down
  faults,      \* faults so far
  skipped      \* a synchronisation failed after it had recorded something

server == <<assigned, defined>>
providing == <<open, managed, registered>>
vars == <<server, recorded, work, running, stale, executors, providing,
          broker, cause, faults, skipped>>

----------------------------------------------------------------------------
(* State formulae *)

Kind == {"executors", "queues", "resources", "providers"}
Nothing == [k \in Kind |-> {}]
NoWork == [add |-> Nothing, drop |-> Nothing]

\* lock_jobs: the queues, their executors, and the resources and providers of the
\* types they need.  A queue is left out when nothing of a type is defined; the
\* executors always are.
Answer ==
  LET given == {q \in assigned :
                  \A t \in Needs[q] : \E x \in defined : TypeOf[x] = t}
      needed == {x \in defined : \E q \in given : TypeOf[x] \in Needs[q]}
  IN  [k \in Kind |->
        CASE k = "queues" -> given
          [] k = "executors" -> {ExecutorOf[q] : q \in given}
          [] k = "resources" -> needed \cap Resource
          [] k = "providers" -> needed \cap Provider]

\* The order of the additions; things are dropped in the opposite order.
Step == [k \in Kind |-> CASE k = "executors" -> 1 [] k = "queues" -> 2
                          [] k = "resources" -> 3 [] k = "providers" -> 4]

\* What the broker adds now
Adding(k) ==
  /\ broker = "up" /\ work.add[k] # {}
  /\ \A j \in Kind : work.add[j] # {} => Step[k] <= Step[j]

\* What the broker drops now
Dropping(k) ==
  /\ broker = "up" /\ work.add = Nothing /\ work.drop[k] # {}
  /\ \A j \in Kind : work.drop[j] # {} => Step[j] <= Step[k]

Added(k, x) == work' = [work EXCEPT !.add[k] = @ \ {x}]
Dropped(k, x) == work' = [work EXCEPT !.drop[k] = @ \ {x}]

Same == broker' = broker /\ cause' = cause

\* An error of `run_sync` outside of its `try` ends the broker.
Fatal(why) == broker' = "down" /\ cause' = why

Fault(n) == faults + n <= MaxFaults /\ faults' = faults + n

----------------------------------------------------------------------------
Init ==
  /\ assigned = {} /\ defined \in Definitions
  /\ recorded = Nothing /\ work = NoWork
  /\ running = {} /\ stale = {} /\ executors = {}
  /\ open = {} /\ managed = [p \in Provider |-> {}] /\ registered = {}
  /\ broker = "up" /\ cause = "none"
  /\ faults = 0 /\ skipped = FALSE

----------------------------------------------------------------------------
(* The worker manager *)

Assign ==
  /\ assigned' \in SUBSET Queue
  /\ UNCHANGED <<defined, recorded, work, running, stale, executors, providing,
                 broker, cause, faults, skipped>>

Define ==
  /\ defined' \in Definitions
  /\ UNCHANGED <<assigned, recorded, work, running, stale, executors, providing,
                 broker, cause, faults, skipped>>

----------------------------------------------------------------------------
(* WorkManager.sync *)

\* Mutant: what has gone is compared with what is recorded from now on.
SyncForgetting ==
  /\ broker = "up" /\ work = NoWork
  /\ \E unbuilt \in SUBSET (Answer["queues"] \ recorded["queues"]) :
       /\ Fault(Cardinality(unbuilt))
       /\ recorded' = [Answer EXCEPT !["queues"] = @ \ unbuilt]
       /\ work' = [add  |-> [k \in Kind |-> recorded'[k] \ recorded[k]],
                   drop |-> [k \in Kind |-> recorded'[k] \ Answer[k]]]
  /\ Same
  /\ UNCHANGED <<server, running, stale, executors, providing, skipped>>

\* A queue that cannot be built is left out, and tried again the next time.
Sync ==
  /\ broker = "up" /\ work = NoWork
  /\ \E unbuilt \in SUBSET (Answer["queues"] \ recorded["queues"]) :
       /\ Fault(Cardinality(unbuilt))
       /\ recorded' = [Answer EXCEPT !["queues"] = @ \ unbuilt]
       /\ work' = [add  |-> [k \in Kind |-> recorded'[k] \ recorded[k]],
                   drop |-> [k \in Kind |-> recorded[k] \ recorded'[k]]]
  /\ Same
  /\ UNCHANGED <<server, running, stale, executors, providing, skipped>>

\* A provider that cannot be built: the queues and the resources are recorded,
\* but what is new and what has gone of them is never handed over.
SyncFails ==
  /\ broker = "up" /\ work = NoWork
  /\ Answer["providers"] \ recorded["providers"] # {}
  /\ \E unbuilt \in SUBSET (Answer["queues"] \ recorded["queues"]) :
       /\ Fault(Cardinality(unbuilt) + 1)
       /\ recorded' = [recorded EXCEPT !["queues"] = Answer["queues"] \ unbuilt,
                                       !["resources"] = Answer["resources"]]
  /\ running' = running \cap recorded'["queues"]
  /\ stale' = stale \cup (running \ recorded'["queues"])
  /\ skipped' = TRUE
  /\ Same
  /\ UNCHANGED <<server, work, executors, providing>>

----------------------------------------------------------------------------
(* Broker.run_sync: additions *)

AddExecutor(e) ==
  /\ Adding("executors") /\ e \in work.add["executors"]
  /\ Added("executors", e)
  /\ \/ /\ e \notin executors
        /\ executors' = executors \cup {e} /\ Same /\ UNCHANGED faults
     \/ e \in executors /\ Fatal("twice") /\ UNCHANGED <<executors, faults>>
     \/ Fault(1) /\ Fatal("unbuilt") /\ UNCHANGED executors
  /\ UNCHANGED <<server, recorded, running, stale, providing, skipped>>

\* Mutant: the queues are added before the executors.
AddQueueAtOnce(q) ==
  /\ broker = "up" /\ q \in work.add["queues"]
  /\ Added("queues", q)
  /\ IF ExecutorOf[q] \in executors THEN running' = running \cup {q} /\ Same
                                    ELSE Fatal("missing") /\ UNCHANGED running
  /\ UNCHANGED <<server, recorded, stale, executors, providing, faults, skipped>>

AddQueue(q) ==
  /\ Adding("queues") /\ q \in work.add["queues"]
  /\ Added("queues", q)
  /\ IF ExecutorOf[q] \in executors THEN running' = running \cup {q} /\ Same
                                    ELSE Fatal("missing") /\ UNCHANGED running
  /\ UNCHANGED <<server, recorded, stale, executors, providing, faults, skipped>>

\* The limiter is built once the resource is registered: it stays when that raises.
AddResource(r) ==
  /\ Adding("resources") /\ r \in work.add["resources"]
  /\ Added("resources", r)
  /\ IF r \in registered THEN Fatal(r)
     ELSE IF r \in BadStrategy THEN Fatal("unbuilt") ELSE Same
  /\ registered' = registered \cup {r}
  /\ UNCHANGED <<server, recorded, running, stale, executors, open, managed, faults, skipped>>

\* ResourcesProvider.add for the resources S, one after the other: what it does
\* not manage yet is managed, then registered, unless it is already.  A duplicate
\* and a limiter that cannot be built end it after some of the others.
Provided(p, S) ==
  LET new == S \ managed[p]
      twice == new \cap registered
      ending == twice \cup (new \cap BadStrategy)
  IN  IF ending = {}
      THEN {[managed |-> managed[p] \cup new, registered |-> registered \cup new, raised |-> {}]}
      ELSE {[managed |-> managed[p] \cup before \cup {r},
             registered |-> registered \cup before \cup {r},
             raised |-> IF r \in twice THEN {r} ELSE {"unbuilt"}] :
              r \in ending, before \in SUBSET (new \ ending)}

\* _open of a periodic provider starts its poller; others open with all they have.
OpenProvider(p) ==
  /\ Adding("providers") /\ p \in work.add["providers"]
  /\ Added("providers", p)
  /\ \/ /\ \E after \in Provided(p, IF p \in Periodic THEN {} ELSE Offers[p]) :
             /\ managed' = [managed EXCEPT ![p] = after.managed]
             /\ registered' = after.registered
             /\ IF after.raised = {} THEN Same /\ open' = open \cup {p}
                ELSE (\E why \in after.raised : Fatal(why)) /\ UNCHANGED open
        /\ UNCHANGED faults
     \/ Fault(1) /\ Fatal("unbuilt") /\ UNCHANGED providing
  /\ UNCHANGED <<server, recorded, running, stale, executors, skipped>>

\* poller: what the provider has now is added, what it had and has no more is
\* removed, unless an error ended the update.  An error is only logged.
Poll(p) ==
  /\ p \in open \cap Periodic
  /\ \E S \in SUBSET Offers[p] : \E after \in Provided(p, S) :
       LET gone == IF after.raised = {} THEN after.managed \ S ELSE {}
       IN  /\ managed' = [managed EXCEPT ![p] = after.managed \ gone]
           /\ registered' = after.registered \ gone
  /\ Same
  /\ UNCHANGED <<server, recorded, work, running, stale, executors, open, faults, skipped>>

----------------------------------------------------------------------------
(* Broker.run_sync: what has gone *)

\* Mutant: the resources of a provider stay when it closes.
CloseProviderOnly(p) ==
  /\ Dropping("providers") /\ p \in work.drop["providers"]
  /\ Dropped("providers", p)
  /\ open' = open \ {p}
  /\ managed' = [managed EXCEPT ![p] = {}]
  /\ Same
  /\ UNCHANGED <<server, recorded, running, stale, executors, registered, faults, skipped>>

\* _close: the poller is cancelled, what the provider manages is removed.
CloseProvider(p) ==
  /\ Dropping("providers") /\ p \in work.drop["providers"]
  /\ Dropped("providers", p)
  /\ open' = open \ {p}
  /\ registered' = registered \ managed[p]
  /\ managed' = [managed EXCEPT ![p] = {}]
  /\ Same
  /\ UNCHANGED <<server, recorded, running, stale, executors, faults, skipped>>

RemoveResource(r) ==
  /\ Dropping("resources") /\ r \in work.drop["resources"]
  /\ Dropped("resources", r)
  /\ registered' = registered \ {r}
  /\ Same
  /\ UNCHANGED <<server, recorded, running, stale, executors, open, managed, faults, skipped>>

RemoveQueue(q) ==
  /\ Dropping("queues") /\ q \in work.drop["queues"]
  /\ Dropped("queues", q)
  /\ running' = running \ {q}
  /\ Same
  /\ UNCHANGED <<server, recorded, stale, executors, providing, faults, skipped>>

\* remove_executor: its close stops the queues it still has, and is waited for.
RemoveExecutor(e) ==
  /\ Dropping("executors") /\ e \in work.drop["executors"]
  /\ Dropped("executors", e)
  /\ IF e \in executors
     THEN /\ executors' = executors \ {e}
          /\ running' = {q \in running : ExecutorOf[q] # e}
          /\ stale' = {q \in stale : ExecutorOf[q] # e}
          /\ broker' = "waiting" /\ UNCHANGED cause
     ELSE Fatal("missing") /\ UNCHANGED <<executors, running, stale>>
  /\ UNCHANGED <<server, recorded, providing, faults, skipped>>

\* The messages of the executor that closes are done.
ExecutorClosed ==
  /\ broker = "waiting"
  /\ broker' = "up"
  /\ UNCHANGED <<server, recorded, work, running, stale, executors, providing,
                 cause, faults, skipped>>

----------------------------------------------------------------------------
(* The end of the worker *)

\* stop: the task of run_sync is cancelled.  A cancellation that the close of an
\* executor swallows while "waiting" (TasksGroup.close) changes nothing here.
Stop ==
  /\ broker \in {"up", "waiting"}
  /\ Fatal("stopped")
  /\ UNCHANGED <<server, recorded, work, running, stale, executors, providing,
                 faults, skipped>>

\* close: every executor, then the services, the runner of the pollers among them.
Close ==
  /\ broker = "down"
  /\ broker' = "closed"
  /\ running' = {} /\ stale' = {}
  /\ open' = {}
  /\ UNCHANGED <<server, recorded, work, executors, managed, registered, cause, faults, skipped>>

----------------------------------------------------------------------------
Next ==
  \/ Assign \/ Define
  \/ Sync \/ SyncFails
  \/ \E e \in Executor : AddExecutor(e) \/ RemoveExecutor(e)
  \/ \E q \in Queue : AddQueue(q) \/ RemoveQueue(q)
  \/ \E r \in Resource : AddResource(r) \/ RemoveResource(r)
  \/ \E p \in Provider : OpenProvider(p) \/ CloseProvider(p) \/ Poll(p)
  \/ ExecutorClosed \/ Stop \/ Close

Spec == Init /\ [][Next]_vars

\* The broker goes on, synchronising for ever; the close of an executor ends
\* (Executor.CloseEnds), whatever becomes of its run.
Fairness ==
  /\ WF_vars(Sync) /\ WF_vars(ExecutorClosed)
  /\ \A e \in Executor : WF_vars(AddExecutor(e)) /\ WF_vars(RemoveExecutor(e))
  /\ \A q \in Queue : WF_vars(AddQueue(q)) /\ WF_vars(RemoveQueue(q))
  /\ \A r \in Resource : WF_vars(AddResource(r)) /\ WF_vars(RemoveResource(r))
  /\ \A p \in Provider : WF_vars(OpenProvider(p)) /\ WF_vars(CloseProvider(p))

FairSpec == Spec /\ Fairness

----------------------------------------------------------------------------
(* Properties *)

\* What is named, by its kind
Names == [k \in Kind |-> CASE k = "queues" -> Queue [] k = "executors" -> Executor
                           [] k = "resources" -> Resource [] k = "providers" -> Provider]

Named(f) == f = [k \in Kind |-> f[k]] /\ \A k \in Kind : f[k] \subseteq Names[k]

TypeOK ==
  /\ assigned \subseteq Queue /\ defined \in Definitions
  /\ Named(recorded)
  /\ work = [add |-> work.add, drop |-> work.drop] /\ Named(work.add) /\ Named(work.drop)
  /\ running \subseteq Queue /\ stale \subseteq Queue
  /\ executors \subseteq Executor /\ open \subseteq Provider
  /\ managed \in [Provider -> SUBSET Resource] /\ registered \subseteq Resource
  /\ broker \in {"up", "waiting", "down", "closed"}
  /\ cause \in {"none", "stopped", "unbuilt", "twice", "missing"} \cup Resource
  /\ faults \in 0 .. MaxFaults /\ skipped \in BOOLEAN

\* A name that two definitions may give a resource.
Shared(r) ==
  \/ \E p \in Provider : r \in Offers[p] /\ \E d \in Definitions : r \in d
  \/ \E p, o \in Provider : p # o /\ r \in Offers[p] \cap Offers[o]

\* broker.py:87-104: the broker ends when it is stopped or when something cannot be
\* built, never because an executor is missing or defined twice, and because of
\* a resource only if its name is shared or a synchronisation was skipped.
EndsForAReason ==
  cause \in {"none", "stopped", "unbuilt"} \cup {r \in Resource : Shared(r) \/ skipped}

\* work_manager.py:75-95, broker.py:87-104: between two synchronisations the worker runs
\* what it recorded, and what it recorded is what its schedulers run, unless a
\* synchronisation was skipped.
InStep ==
  broker = "up" /\ work = NoWork =>
    /\ executors = recorded["executors"] /\ open = recorded["providers"]
    /\ ~skipped => running = recorded["queues"] /\ stale = {}

\* provider.py:64-104, manager.py:178-198: a resource nobody else names is registered
\* exactly as long as its definition is recorded or its provider manages it.
RegisteredIfOwned ==
  \A r \in Resource : broker \in {"up", "waiting"} /\ ~Shared(r) /\ ~skipped =>
    (r \in registered <=>
       \/ r \in (recorded["resources"] \ work.add["resources"]) \cup work.drop["resources"]
       \/ \E p \in Provider : r \in managed[p])

\* broker.py:73-104: when the worker manager gives the same queues again and again,
\* the worker ends up with exactly these, unless a synchronisation was skipped or the
\* broker has ended.
Converges ==
  \A Q \in SUBSET Queue :
    <>[](assigned = Q /\ Answer["queues"] = Q /\ ~skipped /\ broker \in {"up", "waiting"})
      => <>[](running = Q /\ stale = {})
=============================================================================
