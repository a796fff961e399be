------------------------------- MODULE Broker -------------------------------
(***************************************************************************)
(* The life of a worker (worker/broker.py, runner.py, ExecutorsManager):    *)
(* the services open, executors come and go as the synchronisations say,    *)
(* and everything is closed when the broker is stopped or fails.            *)
(*                                                                          *)
(* A signal calls stop, which cancels the task of the synchronisations if   *)
(* there is one, wherever it is suspended: also in the middle of the close  *)
(* of an executor it removes.  Where that close waits for the event task of *)
(* a TasksGroup it swallows the cancellation, and the synchronisations go   *)
(* on; elsewhere nobody closes the executor again, and its scheduler ends   *)
(* or not, according to what its queues had ready (Scheduler.process_task   *)
(* requeues those that yield).  What the executors do is in Executor, whose *)
(* CloseEnds says that a close ends and that a run may not; what the        *)
(* synchronisations tell is in WorkSync.                                    *)
(***************************************************************************)
EXTENDS Services

CONSTANTS
  Exec   \* the executors, each one added at most once

ASSUME BrokerAssumption == IsFiniteSet(Exec)

VARIABLES
  broker,     \* where Broker.run is suspended, or how it ended
  is_opened,  \* ServicesManager.is_opened
  task,       \* running_task: "none", "running", "cancelled" or "ended"
  sync,       \* where run_sync is suspended: "sync", "provider" or "removing"
  drop,       \* the executors the synchronisation still has to remove
  executor,   \* executor[e]: "none", "running", "closing", "closed", or
              \* "ending" once its close was cut short; "stranded" when
              \* its run never ends
  managed,    \* ExecutorsManager.executors
  stops,      \* how many signals were handled: none or one
  ignored,    \* the signal found no task to cancel (history)
  swallowed   \* the close of an executor swallowed its cancellation (history)

runVars == <<broker, is_opened, task, sync, drop, executor, managed>>
signalVars == <<stops, ignored, swallowed>>
brokerVars == <<servicesVars, runVars, signalVars>>

InitBroker ==
  /\ InitServices
  /\ broker = "new"
  /\ is_opened = FALSE
  /\ task = "none"
  /\ sync = "sync"
  /\ drop = {}
  /\ executor = [e \in Exec |-> "none"]
  /\ managed = {}
  /\ stops = 0
  /\ ignored = FALSE
  /\ swallowed = FALSE

Of(s) == {e \in Exec : executor[e] = s}

----------------------------------------------------------------------------
(* Broker.run: init *)

\* The constructor of the broker loads the services.
LoadServices ==
  /\ broker = "new"
  /\ NextLoad
  /\ broker' = CASE loading' = "loaded" -> "opening"
                 [] loading' = "loading" -> "new"
                 [] OTHER -> "failed"
  /\ UNCHANGED <<is_opened, task, sync, drop, executor, managed, signalVars>>

\* A service that fails to open ends the program: run closes nothing yet.
OpenServices ==
  /\ broker = "opening"
  /\ \/ /\ open # DOMAIN loaded
        /\ open' = open \cup {Opening}
        /\ UNCHANGED <<broker, is_opened, task>>
     \/ /\ open # DOMAIN loaded
        /\ broker' = "failed"
        /\ UNCHANGED <<open, is_opened, task>>
     \/ /\ open = DOMAIN loaded
        /\ is_opened' = TRUE
        /\ task' = "running"
        /\ broker' = "running"
        /\ UNCHANGED open
  /\ UNCHANGED <<loadVars, sync, drop, executor, managed, signalVars>>

----------------------------------------------------------------------------
(* Broker.run_sync *)

Syncing(s) == broker = "running" /\ task = "running" /\ sync = s

\* A synchronisation that fails starts again; one that returns adds the
\* executors at once, then waits for the resources and their providers.
Sync ==
  /\ Syncing("sync")
  /\ \E new \in SUBSET Of("none"), old \in SUBSET managed :
       /\ drop' = old
       /\ executor' = [e \in Exec |-> IF e \in new THEN "running" ELSE executor[e]]
       /\ managed' = managed \cup new
       /\ sync' = "provider"
  /\ UNCHANGED <<servicesVars, broker, is_opened, task, signalVars>>

\* An executor whose close was not finished: its run ends, or never does.
Abandon ==
  \E left \in {"ending", "stranded"} :
    executor' = [e \in Exec |-> IF executor[e] = "closing" THEN left ELSE executor[e]]

\* What raises outside of work_manager.sync is fatal: a provider or resource,
\* or the close of an executor.
SyncFatal ==
  /\ Syncing("provider") \/ Syncing("removing")
  /\ task' = "ended"
  /\ Abandon
  /\ UNCHANGED <<servicesVars, broker, is_opened, sync, drop, managed,
                 signalVars>>

\* remove_executor forgets the executor, then closes it.
RemoveNext ==
  IF drop = {}
    THEN sync' = "sync" /\ UNCHANGED <<drop, executor, managed>>
    ELSE \E e \in drop :
           /\ executor' = [executor EXCEPT ![e] = "closing"]
           /\ managed' = managed \ {e}
           /\ drop' = drop \ {e}
           /\ sync' = "removing"

ProviderDone ==
  /\ Syncing("provider")
  /\ RemoveNext
  /\ UNCHANGED <<servicesVars, broker, is_opened, task, signalVars>>

\* The close of the executor ends, its run with it or never, and the next one is
\* removed.
Removed(e) ==
  /\ Syncing("removing")
  /\ executor[e] = "closing"
  /\ \E left \in {"closed", "stranded"} :
       IF drop = {}
         THEN /\ sync' = "sync"
              /\ executor' = [executor EXCEPT ![e] = left]
              /\ UNCHANGED <<drop, managed>>
         ELSE \E next \in drop :
                /\ executor' = [executor EXCEPT ![e] = left, ![next] = "closing"]
                /\ managed' = managed \ {next}
                /\ drop' = drop \ {next}
                /\ UNCHANGED sync
  /\ UNCHANGED <<servicesVars, broker, is_opened, task, signalVars>>

----------------------------------------------------------------------------
(* Signals *)

\* Mutant: stop only tells the loop to end.
StopByFlag ==
  /\ stops = 0 /\ broker \notin {"new", "ended", "failed"}
  /\ stops' = 1
  /\ ignored' = (task # "running")
  /\ UNCHANGED <<servicesVars, runVars, swallowed>>

\* Broker.stop, then unset_term_handler: there is no second signal.  The
\* cancellation reaches the close of an executor being removed, which ends there
\* or suppresses it (TasksGroup.close); is_running stays true.
Stop ==
  /\ stops = 0 /\ broker \notin {"new", "ended", "failed"}
  /\ stops' = 1
  /\ ignored' = (task # "running")
  /\ \/ task # "running" /\ UNCHANGED <<task, executor, swallowed>>
     \/ task = "running" /\ task' = "cancelled" /\ Abandon /\ UNCHANGED swallowed
     \/ Syncing("removing") /\ swallowed' = TRUE /\ UNCHANGED <<task, executor>>
  /\ UNCHANGED <<servicesVars, broker, is_opened, sync, drop, managed>>

----------------------------------------------------------------------------
(* Broker.close *)

\* Mutant: the executors are not waited for.
CloseOnlyServices ==
  /\ broker = "running" /\ task \in {"cancelled", "ended"}
  /\ broker' = "services"
  /\ UNCHANGED <<servicesVars, is_opened, task, sync, drop, executor,
                 managed, signalVars>>

\* executors_manager.close closes the executors it knows, all at once.
CloseExecutors ==
  /\ broker = "running" /\ task \in {"cancelled", "ended"}
  /\ broker' = "closing"
  /\ executor' = [e \in Exec |-> IF e \in managed THEN "closing" ELSE executor[e]]
  /\ UNCHANGED <<servicesVars, is_opened, task, sync, drop, managed, signalVars>>

\* The close of an executor ends, and its run with it or never.
ExecutorClosed(e) ==
  /\ broker = "closing"
  /\ executor[e] = "closing"
  /\ \E left \in {"closed", "stranded"} : executor' = [executor EXCEPT ![e] = left]
  /\ UNCHANGED <<servicesVars, broker, is_opened, task, sync, drop, managed,
                 signalVars>>

\* The run of an executor whose close was cancelled is over.
RunEnds(e) ==
  /\ executor[e] = "ending"
  /\ executor' = [executor EXCEPT ![e] = "closed"]
  /\ UNCHANGED <<servicesVars, broker, is_opened, task, sync, drop, managed,
                 signalVars>>

\* The close of an executor raises: gather does, and the services stay open.
ExecutorFails ==
  /\ broker = "closing"
  /\ Of("closing") # {}
  /\ broker' = "failed"
  /\ UNCHANGED <<servicesVars, is_opened, task, sync, drop, executor,
                 managed, signalVars>>

\* executors_tasks_group.close(wait_all=True): the run of every executor ends.
ExecutorsClosed ==
  /\ broker = "closing"
  /\ \A e \in Exec : executor[e] \in {"none", "closed"}
  /\ broker' = "services"
  /\ UNCHANGED <<servicesVars, is_opened, task, sync, drop, executor,
                 managed, signalVars>>

\* services_manager.close: a service that raises leaves those before it open.
CloseServices ==
  /\ broker = "services" /\ is_opened
  /\ \/ /\ open # {}
        /\ open' = open \ {Closing}
        /\ UNCHANGED broker
     \/ /\ open # {}
        /\ broker' = "failed"
        /\ UNCHANGED open
     \/ /\ open = {}
        /\ broker' = "ended"
        /\ UNCHANGED open
  /\ UNCHANGED <<loadVars, is_opened, task, sync, drop, executor, managed,
                 signalVars>>

----------------------------------------------------------------------------
NextBroker ==
  \/ LoadServices \/ OpenServices \/ Sync \/ SyncFatal \/ ProviderDone
  \/ Stop \/ CloseExecutors \/ ExecutorFails \/ ExecutorsClosed \/ CloseServices
  \/ \E e \in Exec : Removed(e) \/ ExecutorClosed(e) \/ RunEnds(e)

BrokerSpec == InitBroker /\ [][NextBroker]_brokerVars

\* The event loop runs what is ready: synchronisations follow each other, and every
\* open and close ends, though not every run of an executor (Executor.CloseEnds).
BrokerFairness ==
  /\ WF_brokerVars(LoadServices) /\ WF_brokerVars(OpenServices)
  /\ WF_brokerVars(Sync) /\ WF_brokerVars(ProviderDone)
  /\ WF_brokerVars(CloseExecutors) /\ WF_brokerVars(ExecutorsClosed) /\ WF_brokerVars(CloseServices)
  /\ WF_brokerVars(\E e \in Exec : Removed(e) \/ ExecutorClosed(e) \/ RunEnds(e))

FairBrokerSpec == BrokerSpec /\ BrokerFairness

----------------------------------------------------------------------------
(* Properties *)

TypeOK ==
  /\ ServicesTypeOK
  /\ broker \in {"new", "opening", "running", "closing", "services", "ended", "failed"}
  /\ {is_opened, ignored, swallowed} \subseteq BOOLEAN
  /\ task \in {"none", "running", "cancelled", "ended"}
  /\ sync \in {"sync", "provider", "removing"}
  /\ {drop, managed} \subseteq SUBSET Exec
  /\ executor \in [Exec -> {"none", "running", "closing", "closed", "ending", "stranded"}]
  /\ stops \in 0 .. 1

\* What runs finds what it uses open: an executor, be it running, closing or left
\* half closed, every service (the order of Broker.init and of Broker.close), and
\* an open service those it asked for.
UsedAreOpen ==
  /\ (\E e \in Exec : executor[e] \notin {"none", "closed"}) => open = DOMAIN loaded
  /\ NeedsOpen

\* A signal that cancels the synchronisations ends the broker with every service
\* closed, unless something fails to close or the run of an executor does not end
\* (Broker.stop, Broker.run, remove_executor).
StopEnds ==
  stops = 1 /\ ~ignored /\ ~swallowed ~>
    (broker = "ended" /\ open = {}) \/ broker = "failed" \/ Of("stranded") # {}
=============================================================================
