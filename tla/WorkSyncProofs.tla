---------------------------- MODULE WorkSyncProofs ----------------------------
(***************************************************************************)
(* Theorems about the synchronisation of a worker, for any definitions,     *)
(* queues, executors, resources and providers: the types of its variables,  *)
(* what a broker may end of, that what it runs is what it recorded, and     *)
(* that a resource is registered as long as somebody owns it.               *)
(***************************************************************************)
EXTENDS WorkSync, FiniteSetTheorems, TLAPS

----------------------------------------------------------------------------
(* Kinds *)

\* The kinds, their names and their order.
LEMMA Kinds ==
  /\ {"executors", "queues", "resources", "providers"} = Kind
  /\ Names["executors"] = Executor /\ Names["queues"] = Queue
  /\ Names["resources"] = Resource /\ Names["providers"] = Provider
  /\ Step["executors"] = 1 /\ Step["queues"] = 2
  /\ Step["resources"] = 3 /\ Step["providers"] = 4
BY DEF Kind, Names, Step

\* An answer of the worker manager has what its queues need.
LEMMA Answered ==
  ASSUME TypeOK
  PROVE  /\ Named(Answer)
         /\ \A q \in Answer["queues"] : ExecutorOf[q] \in Answer["executors"]
         /\ Answer["resources"] \subseteq defined
<1> DEFINE given == {q \in assigned : \A t \in Needs[q] : \E x \in defined : TypeOf[x] = t}
           needed == {x \in defined : \E q \in given : TypeOf[x] \in Needs[q]}
<1>1. /\ Answer["queues"] = given
      /\ Answer["executors"] = {ExecutorOf[q] : q \in given}
      /\ Answer["resources"] = needed \cap Resource
      /\ Answer["providers"] = needed \cap Provider
  BY DEF Answer, Kind
<1>2. given \subseteq Queue
  BY DEF TypeOK
<1>3. {ExecutorOf[q] : q \in given} \subseteq Executor
  BY <1>2, WorkSyncAssumption
<1>4. Answer = [k \in Kind |-> Answer[k]]
  <2> DEFINE part(k) == CASE k = "queues" -> given
                          [] k = "executors" -> {ExecutorOf[q] : q \in given}
                          [] k = "resources" -> needed \cap Resource
                          [] k = "providers" -> needed \cap Provider
  <2>1. Answer = [k \in Kind |-> part(k)]
    BY DEF Answer
  <2> HIDE DEF part
  <2> QED
    BY <2>1
<1>5. \A k \in Kind : Answer[k] \subseteq Names[k]
  BY <1>1, <1>2, <1>3, Kinds DEF Kind
<1> QED
  BY <1>1, <1>4, <1>5 DEF Named

\* One thing less to add
LEMMA AddedParts ==
  ASSUME TypeOK, NEW k \in Kind, NEW x, Added(k, x)
  PROVE  /\ work' = [add |-> work'.add, drop |-> work'.drop]
         /\ Named(work'.add) /\ work'.drop = work.drop
         /\ \A j \in Kind : work'.add[j] = IF j = k THEN work.add[j] \ {x} ELSE work.add[j]
<1>1. /\ work = [add |-> work.add, drop |-> work.drop]
      /\ work.add = [j \in Kind |-> work.add[j]]
      /\ \A j \in Kind : work.add[j] \subseteq Names[j]
  BY DEF TypeOK, Named
<1>2. work' = [add |-> [work.add EXCEPT ![k] = @ \ {x}], drop |-> work.drop]
  BY <1>1 DEF Added
<1>3. /\ work'.add = [work.add EXCEPT ![k] = @ \ {x}]
      /\ work'.drop = work.drop
      /\ work' = [add |-> work'.add, drop |-> work'.drop]
  BY <1>2
<1>4. /\ work'.add = [j \in Kind |-> work'.add[j]]
      /\ \A j \in Kind : work'.add[j] = IF j = k THEN work.add[j] \ {x} ELSE work.add[j]
  BY <1>1, <1>3
<1> QED
  BY <1>1, <1>3, <1>4 DEF Named

\* One thing less to drop
LEMMA DroppedParts ==
  ASSUME TypeOK, NEW k \in Kind, NEW x, Dropped(k, x)
  PROVE  /\ work' = [add |-> work'.add, drop |-> work'.drop]
         /\ Named(work'.drop) /\ work'.add = work.add
         /\ \A j \in Kind : work'.drop[j] = IF j = k THEN work.drop[j] \ {x} ELSE work.drop[j]
<1>1. /\ work = [add |-> work.add, drop |-> work.drop]
      /\ work.drop = [j \in Kind |-> work.drop[j]]
      /\ \A j \in Kind : work.drop[j] \subseteq Names[j]
  BY DEF TypeOK, Named
<1>2. work' = [add |-> work.add, drop |-> [work.drop EXCEPT ![k] = @ \ {x}]]
  BY <1>1 DEF Dropped
<1>3. /\ work'.drop = [work.drop EXCEPT ![k] = @ \ {x}]
      /\ work'.add = work.add
      /\ work' = [add |-> work'.add, drop |-> work'.drop]
  BY <1>2
<1>4. /\ work'.drop = [j \in Kind |-> work'.drop[j]]
      /\ \A j \in Kind : work'.drop[j] = IF j = k THEN work.drop[j] \ {x} ELSE work.drop[j]
  BY <1>1, <1>3
<1> QED
  BY <1>1, <1>3, <1>4 DEF Named

\* What a synchronisation records and hands over.
LEMMA SyncParts ==
  ASSUME TypeOK, Sync
  PROVE  /\ Named(recorded')
         /\ work' = [add |-> work'.add, drop |-> work'.drop]
         /\ Named(work'.add) /\ Named(work'.drop)
         /\ \A k \in Kind : /\ work'.add[k] = recorded'[k] \ recorded[k]
                            /\ work'.drop[k] = recorded[k] \ recorded'[k]
         /\ \A k \in Kind : recorded'[k] \subseteq Answer[k]
         /\ recorded'["executors"] = Answer["executors"]
<1>1. PICK unbuilt \in SUBSET (Answer["queues"] \ recorded["queues"]) :
        /\ recorded' = [Answer EXCEPT !["queues"] = @ \ unbuilt]
        /\ work' = [add  |-> [k \in Kind |-> recorded'[k] \ recorded[k]],
                    drop |-> [k \in Kind |-> recorded[k] \ recorded'[k]]]
  BY DEF Sync
<1>2. Answer = [k \in Kind |-> Answer[k]] /\ \A k \in Kind : Answer[k] \subseteq Names[k]
  BY Answered DEF Named
<1>3. \A k \in Kind : recorded[k] \subseteq Names[k]
  BY DEF TypeOK, Named
<1>4. /\ recorded' = [k \in Kind |-> recorded'[k]]
      /\ \A k \in Kind : recorded'[k] \subseteq Answer[k]
      /\ recorded'["executors"] = Answer["executors"]
  BY <1>1, <1>2 DEF Kind
<1>5. /\ work' = [add |-> work'.add, drop |-> work'.drop]
      /\ work'.add = [k \in Kind |-> recorded'[k] \ recorded[k]]
      /\ work'.drop = [k \in Kind |-> recorded[k] \ recorded'[k]]
  BY <1>1
<1>6. \A k \in Kind : /\ work'.add[k] = recorded'[k] \ recorded[k]
                      /\ work'.drop[k] = recorded[k] \ recorded'[k]
  BY <1>5
<1>7. /\ work'.add = [k \in Kind |-> work'.add[k]]
      /\ work'.drop = [k \in Kind |-> work'.drop[k]]
  BY <1>5
<1> QED
  BY <1>2, <1>3, <1>4, <1>5, <1>6, <1>7 DEF Named

\* What a synchronisation that fails records.
LEMMA SyncFailsParts ==
  ASSUME TypeOK, SyncFails
  PROVE  /\ Named(recorded')
         /\ recorded'["queues"] \subseteq Answer["queues"]
         /\ recorded'["resources"] = Answer["resources"]
         /\ recorded'["executors"] = recorded["executors"]
         /\ recorded'["providers"] = recorded["providers"]
<1>1. PICK unbuilt \in SUBSET (Answer["queues"] \ recorded["queues"]) :
        recorded' = [recorded EXCEPT !["queues"] = Answer["queues"] \ unbuilt,
                                     !["resources"] = Answer["resources"]]
  BY DEF SyncFails
<1>2. /\ recorded = [k \in Kind |-> recorded[k]]
      /\ \A k \in Kind : recorded[k] \subseteq Names[k] /\ Answer[k] \subseteq Names[k]
  BY Answered DEF TypeOK, Named
<1>3. recorded' = [k \in Kind |-> recorded'[k]]
  BY <1>1, <1>2
<1>4. /\ recorded'["queues"] = Answer["queues"] \ unbuilt
      /\ recorded'["resources"] = Answer["resources"]
      /\ recorded'["executors"] = recorded["executors"]
      /\ recorded'["providers"] = recorded["providers"]
  BY <1>1, <1>2 DEF Kind
<1>5. \A k \in Kind : recorded'[k] \subseteq Names[k]
  BY <1>2, <1>4 DEF Kind
<1> QED
  BY <1>3, <1>4, <1>5 DEF Named

----------------------------------------------------------------------------
(* Types *)

\* The resources a provider adds are among those it offers; the manager gets no
\* others.
LEMMA ProvidedTypes ==
  ASSUME TypeOK, NEW p \in Provider, NEW S \in SUBSET Resource, NEW after \in Provided(p, S)
  PROVE  /\ after.managed \subseteq managed[p] \cup S
         /\ after.registered \subseteq registered \cup S
         /\ after.raised \subseteq S \cup {"unbuilt"}
<1> DEFINE new == S \ managed[p]
           twice == new \cap registered
           ending == twice \cup (new \cap BadStrategy)
<1>1. CASE ending = {}
  <2>1. after = [managed |-> managed[p] \cup new, registered |-> registered \cup new,
                 raised |-> {}]
    BY <1>1 DEF Provided
  <2> QED
    BY <2>1
<1>2. CASE ending # {}
  <2>1. PICK r \in ending, before \in SUBSET (new \ ending) :
          after = [managed |-> managed[p] \cup before \cup {r},
                   registered |-> registered \cup before \cup {r},
                   raised |-> IF r \in twice THEN {r} ELSE {"unbuilt"}]
    BY <1>2 DEF Provided
  <2> QED
    BY <2>1
<1> QED
  BY <1>1, <1>2

\* The number of queues that cannot be built
LEMMA Faults ==
  ASSUME TypeOK, NEW unbuilt \in SUBSET Queue
  PROVE  Cardinality(unbuilt) \in Nat
BY FS_Subset, FS_CardinalityType, WorkSyncAssumption

\* Initially the types are right.
LEMMA InitTypeOK == Init => TypeOK
<1> SUFFICES ASSUME Init PROVE TypeOK
  OBVIOUS
<1>1. Named(Nothing)
  BY DEF Named, Nothing
<1>2. /\ recorded = Nothing
      /\ work = [add |-> work.add, drop |-> work.drop]
      /\ work.add = Nothing /\ work.drop = Nothing
  BY DEF Init, NoWork
<1>3. Named(recorded) /\ Named(work.add) /\ Named(work.drop)
  BY <1>1, <1>2
<1>4. managed \in [Provider -> SUBSET Resource] /\ faults \in 0 .. MaxFaults
  BY WorkSyncAssumption DEF Init
<1>5. /\ assigned \subseteq Queue /\ defined \in Definitions
      /\ running \subseteq Queue /\ stale \subseteq Queue
      /\ executors \subseteq Executor /\ open \subseteq Provider
      /\ registered \subseteq Resource /\ skipped \in BOOLEAN
      /\ broker = "up" /\ cause = "none"
  BY DEF Init
<1> QED
  BY <1>2, <1>3, <1>4, <1>5 DEF TypeOK

\* Every step keeps the types.
LEMMA NextTypeOK == TypeOK /\ [Next]_vars => TypeOK'
<1> SUFFICES ASSUME TypeOK, [Next]_vars PROVE TypeOK'
  OBVIOUS
<1> USE DEF TypeOK, server, providing
<1>1. CASE Assign
  BY <1>1 DEF Assign, Named
<1>2. CASE Define
  BY <1>2 DEF Define, Named
<1>3. CASE Sync
  <2>1. faults' \in 0 .. MaxFaults
    <3>1. PICK unbuilt \in SUBSET (Answer["queues"] \ recorded["queues"]) :
            Fault(Cardinality(unbuilt))
      BY <1>3 DEF Sync
    <3>2. unbuilt \in SUBSET Queue
      BY Answered, Kinds DEF Named
    <3> QED
      BY <3>1, <3>2, Faults, WorkSyncAssumption DEF Fault
  <2> QED
    BY <1>3, <2>1, SyncParts DEF Sync, Same
<1>4. CASE SyncFails
  <2>1. faults' \in 0 .. MaxFaults
    <3>1. PICK unbuilt \in SUBSET (Answer["queues"] \ recorded["queues"]) :
            Fault(Cardinality(unbuilt) + 1)
      BY <1>4 DEF SyncFails
    <3>2. unbuilt \in SUBSET Queue
      BY Answered, Kinds DEF Named
    <3> QED
      BY <3>1, <3>2, Faults, WorkSyncAssumption DEF Fault
  <2> QED
    BY <1>4, <2>1, SyncFailsParts DEF SyncFails, Same, Named
<1>5. ASSUME NEW e \in Executor, AddExecutor(e) PROVE TypeOK'
  <2>1. Added("executors", e)
    BY <1>5 DEF AddExecutor
  <2>2. work' = [add |-> work'.add, drop |-> work'.drop] /\ Named(work'.add) /\ Named(work'.drop)
    BY <2>1, AddedParts, Kinds DEF Named
  <2>3. executors' \subseteq Executor /\ faults' \in 0 .. MaxFaults
    BY <1>5, WorkSyncAssumption DEF AddExecutor, Fault
  <2> QED
    BY <1>5, <2>2, <2>3 DEF AddExecutor, Same, Fatal, Named
<1>6. ASSUME NEW e \in Executor, RemoveExecutor(e) PROVE TypeOK'
  <2>1. Dropped("executors", e)
    BY <1>6 DEF RemoveExecutor
  <2>2. work' = [add |-> work'.add, drop |-> work'.drop] /\ Named(work'.add) /\ Named(work'.drop)
    BY <2>1, DroppedParts, Kinds DEF Named
  <2>3. executors' \subseteq Executor /\ running' \subseteq Queue /\ stale' \subseteq Queue
    BY <1>6 DEF RemoveExecutor
  <2>4. broker' \in {"up", "waiting", "down", "closed"} /\ cause' \in {cause, "missing"}
    BY <1>6 DEF RemoveExecutor, Fatal
  <2> QED
    BY <1>6, <2>2, <2>3, <2>4 DEF RemoveExecutor, Named
<1>7. ASSUME NEW q \in Queue, AddQueue(q) PROVE TypeOK'
  <2>1. Added("queues", q)
    BY <1>7 DEF AddQueue
  <2>2. work' = [add |-> work'.add, drop |-> work'.drop] /\ Named(work'.add) /\ Named(work'.drop)
    BY <2>1, AddedParts, Kinds DEF Named
  <2> QED
    BY <1>7, <2>2 DEF AddQueue, Same, Fatal, Named
<1>8. ASSUME NEW q \in Queue, RemoveQueue(q) PROVE TypeOK'
  <2>1. Dropped("queues", q)
    BY <1>8 DEF RemoveQueue
  <2>2. work' = [add |-> work'.add, drop |-> work'.drop] /\ Named(work'.add) /\ Named(work'.drop)
    BY <2>1, DroppedParts, Kinds DEF Named
  <2> QED
    BY <1>8, <2>2 DEF RemoveQueue, Same, Named
<1>9. ASSUME NEW r \in Resource, AddResource(r) PROVE TypeOK'
  <2>1. Added("resources", r)
    BY <1>9 DEF AddResource
  <2>2. work' = [add |-> work'.add, drop |-> work'.drop] /\ Named(work'.add) /\ Named(work'.drop)
    BY <2>1, AddedParts, Kinds DEF Named
  <2> QED
    BY <1>9, <2>2 DEF AddResource, Same, Fatal, Named
<1>10. ASSUME NEW r \in Resource, RemoveResource(r) PROVE TypeOK'
  <2>1. Dropped("resources", r)
    BY <1>10 DEF RemoveResource
  <2>2. work' = [add |-> work'.add, drop |-> work'.drop] /\ Named(work'.add) /\ Named(work'.drop)
    BY <2>1, DroppedParts, Kinds DEF Named
  <2> QED
    BY <1>10, <2>2 DEF RemoveResource, Same, Named
<1>11. ASSUME NEW p \in Provider, OpenProvider(p) PROVE TypeOK'
  <2>1. Added("providers", p)
    BY <1>11 DEF OpenProvider
  <2>2. work' = [add |-> work'.add, drop |-> work'.drop] /\ Named(work'.add) /\ Named(work'.drop)
    BY <2>1, AddedParts, Kinds DEF Named
  <2>3. UNCHANGED <<assigned, defined, recorded, running, stale, executors, skipped>>
    BY <1>11 DEF OpenProvider
  <2>4. CASE Fault(1) /\ Fatal("unbuilt") /\ UNCHANGED providing
    BY <2>2, <2>3, <2>4, WorkSyncAssumption DEF Fault, Fatal, Named
  <2>5. ASSUME NEW S \in SUBSET Resource, NEW after \in Provided(p, S),
               managed' = [managed EXCEPT ![p] = after.managed],
               registered' = after.registered,
               IF after.raised = {} THEN Same /\ open' = open \cup {p}
               ELSE (\E why \in after.raised : Fatal(why)) /\ UNCHANGED open,
               UNCHANGED faults
        PROVE  TypeOK'
    <3>1. /\ after.managed \subseteq Resource /\ after.registered \subseteq Resource
          /\ after.raised \subseteq Resource \cup {"unbuilt"}
      BY ProvidedTypes
    <3>2. managed' \in [Provider -> SUBSET Resource] /\ registered' \subseteq Resource
      BY <2>5, <3>1
    <3>3. /\ broker' \in {"up", "waiting", "down", "closed"} /\ open' \subseteq Provider
          /\ cause' \in {"none", "stopped", "unbuilt", "twice", "missing"} \cup Resource
      <4>1. CASE after.raised = {}
        BY <2>5, <4>1 DEF Same
      <4>2. CASE after.raised # {}
        BY <2>5, <3>1, <4>2 DEF Fatal
      <4> QED
        BY <4>1, <4>2
    <3> QED
      BY <2>2, <2>3, <2>5, <3>2, <3>3 DEF Named
  <2>6. (IF p \in Periodic THEN {} ELSE Offers[p]) \in SUBSET Resource
    BY WorkSyncAssumption
  <2> QED
    BY <1>11, <2>4, <2>5, <2>6 DEF OpenProvider
<1>12. ASSUME NEW p \in Provider, CloseProvider(p) PROVE TypeOK'
  <2>1. Dropped("providers", p)
    BY <1>12 DEF CloseProvider
  <2>2. work' = [add |-> work'.add, drop |-> work'.drop] /\ Named(work'.add) /\ Named(work'.drop)
    BY <2>1, DroppedParts, Kinds DEF Named
  <2> QED
    BY <1>12, <2>2 DEF CloseProvider, Same, Named
<1>13. ASSUME NEW p \in Provider, Poll(p) PROVE TypeOK'
  <2> DEFINE gone(S, after) == IF after.raised = {} THEN after.managed \ S ELSE {}
  <2>0. PICK S \in SUBSET Offers[p] : \E after \in Provided(p, S) :
          /\ managed' = [managed EXCEPT ![p] = after.managed \ gone(S, after)]
          /\ registered' = after.registered \ gone(S, after)
    BY <1>13 DEF Poll
  <2>1. PICK after \in Provided(p, S) :
          /\ managed' = [managed EXCEPT ![p] = after.managed \ gone(S, after)]
          /\ registered' = after.registered \ gone(S, after)
    BY <2>0
  <2>2. after.managed \subseteq Resource /\ after.registered \subseteq Resource
    BY ProvidedTypes, WorkSyncAssumption
  <2>3. managed' \in [Provider -> SUBSET Resource] /\ registered' \subseteq Resource
    BY <2>1, <2>2
  <2> QED
    BY <1>13, <2>3 DEF Poll, Same, Named
<1>14. CASE ExecutorClosed
  BY <1>14 DEF ExecutorClosed, Named
<1>15. CASE Stop
  BY <1>15 DEF Stop, Fatal, Named
<1>16. CASE Close
  BY <1>16 DEF Close, Named
<1>17. CASE UNCHANGED vars
  BY <1>17 DEF vars, Named
<1> QED
  BY <1>1, <1>2, <1>3, <1>4, <1>5, <1>6, <1>7, <1>8, <1>9, <1>10, <1>11, <1>12, <1>13,
     <1>14, <1>15, <1>16, <1>17 DEF Next

\* TypeOK: the variables of the synchronisation keep their types.
THEOREM TypeCorrect == Spec => []TypeOK
BY InitTypeOK, NextTypeOK, PTL DEF Spec

----------------------------------------------------------------------------
(* The invariant *)

\* What is new is recorded, what has gone is not.
Disjoint ==
  \A k \in Kind : work.add[k] \subseteq recorded[k] /\ work.drop[k] \cap recorded[k] = {}

\* The executors of the queues to add are recorded, and those of all queues unless a
\* synchronisation was skipped.
Founded ==
  /\ \A q \in work.add["queues"] : ExecutorOf[q] \in recorded["executors"]
  /\ ~skipped => \A q \in recorded["queues"] : ExecutorOf[q] \in recorded["executors"]

\* Resources come from definitions and offers.
Sourced ==
  /\ \A p \in Provider : managed[p] \subseteq Offers[p]
  /\ \A r \in recorded["resources"] \cup work.drop["resources"] : \E d \in Definitions : r \in d

Shape == Disjoint /\ Founded /\ Sourced

\* What has been added of what is recorded, and not been dropped of what was.
Tracked(k) == (recorded[k] \ work.add[k]) \cup work.drop[k]

Alive == broker \in {"up", "waiting"}

Applied ==
  Alive => /\ executors = Tracked("executors") /\ open = Tracked("providers")
           /\ ~skipped => running = Tracked("queues") /\ stale = {}

----------------------------------------------------------------------------
(* What is recorded and what is left to do *)

\* One thing of the work is done.
Done ==
  /\ recorded' = recorded
  /\ \A k \in Kind : work'.add[k] \subseteq work.add[k] /\ work'.drop[k] \subseteq work.drop[k]

\* A step does one thing of the work or nothing, unless it synchronises.
LEMMA WorkSteps ==
  ASSUME TypeOK, [Next]_vars
  PROVE  Done \/ Sync \/ SyncFails
<1> USE DEF TypeOK
<1>1. UNCHANGED <<recorded, work>> => Done
  BY DEF Done
<1>2. ASSUME NEW k \in Kind, NEW x, Added(k, x), recorded' = recorded PROVE Done
  BY <1>2, AddedParts DEF Done
<1>3. ASSUME NEW k \in Kind, NEW x, Dropped(k, x), recorded' = recorded PROVE Done
  BY <1>3, DroppedParts DEF Done
<1>4. ASSUME NEW e \in Executor, AddExecutor(e) \/ RemoveExecutor(e) PROVE Done
  BY <1>2, <1>3, <1>4, Kinds DEF AddExecutor, RemoveExecutor
<1>5. ASSUME NEW q \in Queue, AddQueue(q) \/ RemoveQueue(q) PROVE Done
  BY <1>2, <1>3, <1>5, Kinds DEF AddQueue, RemoveQueue
<1>6. ASSUME NEW r \in Resource, AddResource(r) \/ RemoveResource(r) PROVE Done
  BY <1>2, <1>3, <1>6, Kinds DEF AddResource, RemoveResource
<1>7. ASSUME NEW p \in Provider, OpenProvider(p) \/ CloseProvider(p) PROVE Done
  BY <1>2, <1>3, <1>7, Kinds DEF OpenProvider, CloseProvider
<1>8. ASSUME NEW p \in Provider, Poll(p) PROVE Done
  BY <1>1, <1>8 DEF Poll
<1>9. Assign \/ Define \/ ExecutorClosed \/ Stop \/ Close \/ UNCHANGED vars => Done
  BY <1>1 DEF Assign, Define, ExecutorClosed, Stop, Close, vars
<1> QED
  BY <1>4, <1>5, <1>6, <1>7, <1>8, <1>9 DEF Next

\* Providers only manage what they offer.
LEMMA ManagedSteps ==
  ASSUME TypeOK, [Next]_vars, NEW o \in Provider
  PROVE  managed'[o] \subseteq managed[o] \cup Offers[o]
<1> USE DEF TypeOK, providing
<1>1. ASSUME NEW p \in Provider, OpenProvider(p) PROVE managed'[o] \subseteq managed[o] \cup Offers[o]
  <2> DEFINE S == IF p \in Periodic THEN {} ELSE Offers[p]
  <2>1. S \in SUBSET Resource /\ S \subseteq Offers[p]
    BY WorkSyncAssumption
  <2>2. CASE \E after \in Provided(p, S) : managed' = [managed EXCEPT ![p] = after.managed]
    BY <2>1, <2>2, ProvidedTypes
  <2>3. CASE UNCHANGED managed
    BY <2>3
  <2> QED
    BY <1>1, <2>2, <2>3 DEF OpenProvider
<1>2. ASSUME NEW p \in Provider, Poll(p) PROVE managed'[o] \subseteq managed[o] \cup Offers[o]
  <2> DEFINE gone(S, after) == IF after.raised = {} THEN after.managed \ S ELSE {}
  <2>1. PICK S \in SUBSET Offers[p] : \E after \in Provided(p, S) :
          managed' = [managed EXCEPT ![p] = after.managed \ gone(S, after)]
    BY <1>2 DEF Poll
  <2>2. PICK after \in Provided(p, S) :
          managed' = [managed EXCEPT ![p] = after.managed \ gone(S, after)]
    BY <2>1
  <2>3. after.managed \subseteq managed[p] \cup S
    BY ProvidedTypes, WorkSyncAssumption
  <2> QED
    BY <2>2, <2>3
<1>3. ASSUME NEW p \in Provider, CloseProvider(p) PROVE managed'[o] \subseteq managed[o] \cup Offers[o]
  BY <1>3 DEF CloseProvider
<1>4. ASSUME NEW e \in Executor, AddExecutor(e) \/ RemoveExecutor(e) PROVE UNCHANGED managed
  BY <1>4 DEF AddExecutor, RemoveExecutor
<1>5. ASSUME NEW q \in Queue, AddQueue(q) \/ RemoveQueue(q) PROVE UNCHANGED managed
  BY <1>5 DEF AddQueue, RemoveQueue
<1>6. ASSUME NEW r \in Resource, AddResource(r) \/ RemoveResource(r) PROVE UNCHANGED managed
  BY <1>6 DEF AddResource, RemoveResource
<1>7. Assign \/ Define \/ Sync \/ SyncFails \/ ExecutorClosed \/ Stop \/ Close \/ UNCHANGED vars
        => UNCHANGED managed
  BY DEF Assign, Define, Sync, SyncFails, ExecutorClosed, Stop, Close, vars
<1> QED
  BY <1>1, <1>2, <1>3, <1>4, <1>5, <1>6, <1>7 DEF Next

\* `skipped` is never reset, and set by a failed synchronisation only.
LEMMA SkippedSteps ==
  ASSUME [Next]_vars
  PROVE  /\ skipped => skipped' = skipped
         /\ SyncFails \/ skipped' = skipped
<1>1. SyncFails => skipped' = TRUE
  BY DEF SyncFails
<1>2. ASSUME NEW e \in Executor, AddExecutor(e) \/ RemoveExecutor(e) PROVE skipped' = skipped
  BY <1>2 DEF AddExecutor, RemoveExecutor
<1>3. ASSUME NEW q \in Queue, AddQueue(q) \/ RemoveQueue(q) PROVE skipped' = skipped
  BY <1>3 DEF AddQueue, RemoveQueue
<1>4. ASSUME NEW r \in Resource, AddResource(r) \/ RemoveResource(r) PROVE skipped' = skipped
  BY <1>4 DEF AddResource, RemoveResource
<1>5. ASSUME NEW p \in Provider, OpenProvider(p) \/ CloseProvider(p) \/ Poll(p)
      PROVE  skipped' = skipped
  BY <1>5 DEF OpenProvider, CloseProvider, Poll
<1>6. Assign \/ Define \/ Sync \/ ExecutorClosed \/ Stop \/ Close \/ UNCHANGED vars
        => skipped' = skipped
  BY DEF Assign, Define, Sync, ExecutorClosed, Stop, Close, vars
<1>7. SyncFails \/ skipped' = skipped
  BY <1>2, <1>3, <1>4, <1>5, <1>6 DEF Next
<1> QED
  BY <1>1, <1>7, Zenon

\* Initially there is nothing to do.
LEMMA InitShape == Init => Shape /\ Applied
<1> SUFFICES ASSUME Init PROVE Shape /\ Applied
  OBVIOUS
<1>1. \A k \in Kind : recorded[k] = {} /\ work.add[k] = {} /\ work.drop[k] = {}
  BY DEF Init, NoWork, Nothing
<1>2. Disjoint /\ Founded /\ Sourced
  BY <1>1, Kinds DEF Init, Disjoint, Founded, Sourced
<1>3. Tracked("executors") = {} /\ Tracked("providers") = {} /\ Tracked("queues") = {}
  BY <1>1, Kinds DEF Tracked
<1> QED
  BY <1>2, <1>3 DEF Init, Shape, Applied

\* Every step keeps Shape.
LEMMA NextShape == TypeOK /\ Shape /\ [Next]_vars => Shape'
<1> SUFFICES ASSUME TypeOK, Shape, [Next]_vars PROVE Shape'
  OBVIOUS
<1>1. \A p \in Provider : managed'[p] \subseteq Offers[p]
  BY ManagedSteps DEF Shape, Sourced
<1>2. CASE Done
  <2>1. Disjoint'
    BY <1>2 DEF Shape, Disjoint, Done
  <2>2. Founded'
    BY <1>2, SkippedSteps, Kinds DEF Shape, Founded, Done
  <2>3. Sourced'
    BY <1>1, <1>2, Kinds DEF Shape, Sourced, Done
  <2> QED
    BY <2>1, <2>2, <2>3 DEF Shape
<1>3. CASE Sync
  <2>1. Disjoint'
    BY <1>3, SyncParts DEF Disjoint
  <2>2. \A q \in recorded'["queues"] : ExecutorOf[q] \in recorded'["executors"]
    BY <1>3, SyncParts, Answered, Kinds
  <2>3. Founded'
    BY <1>3, <2>1, <2>2, Kinds DEF Founded, Disjoint
  <2>4. recorded'["resources"] \subseteq defined /\ defined \in Definitions
    BY <1>3, SyncParts, Answered, Kinds DEF TypeOK
  <2>5. work'.drop["resources"] \subseteq recorded["resources"]
    BY <1>3, SyncParts, Kinds
  <2>6. Sourced'
    BY <1>1, <2>4, <2>5 DEF Sourced, Shape
  <2> QED
    BY <2>1, <2>3, <2>6 DEF Shape
<1>4. CASE SyncFails
  <2>1. work' = work /\ skipped' = TRUE /\ \A k \in Kind : work.add[k] = {} /\ work.drop[k] = {}
    BY <1>4 DEF SyncFails, NoWork, Nothing
  <2>2. Disjoint' /\ Founded'
    BY <2>1, Kinds DEF Disjoint, Founded
  <2>3. recorded'["resources"] \subseteq defined /\ defined \in Definitions
    BY <1>4, SyncFailsParts, Answered DEF TypeOK
  <2>4. Sourced'
    BY <1>1, <2>1, <2>3, Kinds DEF Sourced
  <2> QED
    BY <2>2, <2>4 DEF Shape
<1> QED
  BY <1>2, <1>3, <1>4, WorkSteps

----------------------------------------------------------------------------
(* What has been applied *)

\* What is added is tracked.
LEMMA TrackedAdd ==
  ASSUME TypeOK, Disjoint, NEW k \in Kind, NEW x \in work.add[k], Added(k, x), recorded' = recorded
  PROVE  \A j \in Kind : Tracked(j)' = IF j = k THEN Tracked(j) \cup {x} ELSE Tracked(j)
<1> TAKE j \in Kind
<1>1. /\ work'.add[j] = IF j = k THEN work.add[j] \ {x} ELSE work.add[j]
      /\ work'.drop[j] = work.drop[j] /\ recorded'[j] = recorded[j]
  BY AddedParts
<1>2. x \in recorded[k]
  BY DEF Disjoint
<1> QED
  BY <1>1, <1>2 DEF Tracked

\* What is dropped is not any more.
LEMMA TrackedDrop ==
  ASSUME TypeOK, Disjoint, NEW k \in Kind, NEW x \in work.drop[k], Dropped(k, x), recorded' = recorded
  PROVE  \A j \in Kind : Tracked(j)' = IF j = k THEN Tracked(j) \ {x} ELSE Tracked(j)
<1> TAKE j \in Kind
<1>1. /\ work'.drop[j] = IF j = k THEN work.drop[j] \ {x} ELSE work.drop[j]
      /\ work'.add[j] = work.add[j] /\ recorded'[j] = recorded[j]
  BY DroppedParts
<1>2. x \notin recorded[k]
  BY DEF Disjoint
<1> QED
  BY <1>1, <1>2 DEF Tracked

\* What is tracked is the same before and after a synchronisation.
LEMMA TrackedSync ==
  ASSUME TypeOK, Sync, NEW k \in Kind
  PROVE  Tracked(k)' = Tracked(k)
<1>1. work.add[k] = {} /\ work.drop[k] = {}
  BY DEF Sync, NoWork, Nothing
<1> QED
  BY <1>1, SyncParts DEF Tracked

\* Every step keeps Applied.
LEMMA NextApplied == TypeOK /\ Shape /\ Applied /\ [Next]_vars => Applied'
<1> SUFFICES ASSUME TypeOK, Shape, Applied, [Next]_vars PROVE Applied'
  OBVIOUS
<1> USE DEF providing, server
<1>1. ASSUME UNCHANGED <<recorded, work, running, stale, executors, open, skipped>>,
             Alive' => Alive
      PROVE  Applied'
  BY <1>1 DEF Applied, Tracked, Alive
<1>2. CASE Assign \/ Define \/ ExecutorClosed \/ Stop \/ UNCHANGED vars
  BY <1>1, <1>2 DEF Assign, Define, ExecutorClosed, Stop, Fatal, Alive, vars
<1>3. CASE Close
  BY <1>3 DEF Close, Applied, Alive
<1>4. CASE Sync
  BY <1>4, TrackedSync, Kinds DEF Sync, Same, Applied, Alive
<1>5. CASE SyncFails
  <2>1. /\ skipped' = TRUE /\ Alive /\ work' = work
        /\ executors' = executors /\ open' = open
    BY <1>5 DEF SyncFails, Alive
  <2>2. recorded'["executors"] = recorded["executors"] /\ recorded'["providers"] = recorded["providers"]
    BY <1>5, SyncFailsParts
  <2>3. Tracked("executors")' = Tracked("executors") /\ Tracked("providers")' = Tracked("providers")
    BY <2>1, <2>2 DEF Tracked
  <2> QED
    BY <2>1, <2>3 DEF Applied
<1>6. ASSUME NEW e \in Executor, AddExecutor(e) PROVE Applied'
  <2>1. e \in work.add["executors"] /\ Added("executors", e) /\ recorded' = recorded
    BY <1>6 DEF AddExecutor
  <2>2. /\ Tracked("executors")' = Tracked("executors") \cup {e}
        /\ Tracked("queues")' = Tracked("queues") /\ Tracked("providers")' = Tracked("providers")
    BY <2>1, TrackedAdd, Kinds DEF Shape
  <2>3. /\ Alive /\ UNCHANGED <<running, stale, open, skipped>>
        /\ executors' = executors \cup {e} \/ ~Alive'
    BY <1>6 DEF AddExecutor, Adding, Alive, Fatal
  <2> QED
    BY <2>2, <2>3 DEF Applied
<1>7. ASSUME NEW e \in Executor, RemoveExecutor(e) PROVE Applied'
  <2>1. e \in work.drop["executors"] /\ Dropped("executors", e) /\ recorded' = recorded
    BY <1>7 DEF RemoveExecutor
  <2>2. /\ Tracked("executors")' = Tracked("executors") \ {e}
        /\ Tracked("queues")' = Tracked("queues") /\ Tracked("providers")' = Tracked("providers")
    BY <2>1, TrackedDrop, Kinds DEF Shape
  <2>3. CASE e \notin executors
    BY <1>7, <2>3 DEF RemoveExecutor, Fatal, Applied, Alive
  <2>4. CASE e \in executors
    <3>1. /\ Alive /\ UNCHANGED <<open, skipped>>
          /\ executors' = executors \ {e}
          /\ running' = {q \in running : ExecutorOf[q] # e}
          /\ stale' = {q \in stale : ExecutorOf[q] # e}
      BY <1>7, <2>4 DEF RemoveExecutor, Dropping, Alive
    <3>2. ASSUME ~skipped PROVE running' = running /\ stale' = {}
      <4>1. work.add = Nothing /\ work.drop["queues"] = {}
        BY <1>7, Kinds DEF RemoveExecutor, Dropping
      <4>2. running = recorded["queues"] /\ stale = {}
        BY <3>1, <3>2, <4>1, Kinds DEF Applied, Tracked, Nothing
      <4>3. e \notin recorded["executors"]
        BY <2>1, Kinds DEF Shape, Disjoint
      <4>4. \A q \in running : ExecutorOf[q] # e
        BY <3>2, <4>2, <4>3 DEF Shape, Founded
      <4> QED
        BY <3>1, <4>2, <4>4
    <3> QED
      BY <2>2, <3>1, <3>2 DEF Applied
  <2> QED
    BY <2>3, <2>4
<1>8. ASSUME NEW q \in Queue, AddQueue(q) PROVE Applied'
  <2>1. q \in work.add["queues"] /\ Added("queues", q) /\ recorded' = recorded
    BY <1>8 DEF AddQueue
  <2>2. /\ Tracked("queues")' = Tracked("queues") \cup {q}
        /\ Tracked("executors")' = Tracked("executors") /\ Tracked("providers")' = Tracked("providers")
    BY <2>1, TrackedAdd, Kinds DEF Shape
  <2>3. /\ Alive /\ UNCHANGED <<executors, stale, open, skipped>>
        /\ running' = running \cup {q} \/ ~Alive'
    BY <1>8 DEF AddQueue, Adding, Alive, Fatal
  <2> QED
    BY <2>2, <2>3 DEF Applied
<1>9. ASSUME NEW q \in Queue, RemoveQueue(q) PROVE Applied'
  <2>1. q \in work.drop["queues"] /\ Dropped("queues", q) /\ recorded' = recorded
    BY <1>9 DEF RemoveQueue
  <2>2. /\ Tracked("queues")' = Tracked("queues") \ {q}
        /\ Tracked("executors")' = Tracked("executors") /\ Tracked("providers")' = Tracked("providers")
    BY <2>1, TrackedDrop, Kinds DEF Shape
  <2>3. Alive /\ UNCHANGED <<executors, stale, open, skipped>> /\ running' = running \ {q}
    BY <1>9 DEF RemoveQueue, Dropping, Alive
  <2> QED
    BY <2>2, <2>3 DEF Applied
<1>10. ASSUME NEW r \in Resource, AddResource(r) PROVE Applied'
  <2>1. r \in work.add["resources"] /\ Added("resources", r) /\ recorded' = recorded
    BY <1>10 DEF AddResource
  <2>2. /\ Tracked("queues")' = Tracked("queues")
        /\ Tracked("executors")' = Tracked("executors") /\ Tracked("providers")' = Tracked("providers")
    BY <2>1, TrackedAdd, Kinds DEF Shape
  <2>3. Alive /\ UNCHANGED <<executors, running, stale, open, skipped>>
    BY <1>10 DEF AddResource, Adding, Alive
  <2> QED
    BY <2>2, <2>3 DEF Applied
<1>11. ASSUME NEW r \in Resource, RemoveResource(r) PROVE Applied'
  <2>1. r \in work.drop["resources"] /\ Dropped("resources", r) /\ recorded' = recorded
    BY <1>11 DEF RemoveResource
  <2>2. /\ Tracked("queues")' = Tracked("queues")
        /\ Tracked("executors")' = Tracked("executors") /\ Tracked("providers")' = Tracked("providers")
    BY <2>1, TrackedDrop, Kinds DEF Shape
  <2>3. Alive /\ UNCHANGED <<executors, running, stale, open, skipped>>
    BY <1>11 DEF RemoveResource, Dropping, Alive
  <2> QED
    BY <2>2, <2>3 DEF Applied
<1>12. ASSUME NEW p \in Provider, OpenProvider(p) PROVE Applied'
  <2>1. p \in work.add["providers"] /\ Added("providers", p) /\ recorded' = recorded
    BY <1>12 DEF OpenProvider
  <2>2. /\ Tracked("providers")' = Tracked("providers") \cup {p}
        /\ Tracked("executors")' = Tracked("executors") /\ Tracked("queues")' = Tracked("queues")
    BY <2>1, TrackedAdd, Kinds DEF Shape
  <2>3. /\ Alive /\ UNCHANGED <<executors, running, stale, skipped>>
        /\ open' = open \cup {p} \/ ~Alive'
    BY <1>12 DEF OpenProvider, Adding, Alive, Fatal
  <2> QED
    BY <2>2, <2>3 DEF Applied
<1>13. ASSUME NEW p \in Provider, CloseProvider(p) PROVE Applied'
  <2>1. p \in work.drop["providers"] /\ Dropped("providers", p) /\ recorded' = recorded
    BY <1>13 DEF CloseProvider
  <2>2. /\ Tracked("providers")' = Tracked("providers") \ {p}
        /\ Tracked("executors")' = Tracked("executors") /\ Tracked("queues")' = Tracked("queues")
    BY <2>1, TrackedDrop, Kinds DEF Shape
  <2>3. Alive /\ UNCHANGED <<executors, running, stale, skipped>> /\ open' = open \ {p}
    BY <1>13 DEF CloseProvider, Dropping, Alive
  <2> QED
    BY <2>2, <2>3 DEF Applied
<1>14. ASSUME NEW p \in Provider, Poll(p) PROVE Applied'
  BY <1>1, <1>14 DEF Poll, Same, Alive
<1> QED
  BY <1>2, <1>3, <1>4, <1>5, <1>6, <1>7, <1>8, <1>9, <1>10, <1>11, <1>12, <1>13, <1>14 DEF Next

----------------------------------------------------------------------------
(* Resources *)

\* What a provider adds, resource by resource.
LEMMA ProvidedParts ==
  ASSUME TypeOK, NEW p \in Provider, NEW S \in SUBSET Resource, NEW after \in Provided(p, S)
  PROVE  /\ managed[p] \subseteq after.managed /\ after.managed \subseteq managed[p] \cup S
         /\ after.raised \subseteq ((S \ managed[p]) \cap registered) \cup {"unbuilt"}
         /\ \A r \in Resource :
              r \in after.registered <=> r \in registered \/ r \in after.managed \ managed[p]
<1> DEFINE new == S \ managed[p]
           twice == new \cap registered
           ending == twice \cup (new \cap BadStrategy)
<1>1. CASE ending = {}
  <2>1. after = [managed |-> managed[p] \cup new, registered |-> registered \cup new,
                 raised |-> {}]
    BY <1>1 DEF Provided
  <2> QED
    BY <2>1
<1>2. CASE ending # {}
  <2>1. PICK r \in ending, before \in SUBSET (new \ ending) :
          after = [managed |-> managed[p] \cup before \cup {r},
                   registered |-> registered \cup before \cup {r},
                   raised |-> IF r \in twice THEN {r} ELSE {"unbuilt"}]
    BY <1>2 DEF Provided
  <2> QED
    BY <2>1
<1> QED
  BY <1>1, <1>2

\* A resource that a provider offers and that is registered without it has a shared
\* name.
LEMMA OthersAreShared ==
  ASSUME TypeOK, Shape, RegisteredIfOwned, Alive, ~skipped,
         NEW p \in Provider, NEW r \in Offers[p], r \in registered, r \notin managed[p]
  PROVE  Shared(r)
<1> SUFFICES ASSUME ~Shared(r) PROVE FALSE
  OBVIOUS
<1>1. r \in Resource
  BY WorkSyncAssumption
<1>2. r \in Tracked("resources") \/ \E o \in Provider : r \in managed[o]
  BY <1>1 DEF RegisteredIfOwned, Tracked, Alive
<1>3. CASE r \in Tracked("resources")
  BY <1>3 DEF Tracked, Shape, Sourced, Shared
<1>4. CASE \E o \in Provider : r \in managed[o]
  BY <1>4 DEF Shape, Sourced, Shared
<1> QED
  BY <1>2, <1>3, <1>4

\* What is recorded has no unshared name among what a provider offers.
LEMMA TrackedOffers ==
  ASSUME Shape, NEW p \in Provider, NEW r \in Offers[p], ~Shared(r)
  PROVE  r \notin Tracked("resources") /\ \A o \in Provider \ {p} : r \notin managed[o]
BY DEF Tracked, Shape, Sourced, Shared

\* What a provider adds keeps the resources, with or without a removal of what it
\* does not have any more.
LEMMA ProvidedOwned ==
  ASSUME TypeOK, Shape, RegisteredIfOwned, Alive, ~skipped,
         NEW p \in Provider, NEW S \in SUBSET Offers[p], NEW after \in Provided(p, S),
         NEW gone \in SUBSET after.managed,
         managed' = [managed EXCEPT ![p] = after.managed \ gone],
         registered' = after.registered \ gone,
         Tracked("resources")' = Tracked("resources"),
         NEW r \in Resource, ~Shared(r)
  PROVE  r \in registered' <=> r \in Tracked("resources")' \/ \E o \in Provider : r \in managed'[o]
<1>1. S \in SUBSET Resource
  BY WorkSyncAssumption
<1>2. /\ managed[p] \subseteq after.managed /\ after.managed \subseteq managed[p] \cup S
      /\ r \in after.registered <=> r \in registered \/ r \in after.managed \ managed[p]
  BY <1>1, ProvidedParts
<1>4. r \in registered <=> r \in Tracked("resources") \/ \E o \in Provider : r \in managed[o]
  BY DEF RegisteredIfOwned, Tracked, Alive
<1>5. managed'[p] = after.managed \ gone /\ \A o \in Provider \ {p} : managed'[o] = managed[o]
  BY DEF TypeOK
<1>6. CASE r \in Offers[p]
  <2>1. r \notin Tracked("resources") /\ \A o \in Provider \ {p} : r \notin managed[o]
    BY <1>6, TrackedOffers
  <2>2. r \in registered <=> r \in managed[p]
    BY <1>4, <2>1
  <2>3. (\E o \in Provider : r \in managed'[o]) <=> r \in after.managed \ gone
    BY <1>5, <2>1
  <2> QED
    BY <1>2, <2>1, <2>2, <2>3
<1>7. CASE r \notin Offers[p]
  <2>1. r \notin managed[p] /\ r \notin after.managed /\ r \notin gone
    BY <1>2, <1>7 DEF Shape, Sourced
  <2>2. (\E o \in Provider : r \in managed'[o]) <=> \E o \in Provider : r \in managed[o]
    BY <1>5, <2>1
  <2> QED
    BY <1>2, <1>4, <2>1, <2>2
<1> QED
  BY <1>6, <1>7

\* Every step keeps what is registered in line with what is owned.
LEMMA NextRegistered ==
  TypeOK /\ Shape /\ RegisteredIfOwned /\ [Next]_vars => RegisteredIfOwned'
<1> SUFFICES ASSUME TypeOK, Shape, RegisteredIfOwned, [Next]_vars,
                    NEW r \in Resource, Alive', ~Shared(r), ~skipped'
             PROVE  r \in registered' <=>
                      r \in Tracked("resources")' \/ \E o \in Provider : r \in managed'[o]
  BY DEF RegisteredIfOwned, Tracked, Alive, Shared
<1> USE DEF providing, server
<1> DEFINE Goal == r \in registered' <=>
                     r \in Tracked("resources")' \/ \E o \in Provider : r \in managed'[o]
<1>0. ~skipped
  BY SkippedSteps
<1>1. Alive => (r \in registered <=> r \in Tracked("resources") \/ \E o \in Provider : r \in managed[o])
  BY <1>0 DEF RegisteredIfOwned, Tracked, Alive
<1>2. ASSUME Alive, UNCHANGED <<managed, registered>>, Tracked("resources")' = Tracked("resources")
      PROVE  Goal
  BY <1>1, <1>2
<1>3. CASE Assign \/ Define \/ ExecutorClosed \/ UNCHANGED vars
  <2>1. UNCHANGED <<recorded, work, managed, registered>> /\ Alive
    BY <1>3 DEF Assign, Define, ExecutorClosed, Alive, vars
  <2> QED
    BY <1>2, <2>1 DEF Tracked
<1>4. CASE Stop \/ Close \/ SyncFails
  BY <1>4 DEF Stop, Fatal, Close, SyncFails, Alive
<1>5. CASE Sync
  <2>1. UNCHANGED <<managed, registered>> /\ Alive
    BY <1>5 DEF Sync, Alive
  <2> QED
    BY <1>2, <1>5, <2>1, TrackedSync, Kinds
<1>6. ASSUME NEW e \in Executor, AddExecutor(e) PROVE Goal
  <2>1. /\ e \in work.add["executors"] /\ Added("executors", e) /\ recorded' = recorded
        /\ UNCHANGED <<managed, registered>> /\ Alive
    BY <1>6 DEF AddExecutor, Adding, Alive
  <2> QED
    BY <1>2, <2>1, TrackedAdd, Kinds DEF Shape
<1>7. ASSUME NEW e \in Executor, RemoveExecutor(e) PROVE Goal
  <2>1. /\ e \in work.drop["executors"] /\ Dropped("executors", e) /\ recorded' = recorded
        /\ UNCHANGED <<managed, registered>> /\ Alive
    BY <1>7 DEF RemoveExecutor, Dropping, Alive
  <2> QED
    BY <1>2, <2>1, TrackedDrop, Kinds DEF Shape
<1>8. ASSUME NEW q \in Queue, AddQueue(q) PROVE Goal
  <2>1. /\ q \in work.add["queues"] /\ Added("queues", q) /\ recorded' = recorded
        /\ UNCHANGED <<managed, registered>> /\ Alive
    BY <1>8 DEF AddQueue, Adding, Alive
  <2> QED
    BY <1>2, <2>1, TrackedAdd, Kinds DEF Shape
<1>9. ASSUME NEW q \in Queue, RemoveQueue(q) PROVE Goal
  <2>1. /\ q \in work.drop["queues"] /\ Dropped("queues", q) /\ recorded' = recorded
        /\ UNCHANGED <<managed, registered>> /\ Alive
    BY <1>9 DEF RemoveQueue, Dropping, Alive
  <2> QED
    BY <1>2, <2>1, TrackedDrop, Kinds DEF Shape
<1>10. ASSUME NEW x \in Resource, AddResource(x) PROVE Goal
  <2>1. /\ x \in work.add["resources"] /\ Added("resources", x) /\ recorded' = recorded
        /\ managed' = managed /\ Alive
    BY <1>10 DEF AddResource, Adding, Alive
  <2>2. Tracked("resources")' = Tracked("resources") \cup {x}
    BY <2>1, TrackedAdd, Kinds DEF Shape
  <2>3. registered' = registered \cup {x}
    BY <1>10 DEF AddResource, Fatal, Alive
  <2> QED
    BY <1>1, <2>1, <2>2, <2>3
<1>11. ASSUME NEW x \in Resource, RemoveResource(x) PROVE Goal
  <2>1. /\ x \in work.drop["resources"] /\ Dropped("resources", x) /\ recorded' = recorded
        /\ managed' = managed /\ Alive /\ registered' = registered \ {x}
    BY <1>11 DEF RemoveResource, Dropping, Alive
  <2>2. Tracked("resources")' = Tracked("resources") \ {x}
    BY <2>1, TrackedDrop, Kinds DEF Shape
  <2>3. r = x => \A o \in Provider : r \notin managed[o]
    BY <2>1 DEF Shape, Sourced, Shared
  <2> QED
    BY <1>1, <2>1, <2>2, <2>3
<1>12. ASSUME NEW p \in Provider, OpenProvider(p) PROVE Goal
  <2>1. /\ p \in work.add["providers"] /\ Added("providers", p) /\ recorded' = recorded /\ Alive
    BY <1>12 DEF OpenProvider, Adding, Alive
  <2>2. Tracked("resources")' = Tracked("resources")
    BY <2>1, TrackedAdd, Kinds DEF Shape
  <2> DEFINE S == IF p \in Periodic THEN {} ELSE Offers[p]
  <2>3. PICK after \in Provided(p, S) :
          managed' = [managed EXCEPT ![p] = after.managed] /\ registered' = after.registered
    BY <1>12 DEF OpenProvider, Fatal, Alive
  <2>4. /\ managed' = [managed EXCEPT ![p] = after.managed \ {}]
        /\ registered' = after.registered \ {}
    BY <2>3
  <2>5. S \in SUBSET Offers[p] /\ {} \in SUBSET after.managed
    OBVIOUS
  <2> HIDE DEF S
  <2> QED
    BY <1>0, <2>1, <2>2, <2>4, <2>5, ProvidedOwned
<1>13. ASSUME NEW p \in Provider, CloseProvider(p) PROVE Goal
  <2>1. /\ p \in work.drop["providers"] /\ Dropped("providers", p) /\ recorded' = recorded
        /\ registered' = registered \ managed[p] /\ managed' = [managed EXCEPT ![p] = {}] /\ Alive
    BY <1>13 DEF CloseProvider, Dropping, Alive
  <2>2. Tracked("resources")' = Tracked("resources")
    BY <2>1, TrackedDrop, Kinds DEF Shape
  <2>3. managed'[p] = {} /\ \A o \in Provider \ {p} : managed'[o] = managed[o]
    BY <2>1 DEF TypeOK
  <2>4. r \in managed[p] =>
          r \notin Tracked("resources") /\ \A o \in Provider \ {p} : r \notin managed[o]
    BY TrackedOffers DEF Shape, Sourced
  <2> QED
    BY <1>1, <2>1, <2>2, <2>3, <2>4
<1>14. ASSUME NEW p \in Provider, Poll(p) PROVE Goal
  <2> DEFINE gone(S, after) == IF after.raised = {} THEN after.managed \ S ELSE {}
  <2>1. PICK S \in SUBSET Offers[p] : \E after \in Provided(p, S) :
          /\ managed' = [managed EXCEPT ![p] = after.managed \ gone(S, after)]
          /\ registered' = after.registered \ gone(S, after)
    BY <1>14 DEF Poll
  <2>2. PICK after \in Provided(p, S) :
          /\ managed' = [managed EXCEPT ![p] = after.managed \ gone(S, after)]
          /\ registered' = after.registered \ gone(S, after)
    BY <2>1
  <2>3. UNCHANGED <<recorded, work>> /\ Alive
    BY <1>14 DEF Poll, Same, Alive
  <2>4. Tracked("resources")' = Tracked("resources")
    BY <2>3 DEF Tracked
  <2>5. gone(S, after) \in SUBSET after.managed
    OBVIOUS
  <2> HIDE DEF gone
  <2> QED
    BY <1>0, <2>2, <2>3, <2>4, <2>5, ProvidedOwned
<1> QED
  BY <1>3, <1>4, <1>5, <1>6, <1>7, <1>8, <1>9, <1>10, <1>11, <1>12, <1>13, <1>14 DEF Next

----------------------------------------------------------------------------
(* Why the broker ends *)

\* Every step keeps EndsForAReason.
LEMMA NextReason ==
  TypeOK /\ Shape /\ Applied /\ RegisteredIfOwned /\ EndsForAReason /\ [Next]_vars => EndsForAReason'
<1> SUFFICES ASSUME TypeOK, Shape, Applied, RegisteredIfOwned, EndsForAReason, [Next]_vars
             PROVE  EndsForAReason'
  OBVIOUS
<1> DEFINE Reasons == {"none", "stopped", "unbuilt"} \cup {r \in Resource : Shared(r) \/ skipped}
<1>1. ASSUME cause' \in Reasons PROVE EndsForAReason'
  BY <1>1, SkippedSteps DEF EndsForAReason, Shared
<1>2. cause \in Reasons
  BY DEF EndsForAReason
<1> HIDE DEF Reasons
<1>3. "stopped" \in Reasons /\ "unbuilt" \in Reasons
  BY DEF Reasons
<1>4. ASSUME NEW e \in Executor, AddExecutor(e) PROVE cause' \in Reasons
  <2>1. e \in work.add["executors"] /\ Alive
    BY <1>4 DEF AddExecutor, Adding, Alive
  <2>2. e \notin Tracked("executors")
    BY <2>1, Kinds DEF Tracked, Shape, Disjoint
  <2>3. e \notin executors
    BY <2>1, <2>2 DEF Applied
  <2> QED
    BY <1>2, <1>3, <1>4, <2>3 DEF AddExecutor, Fatal, Same
<1>5. ASSUME NEW e \in Executor, RemoveExecutor(e) PROVE cause' \in Reasons
  <2>1. e \in work.drop["executors"] /\ Alive
    BY <1>5 DEF RemoveExecutor, Dropping, Alive
  <2>2. e \in executors
    BY <2>1 DEF Applied, Tracked
  <2> QED
    BY <1>2, <1>5, <2>2 DEF RemoveExecutor
<1>6. ASSUME NEW q \in Queue, AddQueue(q) PROVE cause' \in Reasons
  <2>1. q \in work.add["queues"] /\ Alive /\ work.add["executors"] = {}
    BY <1>6, Kinds DEF AddQueue, Adding, Alive
  <2>2. ExecutorOf[q] \in Tracked("executors")
    BY <2>1 DEF Shape, Founded, Tracked
  <2>3. ExecutorOf[q] \in executors
    BY <2>1, <2>2 DEF Applied
  <2> QED
    BY <1>2, <1>6, <2>3 DEF AddQueue, Same
<1>7. ASSUME NEW r \in Resource, AddResource(r) PROVE cause' \in Reasons
  <2>1. r \in work.add["resources"] /\ Alive
    BY <1>7 DEF AddResource, Adding, Alive
  <2>2. ASSUME r \in registered, ~skipped, ~Shared(r) PROVE FALSE
    <3>1. r \in Tracked("resources") \/ \E p \in Provider : r \in managed[p]
      BY <2>1, <2>2 DEF RegisteredIfOwned, Tracked, Alive
    <3>2. r \in recorded["resources"] /\ r \notin Tracked("resources")
      BY <2>1, Kinds DEF Tracked, Shape, Disjoint
    <3> QED
      BY <2>2, <3>1, <3>2 DEF Shape, Sourced, Shared
  <2>3. r \in registered => r \in Reasons
    BY <2>2 DEF Reasons
  <2> QED
    BY <1>2, <1>3, <1>7, <2>3 DEF AddResource, Fatal, Same
<1>8. ASSUME NEW p \in Provider, OpenProvider(p) PROVE cause' \in Reasons
  <2> DEFINE S == IF p \in Periodic THEN {} ELSE Offers[p]
  <2>1. Alive
    BY <1>8 DEF OpenProvider, Adding, Alive
  <2>2. S \in SUBSET Resource /\ S \subseteq Offers[p]
    BY WorkSyncAssumption
  <2>3. ASSUME NEW after \in Provided(p, S),
               IF after.raised = {} THEN Same ELSE \E why \in after.raised : Fatal(why)
        PROVE  cause' \in Reasons
    <3>1. CASE after.raised = {}
      BY <1>2, <2>3, <3>1 DEF Same
    <3>2. CASE after.raised # {}
      <4>1. PICK r \in after.raised : Fatal(r)
        BY <2>3, <3>2
      <4>2. r \in (S \ managed[p]) \cap registered \/ r = "unbuilt"
        BY <2>2, <4>1, ProvidedParts
      <4>3. r \in (S \ managed[p]) \cap registered => Shared(r) \/ skipped
        BY <2>1, <2>2, OthersAreShared DEF TypeOK
      <4>4. r \in Reasons
        BY <1>3, <2>2, <4>2, <4>3 DEF Reasons
      <4> QED
        BY <4>1, <4>4 DEF Fatal
    <3> QED
      BY <3>1, <3>2
  <2> HIDE DEF S
  <2>4. \/ \E after \in Provided(p, S) : IF after.raised = {} THEN Same
                                         ELSE \E why \in after.raised : Fatal(why)
        \/ Fatal("unbuilt")
    BY <1>8 DEF OpenProvider, S
  <2> QED
    BY <1>3, <2>3, <2>4 DEF Fatal
<1>9. ASSUME NEW q \in Queue, RemoveQueue(q) PROVE cause' \in Reasons
  BY <1>2, <1>9 DEF RemoveQueue, Same
<1>10. ASSUME NEW r \in Resource, RemoveResource(r) PROVE cause' \in Reasons
  BY <1>2, <1>10 DEF RemoveResource, Same
<1>11. ASSUME NEW p \in Provider, CloseProvider(p) \/ Poll(p) PROVE cause' \in Reasons
  BY <1>2, <1>11 DEF CloseProvider, Poll, Same
<1>12. CASE Assign \/ Define \/ Sync \/ SyncFails \/ ExecutorClosed \/ Close \/ UNCHANGED vars
  BY <1>1, <1>2, <1>12 DEF Assign, Define, Sync, SyncFails, ExecutorClosed, Close, Same, vars
<1>13. CASE Stop
  BY <1>1, <1>3, <1>13 DEF Stop, Fatal
<1> QED
  BY <1>1, <1>4, <1>5, <1>6, <1>7, <1>8, <1>9, <1>10, <1>11, <1>12, <1>13 DEF Next

----------------------------------------------------------------------------
(* Theorems *)

\* The inductive invariant: what is recorded, what is left to do and what has been
\* done agree.
IInv == TypeOK /\ Shape /\ Applied /\ RegisteredIfOwned /\ EndsForAReason

\* The invariant holds initially.
LEMMA InitIInv == Init => IInv
<1> SUFFICES ASSUME Init PROVE IInv
  OBVIOUS
<1>1. TypeOK /\ Shape /\ Applied
  BY InitTypeOK, InitShape
<1>2. Tracked("resources") = {} /\ registered = {} /\ \A p \in Provider : managed[p] = {}
  BY Kinds DEF Init, Tracked, NoWork, Nothing
<1>3. RegisteredIfOwned
  BY <1>2 DEF RegisteredIfOwned, Tracked
<1>4. EndsForAReason
  BY DEF Init, EndsForAReason
<1> QED
  BY <1>1, <1>3, <1>4 DEF IInv

\* Every step keeps it.
LEMMA NextIInv == IInv /\ [Next]_vars => IInv'
BY NextTypeOK, NextShape, NextApplied, NextRegistered, NextReason DEF IInv

\* Between two synchronisations nothing is left to do.
LEMMA IInvInStep == IInv => InStep
<1> SUFFICES ASSUME IInv, broker = "up", work = NoWork
             PROVE  /\ executors = recorded["executors"] /\ open = recorded["providers"]
                    /\ ~skipped => running = recorded["queues"] /\ stale = {}
  BY DEF InStep
<1>1. \A k \in Kind : work.add[k] = {} /\ work.drop[k] = {}
  BY DEF NoWork, Nothing
<1>2. \A k \in Kind : Tracked(k) = recorded[k]
  BY <1>1 DEF Tracked
<1> QED
  BY <1>2, Kinds DEF IInv, Applied, Alive

\* EndsForAReason: no executor is ever missing or defined twice, and a resource is only
\* refused when its name is shared or a synchronisation was skipped.
THEOREM EndsOfTheBroker == Spec => []EndsForAReason
<1>1. IInv => EndsForAReason
  BY DEF IInv
<1> QED
  BY <1>1, InitIInv, NextIInv, PTL DEF Spec

\* InStep: between two synchronisations the worker runs what it recorded.
THEOREM RunsWhatIsRecorded == Spec => []InStep
BY InitIInv, NextIInv, IInvInStep, PTL DEF Spec

\* RegisteredIfOwned: a resource nobody else names is registered while it is owned.
THEOREM ResourcesOwned == Spec => []RegisteredIfOwned
<1>1. IInv => RegisteredIfOwned
  BY DEF IInv
<1> QED
  BY <1>1, InitIInv, NextIInv, PTL DEF Spec
=============================================================================
