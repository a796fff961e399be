---------------------------- MODULE RemoteProofs ----------------------------
(***************************************************************************)
(* Proofs about what a worker does through another process: Arq, a message *)
(* executed by an arq worker, and Batching, with the RabbitMQ topic it     *)
(* extends.                                                                *)
(*                                                                         *)
(* Arq, for any interval, grace, timeout and lateness that ClockAssumption *)
(* allows: no live or finished job looks dead, a crash is noticed in time, *)
(* and what the engine left is stopped.  The invariant says for each sleep *)
(* how much of it is left against the life of the key it is about.         *)
(*                                                                         *)
(* RabbitMQ, for any publications, reservations, limits and failures: the  *)
(* publications retry one at a time.  The lock goes to the first that      *)
(* waits, so that its invariant is about who can be locker; the semaphore  *)
(* of the reservations hands its places over, so that it also needs to     *)
(* know that who waits for a place has no reservation yet (SlotQueue).     *)
(***************************************************************************)
EXTENDS Arq, Batching, SequenceTheorems, TLAPS

(***************************************************************************)
(* The two ends of a remote job                                            *)
(***************************************************************************)

\* Which places of the job, of remote_execute and of the pipeline go together.
Places ==
    /\ job \in {"none", "queued", "deleted"} => remote \in {"none", "stopped"}
    /\ remote = "stopped" => job \in {"queued", "deleted", "done"}
    /\ job = "none" <=> phase \in {"idle", "failed"}
    /\ phase \in {"monitor", "grace"} => job \in {"running", "done"} \/ remote = "stopped"
    /\ job = "running" => remote \in {"starting", "running", "ended", "crashed"}
    /\ job = "done" => saved /\ remote \in {"none", "over", "stopped"}
    /\ remote = "over" => job = "done"
    /\ phase \in {"idle", "queued", "monitor", "grace", "failed"} => job # "deleted"
    /\ pipeline = "waiting" => remote = "running"
    /\ remote \in {"none", "starting"} => pipeline = "none"
    /\ remote = "crashed" => pipeline # "running"
    /\ Threads /\ remote \in {"ended", "over", "stopped"} /\ pipeline = "running" =>
         token \/ unwound

\* The sleeps of the monitor are not longer than its phase says.
Sleeps ==
    /\ phase \in {"queued", "monitor"} => timer <= Interval
    /\ phase = "grace" => timer <= Grace
    /\ phase \notin EndedPhases => orphaned = 0

\* The remote key outlives every delay of remote_execute, and then what the end
\* of the pipeline and the save of its result may take.
KeyOutlives ==
    /\ remote = "running" => ekey = Interval + beat
    /\ Waiting /\ remote = "ended" => ekey + due >= Interval - Late
    /\ Waiting /\ remote = "over" => ekey + due >= Interval - 2 * Late

\* So the last sleep only begins for a crashed worker, or late enough.
GraceEnough ==
    /\ phase = "monitor" /\ remote \in {"none", "starting"} => timer + due >= Interval
    /\ phase = "grace" => remote \notin {"none", "starting", "running"}
    /\ phase = "grace" /\ remote = "ended" => timer + due >= Grace + Interval - Late
    /\ phase = "grace" /\ remote = "over" =>
         timer + due >= Grace + Interval - 2 * Late

\* The age of a crash, against the sleep of the monitor.
CrashAge ==
    remote = "crashed" =>
        /\ ekey > 0 => crashed + ekey <= KeyLife
        /\ phase = "queued" => crashed + timer <= Interval
        /\ phase = "monitor" => crashed + timer <= KeyLife + Interval
        /\ phase = "grace" => crashed + timer <= KeyLife + Interval + Late + Grace

\* The age of an abandoned job, against the sleep of its health check.
OrphanAge ==
    phase \in EndedPhases =>
        /\ wkey > 0 => orphaned + wkey <= KeyLife
        /\ remote = "running" =>
             orphaned + beat <= KeyLife + Interval \/ ran + beat <= Interval

ArqInv == /\ TypeOK /\ Places /\ Sleeps /\ KeyOutlives /\ GraceEnough /\ CrashAge
        /\ OrphanAge /\ NoFalseDeath

\* At the start nothing is enqueued.
LEMMA ArqStarts == InitArq => ArqInv
<1> SUFFICES ASSUME InitArq PROVE ArqInv
  OBVIOUS
<1> USE ClockAssumption
<1>1. TypeOK
  <2>1. /\ 0 \in (-Late)..(Interval + Grace) /\ 0 \in (-Late)..Timeout
        /\ 0 \in 0..(Timeout + Delay) /\ 0 \in 0..KeyLife /\ 0 \in (-Late)..Interval
        /\ 0 \in 0..Late /\ 0 \in 0..AgeBound
    BY DEF KeyLife, AgeBound
  <2> QED BY <2>1 DEF InitArq, TypeOK, MonitorPhases, EndedPhases
<1> QED
  BY <1>1 DEF InitArq, ArqInv, Places, Sleeps, KeyOutlives, GraceEnough, CrashAge, OrphanAge,
     NoFalseDeath, Waiting, MonitorPhases, EndedPhases, KeyLife

\* The steps of the engine before its wait ends.
LEMMA MonitorSteps ==
  ASSUME ArqInv,
         ProcessMessage \/ RedisUnreachable \/ MonitorQueued \/ MonitorRunning \/ InitRedis
  PROVE  ArqInv'
<1> USE ClockAssumption DEF ArqInv, MonitorPhases, EndedPhases, Waiting, KeyLife
<1>1. CASE ProcessMessage
  <2> USE <1>1 DEF ProcessMessage, arq, ages
  <2>1. TypeOK'
    BY DEF TypeOK, AgeBound
  <2> QED
    BY <2>1 DEF TypeOK, Places, Sleeps, KeyOutlives, GraceEnough, CrashAge, OrphanAge,
       NoFalseDeath
<1>2. CASE RedisUnreachable
  <2> USE <1>2 DEF RedisUnreachable, arq, ages, redis
  <2>1. TypeOK'
    BY DEF TypeOK
  <2> QED
    BY <2>1 DEF TypeOK, Places, Sleeps, KeyOutlives, GraceEnough, CrashAge, OrphanAge,
       NoFalseDeath
<1>3. CASE MonitorQueued
  <2> USE <1>3 DEF MonitorQueued, Beat, StartSleep, arq, ages
  <2>1. TypeOK'
    BY DEF TypeOK
  <2> QED
    BY <2>1 DEF TypeOK, Places, Sleeps, KeyOutlives, GraceEnough, CrashAge, OrphanAge,
       NoFalseDeath
<1>4. CASE MonitorRunning
  <2> USE <1>4 DEF MonitorRunning, Beat, StartSleep, arq, ages
  <2>1. TypeOK'
    BY DEF TypeOK
  <2> QED
    BY <2>1 DEF TypeOK, Places, Sleeps, KeyOutlives, GraceEnough, CrashAge, OrphanAge,
       NoFalseDeath
<1>5. CASE InitRedis
  <2> USE <1>5 DEF InitRedis, engine, arq, ages
  <2>1. TypeOK'
    BY DEF TypeOK
  <2> QED
    BY <2>1 DEF TypeOK, Places, Sleeps, KeyOutlives, GraceEnough, CrashAge, OrphanAge,
       NoFalseDeath
<1> QED BY <1>1, <1>2, <1>3, <1>4, <1>5

\* The wait ends, by whatever comes first.  It only says that the worker died
\* when it did: every other one has its result saved or has it saved in time.
LEMMA WaitEnds ==
  ASSUME ArqInv,
         FetchResult \/ WorkerDied \/ ResultTimesOut \/ RedisLost \/ CancelWait \/ EngineCrash
  PROVE  ArqInv'
<1> USE ClockAssumption DEF ArqInv, MonitorPhases, EndedPhases, Waiting, KeyLife
<1>1. \E p \in EndedPhases \ {"failed"} :
        EndWait(p) /\ Waiting /\ (p = "died" => remote \in {"crashed", "stopped"})
  <2>1. WorkerDied => remote \in {"crashed", "stopped"}
    <3> SUFFICES ASSUME WorkerDied PROVE remote \in {"crashed", "stopped"}
      OBVIOUS
    <3> QED BY DEF WorkerDied, TypeOK, Places, GraceEnough
  <2> QED
    BY <2>1 DEF FetchResult, WorkerDied, ResultTimesOut, RedisLost, CancelWait, EngineCrash
<1>2. PICK p \in EndedPhases \ {"failed"} :
        EndWait(p) /\ Waiting /\ (p = "died" => remote \in {"crashed", "stopped"})
  BY <1>1
<1> USE <1>2 DEF EndWait, redis, arq, ages
<1>3. TypeOK'
  BY DEF TypeOK
<1>4. (Places /\ Sleeps /\ NoFalseDeath)'
  BY DEF TypeOK, Places, Sleeps, NoFalseDeath
<1>5. (KeyOutlives /\ GraceEnough /\ CrashAge)'
  BY DEF TypeOK, KeyOutlives, GraceEnough, CrashAge
<1>6. OrphanAge'
  BY DEF TypeOK, Sleeps, OrphanAge
<1> QED BY <1>3, <1>4, <1>5, <1>6

\* The steps of the arq worker.
LEMMA RemoteSteps ==
  ASSUME ArqInv,
         \/ TakeJob \/ RemoteExecute \/ PoolTakes \/ PipelineEnds
         \/ RemoteBeat \/ RemoteBeatFails \/ JobFinished
         \/ JobTimesOut \/ ShutDown \/ RemoteCrash
  PROVE  ArqInv'
<1> USE ClockAssumption DEF ArqInv, MonitorPhases, EndedPhases, Waiting, KeyLife, engine
<1>1. CASE TakeJob
  <2> USE <1>1 DEF TakeJob, ages
  <2>0. saved' \in BOOLEAN
    BY Zenon DEF TypeOK
  <2>1. TypeOK'
    BY <2>0 DEF TypeOK
  <2>2. (Places /\ Sleeps /\ NoFalseDeath)'
    BY DEF TypeOK, Places, Sleeps, NoFalseDeath
  <2>3. (KeyOutlives /\ GraceEnough)'
    BY DEF TypeOK, Places, KeyOutlives, GraceEnough
  <2>4. (CrashAge /\ OrphanAge)'
    BY DEF TypeOK, Places, CrashAge, OrphanAge
  <2> QED BY <2>1, <2>2, <2>3, <2>4
<1>2. CASE RemoteExecute
  <2> USE <1>2 DEF RemoteExecute
  <2>1. TypeOK'
    BY DEF TypeOK, AgeBound
  <2> QED
    BY <2>1 DEF TypeOK, Places, Sleeps, KeyOutlives, GraceEnough, CrashAge, OrphanAge,
       NoFalseDeath
<1>3. CASE PoolTakes
  <2> USE <1>3 DEF PoolTakes, redis, ages
  <2>1. TypeOK'
    BY DEF TypeOK
  <2> QED
    BY <2>1 DEF TypeOK, Places, Sleeps, KeyOutlives, GraceEnough, CrashAge, OrphanAge,
       NoFalseDeath
<1>4. CASE PipelineEnds
  <2> USE <1>4 DEF PipelineEnds, redis, ages
  <2>1. TypeOK'
    BY DEF TypeOK
  <2> QED
    BY <2>1 DEF TypeOK, Places, Sleeps, KeyOutlives, GraceEnough, CrashAge, OrphanAge,
       NoFalseDeath
<1>5. CASE RemoteBeat
  <2> USE <1>5 DEF RemoteBeat, CancelPipeline, Cancel, ages
  <2>1. TypeOK'
    BY DEF TypeOK
  <2> QED
    BY <2>1 DEF TypeOK, Places, Sleeps, KeyOutlives, GraceEnough, CrashAge, OrphanAge,
       NoFalseDeath
<1>6. CASE RemoteBeatFails
  <2> USE <1>6 DEF RemoteBeatFails, CancelPipeline, Cancel, ages
  <2>1. TypeOK'
    BY DEF TypeOK
  <2> QED
    BY <2>1 DEF TypeOK, Places, Sleeps, KeyOutlives, GraceEnough, CrashAge, OrphanAge,
       NoFalseDeath
<1>7. CASE JobFinished
  <2> USE <1>7 DEF JobFinished, ages
  <2>1. TypeOK'
    BY DEF TypeOK
  <2> QED
    BY <2>1 DEF TypeOK, Places, Sleeps, KeyOutlives, GraceEnough, CrashAge, OrphanAge,
       NoFalseDeath
<1>8. CASE RemoteCrash
  <2> USE <1>8 DEF RemoteCrash, redis
  <2>1. TypeOK'
    BY DEF TypeOK, AgeBound
  <2> QED
    BY <2>1 DEF TypeOK, Places, Sleeps, KeyOutlives, GraceEnough, CrashAge, OrphanAge,
       NoFalseDeath
<1>9. CASE JobTimesOut
  <2> USE <1>9 DEF JobTimesOut, Unwind, redis, ages
  <2>1. TypeOK'
    BY DEF TypeOK
  <2> QED
    BY <2>1 DEF TypeOK, Places, Sleeps, KeyOutlives, GraceEnough, CrashAge, OrphanAge,
       NoFalseDeath
<1>10. CASE ShutDown
  <2> USE <1>10 DEF ShutDown, Unwind, ages
  <2>1. TypeOK'
    BY DEF TypeOK
  <2> QED
    BY <2>1 DEF TypeOK, Places, Sleeps, KeyOutlives, GraceEnough, CrashAge, OrphanAge,
       NoFalseDeath
<1> QED BY <1>1, <1>2, <1>3, <1>4, <1>5, <1>6, <1>7, <1>8, <1>9, <1>10

\* Time passes for all the sleeps, keys and ages at once.
LEMMA TickStep ==
  ASSUME ArqInv, Tick
  PROVE  ArqInv'
<1> USE ClockAssumption DEF ArqInv, MonitorPhases, EndedPhases, Waiting, KeyLife,
      Tick, Passed, Older
<1>1. TypeOK'
  <2>1. (timer \in (-Late)..(Interval + Grace) /\ patience \in (-Late)..Timeout
           /\ beat \in (-Late)..Interval /\ due \in 0..Late)'
    BY DEF TypeOK, InTime, Prompt
  <2>2. (expires \in 0..(Timeout + Delay) /\ wkey \in 0..KeyLife /\ ekey \in 0..KeyLife)'
    BY DEF TypeOK
  <2>3. ({orphaned, crashed, ran} \subseteq 0..AgeBound)'
    BY DEF TypeOK, AgeBound
  <2> QED BY <2>1, <2>2, <2>3 DEF TypeOK
<1>2. (Places /\ Sleeps /\ NoFalseDeath)'
  BY DEF TypeOK, Places, Sleeps, NoFalseDeath
<1>3. (KeyOutlives /\ GraceEnough)'
  BY <1>1 DEF TypeOK, Places, KeyOutlives, GraceEnough, InTime, Prompt
<1>4. (CrashAge /\ OrphanAge)'
  BY <1>1 DEF TypeOK, Sleeps, CrashAge, OrphanAge, InTime
<1> QED BY <1>1, <1>2, <1>3, <1>4

\* The invariant is preserved by every step.
LEMMA ArqStays == ArqInv /\ [NextArq]_arqVars => ArqInv'
<1>1. ASSUME ArqInv, NextArq PROVE ArqInv'
  BY <1>1, MonitorSteps, WaitEnds, RemoteSteps, TickStep DEF NextArq
<1>2. ASSUME ArqInv, UNCHANGED arqVars PROVE ArqInv'
  BY <1>2 DEF arqVars, engine, redis, arq, ages, ArqInv, TypeOK, Places, Sleeps, KeyOutlives,
     GraceEnough, CrashAge, OrphanAge, NoFalseDeath, Waiting
<1> QED BY <1>1, <1>2

\* The invariant holds in every state.
THEOREM ArqInvariant == ArqSpec => []ArqInv
BY ArqStarts, ArqStays, PTL DEF ArqSpec

\* The variables of the message, of redis and of both event loops keep their types.
THEOREM ArqTypes == ArqSpec => []TypeOK
BY ArqInvariant, PTL DEF ArqInv

\* WorkerDiedError is raised for a missing key only when the arq worker did crash or
\* was shut down (monitor_job_healthcheck, process_message).
THEOREM NobodyDeclaredDead == ArqSpec => []NoFalseDeath
BY ArqInvariant, PTL DEF ArqInv

\* The wait for a crashed worker ends after a time that does not depend on the
\* timeout (monitor_job_healthcheck).
THEOREM CrashNoticed == ArqSpec => []DeathNoticed
<1>1. ArqInv => DeathNoticed
  BY ClockAssumption DEF ArqInv, TypeOK, Sleeps, CrashAge, DeathNoticed, Waiting,
     MonitorPhases, KeyLife
<1> QED BY <1>1, ArqInvariant, PTL

\* What the engine left is stopped after a time that does not depend on what it runs,
\* and a thread that goes on is told, unless arq itself cancelled its job
\* (remote_job_healthcheck, remote_execute).
THEOREM OrphansStop == ArqSpec => []OrphanStopped
<1>1. ArqInv => OrphanStopped
  BY ClockAssumption DEF ArqInv, TypeOK, Places, OrphanAge, OrphanStopped, Runaway,
     KeyLife
<1> QED BY <1>1, ArqInvariant, PTL

(***************************************************************************)
(* The publications of a topic                                             *)
(***************************************************************************)

PublishPCs == {"idle", "slot", "slotted", "enter", "declare", "awaiting", "sending", "failed",
               "acquire", "backoff", "sleeping", "true", "false", "raised"}

\* The values of what the publications share.
PublishTypes ==
  /\ pc \in [Publisher -> PublishPCs]
  /\ attempt \in [Publisher -> Nat]
  /\ then \in [Publisher -> {"declare", "sleeping", "backoff"}]
  /\ locker \in Publisher \cup {Nobody}
  /\ waiters \in Seq(Publisher)
  /\ slotWaiters \in Seq(Publisher)

\* Who waits for the semaphore of the reservations is in its queue, once.
SlotQueue ==
  /\ \A i \in 1 .. Len(slotWaiters) : pc[slotWaiters[i]] = "slot"
  /\ \A i, j \in 1 .. Len(slotWaiters) : slotWaiters[i] = slotWaiters[j] => i = j

PublishInv == PublishTypes /\ SlotQueue /\ RetriesAlone

\* One publication goes on, and the lock is its own, free, or somebody else's.
LEMMA OneGoesOn ==
  ASSUME PublishInv, NEW p \in Publisher, NEW s \in PublishPCs \ {"slot"},
         pc[p] # "slot", pc' = [pc EXCEPT ![p] = s],
         attempt' \in [Publisher -> Nat],
         then' \in [Publisher -> {"declare", "sleeping", "backoff"}],
         waiters' \in Seq(Publisher), slotWaiters' = slotWaiters,
         \/ locker' = locker /\ s \notin {"sleeping", "backoff"}
              /\ (locker = p => s \in {"declare", "awaiting", "sending", "failed", "acquire"})
         \/ locker' = p /\ locker \in {p, Nobody}
              /\ s \in {"declare", "awaiting", "sending", "failed", "acquire", "sleeping", "backoff"}
         \/ locker' = Nobody /\ locker = p /\ s \notin {"sleeping", "backoff"}
  PROVE  PublishInv'
<1> USE RabbitMQAssumption
<1>1. pc \in [Publisher -> PublishPCs] /\ \A q \in Publisher : pc'[q] = IF q = p THEN s ELSE pc[q]
  BY DEF PublishInv, PublishTypes
<1>2. PublishTypes'
  <2>1. pc' \in [Publisher -> PublishPCs]
    BY <1>1
  <2> QED BY <2>1 DEF PublishInv, PublishTypes
<1>3. SlotQueue'
  <2>1. \A i \in 1 .. Len(slotWaiters) : slotWaiters[i] \in Publisher /\ slotWaiters[i] # p
    BY DEF PublishInv, SlotQueue, PublishTypes
  <2> QED BY <1>1, <2>1 DEF PublishInv, SlotQueue
<1>4. RetriesAlone'
  <2>1. \A q \in Publisher : pc[q] \in {"sleeping", "backoff"} => q = locker
    BY DEF PublishInv, RetriesAlone, At
  <2>2. \A q \in Publisher : pc'[q] \in {"sleeping", "backoff"} => q = locker'
    BY <1>1, <2>1
  <2>3. locker' # Nobody => pc'[locker'] \in
          {"declare", "awaiting", "sending", "failed", "acquire", "sleeping", "backoff"}
    BY <1>1 DEF PublishInv, RetriesAlone, At, Locked, Entered, PublishTypes
  <2>4. locker' \in Publisher \cup {Nobody}
    BY <1>2 DEF PublishTypes
  <2> QED BY <2>2, <2>3, <2>4 DEF RetriesAlone, At, Locked, Entered
<1> QED BY <1>2, <1>3, <1>4 DEF PublishInv

\* The end of a publication gives the lock back, and its place to the first that waits.
LEMMA EndKeeps ==
  ASSUME PublishInv, NEW p \in Publisher, NEW s \in Answers, pc[p] \in {"sending", "failed", "backoff"},
         End(p, s), UNCHANGED <<then, waiters>>
  PROVE  PublishInv'
<1> USE RabbitMQAssumption
<1>1. locker' = IF locker = p THEN Nobody ELSE locker
  BY DEF End
<1>2. attempt' \in [Publisher -> Nat]
  BY DEF End, PublishInv, PublishTypes
<1>3. CASE slotWaiters = <<>>
  <2>1. pc' = [pc EXCEPT ![p] = s] /\ slotWaiters' = slotWaiters
    BY <1>3 DEF End
  <2>2. /\ then \in [Publisher -> {"declare", "sleeping", "backoff"}] /\ waiters \in Seq(Publisher)
        /\ s \in PublishPCs \ {"slot"} /\ pc[p] # "slot" /\ s \notin {"sleeping", "backoff"}
    BY DEF PublishInv, PublishTypes, Answers, PublishPCs
  <2> QED BY <1>1, <1>2, <2>1, <2>2, OneGoesOn
<1>4. CASE slotWaiters # <<>>
  <2>1. PICK h : h = Head(slotWaiters)
    OBVIOUS
  <2>2. PICK rest : rest = Tail(slotWaiters)
    OBVIOUS
  <2>3. pc' = [pc EXCEPT ![p] = s, ![h] = "slotted"] /\ slotWaiters' = rest
    BY <1>4, <2>1, <2>2 DEF End
  <2>4. slotWaiters \in Seq(Publisher) /\ Len(slotWaiters) > 0
    BY <1>4, EmptySeq DEF PublishInv, PublishTypes
  <2>5. /\ rest \in Seq(Publisher) /\ Len(rest) = Len(slotWaiters) - 1
        /\ \A i \in 1 .. Len(rest) : rest[i] = slotWaiters[i + 1]
    BY <1>4, <2>2, <2>4, HeadTailProperties
  <2>6. h = slotWaiters[1] /\ h \in Publisher /\ pc[h] = "slot"
    BY <1>4, <2>1, <2>4 DEF PublishInv, SlotQueue
  <2>7. \A q \in Publisher : pc'[q] = IF q = h THEN "slotted" ELSE IF q = p THEN s ELSE pc[q]
    BY <2>3, <2>6 DEF PublishInv, PublishTypes
  <2>8. PublishTypes'
    <3>1. pc' \in [Publisher -> PublishPCs]
      BY <2>3 DEF PublishInv, PublishTypes, PublishPCs, Answers
    <3> QED BY <1>1, <1>2, <2>3, <2>5, <3>1 DEF PublishInv, PublishTypes
  <2>9. SlotQueue'
    <3>1. ASSUME NEW i \in 1 .. Len(rest)
          PROVE  i + 1 \in 1 .. Len(slotWaiters) /\ rest[i] = slotWaiters[i + 1] /\ rest[i] # h
                 /\ rest[i] \in Publisher /\ pc[rest[i]] = "slot"
      <4>1. i + 1 \in 1 .. Len(slotWaiters) /\ 1 \in 1 .. Len(slotWaiters) /\ i + 1 # 1
        BY <2>4, <2>5
      <4> QED BY <2>4, <2>5, <2>6, <4>1 DEF PublishInv, SlotQueue
    <3>2. \A i \in 1 .. Len(rest) : pc'[rest[i]] = "slot"
      BY <2>7, <3>1
    <3>3. ASSUME NEW i \in 1 .. Len(rest), NEW j \in 1 .. Len(rest), rest[i] = rest[j]
          PROVE  i = j
      <4>1. i + 1 = j + 1
        BY <3>1, <3>3 DEF PublishInv, SlotQueue
      <4> QED BY <4>1
    <3> QED BY <2>3, <3>2, <3>3 DEF SlotQueue
  <2>10. RetriesAlone'
    <3>1. \A q \in Publisher : pc[q] \in {"sleeping", "backoff"} => q = locker
      BY DEF PublishInv, RetriesAlone, At
    <3>2. \A q \in Publisher : pc'[q] \in {"sleeping", "backoff"} => q = locker'
      BY <1>1, <2>7, <3>1 DEF Answers
    <3>3. locker' # Nobody => pc'[locker'] \in
            {"declare", "awaiting", "sending", "failed", "acquire", "sleeping", "backoff"}
      BY <1>1, <2>6, <2>7 DEF PublishInv, RetriesAlone, At, Locked, Entered, PublishTypes
    <3>4. locker' \in Publisher \cup {Nobody}
      BY <2>8 DEF PublishTypes
    <3> QED BY <3>2, <3>3, <3>4 DEF RetriesAlone, At, Locked, Entered
  <2> QED BY <2>8, <2>9, <2>10 DEF PublishInv
<1> QED BY <1>3, <1>4

\* A retry has the lock, or waits for it.
LEMMA AcquireKeeps ==
  ASSUME PublishInv, NEW p \in Publisher, NEW s \in {"sleeping", "backoff"},
         pc[p] \in {"sending", "failed"}, Acquire(p, s),
         attempt' \in [Publisher -> Nat], slotWaiters' = slotWaiters
  PROVE  PublishInv'
<1>1. /\ then \in [Publisher -> {"declare", "sleeping", "backoff"}] /\ waiters \in Seq(Publisher)
      /\ locker \in Publisher \cup {Nobody} /\ pc[p] # "slot"
      /\ {s, "acquire"} \subseteq PublishPCs \ {"slot"}
  BY DEF PublishInv, PublishTypes, PublishPCs
<1>2. CASE locker = p \/ (~Locked /\ waiters = <<>>)
  <2>1. locker' = p /\ pc' = [pc EXCEPT ![p] = s] /\ UNCHANGED <<waiters, then>>
    BY <1>2 DEF Acquire
  <2> QED BY <1>1, <1>2, <2>1, OneGoesOn DEF Locked
<1>3. CASE ~(locker = p \/ (~Locked /\ waiters = <<>>))
  <2>1. /\ pc' = [pc EXCEPT ![p] = "acquire"] /\ waiters' = Append(waiters, p)
        /\ then' = [then EXCEPT ![p] = IF Locked THEN "declare" ELSE s]
        /\ locker' = locker
    BY <1>3 DEF Acquire
  <2>2. /\ waiters' \in Seq(Publisher)
        /\ then' \in [Publisher -> {"declare", "sleeping", "backoff"}]
    BY <1>1, <2>1
  <2> QED BY <1>1, <2>1, <2>2, OneGoesOn
<1> QED BY <1>2, <1>3

\* Who has no reservation yet does not have the lock either.
LEMMA EnterLockKeeps ==
  ASSUME PublishInv, NEW p \in Publisher, pc[p] \in {"idle", "slotted"}, EnterLock(p),
         UNCHANGED <<attempt, then, locker, slotWaiters>>
  PROVE  PublishInv'
<1>1. /\ attempt \in [Publisher -> Nat]
      /\ then \in [Publisher -> {"declare", "sleeping", "backoff"}] /\ waiters \in Seq(Publisher)
      /\ pc[p] # "slot" /\ {"declare", "enter"} \subseteq PublishPCs \ {"slot"}
  BY DEF PublishInv, PublishTypes, PublishPCs
<1>2. locker # p
  BY RabbitMQAssumption DEF PublishInv, RetriesAlone, Locked, Entered, At
<1>3. \/ pc' = [pc EXCEPT ![p] = "declare"] /\ waiters' = waiters
      \/ pc' = [pc EXCEPT ![p] = "enter"] /\ waiters' = Append(waiters, p)
  BY DEF EnterLock
<1>4. waiters' \in Seq(Publisher)
  <2>1. Append(waiters, p) \in Seq(Publisher)
    BY <1>1
  <2> QED BY <1>1, <1>3, <2>1
<1> QED BY <1>1, <1>2, <1>3, <1>4, OneGoesOn

\* A publication begins: refused, or in the queue of the reservations, or with one.
LEMMA PublishKeeps ==
  ASSUME PublishInv, NEW p \in Publisher, Publish(p)
  PROVE  PublishInv'
<1>1. /\ attempt \in [Publisher -> Nat]
      /\ then \in [Publisher -> {"declare", "sleeping", "backoff"}] /\ waiters \in Seq(Publisher)
      /\ slotWaiters \in Seq(Publisher) /\ pc \in [Publisher -> PublishPCs]
      /\ {"raised", "false"} \subseteq PublishPCs \ {"slot"}
  BY DEF PublishInv, PublishTypes, PublishPCs
<1>2. pc[p] = "idle" /\ UNCHANGED <<attempt, then, locker>>
  BY DEF Publish
<1>3. locker # p
  BY <1>2, RabbitMQAssumption DEF PublishInv, RetriesAlone, Locked, Entered, At
<1>4. CASE \E s \in {"raised", "false"} :
             pc' = [pc EXCEPT ![p] = s] /\ UNCHANGED <<waiters, slotWaiters>>
  BY <1>1, <1>2, <1>3, <1>4, OneGoesOn
<1>5. CASE EnterLock(p) /\ UNCHANGED slotWaiters
  BY <1>2, <1>5, EnterLockKeeps
<1>6. CASE pc' = [pc EXCEPT ![p] = "slot"] /\ slotWaiters' = Append(slotWaiters, p)
             /\ UNCHANGED waiters
  <2>1. PICK n \in Nat : n = Len(slotWaiters)
    BY <1>1
  <2>2. /\ slotWaiters' \in Seq(Publisher) /\ Len(slotWaiters') = n + 1
        /\ \A i \in 1 .. n : slotWaiters'[i] = slotWaiters[i]
        /\ slotWaiters'[n + 1] = p
    BY <1>1, <1>6, <2>1
  <2>3. \A q \in Publisher : pc'[q] = IF q = p THEN "slot" ELSE pc[q]
    BY <1>1, <1>6
  <2>4. \A i \in 1 .. n : slotWaiters[i] \in Publisher /\ slotWaiters[i] # p
                            /\ pc[slotWaiters[i]] = "slot"
    BY <1>1, <1>2, <2>1 DEF PublishInv, SlotQueue
  <2>5. PublishTypes'
    <3>1. pc' \in [Publisher -> PublishPCs]
      BY <1>1, <1>6 DEF PublishPCs
    <3> QED BY <1>2, <1>6, <2>2, <3>1 DEF PublishInv, PublishTypes
  <2>6. SlotQueue'
    <3>1. \A i \in 1 .. n + 1 : i \in 1 .. n \/ i = n + 1
      OBVIOUS
    <3>2. \A i \in 1 .. n + 1 : pc'[slotWaiters'[i]] = "slot"
      BY <2>2, <2>3, <2>4, <3>1
    <3>3. ASSUME NEW i \in 1 .. n + 1, NEW j \in 1 .. n + 1, slotWaiters'[i] = slotWaiters'[j]
          PROVE  i = j
      <4>1. CASE i \in 1 .. n /\ j \in 1 .. n
        BY <2>1, <2>2, <3>3, <4>1 DEF PublishInv, SlotQueue
      <4>2. CASE ~(i \in 1 .. n /\ j \in 1 .. n)
        BY <2>2, <2>4, <3>1, <3>3, <4>2
      <4> QED BY <4>1, <4>2
    <3> QED BY <2>2, <3>2, <3>3 DEF SlotQueue
  <2>7. RetriesAlone'
    <3>1. \A q \in Publisher : pc'[q] \in {"sleeping", "backoff"} => q = locker
      BY <2>3 DEF PublishInv, RetriesAlone, At
    <3>2. locker # Nobody => locker \in Publisher /\ pc'[locker] \in
            {"declare", "awaiting", "sending", "failed", "acquire", "sleeping", "backoff"}
      BY <1>3, <2>3 DEF PublishInv, PublishTypes, RetriesAlone, At, Locked, Entered
    <3> QED BY <1>2, <3>1, <3>2 DEF RetriesAlone, At, Locked, Entered
  <2> QED BY <2>5, <2>6, <2>7 DEF PublishInv
<1> QED BY <1>4, <1>5, <1>6 DEF Publish

\* The steps of one publication after its reservation.
LEMMA PublicationKeeps ==
  ASSUME PublishInv, NEW p \in Publisher,
         PublishStep(p) \/ Returned(p) \/ SendFails(p) \/ Declare(p) \/ Backoff(p)
  PROVE  PublishInv'
<1>1. /\ attempt \in [Publisher -> Nat]
      /\ then \in [Publisher -> {"declare", "sleeping", "backoff"}] /\ waiters \in Seq(Publisher)
      /\ locker \in Publisher \cup {Nobody} /\ pc \in [Publisher -> PublishPCs]
      /\ {"sending", "awaiting", "failed", "declare", "sleeping"} \subseteq PublishPCs \ {"slot"}
  BY DEF PublishInv, PublishTypes, PublishPCs
<1>2. CASE GotSlot(p)
  BY <1>2, EnterLockKeeps DEF GotSlot
<1>3. CASE \E s \in Answers : /\ pc[p] \in {"sending", "failed", "backoff"}
                               /\ End(p, s) /\ UNCHANGED <<then, waiters>>
  BY <1>3, EndKeeps
<1>4. CASE \E s \in {"sleeping", "backoff"} :
             /\ pc[p] \in {"sending", "failed"} /\ Acquire(p, s) /\ UNCHANGED slotWaiters
             /\ \/ attempt' = attempt
                \/ attempt' = [attempt EXCEPT ![p] = 0]
  <2>1. attempt' \in [Publisher -> Nat]
    BY <1>1, <1>4
  <2> QED BY <1>4, <2>1, AcquireKeeps
<1>5. CASE Accepted(p) \/ Nacked(p) \/ Failed(p) \/ Returned(p)
  BY <1>3, <1>4, <1>5 DEF Accepted, Nacked, Failed, Returned, Answers
<1>6. CASE \E s \in {"sending", "awaiting", "failed", "declare"} :
             /\ pc[p] \notin {"slot", "slotted"} /\ pc' = [pc EXCEPT ![p] = s]
             /\ UNCHANGED <<attempt, then, locker, waiters, slotWaiters>>
  BY <1>1, <1>6, OneGoesOn
<1>7. CASE SendFails(p) \/ Declare(p) \/ Slept(p)
  BY <1>6, <1>7 DEF SendFails, Declare, Slept
<1>8. CASE Backoff(p)
  <2>1. CASE End(p, "raised")
    BY <1>3, <1>8, <2>1 DEF Backoff, Answers
  <2>2. CASE pc' = [pc EXCEPT ![p] = "sleeping"] /\ attempt' = [attempt EXCEPT ![p] = @ + 1]
               /\ UNCHANGED <<locker, slotWaiters>>
    <3>1. pc[p] = "backoff" /\ UNCHANGED <<then, waiters>>
      BY <1>8 DEF Backoff
    <3>2. locker = p
      BY <3>1 DEF PublishInv, RetriesAlone, At
    <3>3. attempt' \in [Publisher -> Nat]
      BY <1>1, <2>2
    <3> QED BY <1>1, <2>2, <3>1, <3>2, <3>3, OneGoesOn
  <2> QED BY <1>8, <2>1, <2>2 DEF Backoff
<1> QED BY <1>2, <1>5, <1>7, <1>8 DEF PublishStep

\* The first that waits for the lock gets it, when it is free: nobody retries then.
LEMMA WakeKeeps ==
  ASSUME PublishInv, Wake
  PROVE  PublishInv'
<1>1. PICK p : p = Head(waiters)
  OBVIOUS
<1>2. /\ ~Locked /\ waiters # <<>> /\ waiters' = Tail(waiters)
      /\ \/ /\ pc[p] = "enter"
            /\ pc' = [pc EXCEPT ![p] = "declare"]
            /\ UNCHANGED locker
         \/ /\ pc[p] = "acquire"
            /\ pc' = [pc EXCEPT ![p] = then[p]]
            /\ locker' = p
      /\ then' = [then EXCEPT ![p] = "declare"]
      /\ UNCHANGED <<attempt, slotWaiters>>
  BY <1>1 DEF Wake
<1>3. waiters \in Seq(Publisher) /\ then \in [Publisher -> {"declare", "sleeping", "backoff"}]
      /\ attempt \in [Publisher -> Nat]
  BY DEF PublishInv, PublishTypes
<1>4. p \in Publisher /\ waiters' \in Seq(Publisher)
      /\ then' \in [Publisher -> {"declare", "sleeping", "backoff"}]
  BY <1>1, <1>2, <1>3
<1>5. PICK s \in {"declare", "sleeping", "backoff"} : s = then[p]
  BY <1>3, <1>4
<1>6. s \in PublishPCs \ {"slot"} /\ "declare" \in PublishPCs \ {"slot"} /\ pc[p] # "slot"
  BY <1>2 DEF PublishPCs
<1>7. locker = Nobody /\ p # Nobody
  BY <1>2, <1>4, RabbitMQAssumption DEF Locked
<1>8. CASE pc[p] = "enter" /\ pc' = [pc EXCEPT ![p] = "declare"] /\ UNCHANGED locker
  BY <1>2, <1>3, <1>4, <1>6, <1>7, <1>8, OneGoesOn
<1>9. CASE pc[p] = "acquire" /\ pc' = [pc EXCEPT ![p] = s] /\ locker' = p
  BY <1>2, <1>3, <1>4, <1>6, <1>7, <1>9, OneGoesOn
<1> QED BY <1>2, <1>5, <1>8, <1>9

\* The queue is declared or not, or the channel is lost: those it concerns go on.
LEMMA ChannelKeeps ==
  ASSUME PublishInv, NEW a \in {"awaiting", "sending"}, NEW b \in {"sending", "failed"},
         pc' = [p \in Publisher |-> IF pc[p] = a THEN b ELSE pc[p]],
         UNCHANGED <<attempt, then, locker, waiters, slotWaiters>>
  PROVE  PublishInv'
<1>1. \A p \in Publisher : pc'[p] = pc[p] \/ (pc[p] = a /\ pc'[p] = b)
  OBVIOUS
<1>2. PublishTypes'
  <2>1. pc' \in [Publisher -> PublishPCs]
    BY DEF PublishInv, PublishTypes, PublishPCs
  <2> QED BY <2>1 DEF PublishInv, PublishTypes
<1>3. SlotQueue'
  <2>1. \A i \in 1 .. Len(slotWaiters) : slotWaiters[i] \in Publisher /\ pc[slotWaiters[i]] = "slot"
    BY DEF PublishInv, PublishTypes, SlotQueue
  <2> QED BY <1>1, <2>1 DEF PublishInv, SlotQueue
<1>4. RetriesAlone'
  BY <1>1 DEF PublishInv, RetriesAlone, At, Locked, Entered
<1> QED BY <1>2, <1>3, <1>4 DEF PublishInv

\* The consumer leaves the publications as they are, but for the close of the topic.
LEMMA PublishStays == PublishInv /\ [Next]_vars => PublishInv'
<1> SUFFICES ASSUME PublishInv, [Next]_vars PROVE PublishInv'
  OBVIOUS
<1>1. CASE UNCHANGED publishVars
  BY <1>1 DEF PublishInv, PublishTypes, SlotQueue, RetriesAlone, At, Locked, Entered, publishVars
<1>2. CASE Continue
  BY <1>2, PublicationKeeps DEF Continue, Continuing, At
<1>3. CASE NextPublish
  <2>1. CASE Wake
    BY <2>1, WakeKeeps
  <2>2. CASE QueueDeclared
    BY <2>2, ChannelKeeps DEF QueueDeclared
  <2>3. CASE DeclareFails
    BY <2>3, ChannelKeeps DEF DeclareFails
  <2>4. CASE ChannelReopened
    BY <2>4, ChannelKeeps DEF ChannelReopened, LoseChannel
  <2>5. ASSUME NEW p \in Publisher, Publish(p) \/ PublishStep(p) \/ Returned(p) \/ SendFails(p)
        PROVE  PublishInv'
    BY <2>5, PublishKeeps, PublicationKeeps
  <2> QED BY <1>3, <2>1, <2>2, <2>3, <2>4, <2>5 DEF NextPublish
<1>4. CASE Close
  BY <1>4, ChannelKeeps DEF Close, CloseTopic, LoseChannel
<1>5. CASE NextBatching
  <2>1. CASE Consume \/ ConsumeFails \/ Read \/ Collect \/ Flush
    BY <1>1, <2>1 DEF Consume, ConsumeFails, Read, Collect, Flush, topicVars
  <2>2. CASE \/ \E b \in yielded : EnterBatch(b) \/ EnterFails(b)
             \/ \E g \in entered : LeaveBatch(g)
    BY <1>1, <2>2 DEF EnterBatch, EnterFails, LeaveBatch, topicVars
  <2> QED BY <1>4, <1>5, <2>1, <2>2 DEF NextBatching
<1> QED BY <1>1, <1>2, <1>3, <1>5 DEF Next, vars, topicVars

\* The types and the queue of the reservations, with the lock of the retries.
THEOREM PublishInvariant == Spec => []PublishInv
<1>1. Init => PublishInv
  <2> SUFFICES ASSUME Init PROVE PublishInv
    OBVIOUS
  <2>1. PublishTypes
    BY DEF Init, InitTopic, PublishTypes, PublishPCs
  <2>2. SlotQueue /\ RetriesAlone
    BY DEF Init, InitTopic, SlotQueue, RetriesAlone, At, Locked
  <2> QED BY <2>1, <2>2 DEF PublishInv
<1> QED BY <1>1, PublishStays, PTL DEF Spec

\* RabbitMQTopic.publish and SharedLock: whatever the number of publications, of reservations
\* and of failures, one at a time retries, and the lock ends with the publication that has it.
THEOREM OneRetries == Spec => []RetriesAlone
BY PublishInvariant, PTL DEF PublishInv
=============================================================================
