-------------------------------- MODULE Arq --------------------------------
(***************************************************************************)
(* One message executed by ARQ, from enqueue_job to the end of the wait:   *)
(* the engine's ARQExecutor.process_message with monitor_job_healthcheck   *)
(* on one side, remote_execute with remote_job_healthcheck on the other,   *)
(* and in redis the job and the two health keys by which each side tells   *)
(* that the other is gone.  The arq library and the pool are modelled from *)
(* how the code uses them.                                                 *)
(*                                                                         *)
(* Time advances by Tick.  A sleep is a timer that reaches 0 and that the  *)
(* event loop serves at most Late afterwards; everything the code does     *)
(* without a sleep (starting a health check, saving a result, polling for  *)
(* it) takes at most Late as well.                                         *)
(***************************************************************************)
EXTENDS Integers

CONSTANTS
    Interval,   \* healthcheck_interval
    Grace,      \* the sleep that ends monitor_job_healthcheck
    Timeout,    \* options.timeout
    Delay,      \* options.timeout_delay
    JobTimeout, \* of the arq worker, which WorkerSettings leaves to arq
    Late,       \* how late an event loop may be
    Threads     \* the pool of the arq worker runs threads, not processes

ASSUME ClockAssumption ==
    /\ {Interval, Grace, Timeout, Delay, JobTimeout, Late} \subseteq Nat \ {0}
    /\ Late < Interval
    /\ 3 * Late < Interval + Grace      \* end, save and poll, one after the other
    /\ Threads \in BOOLEAN

VARIABLES
    phase,      \* where process_message is
    timer,      \* what is left of the sleep of the monitor
    patience,   \* what is left of the timeout of job.result
    job,        \* the job in the queue of arq: where it is
    expires,    \* what is left of the life of a job that waits
    saved,      \* the result of the job is in redis
    wkey,       \* what is left of the life of worker_healthcheck_key
    ekey,       \* and of executor_healthcheck_key
    remote,     \* where remote_execute is
    beat,       \* what is left of the sleep of remote_job_healthcheck
    pipeline,   \* the pipeline in the pool
    token,      \* the CancellationToken that the pipeline sees is set
    unwound,    \* arq itself cancelled remote_execute, which left without a word
    due,        \* how long a step that needs no sleep has been possible
    orphaned,   \* time since the engine stopped waiting
    crashed,    \* time since the arq worker crashed
    ran         \* time since remote_execute began

engine == <<phase, timer, patience>>
redis == <<job, expires, saved, wkey, ekey>>
arq == <<remote, beat, pipeline, token, unwound>>
ages == <<orphaned, crashed, ran>>
arqVars == <<engine, redis, arq, due, ages>>

KeyLife == 2 * Interval
\* Ages are not told apart beyond.
AgeBound == 5 * Interval + Grace + 2 * Late + JobTimeout

MonitorPhases == {"queued", "monitor", "grace"}
EndedPhases == {"fetched", "timeout", "died", "cancelled", "crashed", "lost", "failed"}
Waiting == phase \in MonitorPhases

TypeOK ==
    /\ phase \in MonitorPhases \cup EndedPhases \cup {"idle"}
    /\ timer \in (-Late)..(Interval + Grace)
    /\ patience \in (-Late)..Timeout
    /\ job \in {"none", "queued", "running", "done", "deleted"}
    /\ expires \in 0..(Timeout + Delay)
    /\ saved \in BOOLEAN
    /\ wkey \in 0..KeyLife /\ ekey \in 0..KeyLife
    /\ remote \in {"none", "starting", "running", "ended", "over", "stopped", "crashed"}
    /\ beat \in (-Late)..Interval
    /\ pipeline \in {"none", "waiting", "running", "over"}
    /\ {token, unwound} \subseteq BOOLEAN
    /\ due \in 0..Late
    /\ {orphaned, crashed, ran} \subseteq 0..AgeBound

InitArq ==
    /\ phase = "idle" /\ timer = 0 /\ patience = 0
    /\ job = "none" /\ expires = 0 /\ saved = FALSE /\ wkey = 0 /\ ekey = 0
    /\ remote = "none" /\ beat = 0 /\ pipeline = "none" /\ token = FALSE /\ unwound = FALSE
    /\ due = 0 /\ orphaned = 0 /\ crashed = 0 /\ ran = 0

-----------------------------------------------------------------------------
(* The engine.                                                             *)

StartSleep(p, t) == /\ phase' = p
                    /\ timer' = t
                    /\ UNCHANGED patience

\* Every round of both loops of the monitor: refresh the key, then sleep.
Beat(p) == /\ wkey' = KeyLife
           /\ StartSleep(p, Interval)

\* process_message: the job is enqueued, and its result and its health are
\* waited for together.
ProcessMessage ==
    /\ phase = "idle"
    /\ job' = "queued" /\ expires' = Timeout + Delay
    /\ wkey' = KeyLife
    /\ phase' = "queued" /\ timer' = Interval /\ patience' = Timeout
    /\ UNCHANGED <<saved, ekey, arq, due, ages>>

\* redis_queue could not connect, and its retries are used: nothing is enqueued.
RedisUnreachable ==
    /\ phase = "idle"
    /\ phase' = "failed"
    /\ UNCHANGED <<timer, patience, redis, arq, due, ages>>

\* First loop: until the job is not queued.
MonitorQueued ==
    /\ phase = "queued" /\ timer <= 0
    /\ Beat(IF job = "queued" THEN "queued" ELSE "monitor")
    /\ UNCHANGED <<job, expires, saved, ekey, arq, due, ages>>

\* Mutants: no last sleep, and the status of the job looked at instead of the
\* key.
MonitorRunningAtOnce ==
    /\ phase = "monitor" /\ timer <= 0
    /\ IF ekey > 0 THEN Beat("monitor") ELSE StartSleep("grace", 0) /\ UNCHANGED wkey
    /\ UNCHANGED <<job, expires, saved, ekey, arq, due, ages>>

MonitorRunningByStatus ==
    /\ phase = "monitor" /\ timer <= 0
    /\ IF job = "running"
       THEN Beat("monitor")
       ELSE StartSleep("grace", Grace) /\ UNCHANGED wkey
    /\ UNCHANGED <<job, expires, saved, ekey, arq, due, ages>>

\* Second loop: until the key of the remote side is gone.  Then a last sleep,
\* during which the result may still come.
MonitorRunning ==
    /\ phase = "monitor" /\ timer <= 0
    /\ IF ekey > 0
       THEN Beat("monitor")
       ELSE StartSleep("grace", Grace) /\ UNCHANGED wkey
    /\ UNCHANGED <<job, expires, saved, ekey, arq, due, ages>>

EndWait(p) == /\ phase' = p
              /\ timer' = 0 /\ patience' = 0
              /\ due' = 0
              /\ UNCHANGED <<redis, arq, ages>>

\* result_task is done: it is preferred even when the health check ended too.
FetchResult == Waiting /\ saved /\ EndWait("fetched")

\* The health check ended, and the result is not there: WorkerDiedError.
WorkerDied == phase = "grace" /\ timer <= 0 /\ EndWait("died")

\* job.result gives up.
ResultTimesOut == Waiting /\ ~saved /\ patience <= 0 /\ EndWait("timeout")

\* redis fails the monitor, or the poll of the result: the message fails with a
\* WorkerDiedError that has a cause, or with the error of redis.
RedisLost == Waiting /\ EndWait("lost")

\* The task of process_message is cancelled: the executor closes.
CancelWait == Waiting /\ EndWait("cancelled")

\* The process of the engine dies.
EngineCrash == Waiting /\ EndWait("crashed")

\* The next instance opens its redis_queue: init_redis deletes the queue.
InitRedis ==
    /\ phase \in {"crashed", "cancelled"} /\ job = "queued"
    /\ job' = "deleted" /\ expires' = 0
    /\ UNCHANGED <<engine, saved, wkey, ekey, arq, due, ages>>

-----------------------------------------------------------------------------
(* The arq worker.                                                         *)

\* arq takes a job from its queue; one that expired, or was tried before (max_tries),
\* is failed.
TakeJob ==
    /\ job = "queued"
    /\ \/ /\ expires > 0 /\ remote = "none"
          /\ job' = "running" /\ remote' = "starting"
          /\ UNCHANGED saved
       \/ /\ expires = 0 \/ remote = "stopped"
          /\ job' = "done" /\ saved' = TRUE
          /\ UNCHANGED remote
    /\ expires' = 0
    /\ due' = 0
    /\ UNCHANGED <<engine, wkey, ekey, beat, pipeline, token, unwound, ages>>

\* remote_execute begins: the pipeline is given to the pool, and the health
\* check refreshes its key for the first time.
RemoteExecute ==
    /\ remote = "starting"
    /\ remote' = "running" /\ pipeline' = "waiting"
    /\ ekey' = KeyLife /\ beat' = Interval
    /\ due' = 0 /\ ran' = 0
    /\ UNCHANGED <<engine, job, expires, saved, wkey, token, unwound, orphaned, crashed>>

\* A thread or a process of the pool is free for the pipeline.
PoolTakes ==
    /\ pipeline = "waiting"
    /\ pipeline' = "running"
    /\ UNCHANGED <<engine, redis, remote, beat, token, unwound, due, ages>>

\* bootstrap_pipeline returns, or raises, or its process dies: executor_task is
\* done.  When remote_execute has ended before, nobody waits for it.
PipelineEnds ==
    /\ pipeline = "running"
    /\ pipeline' = "over"
    /\ remote' = IF remote = "running" THEN "ended" ELSE remote
    /\ due' = IF remote = "running" THEN 0 ELSE due
    /\ UNCHANGED <<engine, redis, beat, token, unwound, ages>>

\* CancellationToken.cancel: a thread sees it, a process, that has a copy, does not.
Cancel == token' = Threads

\* The engine's key is gone: the token is set and "Job Cancelled" is raised.  A
\* pipeline that the pool has not taken yet is dropped with its future.
CancelPipeline ==
    /\ remote' = "ended"
    /\ Cancel
    /\ pipeline' = IF pipeline = "waiting" THEN "over" ELSE pipeline
    /\ due' = 0 /\ beat' = 0
    /\ UNCHANGED ekey

\* Mutant: the round looks for its own key.
RemoteBeatOwnKey ==
    /\ remote = "running" /\ beat <= 0
    /\ IF ekey > 0
       THEN /\ ekey' = KeyLife /\ beat' = Interval
            /\ UNCHANGED <<remote, token, pipeline, due>>
       ELSE CancelPipeline
    /\ UNCHANGED <<engine, job, expires, saved, wkey, unwound, ages>>

\* A round of remote_job_healthcheck: it looks for the key of the engine after its
\* sleep, and refreshes its own.
RemoteBeat ==
    /\ remote = "running" /\ beat <= 0
    /\ IF wkey > 0
       THEN /\ ekey' = KeyLife /\ beat' = Interval
            /\ UNCHANGED <<remote, token, pipeline, due>>
       ELSE CancelPipeline
    /\ UNCHANGED <<engine, job, expires, saved, wkey, unwound, ages>>

\* redis fails remote_job_healthcheck: the same as a lost key.
RemoteBeatFails ==
    /\ remote = "running"
    /\ CancelPipeline
    /\ UNCHANGED <<engine, job, expires, saved, wkey, unwound, ages>>

\* arq saves what remote_execute returned or raised.
JobFinished ==
    /\ remote = "ended"
    /\ remote' = "over"
    /\ job' = "done" /\ saved' = TRUE
    /\ due' = 0
    /\ UNCHANGED <<engine, expires, wkey, ekey, beat, pipeline, token, unwound, ages>>

\* arq cancels remote_execute, which CancelledError leaves with its group of tasks
\* and without the token: a pipeline that the pool has not taken yet is dropped, one
\* that runs goes on.
Unwind ==
    /\ pipeline' = IF pipeline = "waiting" THEN "over" ELSE pipeline
    /\ unwound' = TRUE
    /\ due' = 0 /\ beat' = 0

\* arq has waited for its job_timeout, at least: its error is the result.
JobTimesOut ==
    /\ remote = "running" /\ ran >= JobTimeout
    /\ remote' = "ended"
    /\ Unwind
    /\ UNCHANGED <<engine, redis, token, ages>>

\* The arq worker is shut down: its job is back in the queue.  The worker waits for
\* what its pool runs (shutdown).
ShutDown ==
    /\ remote \in {"starting", "running"}
    /\ remote' = "stopped" /\ job' = "queued"
    /\ Unwind
    /\ UNCHANGED <<engine, expires, saved, wkey, ekey, token, ages>>

\* The process of the arq worker dies, and its threads with it.
RemoteCrash ==
    /\ remote \in {"starting", "running", "ended"}
    /\ remote' = "crashed"
    /\ pipeline' = IF pipeline = "none" THEN "none" ELSE "over"
    /\ beat' = 0 /\ due' = 0
    /\ crashed' = 0
    /\ UNCHANGED <<engine, redis, token, unwound, orphaned, ran>>

-----------------------------------------------------------------------------
(* Time.                                                                   *)

Prompt == \/ remote \in {"starting", "ended"}
          \/ Waiting /\ saved

InTime == /\ Waiting => timer > -Late /\ patience > -Late
          /\ remote = "running" => beat > -Late
          /\ Prompt => due < Late

Passed(left) == IF left > 0 THEN left - 1 ELSE 0
Older(age) == IF age < AgeBound THEN age + 1 ELSE age

Tick ==
    /\ InTime
    /\ timer' = IF Waiting THEN timer - 1 ELSE timer
    /\ patience' = IF Waiting THEN patience - 1 ELSE patience
    /\ beat' = IF remote = "running" THEN beat - 1 ELSE beat
    /\ due' = IF Prompt THEN due + 1 ELSE 0
    /\ wkey' = Passed(wkey) /\ ekey' = Passed(ekey) /\ expires' = Passed(expires)
    /\ orphaned' = IF phase \in EndedPhases THEN Older(orphaned) ELSE 0
    /\ crashed' = IF remote = "crashed" THEN Older(crashed) ELSE 0
    /\ ran' = IF remote = "running" THEN Older(ran) ELSE 0
    /\ UNCHANGED <<phase, job, saved, remote, pipeline, token, unwound>>

NextArq ==
    \/ ProcessMessage \/ RedisUnreachable \/ MonitorQueued \/ MonitorRunning
    \/ FetchResult \/ WorkerDied \/ ResultTimesOut \/ RedisLost
    \/ CancelWait \/ EngineCrash \/ InitRedis
    \/ TakeJob \/ RemoteExecute \/ PoolTakes \/ PipelineEnds
    \/ RemoteBeat \/ RemoteBeatFails \/ JobFinished
    \/ JobTimesOut \/ ShutDown \/ RemoteCrash
    \/ Tick

ArqSpec == InitArq /\ [][NextArq]_arqVars

-----------------------------------------------------------------------------
(* Properties.                                                             *)

\* WorkerDiedError is raised for a missing key only when the arq worker did crash or
\* was shut down: no delay up to Late, on either side, and no order of the end of the
\* pipeline, the save of its result and the checks makes a live or a finished job look
\* dead, when arq cuts it short (job_timeout) either.
NoFalseDeath == phase = "died" => remote \in {"crashed", "stopped"}

\* A crash of the arq worker ends the wait of the engine without the timeout: once
\* its key has lived, after one more check and the last sleep.
DeathNoticed ==
    Waiting /\ remote = "crashed" =>
        crashed <= KeyLife + (Interval + Late) + (Grace + Late)

\* A pipeline that still runs though its job was ended without it.
Runaway == Threads /\ pipeline = "running" /\ remote # "running"

\* The engine gave up, was closed or crashed: the remote side stops what it runs
\* once the engine's key has lived and it has looked again, and the pipeline is
\* told, when the pool runs threads (CancellationToken), unless arq was faster and
\* cancelled the job itself.  A job that starts when that key is already gone stops
\* at its first look.
OrphanStopped ==
    /\ phase \in EndedPhases /\ remote = "running" =>
         \/ orphaned <= KeyLife + (Interval + Late)
         \/ ran <= Interval + Late
    /\ Runaway => token \/ unwound
=============================================================================
