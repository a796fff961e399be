---------------------------- MODULE WorkerManager ----------------------------
(***************************************************************************)
(* The worker manager and what its workers run.  The manager keeps jobs,    *)
(* each with its queue, in a database: it creates them when they are due or *)
(* started, assigns their queues to the workers that ask, for a time, and   *)
(* records how they end.  A worker asks again and again (work_manager.py    *)
(* sync) and runs what the last answer it got gave it.                      *)
(*                                                                          *)
(* One server process answers: _LOCK_LOCK orders the assignments and        *)
(* _SYNC_LOCK the scheduled creations of what has an interval, but the other *)
(* requests commit at any time.  A creation reads the jobs that are          *)
(* committed, makes its row (started_at is of this moment) and commits it.   *)
(* Time is a number of ticks since an event.  The cursor of a job is the     *)
(* matter of Cursors, how its end reaches the manager that of JobState.      *)
(***************************************************************************)
EXTENDS Integers, Sequences, FiniteSets

CONSTANTS
  Worker,      \* worker ids
  NoWorker,    \* assigned_to is NULL
  Definition,  \* names of the static definitions
  Plain,       \* those that are jobs of their own, with no interval
  Statuses,    \* Statuses[d]: what the configuration may make of d
  Request,     \* the threads of the server that create jobs
  Asked,       \* Asked[r]: what the requests that r serves ask for
  Wanted,      \* Wanted[w]: the definitions w's selector and executors match
  Unlimited,   \* the workers that name executors
  Max,         \* work_items_per_worker
  Expiry,      \* an assignment of this age still holds, an older one does not
  MaxJobs,     \* bound: rows made for a job
  MaxFaults    \* bound: answers lost, transactions that fail, workers that die

ASSUME WorkerManagerAssumption ==
  /\ NoWorker \notin Worker
  /\ Plain \subseteq Definition
  /\ Statuses \in [Definition -> SUBSET {"ok", "blocked", "gone"}]
  /\ Asked \in [Request -> SUBSET {"sync", "start"}]
  /\ Wanted \in [Worker -> SUBSET Definition]
  /\ Unlimited \subseteq Worker
  /\ {Max, Expiry, MaxJobs, MaxFaults} \subseteq Nat

VARIABLES
  status,      \* status[d]: "blocked" when a resource or executor is missing
  job,         \* the rows of jobs and their queues, in the order of started_at
  committed,   \* the rows that are in the database
  creating,    \* creating[r]: the creation under way in r, which is busy with one
  locking,     \* the assignment in the server, between its reads and its commit
  answer,      \* answer[w]: the request of w and its answer
  run,         \* run[w]: the age of the answer, for each of w's worker_items
  alive,       \* the workers whose process lives
  faults       \* answers lost, failed transactions and deaths so far

jobVars == <<job, committed, creating>>
vars == <<status, jobVars, locking, answer, run, alive, faults>>

----------------------------------------------------------------------------
(* State formulae *)

Expired == Expiry + 1

Older(age) == IF age < Expired THEN age + 1 ELSE Expired
Smallest(m, n) == IF m < n THEN m ELSE n

Rows == DOMAIN job

\* What a transaction reads: the jobs that are committed
Job == committed
Enabled == {i \in Job : ~job[i].over}
Of(d) == {i \in Job : job[i].definition = d}

\* get_last_job: 0 when there is none
LastJob(d) == IF Of(d) = {} THEN 0 ELSE CHOOSE i \in Of(d) : \A k \in Of(d) : k <= i

\* update_job, sync_jobs_states: completed_at is set and the queue is disabled;
\* its assignment, which nothing reads any more, is forgotten.
Completed(j) == [j EXCEPT !.over = TRUE, !.to = NoWorker, !.age = Expired]

Idle == [state |-> "idle", items |-> {}, age |-> Expired]
Unlocked == [worker |-> NoWorker, given |-> {}, shed |-> {}, failed |-> {}, age |-> Expired]

\* A job of its own is found by its name, that only the one `sync_jobs` created has.
IsNamed(i) == job[i].definition \in Plain => job[i].by = "sync"

\* join_definitions
Joins(i) == status[job[i].definition] # "gone" /\ IsNamed(i)

\* get_assigned_queues
Assigned(w) ==
  {i \in Enabled : /\ job[i].to = w /\ job[i].age <= Expiry
                   /\ job[i].definition \in Wanted[w]}

\* Mutant: an assignment is taken over when it reaches the age it still holds at.
UnassignedEarly(w) ==
  {i \in Enabled : /\ job[i].to = NoWorker \/ job[i].age >= Expiry
                   /\ job[i].definition \in Wanted[w]}

\* Mutant: an assignment does not expire.
UnassignedOnly(w) ==
  {i \in Enabled : job[i].to = NoWorker /\ job[i].definition \in Wanted[w]}

\* get_unassigned_queues
Unassigned(w) ==
  {i \in Enabled : /\ job[i].to = NoWorker \/ job[i].age > Expiry
                   /\ job[i].definition \in Wanted[w]}

\* Mutant: the limit is not reduced by what the worker has.
TakenAnew(w, kept) ==
  LET n == Smallest(Max, Cardinality(Unassigned(w)))
  IN  {T \in SUBSET Unassigned(w) : Cardinality(T) = n}

\* What a worker that keeps `kept` may get besides.  The query has no order.
Taken(w, kept) ==
  LET n == Smallest(Max - Cardinality(kept), Cardinality(Unassigned(w)))
  IN  IF n = 0 THEN {{}}
      ELSE IF w \in Unlimited THEN {Unassigned(w)}
      ELSE {T \in SUBSET Unassigned(w) : Cardinality(T) = n}

----------------------------------------------------------------------------
Init ==
  /\ status \in [Definition -> {"ok", "blocked", "gone"}]
  /\ \A d \in Definition : status[d] \in Statuses[d]
  /\ job = <<>>
  /\ committed = {}
  /\ creating = <<>>
  /\ locking = Unlocked
  /\ answer = [w \in Worker |-> Idle]
  /\ run = [w \in Worker |-> <<>>]
  /\ alive = Worker
  /\ faults = 0

----------------------------------------------------------------------------
(* Creation of jobs *)

\* load_static_definition: the configuration of d has changed.
Redefine(d) ==
  /\ \E s \in Statuses[d] : status' = [status EXCEPT ![d] = s]
  /\ UNCHANGED <<jobVars, locking, answer, run, alive, faults>>

\* A creation goes on after its check: `seen` is what it read, `found` the job that
\* it cancels, if not 0.
Checked(r, d, by, found) ==
  /\ r \notin DOMAIN creating
  /\ Len(job) < MaxJobs
  /\ status[d] # "gone"
  /\ creating' = [q \in DOMAIN creating \cup {r} |->
       IF q = r THEN [definition |-> d, by |-> by, found |-> found, seen |-> Of(d), row |-> 0]
       ELSE creating[q]]
  /\ UNCHANGED <<status, job, committed, locking, answer, run, alive, faults>>

\* _SYNC_LOCK, which is held until the commit of what has an interval
Syncing == \E q \in DOMAIN creating : /\ creating[q].by = "sync"
                                      /\ creating[q].definition \notin Plain

\* Mutant: the last job may still be running.
SyncJobsAnyway(r, d) ==
  /\ d \in Plain => \A i \in Of(d) : job[i].by = "name"
  /\ d \notin Plain => ~Syncing
  /\ Checked(r, d, "sync", 0)

\* _sync_jobs, for one definition: a job of its own once, others when the last
\* one has failed, or is over and its interval with it, which is when it likes.
SyncJobs(r, d) ==
  /\ d \in Plain => \A i \in Of(d) : job[i].by = "name"
  /\ d \notin Plain => ~Syncing /\ (Of(d) # {} => job[LastJob(d)].over)
  /\ Checked(r, d, "sync", 0)

\* start: the job found, if any, must be over, or is cancelled by a restart.
StartAfter(r, found, restart, d, by) ==
  /\ found \in Enabled => restart
  /\ Checked(r, d, by, IF found \in Enabled THEN found ELSE 0)

\* start, with the name of a definition that has an interval
StartDefinition(r, d, restart) ==
  /\ d \notin Plain
  /\ StartAfter(r, LastJob(d), restart, d, "definition")

\* start, with the name of a job: one of its own is not looked for, and those
\* started from it have a name that is not found.
StartName(r, i, restart) ==
  /\ IsNamed(i)
  /\ StartAfter(r, IF job[i].definition \in Plain THEN 0 ELSE i, restart,
                job[i].definition, "name")

\* post_start_job
PostStart(r) ==
  \E restart \in BOOLEAN :
    \/ \E d \in Definition : StartDefinition(r, d, restart)
    \/ \E i \in Job : StartName(r, i, restart)

\* create_queue, create_job: the row has its started_at.
CreateJob(r) ==
  /\ r \in DOMAIN creating /\ creating[r].row = 0
  /\ Len(job) < MaxJobs
  /\ job' = Append(job, [definition |-> creating[r].definition, by |-> creating[r].by,
                         seen |-> creating[r].seen, over |-> FALSE,
                         to |-> NoWorker, age |-> Expired])
  /\ creating' = [creating EXCEPT ![r].row = Len(job) + 1]
  /\ UNCHANGED <<status, committed, locking, answer, run, alive, faults>>

\* The creation in r is over, one way or the other.
Left(r) == creating' = [q \in DOMAIN creating \ {r} |-> creating[q]]

\* The name of a job is its key.
Duplicate(c) ==
  /\ c.definition \in Plain /\ c.by = "sync"
  /\ \E i \in Of(c.definition) : job[i].by = "sync"

\* session.commit, or the end of session_scope
CommitJob(r) ==
  /\ r \in DOMAIN creating /\ creating[r].row # 0
  /\ ~Duplicate(creating[r])
  /\ committed' = committed \cup {creating[r].row}
  /\ job' = [i \in Rows |-> IF i = creating[r].found THEN Completed(job[i]) ELSE job[i]]
  /\ Left(r)
  /\ UNCHANGED <<status, locking, answer, run, alive, faults>>

\* The transaction fails and is rolled back: its row never is in the database.
FailCreation(r) ==
  /\ r \in DOMAIN creating
  /\ \/ creating[r].row # 0 /\ Duplicate(creating[r]) /\ UNCHANGED faults
     \/ faults < MaxFaults /\ faults' = faults + 1
  /\ Left(r)
  /\ UNCHANGED <<status, job, committed, locking, answer, run, alive>>

----------------------------------------------------------------------------
(* Assignments *)

\* A worker asks; lock_jobs reads the queues and the definitions, and the time.
LockRead(w) ==
  /\ w \in alive /\ answer[w].state = "idle"
  /\ locking = Unlocked
  /\ \E kept \in SUBSET Assigned(w) :
       /\ Cardinality(kept) = Smallest(Max, Cardinality(Assigned(w)))
       /\ \E new \in Taken(w, kept) :
            LET found == kept \cup new
            IN  locking' =
                  [worker |-> w,
                   given  |-> {i \in found : Joins(i) /\ status[job[i].definition] = "ok"},
                   shed   |-> Assigned(w) \ kept,
                   failed |-> {i \in found : ~Joins(i)},
                   age    |-> 0]
  /\ answer' = [answer EXCEPT ![w].state = "asked"]
  /\ UNCHANGED <<status, jobVars, run, alive, faults>>

\* Its commit: what was taken is assigned anew, and so is what the worker had;
\* what has no definition fails.  A queue disabled meanwhile is given all the same.
LockWrite ==
  /\ locking # Unlocked
  /\ job' = [i \in Rows |->
       IF job[i].over THEN job[i]
       ELSE IF i \in locking.given
         THEN [job[i] EXCEPT !.to = locking.worker, !.age = locking.age]
       ELSE IF i \in locking.shed THEN [job[i] EXCEPT !.to = NoWorker, !.age = Expired]
       ELSE IF i \in locking.failed THEN Completed(job[i])
       ELSE job[i]]
  /\ answer' = [answer EXCEPT ![locking.worker] =
       IF @.state = "asked"
       THEN [state |-> "answered", items |-> locking.given, age |-> locking.age]
       ELSE @]
  /\ locking' = Unlocked
  /\ UNCHANGED <<status, committed, creating, run, alive, faults>>

\* session_scope: the transaction fails and is rolled back, the worker gets an
\* error.  A request that completes a job is one step, and does nothing when it fails.
RollBack ==
  /\ faults < MaxFaults
  /\ locking # Unlocked
  /\ answer' = [answer EXCEPT ![locking.worker] = IF @.state = "asked" THEN Idle ELSE @]
  /\ locking' = Unlocked
  /\ faults' = faults + 1
  /\ UNCHANGED <<status, jobVars, run, alive>>

\* load_queues: the queues of the answer are those that run.
Receive(w) ==
  /\ answer[w].state = "answered"
  /\ run' = [run EXCEPT ![w] = [i \in answer[w].items |-> answer[w].age]]
  /\ answer' = [answer EXCEPT ![w] = Idle]
  /\ UNCHANGED <<status, jobVars, locking, alive, faults>>

\* The request or its answer is lost; the worker goes on with what it has.
LoseAnswer(w) ==
  /\ faults < MaxFaults
  /\ answer[w].state # "idle"
  /\ answer' = [answer EXCEPT ![w] = Idle]
  /\ faults' = faults + 1
  /\ UNCHANGED <<status, jobVars, locking, run, alive>>

----------------------------------------------------------------------------
(* Workers and time *)

\* A worker that runs the job, or did, tells the manager that it ended, with an
\* error or without (sync_jobs_states), or a request completes it (update_job).
\* Its queue runs until the next answer.
Complete(i) ==
  /\ i \in Enabled
  /\ job' = [job EXCEPT ![i] = Completed(@)]
  /\ UNCHANGED <<status, committed, creating, locking, answer, run, alive, faults>>

Die(w) ==
  /\ faults < MaxFaults
  /\ w \in alive
  /\ alive' = alive \ {w}
  /\ run' = [run EXCEPT ![w] = <<>>]
  /\ answer' = [answer EXCEPT ![w] = Idle]
  /\ faults' = faults + 1
  /\ UNCHANGED <<status, jobVars, locking>>

Restart(w) ==
  /\ w \notin alive
  /\ alive' = alive \cup {w}
  /\ UNCHANGED <<status, jobVars, locking, answer, run, faults>>

Tick ==
  /\ job' = [i \in Rows |-> [job[i] EXCEPT !.age = Older(@)]]
  /\ run' = [w \in Worker |-> [i \in DOMAIN run[w] |-> Older(run[w][i])]]
  /\ answer' = [w \in Worker |-> [answer[w] EXCEPT !.age = Older(@)]]
  /\ locking' = [locking EXCEPT !.age = Older(@)]
  /\ UNCHANGED <<status, committed, creating, alive, faults>>

----------------------------------------------------------------------------
Next ==
  \/ \E d \in Definition : Redefine(d)
  \/ \E r \in Request : \/ "sync" \in Asked[r] /\ \E d \in Definition : SyncJobs(r, d)
                        \/ "start" \in Asked[r] /\ PostStart(r)
                        \/ CreateJob(r) \/ CommitJob(r) \/ FailCreation(r)
  \/ \E w \in Worker : LockRead(w) \/ Receive(w) \/ LoseAnswer(w) \/ Die(w) \/ Restart(w)
  \/ LockWrite \/ RollBack
  \/ \E i \in Job : Complete(i)
  \/ Tick

Spec == Init /\ [][Next]_vars

\* Time passes; every worker asks again (after sync_period), the server answers
\* and answers arrive.  A thread that waits for _LOCK_LOCK gets it in the end.
Fairness ==
  /\ WF_vars(Tick) /\ WF_vars(LockWrite \/ RollBack)
  /\ \A w \in Worker : SF_vars(LockRead(w)) /\ WF_vars(Receive(w))

FairSpec == Spec /\ Fairness

----------------------------------------------------------------------------
(* Properties *)

By == {"sync", "definition", "name"}

Row ==
  [definition : Definition, by : By, seen : SUBSET (1 .. MaxJobs), over : BOOLEAN,
   to : Worker \cup {NoWorker}, age : 0 .. Expired]

Creation ==
  [definition : Definition, by : By, found : 0 .. MaxJobs, seen : SUBSET (1 .. MaxJobs),
   row : 0 .. MaxJobs]

TypeOK ==
  /\ status \in [Definition -> {"ok", "blocked", "gone"}]
  /\ job \in Seq(Row)
  /\ Len(job) <= MaxJobs
  /\ committed \subseteq Rows
  /\ DOMAIN creating \subseteq Request
  /\ creating \in [DOMAIN creating -> Creation]
  /\ \A r \in DOMAIN creating : creating[r].row \in Rows \cup {0}
  /\ locking \in [worker : Worker \cup {NoWorker}, given : SUBSET Job,
                  shed : SUBSET Job, failed : SUBSET Job, age : 0 .. Expired]
  /\ answer \in [Worker -> [state : {"idle", "asked", "answered"}, items : SUBSET Job,
                            age : 0 .. Expired]]
  /\ run \in [Worker -> UNION {[items -> 0 .. Expired] : items \in SUBSET Job}]
  /\ alive \subseteq Worker
  /\ faults \in 0 .. MaxFaults

\* lock.py lock_jobs, queues_store.py: two workers run a queue whose job is not
\* over only when the answer of one of them has expired, or one names executors:
\* it may be given more than its limit, then lose the rest before it knows.
ExclusiveWhileFresh ==
  \A v, w \in Worker : v # w =>
    \A i \in Enabled \cap DOMAIN run[v] \cap DOMAIN run[w] :
      \E u \in {v, w} : run[u][i] > Expiry \/ u \in Unlimited

\* The assignments of w that hold.
Holds(w) == {i \in Enabled : job[i].to = w /\ job[i].age <= Expiry}

\* lock.py:42-62: a worker that names no executor never has more assignments that
\* hold than its limit, whoever asks in between.
WithinLimit == \A w \in Worker \ Unlimited : Cardinality(Holds(w)) <= Max

\* i, which is not over, and k are jobs of a definition with an interval, k the later.
BothRun(i, k) ==
  i < k /\ job[k].definition = job[i].definition /\ job[i].definition \notin Plain

Since(i, k) == {n \in Of(job[i].definition) : i < n /\ n <= k}

\* sync.py:53-88, jobs_store.py:221-275: a job is created while a former one of its
\* definition runs only if one was started since by the name of a job, or did not see
\* it, which was not committed when it looked: no lock covers start, and
\* _SYNC_LOCK keeps scheduled creations from each other only.
OneRunningUnlessRaced ==
  \A i \in Enabled, k \in Job :
    BothRun(i, k) => \E n \in Since(i, k) : job[n].by = "name" \/ i \notin job[n].seen

\* A worker that is alive and matches everything can hold every queue by itself.
Room ==
  /\ \E w \in alive : Wanted[w] = Definition /\ Cardinality(Enabled) <= Max
  /\ \A d \in Definition : status[d] = "ok"

\* lock.py: every queue is run again and again by a worker that is alive, if one
\* has room for all: those of a dead worker, or given by an answer that was
\* lost, are taken over.
TakenOver ==
  \A i \in 1 .. MaxJobs :
    <>[]Room => []<>(i \in Enabled => \E w \in alive : i \in DOMAIN run[w])
=============================================================================
