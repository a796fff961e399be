------------------------- MODULE WorkerManagerProofs -------------------------
(***************************************************************************)
(* Theorems about the worker manager: the types of its variables, what the  *)
(* assignments promise the workers, and what the creations promise the      *)
(* definitions, for any workers, definitions, limit and expiry.             *)
(***************************************************************************)
EXTENDS WorkerManager, FiniteSetTheorems, WellFoundedInduction, TLAPS

----------------------------------------------------------------------------
(* Rows *)

\* An age only grows, up to Expired, in the order of the ages.
LEMMA OlderAge ==
  ASSUME NEW m \in 0 .. Expired
  PROVE  /\ Older(m) \in 0 .. Expired
         /\ m <= Older(m)
         /\ \A n \in 0 .. Expired : m <= n => Older(m) <= Older(n)
BY WorkerManagerAssumption DEF Older, Expired

\* A row of a completed job.
LEMMA CompletedRow ==
  ASSUME NEW j \in Row
  PROVE  /\ Completed(j) \in Row
         /\ Completed(j).over = TRUE
         /\ Completed(j).definition = j.definition
         /\ Completed(j).by = j.by
         /\ Completed(j).seen = j.seen
         /\ Completed(j).to = NoWorker
<1>1. Expired \in 0 .. Expired
  BY WorkerManagerAssumption DEF Expired
<1> DEFINE over == [j EXCEPT !.over = TRUE]
           to   == [over EXCEPT !.to = NoWorker]
<1>2. over \in Row
  BY DEF Row
<1>3. to \in Row
  BY <1>2 DEF Row
<1>4. [to EXCEPT !.age = Expired] \in Row
  BY <1>1, <1>3 DEF Row
<1>5. Completed(j) = [to EXCEPT !.age = Expired]
  BY DEF Completed, Row
<1>6. /\ Completed(j).over = TRUE
      /\ Completed(j).definition = j.definition
      /\ Completed(j).by = j.by
      /\ Completed(j).seen = j.seen
      /\ Completed(j).to = NoWorker
  BY DEF Completed, Row
<1> QED
  BY <1>4, <1>5, <1>6

\* Rows that replace others are as many.
LEMMA MappedRows ==
  ASSUME NEW s \in Seq(Row), NEW f \in [DOMAIN s -> Row]
  PROVE  f \in Seq(Row) /\ Len(f) = Len(s) /\ DOMAIN f = DOMAIN s
<1>1. DOMAIN s = 1 .. Len(s) /\ Len(s) \in Nat
  OBVIOUS
<1>2. f \in [1 .. Len(s) -> Row]
  BY <1>1
<1>3. f \in Seq(Row)
  BY <1>1, <1>2
<1>4. Len(f) = Len(s)
  BY <1>1, <1>2, <1>3
<1> QED
  BY <1>1, <1>2, <1>3, <1>4

\* The rows after one is made.
LEMMA CreatedRows ==
  ASSUME NEW s \in Seq(Row), NEW row \in Row
  PROVE  /\ Append(s, row) \in Seq(Row)
         /\ Len(Append(s, row)) = Len(s) + 1
         /\ DOMAIN Append(s, row) = DOMAIN s \cup {Len(s) + 1}
         /\ \A i \in DOMAIN s : Append(s, row)[i] = s[i]
         /\ Append(s, row)[Len(s) + 1] = row
<1>1. /\ Append(s, row) \in Seq(Row)
      /\ Len(Append(s, row)) = Len(s) + 1
      /\ \A i \in 1 .. Len(s) : Append(s, row)[i] = s[i]
      /\ Append(s, row)[Len(s) + 1] = row
  OBVIOUS
<1>2. DOMAIN Append(s, row) = DOMAIN s \cup {Len(s) + 1}
  BY <1>1
<1>3. DOMAIN s = 1 .. Len(s)
  OBVIOUS
<1> QED
  BY <1>1, <1>2, <1>3

\* LastJob is the greatest of the jobs of a definition that has one.
LEMMA LastIsLast ==
  ASSUME job \in Seq(Row), Job \subseteq Rows, NEW d, Of(d) # {}
  PROVE  LastJob(d) \in Of(d) /\ \A k \in Of(d) : k <= LastJob(d)
<1> DEFINE Back == {Len(job) - k : k \in Of(d)}
<1>1. Len(job) \in Nat /\ Of(d) \subseteq 1 .. Len(job)
  BY DEF Of, Rows
<1>2. Back \subseteq Nat /\ Back # {}
  BY <1>1
<1>3. PICK x \in Back : \A y \in Back : ~(<<y, x>> \in OpToRel(<, Nat))
  <2> HIDE DEF Back
  <2> QED BY <1>2, NatLessThanWellFounded, WFMin
<1>4. PICK l \in Of(d) : x = Len(job) - l
  OBVIOUS
<1>5. \A k \in Of(d) : k <= l
  <2> TAKE k \in Of(d)
  <2>1. Len(job) - k \in Back /\ Len(job) - k \in Nat /\ x \in Nat
    BY <1>2
  <2>2. ~(Len(job) - k < x)
    BY <1>3, <2>1 DEF OpToRel
  <2> QED BY <2>2, <1>4, <1>1
<1> QED
  BY <1>5 DEF LastJob

----------------------------------------------------------------------------
(* Types *)

\* What a worker may run when there are the jobs of J.
Runs(J) == UNION {[items -> 0 .. Expired] : items \in SUBSET J}

\* What a worker may run of the jobs J: some of them, each with an age.
LEMMA RunsOf ==
  ASSUME NEW J
  PROVE  /\ \A r : r \in Runs(J) <=> \E items \in SUBSET J : r \in [items -> 0 .. Expired]
         /\ \A K : J \subseteq K => Runs(J) \subseteq Runs(K)
         /\ <<>> \in Runs(J)
<1>1. \A r : r \in Runs(J) <=> \E items \in SUBSET J : r \in [items -> 0 .. Expired]
  BY DEF Runs
<1>2. \A K : J \subseteq K => Runs(J) \subseteq Runs(K)
  BY DEF Runs
<1>3. <<>> \in [{} -> 0 .. Expired]
  OBVIOUS
<1> QED
  BY <1>1, <1>2, <1>3

\* The initial states have the types.
LEMMA InitTypeOK == Init => TypeOK
<1> SUFFICES ASSUME Init PROVE TypeOK
  OBVIOUS
<1>1. Expired \in 0 .. Expired
  BY WorkerManagerAssumption DEF Expired
<1>2. job \in Seq(Row) /\ Len(job) <= MaxJobs
  BY WorkerManagerAssumption DEF Init
<1>2a. /\ committed \subseteq Rows /\ DOMAIN creating \subseteq Request
       /\ creating \in [DOMAIN creating -> Creation]
       /\ \A r \in DOMAIN creating : creating[r].row \in Rows \cup {0}
  BY DEF Init
<1>3. locking \in [worker : Worker \cup {NoWorker}, given : SUBSET Job,
                   shed : SUBSET Job, failed : SUBSET Job, age : 0 .. Expired]
  BY <1>1 DEF Init, Unlocked
<1>4. answer \in [Worker -> [state : {"idle", "asked", "answered"}, items : SUBSET Job,
                             age : 0 .. Expired]]
  BY <1>1 DEF Init, Idle
<1>5. run \in [Worker -> Runs(Job)]
  BY RunsOf DEF Init
<1>6. status \in [Definition -> {"ok", "blocked", "gone"}]
      /\ alive \subseteq Worker /\ faults \in 0 .. MaxFaults
  BY WorkerManagerAssumption DEF Init
<1> QED
  BY <1>2, <1>2a, <1>3, <1>4, <1>5, <1>6 DEF TypeOK, Runs

\* Jobs that stay where they are leave the types of the requests and of what runs.
LEMMA MoreJobs ==
  ASSUME TypeOK, Job \subseteq Job', UNCHANGED <<locking, answer, run>>
  PROVE  /\ locking' \in [worker : Worker \cup {NoWorker}, given : SUBSET Job',
                           shed : SUBSET Job', failed : SUBSET Job', age : 0 .. Expired]
         /\ answer' \in [Worker -> [state : {"idle", "asked", "answered"},
                                    items : SUBSET Job', age : 0 .. Expired]]
         /\ run' \in [Worker -> Runs(Job')]
<1>1. run \in [Worker -> Runs(Job)] /\ Runs(Job) \subseteq Runs(Job')
  BY RunsOf DEF TypeOK, Runs
<1>2. run' \in [Worker -> Runs(Job')]
  BY <1>1
<1> QED
  BY <1>2 DEF TypeOK

\* The rows of a state that has the types.
LEMMA RowsOfJobs ==
  ASSUME TypeOK
  PROVE  /\ job \in [Rows -> Row] /\ Job \subseteq Rows
         /\ Len(job) \in Nat /\ Rows = 1 .. Len(job)
         /\ \A i \in Rows : job[i] \in Row
         /\ \A i \in Job : job[i] \in Row
BY DEF TypeOK, Job, Rows

\* Rows that replace others keep the jobs that there are.
LEMMA ChangeOfRows ==
  ASSUME TypeOK, job' \in [Rows -> Row], UNCHANGED committed
  PROVE  /\ job' \in Seq(Row) /\ Len(job') = Len(job) /\ Rows' = Rows /\ Job' = Job
         /\ committed' \subseteq Rows'
BY MappedRows DEF TypeOK, Job, Rows

\* A request has made its check.
LEMMA CheckedTypeOK ==
  ASSUME TypeOK, NEW r \in Request, NEW d \in Definition, NEW by \in By, NEW found,
         Checked(r, d, by, found), found \in Job \cup {0}
  PROVE  TypeOK'
<1> DEFINE c == [definition |-> d, by |-> by, found |-> found, seen |-> Of(d), row |-> 0]
<1>1. Rows \subseteq 1 .. MaxJobs
  BY RowsOfJobs, WorkerManagerAssumption DEF TypeOK
<1>2. /\ Of(d) \in SUBSET (1 .. MaxJobs) /\ found \in 0 .. MaxJobs
      /\ 0 \in 0 .. MaxJobs
  BY <1>1, RowsOfJobs, WorkerManagerAssumption DEF Of
<1>3. c \in Creation
  BY <1>2 DEF Creation
<1>4. /\ creating' = [q \in DOMAIN creating \cup {r} |-> IF q = r THEN c ELSE creating[q]]
      /\ UNCHANGED <<status, job, committed, locking, answer, run, alive, faults>>
  BY DEF Checked
<1> HIDE DEF c
<1>5. DOMAIN creating' \subseteq Request /\ creating' \in [DOMAIN creating' -> Creation]
  BY <1>3, <1>4 DEF TypeOK
<1>6. Job' = Job /\ Rows' = Rows
  BY <1>4 DEF Job, Rows
<1>7. \A q \in DOMAIN creating' : creating'[q].row \in Rows' \cup {0}
  <2>1. c.row = 0
    BY DEF c
  <2> QED BY <1>4, <1>6, <2>1 DEF TypeOK
<1> QED
  BY <1>4, <1>5, <1>6, <1>7 DEF TypeOK

\* A request looks for the job it is to start.
LEMMA StartTypeOK ==
  ASSUME TypeOK, NEW r \in Request, NEW found, NEW restart, NEW d \in Definition,
         NEW by \in By, StartAfter(r, found, restart, d, by)
  PROVE  TypeOK'
<1>1. (IF found \in Enabled THEN found ELSE 0) \in Job \cup {0}
  BY DEF Enabled
<1>2. Checked(r, d, by, IF found \in Enabled THEN found ELSE 0)
  BY DEF StartAfter
<1> QED
  BY <1>1, <1>2, CheckedTypeOK

\* A row is made.
LEMMA CreateJobTypeOK ==
  ASSUME TypeOK, NEW r \in Request, CreateJob(r)
  PROVE  TypeOK'
<1> DEFINE row == [definition |-> creating[r].definition, by |-> creating[r].by,
                   seen |-> creating[r].seen, over |-> FALSE,
                   to |-> NoWorker, age |-> Expired]
<1>1. r \in DOMAIN creating /\ creating[r] \in Creation
  BY DEF CreateJob, TypeOK
<1>2. row \in Row
  BY <1>1, WorkerManagerAssumption DEF Creation, Row, Expired
<1>3. /\ job' = Append(job, row) /\ Len(job) < MaxJobs
      /\ UNCHANGED <<status, committed, locking, answer, run, alive, faults>>
      /\ creating' = [creating EXCEPT ![r].row = Len(job) + 1]
  BY DEF CreateJob
<1> HIDE DEF row
<1>4. /\ job' \in Seq(Row) /\ Len(job') = Len(job) + 1 /\ Rows' = Rows \cup {Len(job) + 1}
  BY <1>2, <1>3, CreatedRows DEF TypeOK, Rows
<1>5. Len(job') <= MaxJobs /\ Len(job) + 1 \in 0 .. MaxJobs
  BY <1>3, <1>4, RowsOfJobs, WorkerManagerAssumption
<1>6. [creating[r] EXCEPT !.row = Len(job) + 1] \in Creation
  BY <1>1, <1>5 DEF Creation
<1>7. DOMAIN creating' \subseteq Request /\ creating' \in [DOMAIN creating' -> Creation]
  BY <1>3, <1>6 DEF TypeOK
<1>8. Job' = Job /\ committed' \subseteq Rows'
  BY <1>3, <1>4 DEF TypeOK, Job
<1>9. \A q \in DOMAIN creating' : creating'[q].row \in Rows' \cup {0}
  <2>1. creating'[r].row = Len(job) + 1
    BY <1>1, <1>3 DEF Creation, TypeOK
  <2> QED BY <1>3, <1>4, <2>1 DEF TypeOK
<1> QED
  BY <1>3, <1>4, <1>5, <1>7, <1>8, <1>9 DEF TypeOK

\* A creation is over: it is no longer under way.
LEMMA LeftType ==
  ASSUME TypeOK, NEW r \in Request, Left(r)
  PROVE  /\ DOMAIN creating' \subseteq Request /\ creating' \in [DOMAIN creating' -> Creation]
         /\ \A q \in DOMAIN creating' : creating'[q].row \in Rows \cup {0}
BY DEF TypeOK, Left

\* A row is committed, and the one it replaces is over.
LEMMA CommitJobTypeOK ==
  ASSUME TypeOK, NEW r \in Request, CommitJob(r)
  PROVE  job' \in [Rows -> Row] /\ TypeOK'
<1>1. /\ job' = [i \in Rows |-> IF i = creating[r].found THEN Completed(job[i]) ELSE job[i]]
      /\ UNCHANGED <<status, locking, answer, run, alive, faults>>
      /\ committed' = committed \cup {creating[r].row} /\ Left(r)
      /\ creating[r].row \in Rows
  BY DEF CommitJob, TypeOK
<1>2. job' \in [Rows -> Row]
  BY <1>1, RowsOfJobs, CompletedRow
<1>3. job' \in Seq(Row) /\ Len(job') = Len(job) /\ Rows' = Rows
  BY <1>2, MappedRows DEF TypeOK, Rows
<1>4. committed' \subseteq Rows' /\ Job \subseteq Job'
  BY <1>1, <1>3 DEF TypeOK, Job
<1> QED
  BY <1>1, <1>2, <1>3, <1>4, LeftType, MoreJobs DEF TypeOK, Runs

\* What an assignment reads are jobs that are not over.
LEMMA WhatIsFound ==
  ASSUME NEW w, NEW kept, NEW new \in Taken(w, kept)
  PROVE  /\ new \subseteq Unassigned(w)
         /\ Unassigned(w) \subseteq Enabled /\ Assigned(w) \subseteq Enabled
         /\ Enabled \subseteq Job
<1>1. new \subseteq Unassigned(w)
  BY DEF Taken
<1> QED
  BY <1>1 DEF Unassigned, Assigned, Enabled

\* The first half of lock_jobs chooses among the rows.
LEMMA LockReadTypeOK ==
  ASSUME TypeOK, NEW w \in Worker, LockRead(w)
  PROVE  TypeOK'
<1>1. PICK kept \in SUBSET Assigned(w) : \E new \in Taken(w, kept) :
        locking' = [worker |-> w,
                    given  |-> {i \in kept \cup new :
                                  Joins(i) /\ status[job[i].definition] = "ok"},
                    shed   |-> Assigned(w) \ kept,
                    failed |-> {i \in kept \cup new : ~Joins(i)},
                    age    |-> 0]
  BY DEF LockRead
<1>1a. PICK new \in Taken(w, kept) :
        locking' = [worker |-> w,
                    given  |-> {i \in kept \cup new :
                                  Joins(i) /\ status[job[i].definition] = "ok"},
                    shed   |-> Assigned(w) \ kept,
                    failed |-> {i \in kept \cup new : ~Joins(i)},
                    age    |-> 0]
  BY <1>1
<1>2. kept \cup new \subseteq Job /\ Assigned(w) \subseteq Job
  BY WhatIsFound
<1>3. 0 \in 0 .. Expired
  BY WorkerManagerAssumption DEF Expired
<1>4. locking' \in [worker : Worker \cup {NoWorker}, given : SUBSET Job,
                    shed : SUBSET Job, failed : SUBSET Job, age : 0 .. Expired]
  BY <1>1a, <1>2, <1>3
<1>5. answer' \in [Worker -> [state : {"idle", "asked", "answered"}, items : SUBSET Job,
                              age : 0 .. Expired]]
  BY DEF LockRead, TypeOK
<1>6. UNCHANGED <<status, jobVars, run, alive, faults>>
  BY DEF LockRead
<1>7. Job' = Job /\ Rows' = Rows
  BY <1>6 DEF Job, Rows, jobVars
<1> QED
  BY <1>4, <1>5, <1>6, <1>7 DEF TypeOK, jobVars

\* Its second half writes what was chosen.
LEMMA LockWriteTypeOK ==
  ASSUME TypeOK, LockWrite
  PROVE  job' \in [Rows -> Row] /\ TypeOK'
<1>1. /\ locking.age \in 0 .. Expired /\ locking.worker \in Worker \cup {NoWorker}
      /\ locking.given \subseteq Job
  BY DEF TypeOK
<1>2. Expired \in 0 .. Expired
  BY WorkerManagerAssumption DEF Expired
<1>3. job' \in [Rows -> Row]
  <2>1. ASSUME NEW i \in Rows PROVE job'[i] \in Row
    <3>1. job[i] \in Row
      BY RowsOfJobs
    <3>2. [job[i] EXCEPT !.to = locking.worker, !.age = locking.age] \in Row
      <4> DEFINE to == [job[i] EXCEPT !.to = locking.worker]
      <4>1. to \in Row
        BY <1>1, <3>1 DEF Row
      <4>2. [to EXCEPT !.age = locking.age] \in Row
        BY <1>1, <4>1 DEF Row
      <4> QED BY <4>2, <3>1 DEF Row
    <3>3. [job[i] EXCEPT !.to = NoWorker, !.age = Expired] \in Row
      <4> DEFINE to == [job[i] EXCEPT !.to = NoWorker]
      <4>1. to \in Row
        BY <3>1 DEF Row
      <4>2. [to EXCEPT !.age = Expired] \in Row
        BY <1>2, <4>1 DEF Row
      <4> QED BY <4>2, <3>1 DEF Row
    <3>4. Completed(job[i]) \in Row
      BY <3>1, CompletedRow
    <3> QED BY <3>1, <3>2, <3>3, <3>4 DEF LockWrite
  <2> QED BY <2>1 DEF LockWrite
<1>4. /\ job' \in Seq(Row) /\ Len(job') = Len(job) /\ Job' = Job /\ Rows' = Rows
      /\ committed' \subseteq Rows'
  BY <1>3, ChangeOfRows DEF LockWrite
<1>5. answer' \in [Worker -> [state : {"idle", "asked", "answered"}, items : SUBSET Job,
                              age : 0 .. Expired]]
  BY <1>1 DEF TypeOK, LockWrite
<1>6. locking' \in [worker : Worker \cup {NoWorker}, given : SUBSET Job,
                    shed : SUBSET Job, failed : SUBSET Job, age : 0 .. Expired]
  BY <1>2 DEF LockWrite, Unlocked
<1>7. UNCHANGED <<status, creating, run, alive, faults>>
  BY DEF LockWrite
<1> QED
  BY <1>3, <1>4, <1>5, <1>6, <1>7 DEF TypeOK

\* An answer comes or is lost, a worker dies or starts again.
LEMMA ReceiveTypeOK ==
  ASSUME TypeOK, NEW w \in Worker,
         Receive(w) \/ LoseAnswer(w) \/ Die(w) \/ Restart(w)
  PROVE  TypeOK'
<1>0. Job' = Job /\ Rows' = Rows /\ UNCHANGED <<status, job, committed, creating, locking>>
  BY DEF Receive, LoseAnswer, Die, Restart, Job, Rows, jobVars
<1>1. Idle \in [state : {"idle", "asked", "answered"}, items : SUBSET Job, age : 0 .. Expired]
  BY WorkerManagerAssumption DEF Idle, Expired
<1>2. answer' \in [Worker -> [state : {"idle", "asked", "answered"}, items : SUBSET Job,
                              age : 0 .. Expired]]
  BY <1>1 DEF TypeOK, Receive, LoseAnswer, Die, Restart
<1>3. run' \in [Worker -> Runs(Job)]
  <2>1. run \in [Worker -> Runs(Job)]
    BY DEF TypeOK, Runs
  <2>2. answer[w].items \in SUBSET Job /\ answer[w].age \in 0 .. Expired
    BY DEF TypeOK
  <2>3. [i \in answer[w].items |-> answer[w].age] \in Runs(Job)
    BY <2>2, RunsOf
  <2>4. <<>> \in Runs(Job)
    BY RunsOf
  <2> QED
    BY <2>1, <2>3, <2>4 DEF Receive, LoseAnswer, Die, Restart
<1>4. alive' \subseteq Worker /\ faults' \in 0 .. MaxFaults
  BY WorkerManagerAssumption DEF TypeOK, Receive, LoseAnswer, Die, Restart
<1> QED
  BY <1>0, <1>2, <1>3, <1>4 DEF TypeOK, Runs

\* A request that fails leaves the rows as they were.
LEMMA RollBackTypeOK ==
  ASSUME TypeOK, RollBack
  PROVE  TypeOK'
<1>1. Job' = Job /\ Rows' = Rows /\ UNCHANGED <<status, job, committed, creating, run, alive>>
  BY DEF RollBack, Job, Rows, jobVars
<1>2. Idle \in [state : {"idle", "asked", "answered"}, items : SUBSET Job, age : 0 .. Expired]
  BY WorkerManagerAssumption DEF Idle, Expired
<1>3. answer' \in [Worker -> [state : {"idle", "asked", "answered"}, items : SUBSET Job,
                              age : 0 .. Expired]]
  BY <1>2 DEF TypeOK, RollBack
<1>4. locking' \in [worker : Worker \cup {NoWorker}, given : SUBSET Job,
                    shed : SUBSET Job, failed : SUBSET Job, age : 0 .. Expired]
  BY WorkerManagerAssumption DEF RollBack, Unlocked, Expired
<1>5. faults' \in 0 .. MaxFaults
  BY WorkerManagerAssumption DEF TypeOK, RollBack
<1> QED
  BY <1>1, <1>3, <1>4, <1>5 DEF TypeOK

\* All that holds gets older, up to Expired.
LEMMA TickTypeOK ==
  ASSUME TypeOK, Tick
  PROVE  job' \in [Rows -> Row] /\ TypeOK'
<1>1. job' \in [Rows -> Row]
  <2>1. ASSUME NEW i \in Rows PROVE [job[i] EXCEPT !.age = Older(@)] \in Row
    <3>1. job[i] \in Row /\ job[i].age \in 0 .. Expired
      BY RowsOfJobs DEF Row
    <3> QED BY <3>1, OlderAge DEF Row
  <2> QED BY <2>1 DEF Tick
<1>2. /\ job' \in Seq(Row) /\ Len(job') = Len(job) /\ Job' = Job /\ Rows' = Rows
      /\ committed' \subseteq Rows'
  BY <1>1, ChangeOfRows DEF Tick
<1>3. run' \in [Worker -> Runs(Job)]
  <2>1. ASSUME NEW w \in Worker
        PROVE  [i \in DOMAIN run[w] |-> Older(run[w][i])] \in Runs(Job)
    <3>1. run[w] \in Runs(Job)
      BY DEF TypeOK, Runs
    <3>2. PICK items \in SUBSET Job : run[w] \in [items -> 0 .. Expired]
      BY <3>1, RunsOf
    <3>3. [i \in DOMAIN run[w] |-> Older(run[w][i])] \in [items -> 0 .. Expired]
      BY <3>2, OlderAge
    <3> QED BY <3>3, RunsOf
  <2> QED BY <2>1 DEF Tick
<1>4. answer' \in [Worker -> [state : {"idle", "asked", "answered"}, items : SUBSET Job,
                              age : 0 .. Expired]]
  <2>1. ASSUME NEW w \in Worker
        PROVE  [answer[w] EXCEPT !.age = Older(@)] \in
                 [state : {"idle", "asked", "answered"}, items : SUBSET Job, age : 0 .. Expired]
    <3>1. answer[w] \in [state : {"idle", "asked", "answered"}, items : SUBSET Job,
                         age : 0 .. Expired]
      BY DEF TypeOK
    <3>2. Older(answer[w].age) \in 0 .. Expired
      BY <3>1, OlderAge
    <3> QED BY <3>1, <3>2
  <2> QED BY <2>1 DEF Tick
<1>5. locking' \in [worker : Worker \cup {NoWorker}, given : SUBSET Job,
                    shed : SUBSET Job, failed : SUBSET Job, age : 0 .. Expired]
  BY OlderAge DEF TypeOK, Tick
<1>6. UNCHANGED <<status, creating, alive, faults>>
  BY DEF Tick
<1> QED
  BY <1>1, <1>2, <1>3, <1>4, <1>5, <1>6 DEF TypeOK, Runs

\* One case per action.
LEMMA NextTypeOK == TypeOK /\ [Next]_vars => TypeOK'
<1> SUFFICES ASSUME TypeOK, [Next]_vars PROVE TypeOK'
  OBVIOUS
<1>1. ASSUME NEW d \in Definition, Redefine(d) PROVE TypeOK'
  <2>1. status' \in [Definition -> {"ok", "blocked", "gone"}]
    BY <1>1, WorkerManagerAssumption DEF Redefine, TypeOK
  <2>2. Job' = Job /\ Rows' = Rows
        /\ UNCHANGED <<job, committed, creating, locking, answer, run, alive, faults>>
    BY <1>1 DEF Redefine, Job, Rows, jobVars
  <2> QED BY <2>1, <2>2 DEF TypeOK
<1>2. ASSUME NEW r \in Request, NEW d \in Definition, SyncJobs(r, d) PROVE TypeOK'
  <2>1. Checked(r, d, "sync", 0) /\ "sync" \in By
    BY <1>2 DEF SyncJobs, By
  <2> QED BY <2>1, CheckedTypeOK
<1>3. ASSUME NEW r \in Request, NEW d \in Definition, NEW restart \in BOOLEAN,
             StartDefinition(r, d, restart)
      PROVE  TypeOK'
  BY <1>3, StartTypeOK DEF StartDefinition, By
<1>4. ASSUME NEW r \in Request, NEW i \in Job, NEW restart \in BOOLEAN, StartName(r, i, restart)
      PROVE  TypeOK'
  <2>1. job[i].definition \in Definition /\ "name" \in By
    BY RowsOfJobs DEF Row, By
  <2> QED BY <1>4, <2>1, StartTypeOK DEF StartName
<1>5. ASSUME NEW w \in Worker, LockRead(w) PROVE TypeOK'
  BY <1>5, LockReadTypeOK
<1>6. ASSUME NEW w \in Worker, Receive(w) \/ LoseAnswer(w) \/ Die(w) \/ Restart(w)
      PROVE  TypeOK'
  BY <1>6, ReceiveTypeOK
<1>7. CASE LockWrite
  BY <1>7, LockWriteTypeOK
<1>8. ASSUME NEW i \in Job, Complete(i) PROVE TypeOK'
  <2>1. job' \in [Rows -> Row]
    BY <1>8, RowsOfJobs, CompletedRow DEF Complete
  <2>2. UNCHANGED <<status, committed, creating, locking, answer, run, alive, faults>>
    BY <1>8 DEF Complete
  <2> QED BY <2>1, <2>2, ChangeOfRows DEF TypeOK
<1>9. CASE Tick
  BY <1>9, TickTypeOK
<1>10. CASE UNCHANGED vars
  BY <1>10 DEF vars, jobVars, TypeOK, Job, Rows
<1>11. CASE RollBack
  BY <1>11, RollBackTypeOK
<1>12. ASSUME NEW r \in Request, CreateJob(r) \/ CommitJob(r) PROVE TypeOK'
  BY <1>12, CreateJobTypeOK, CommitJobTypeOK
<1>13. ASSUME NEW r \in Request, FailCreation(r) PROVE TypeOK'
  <2>1. UNCHANGED <<status, job, committed, locking, answer, run, alive>> /\ Left(r)
        /\ Job' = Job /\ Rows' = Rows
    BY <1>13 DEF FailCreation, Job, Rows
  <2>2. faults' \in 0 .. MaxFaults
    BY <1>13, WorkerManagerAssumption DEF FailCreation, TypeOK
  <2> QED BY <2>1, <2>2, LeftType DEF TypeOK
<1> QED
  BY <1>1, <1>2, <1>3, <1>4, <1>5, <1>6, <1>7, <1>8, <1>9, <1>10, <1>11, <1>12, <1>13
     DEF Next, PostStart

\* The variables of the manager and of its workers keep their types: the queues a
\* request names exist, and a row is one of a definition.
THEOREM TypeCorrect == Spec => []TypeOK
<1>1. TypeOK /\ [Next]_vars => TypeOK'
  BY NextTypeOK
<1> QED
  BY <1>1, InitTypeOK, PTL DEF Spec

----------------------------------------------------------------------------
(* What the actions do to the jobs *)

\* Row i keeps its definition, how it was started and what its creation saw, and is
\* not opened again.
SameJob(i) ==
  /\ job'[i].definition = job[i].definition
  /\ job'[i].by = job[i].by
  /\ job'[i].seen = job[i].seen
  /\ job[i].over => job'[i].over

\* A row that is not committed is assigned to nobody.
Fresh == \A i \in Rows \ Job : job[i].to = NoWorker

\* Everything but a creation keeps the jobs, their definitions and how they were
\* started, and does not open again one that is over.
LEMMA JobsKept ==
  ASSUME TypeOK,
         \/ \E d \in Definition : Redefine(d)
         \/ \E w \in Worker : \/ LockRead(w) \/ Receive(w) \/ LoseAnswer(w)
                              \/ Die(w) \/ Restart(w)
         \/ LockWrite \/ RollBack
         \/ \E i \in Job : Complete(i)
         \/ Tick
         \/ UNCHANGED vars
  PROVE  /\ Rows' = Rows /\ Job' = Job /\ UNCHANGED creating
         /\ \A i \in Rows : SameJob(i)
         /\ Fresh => Fresh'
<1>0. \A i \in Rows : job[i] \in Row
  BY RowsOfJobs
<1>1. CASE UNCHANGED jobVars
  BY <1>1 DEF Job, Rows, SameJob, Fresh, jobVars
<1>2. CASE LockWrite
  <2>1. Job' = Job /\ Rows' = Rows /\ UNCHANGED creating
    BY <1>2, LockWriteTypeOK, ChangeOfRows DEF LockWrite
  <2>2. ASSUME NEW i \in Rows
        PROVE  /\ SameJob(i)
               /\ i \notin locking.given => job'[i].to \in {job[i].to, NoWorker}
    <3>1. /\ Completed(job[i]).definition = job[i].definition
          /\ Completed(job[i]).by = job[i].by
          /\ Completed(job[i]).seen = job[i].seen
          /\ Completed(job[i]).over = TRUE
          /\ Completed(job[i]).to = NoWorker
      BY <1>0, CompletedRow
    <3> QED BY <1>0, <1>2, <3>1 DEF LockWrite, Row, SameJob
  <2>3. locking.given \subseteq Job
    BY DEF TypeOK
  <2> QED BY <2>1, <2>2, <2>3 DEF Fresh
<1>3. ASSUME NEW k \in Job, Complete(k)
      PROVE  /\ Rows' = Rows /\ Job' = Job /\ UNCHANGED creating
             /\ \A i \in Rows : SameJob(i)
             /\ Fresh => Fresh'
  <2>1. Job' = Job /\ Rows' = Rows /\ UNCHANGED creating /\ k \in Rows
    BY <1>3, RowsOfJobs DEF Complete, Job, Rows
  <2>2. /\ job'[k] = Completed(job[k])
        /\ \A i \in Rows : i # k => job'[i] = job[i]
    BY <1>0, <1>3, <2>1 DEF Complete, Rows
  <2>3. /\ Completed(job[k]).definition = job[k].definition
        /\ Completed(job[k]).by = job[k].by
        /\ Completed(job[k]).seen = job[k].seen
        /\ Completed(job[k]).over = TRUE
    BY <1>0, <2>1, CompletedRow
  <2>4. \A i \in Rows : SameJob(i)
    BY <2>2, <2>3 DEF SameJob
  <2>5. Fresh => Fresh'
    BY <2>1, <2>2 DEF Fresh
  <2> QED BY <2>1, <2>4, <2>5
<1>4. CASE Tick
  <2>1. Job' = Job /\ Rows' = Rows /\ UNCHANGED creating
    BY <1>4, TickTypeOK, ChangeOfRows DEF Tick
  <2>2. \A i \in Rows : SameJob(i) /\ job'[i].to = job[i].to
    BY <1>0, <1>4 DEF Tick, Row, SameJob
  <2> QED BY <2>1, <2>2 DEF Fresh
<1> QED
  BY <1>1, <1>2, <1>3, <1>4 DEF Redefine, RollBack, LockRead, Receive, LoseAnswer, Die,
     Restart, vars

\* A request that creates a job has made its check; the last job of the definition
\* it has seen, if it goes by the definition, is over or the one it completes.
LEMMA ChecksOfRequests ==
  ASSUME TypeOK, NEW r \in Request, (\E d \in Definition : SyncJobs(r, d)) \/ PostStart(r)
  PROVE  \E d \in Definition, by \in By, found \in Job \cup {0} :
           /\ Checked(r, d, by, found)
           /\ \/ by = "name" \/ d \in Plain
              \/ \A i \in Of(d) : \E l \in Of(d) : i <= l /\ (job[l].over \/ l = found)
<1> DEFINE Read(d, found) ==
             \A i \in Of(d) : \E l \in Of(d) : i <= l /\ (job[l].over \/ l = found)
<1>0. job \in Seq(Row) /\ Job \subseteq Rows
  BY RowsOfJobs DEF TypeOK
<1>1. ASSUME NEW d \in Definition, SyncJobs(r, d)
      PROVE  Checked(r, d, "sync", 0) /\ (d \in Plain \/ Read(d, 0))
  <2>1. d \notin Plain /\ Of(d) # {} => job[LastJob(d)].over
    BY <1>1 DEF SyncJobs
  <2>2. Of(d) # {} => LastJob(d) \in Of(d) /\ \A k \in Of(d) : k <= LastJob(d)
    BY <1>0, LastIsLast
  <2> QED BY <1>1, <2>1, <2>2 DEF SyncJobs
<1>2. ASSUME NEW found, NEW restart, NEW d \in Definition, NEW by \in By,
             StartAfter(r, found, restart, d, by)
      PROVE  \E f \in Job \cup {0} : /\ Checked(r, d, by, f)
                                     /\ f = IF found \in Enabled THEN found ELSE 0
  <2>1. (IF found \in Enabled THEN found ELSE 0) \in Job \cup {0}
    BY DEF Enabled
  <2> QED BY <1>2, <2>1 DEF StartAfter
<1>3. ASSUME NEW d \in Definition, NEW restart \in BOOLEAN, StartDefinition(r, d, restart)
      PROVE  \E f \in Job \cup {0} : Checked(r, d, "definition", f) /\ Read(d, f)
  <2>1. PICK f \in Job \cup {0} : /\ Checked(r, d, "definition", f)
                                  /\ f = IF LastJob(d) \in Enabled THEN LastJob(d) ELSE 0
    BY <1>2, <1>3 DEF StartDefinition, By
  <2>2. Of(d) # {} => LastJob(d) \in Of(d) /\ \A k \in Of(d) : k <= LastJob(d)
    BY <1>0, LastIsLast
  <2>3. Of(d) # {} => job[LastJob(d)].over \/ LastJob(d) = f
    BY <2>1, <2>2 DEF Enabled, Of
  <2> QED BY <2>1, <2>2, <2>3
<1>4. ASSUME NEW i \in Job, NEW restart \in BOOLEAN, StartName(r, i, restart)
      PROVE  \E d \in Definition, f \in Job \cup {0} : Checked(r, d, "name", f)
  <2>1. job[i].definition \in Definition
    BY RowsOfJobs DEF Row
  <2> QED BY <1>2, <1>4, <2>1 DEF StartName, By
<1>5. CASE \E d \in Definition : SyncJobs(r, d)
  BY <1>1, <1>5 DEF By
<1>6. CASE PostStart(r)
  BY <1>3, <1>4, <1>6 DEF PostStart, By
<1> QED
  BY <1>5, <1>6

\* A check, the making of a row and the end of a transaction that fails change
\* nothing that others see.
LEMMA JobsUnseen ==
  ASSUME TypeOK, NEW r \in Request,
         \/ \E d \in Definition : SyncJobs(r, d)
         \/ PostStart(r) \/ CreateJob(r) \/ FailCreation(r)
  PROVE  /\ Rows \subseteq Rows' /\ Job' = Job /\ UNCHANGED <<locking, answer, run>>
         /\ \A i \in Rows : job'[i] = job[i]
<1>1. CASE \E d \in Definition, by \in By, found \in Job \cup {0} : Checked(r, d, by, found)
  BY <1>1 DEF Checked, Rows, Job
<1>2. CASE CreateJob(r)
  <2> DEFINE row == [definition |-> creating[r].definition, by |-> creating[r].by,
                     seen |-> creating[r].seen, over |-> FALSE,
                     to |-> NoWorker, age |-> Expired]
  <2>1. row \in Row
    BY <1>2, WorkerManagerAssumption DEF CreateJob, TypeOK, Creation, Row, Expired
  <2>2. job' = Append(job, row) /\ UNCHANGED <<committed, locking, answer, run>>
    BY <1>2 DEF CreateJob
  <2> HIDE DEF row
  <2> QED BY <2>1, <2>2, CreatedRows DEF TypeOK, Rows, Job
<1>3. CASE FailCreation(r)
  BY <1>3 DEF FailCreation, Rows, Job
<1> QED
  BY <1>1, <1>2, <1>3, ChecksOfRequests

\* A commit adds a row to the jobs, and may complete one.
LEMMA JobCommitted ==
  ASSUME TypeOK, NEW r \in Request, CommitJob(r)
  PROVE  /\ Rows' = Rows /\ Job' = Job \cup {creating[r].row} /\ creating[r].row \in Rows
         /\ UNCHANGED <<locking, answer, run>>
         /\ \A i \in Rows : /\ SameJob(i)
                            /\ job'[i] = job[i] \/ (job'[i].over /\ job'[i].to = NoWorker)
         /\ creating[r].found \in Rows => job'[creating[r].found].over
<1>1. /\ job' = [i \in Rows |-> IF i = creating[r].found THEN Completed(job[i]) ELSE job[i]]
      /\ Job' = Job \cup {creating[r].row} /\ creating[r].row \in Rows
      /\ UNCHANGED <<locking, answer, run>>
  BY DEF CommitJob, TypeOK, Job
<1>2. Rows' = Rows
  BY <1>1 DEF Rows
<1>3. \A i \in Rows : /\ Completed(job[i]).definition = job[i].definition
                      /\ Completed(job[i]).by = job[i].by
                      /\ Completed(job[i]).seen = job[i].seen
                      /\ Completed(job[i]).over = TRUE
                      /\ Completed(job[i]).to = NoWorker
  BY RowsOfJobs, CompletedRow
<1> QED
  BY <1>1, <1>2, <1>3 DEF SameJob

----------------------------------------------------------------------------
(* Jobs of one definition *)

\* What a creation has seen of a definition with an interval, but by the name of a
\* job, ends with a job that is over, or that it completes.
LastOver(c) ==
  \/ c.by = "name" \/ c.definition \in Plain
  \/ \A i \in c.seen : \E l \in c.seen : i <= l /\ (job[l].over \/ l = c.found)

\* The creations under way: what each has seen is committed, the row that one has
\* made is not.
Underway ==
  \A r \in DOMAIN creating :
    /\ \A i \in creating[r].seen : i \in Job /\ job[i].definition = creating[r].definition
    /\ LastOver(creating[r])
    /\ creating[r].row # 0 =>
         /\ creating[r].row \notin Job
         /\ job[creating[r].row].definition = creating[r].definition
         /\ job[creating[r].row].by = creating[r].by
         /\ job[creating[r].row].seen = creating[r].seen
         /\ \A i \in creating[r].seen : i < creating[r].row
         /\ \A q \in DOMAIN creating : creating[q].row = creating[r].row => q = r

CInv == /\ Fresh /\ Underway
        /\ \A k \in Rows : job[k].seen \subseteq Job
        /\ OneRunningUnlessRaced

\* LastOver after a step
LastOverThen(c) ==
  \/ c.by = "name" \/ c.definition \in Plain
  \/ \A i \in c.seen : \E l \in c.seen : i <= l /\ (job'[l].over \/ l = c.found)

\* What was over still is.
LEMMA LastStaysOver ==
  ASSUME NEW c, NEW b, LastOver(c), \A l \in c.seen : job[l].over => job'[l].over,
         b.by = c.by, b.definition = c.definition, b.seen = c.seen, b.found = c.found
  PROVE  LastOverThen(b)
BY DEF LastOver, LastOverThen

\* What a creation under way needs after a step.
UnderwayThen(r) ==
  /\ \A i \in creating'[r].seen : i \in Job' /\ job'[i].definition = creating'[r].definition
  /\ LastOverThen(creating'[r])
  /\ creating'[r].row # 0 =>
       /\ creating'[r].row \notin Job'
       /\ job'[creating'[r].row].definition = creating'[r].definition
       /\ job'[creating'[r].row].by = creating'[r].by
       /\ job'[creating'[r].row].seen = creating'[r].seen
       /\ \A i \in creating'[r].seen : i < creating'[r].row
       /\ \A q \in DOMAIN creating' : creating'[q].row = creating'[r].row => q = r

\* That is Underway in the next state.
LEMMA UnderwayNext ==
  ASSUME \A r \in DOMAIN creating' : UnderwayThen(r)
  PROVE  Underway'
BY DEF UnderwayThen, LastOverThen, Underway, LastOver

\* Steps that commit nothing keep what is said of the jobs that run.
LEMMA RacedKept ==
  ASSUME TypeOK, OneRunningUnlessRaced, Job' = Job, \A i \in Job : SameJob(i)
  PROVE  OneRunningUnlessRaced'
<1> SUFFICES ASSUME NEW i \in Enabled', NEW k \in Job', BothRun(i, k)'
             PROVE  \E n \in Since(i, k)' : job'[n].by = "name" \/ i \notin job'[n].seen
  BY DEF OneRunningUnlessRaced
<1>1. i \in Job /\ k \in Job /\ i \in Enabled /\ job'[i].definition = job[i].definition
  BY DEF Enabled, SameJob
<1>2. BothRun(i, k)
  BY <1>1 DEF BothRun, SameJob
<1>3. PICK n \in Since(i, k) : job[n].by = "name" \/ i \notin job[n].seen
  BY <1>1, <1>2 DEF OneRunningUnlessRaced
<1>4. n \in Since(i, k)' /\ n \in Job
  BY <1>1, <1>3 DEF Since, Of, SameJob
<1> QED BY <1>3, <1>4 DEF SameJob

\* The invariant needs no more of a row than that it keeps what SameJob says.
LEMMA SameCInv ==
  ASSUME TypeOK, CInv, Rows' = Rows, Job' = Job, UNCHANGED creating,
         \A i \in Rows : SameJob(i), Fresh'
  PROVE  CInv'
<1>1. Job \subseteq Rows
  BY RowsOfJobs
<1>2. OneRunningUnlessRaced'
  BY <1>1, RacedKept DEF CInv
<1>3. ASSUME NEW r \in DOMAIN creating PROVE UnderwayThen(r)
  <2>1. creating[r].seen \subseteq Rows /\ (creating[r].row # 0 => creating[r].row \in Rows)
    BY <1>1 DEF CInv, Underway, TypeOK
  <2>2. LastOverThen(creating[r])
    BY <2>1, LastStaysOver DEF CInv, Underway, SameJob
  <2> QED BY <2>1, <2>2 DEF CInv, Underway, UnderwayThen, SameJob
<1>4. Underway'
  BY <1>3, UnderwayNext
<1> QED
  BY <1>2, <1>4 DEF CInv, SameJob

\* A check sees what is committed.
LEMMA CheckedCInv ==
  ASSUME TypeOK, CInv, NEW r \in Request, NEW d \in Definition, NEW by \in By, NEW found,
         Checked(r, d, by, found),
         \/ by = "name" \/ d \in Plain
         \/ \A i \in Of(d) : \E l \in Of(d) : i <= l /\ (job[l].over \/ l = found)
  PROVE  CInv'
<1> DEFINE c == [definition |-> d, by |-> by, found |-> found, seen |-> Of(d), row |-> 0]
<1>1. /\ creating' = [q \in DOMAIN creating \cup {r} |-> IF q = r THEN c ELSE creating[q]]
      /\ UNCHANGED <<job, committed>>
  BY DEF Checked
<1>2. /\ c.seen = Of(d) /\ c.row = 0 /\ c.definition = d /\ c.by = by /\ c.found = found
      /\ \A i \in Of(d) : i \in Job /\ job[i].definition = d
  BY DEF Of
<1>3. LastOver(c)
  BY <1>2 DEF LastOver
<1> HIDE DEF c
<1>4. Job' = Job /\ Rows' = Rows
  BY <1>1 DEF Job, Rows
<1>5. ASSUME NEW q \in DOMAIN creating' PROVE UnderwayThen(q)
  <2>1. creating'[q] = IF q = r THEN c ELSE creating[q]
    BY <1>1
  <2>2. LastOver(creating'[q])
    BY <1>1, <1>3, <2>1 DEF CInv, Underway
  <2>3. LastOverThen(creating'[q])
    BY <1>1, <2>2, LastStaysOver
  <2>4. CASE q = r
    BY <1>1, <1>2, <1>4, <2>1, <2>3, <2>4 DEF UnderwayThen
  <2>5. CASE q # r
    BY <1>1, <1>2, <1>4, <2>1, <2>3, <2>5 DEF UnderwayThen, CInv, Underway
  <2> QED BY <2>4, <2>5
<1>6. Underway'
  BY <1>5, UnderwayNext
<1>7. OneRunningUnlessRaced'
  BY <1>1, <1>4, RacedKept DEF CInv, SameJob
<1> QED
  BY <1>1, <1>4, <1>6, <1>7 DEF CInv, Fresh

\* The row that is made is not committed, and nobody has seen it.
LEMMA CreateJobCInv ==
  ASSUME TypeOK, CInv, NEW r \in Request, CreateJob(r)
  PROVE  CInv'
<1> DEFINE row == [definition |-> creating[r].definition, by |-> creating[r].by,
                   seen |-> creating[r].seen, over |-> FALSE,
                   to |-> NoWorker, age |-> Expired]
           k == Len(job) + 1
<1>1. r \in DOMAIN creating /\ creating[r] \in Creation /\ creating[r].row = 0
  BY DEF CreateJob, TypeOK
<1>2. row \in Row
  BY <1>1, WorkerManagerAssumption DEF Creation, Row, Expired
<1>3. /\ job' = Append(job, row) /\ UNCHANGED committed
      /\ creating' = [creating EXCEPT ![r].row = k]
  BY DEF CreateJob
<1>4. /\ row.definition = creating[r].definition /\ row.by = creating[r].by
      /\ row.seen = creating[r].seen /\ row.to = NoWorker
  OBVIOUS
<1> HIDE DEF row
<1>5. /\ Rows' = Rows \cup {k} /\ Job' = Job
      /\ \A i \in Rows : job'[i] = job[i]
      /\ job'[k] = row
  BY <1>2, <1>3, CreatedRows DEF TypeOK, Rows, Job
<1>6. /\ Len(job) \in Nat /\ Rows = 1 .. Len(job) /\ Job \subseteq Rows
  BY RowsOfJobs
<1>7. /\ creating'[r].row = k /\ creating'[r].definition = creating[r].definition
      /\ creating'[r].by = creating[r].by /\ creating'[r].seen = creating[r].seen
      /\ creating'[r].found = creating[r].found
      /\ DOMAIN creating' = DOMAIN creating
      /\ \A q \in DOMAIN creating : q # r => creating'[q] = creating[q]
  BY <1>1, <1>3 DEF TypeOK, Creation
<1>8. \A q \in DOMAIN creating : creating[q].row \in Rows \cup {0} /\ creating[q].seen \subseteq Job
  BY DEF TypeOK, CInv, Underway
<1>9. ASSUME NEW q \in DOMAIN creating PROVE UnderwayThen(q)
  <2>1. LastOverThen(creating'[q])
    <3>1. LastOver(creating[q]) /\ \A l \in creating[q].seen : job'[l] = job[l]
      BY <1>5, <1>6, <1>8 DEF CInv, Underway
    <3>2. /\ creating'[q].by = creating[q].by /\ creating'[q].seen = creating[q].seen
          /\ creating'[q].definition = creating[q].definition
          /\ creating'[q].found = creating[q].found
      BY <1>7
    <3> QED BY <3>1, <3>2, LastStaysOver
  <2>2. \A i \in creating'[q].seen :
          i \in Job /\ i \in Rows /\ job'[i].definition = creating'[q].definition
    <3>1. \A i \in creating[q].seen :
            i \in Job /\ i \in Rows /\ job[i].definition = creating[q].definition
      BY <1>6 DEF CInv, Underway
    <3>2. /\ creating'[q].seen = creating[q].seen
          /\ creating'[q].definition = creating[q].definition
      BY <1>7
    <3> QED BY <1>5, <3>1, <3>2
  <2>3. CASE q = r
    <3>1. k \notin Job /\ \A p \in DOMAIN creating : p # r => creating'[p].row # k
      BY <1>6, <1>7, <1>8
    <3>2. \A i \in creating'[q].seen : i < k
      BY <1>6, <2>2
    <3> QED BY <1>4, <1>5, <1>7, <2>1, <2>2, <2>3, <3>1, <3>2 DEF UnderwayThen
  <2>4. CASE q # r
    <3>1. creating'[q] = creating[q] /\ creating[q].row \in Rows \cup {0} /\ k \notin Rows
      BY <1>6, <1>7, <1>8, <2>4
    <3>2. creating[q].row # 0 => job'[creating[q].row] = job[creating[q].row]
      BY <1>5, <3>1
    <3>3. creating[q].row # 0 =>
            \A p \in DOMAIN creating : creating'[p].row = creating[q].row => p = q
      BY <1>7, <3>1 DEF CInv, Underway
    <3> QED BY <1>5, <1>7, <2>1, <2>2, <3>1, <3>2, <3>3 DEF UnderwayThen, CInv, Underway
  <2> QED BY <2>3, <2>4
<1>10. Underway'
  BY <1>7, <1>9, UnderwayNext
<1>11. OneRunningUnlessRaced'
  BY <1>5, <1>6, RacedKept DEF CInv, SameJob
<1>14. Fresh' /\ \A i \in Rows' : job'[i].seen \subseteq Job'
  BY <1>4, <1>5, <1>6, <1>8, <1>1 DEF CInv, Fresh
<1> QED
  BY <1>10, <1>11, <1>14 DEF CInv

\* A row that is committed was not seen by any other; what its creation saw of the
\* jobs of its definition is over, but for those that the invariant allows.
LEMMA CommitJobCInv ==
  ASSUME TypeOK, CInv, NEW r \in Request, CommitJob(r)
  PROVE  CInv'
<1> DEFINE k == creating[r].row
<1>1. /\ Rows' = Rows /\ Job' = Job \cup {k} /\ k \in Rows
      /\ \A i \in Rows : /\ SameJob(i)
                         /\ job'[i] = job[i] \/ (job'[i].over /\ job'[i].to = NoWorker)
      /\ creating[r].found \in Rows => job'[creating[r].found].over
  BY JobCommitted
<1>2. /\ r \in DOMAIN creating /\ k # 0
      /\ creating' = [q \in DOMAIN creating \ {r} |-> creating[q]]
  BY DEF CommitJob, Left
<1>3. /\ k \notin Job /\ job[k].by = creating[r].by
      /\ job[k].definition = creating[r].definition /\ job[k].seen = creating[r].seen
      /\ \A i \in creating[r].seen : i \in Job /\ i < k
      /\ LastOver(creating[r])
      /\ \A q \in DOMAIN creating : creating[q].row = k => q = r
  BY <1>2 DEF CInv, Underway
<1>4. Len(job) \in Nat /\ Rows = 1 .. Len(job) /\ Job \subseteq Rows
  BY RowsOfJobs
<1>5. /\ \A i \in Rows : job'[i].seen \subseteq Job
      /\ \A i \in Enabled' : i \in Job => i \in Enabled
      /\ \A d : Of(d) \subseteq Of(d)'
  BY <1>1, <1>4 DEF CInv, SameJob, Enabled, Of
<1>6. OneRunningUnlessRaced'
  <2> SUFFICES ASSUME NEW i \in Enabled', NEW j \in Job', BothRun(i, j)'
               PROVE  \E n \in Since(i, j)' : job'[n].by = "name" \/ i \notin job'[n].seen
    BY DEF OneRunningUnlessRaced
  <2>1. /\ i \in Job' /\ i \in Rows /\ j \in Rows /\ i < j
        /\ job[j].definition = job[i].definition
        /\ job[i].definition \notin Plain
    BY <1>1, <1>4 DEF BothRun, SameJob, Enabled
  <2>2. j \in Since(i, j)'
    BY <1>1, <1>4, <2>1 DEF Since, Of, SameJob
  <2>3. CASE i = k
    <3>1. j \in Job /\ i \notin job'[j].seen
      BY <1>1, <1>3, <1>4, <1>5, <2>1, <2>3
    <3> QED BY <2>2, <3>1
  <2>4. CASE i # k /\ j # k
    <3>1. i \in Enabled /\ j \in Job /\ BothRun(i, j)
      BY <1>1, <1>5, <2>1, <2>4 DEF BothRun
    <3>2. PICK n \in Since(i, j) : job[n].by = "name" \/ i \notin job[n].seen
      BY <3>1 DEF CInv, OneRunningUnlessRaced
    <3>3. n \in Since(i, j)' /\ n \in Rows
      BY <1>1, <1>4, <1>5, <2>1, <3>2 DEF Since, Of, SameJob
    <3> QED BY <1>1, <3>2, <3>3 DEF SameJob
  <2>5. CASE i # k /\ j = k
    <3>1. i \in Enabled /\ ~job'[i].over
      BY <1>1, <1>5, <2>1, <2>5 DEF Enabled
    <3>2. CASE job[k].by = "name" \/ i \notin job[k].seen
      BY <1>1, <2>2, <2>5, <3>2 DEF SameJob
    <3>3. CASE job[k].by # "name" /\ i \in creating[r].seen
      <4>1. creating[r].definition \notin Plain
        BY <1>3, <2>1, <2>5
      <4>2. PICK l \in creating[r].seen : i <= l /\ (job[l].over \/ l = creating[r].found)
        BY <1>3, <3>3, <4>1 DEF LastOver
      <4>3. l \in Job /\ l < k /\ l \in Rows /\ job[l].definition = creating[r].definition
        BY <1>2, <1>3, <1>4, <4>2 DEF CInv, Underway
      <4>4. job'[l].over
        BY <1>1, <4>2, <4>3 DEF SameJob
      <4>5. i < l
        BY <1>4, <2>1, <3>1, <4>2, <4>3, <4>4
      <4>6. BothRun(i, l)
        BY <1>3, <2>1, <2>5, <4>3, <4>5 DEF BothRun
      <4>7. PICK n \in Since(i, l) : job[n].by = "name" \/ i \notin job[n].seen
        BY <3>1, <4>3, <4>6 DEF CInv, OneRunningUnlessRaced
      <4>8. n \in Since(i, j)' /\ n \in Rows
        BY <1>1, <1>4, <1>5, <2>1, <2>5, <4>3, <4>7 DEF Since, Of, SameJob
      <4> QED BY <1>1, <4>7, <4>8 DEF SameJob
    <3> QED BY <1>3, <3>2, <3>3
  <2> QED BY <2>3, <2>4, <2>5
<1>7. ASSUME NEW q \in DOMAIN creating' PROVE UnderwayThen(q)
  <2>1. /\ q \in DOMAIN creating /\ q # r /\ creating'[q] = creating[q]
        /\ DOMAIN creating' \subseteq DOMAIN creating
        /\ \A p \in DOMAIN creating' : creating'[p] = creating[p]
    BY <1>2
  <2>2. creating[q].row \in Rows \cup {0} /\ creating[q].row # k
    BY <1>3, <2>1 DEF TypeOK
  <2>3. creating[q].seen \subseteq Job /\ creating[q].seen \subseteq Rows
    BY <1>4, <2>1 DEF CInv, Underway
  <2>4. LastOverThen(creating'[q])
    BY <1>1, <2>1, <2>3, LastStaysOver DEF CInv, Underway, SameJob
  <2> QED BY <1>1, <2>1, <2>2, <2>3, <2>4 DEF CInv, Underway, UnderwayThen, SameJob
<1>7a. Underway'
  BY <1>7, UnderwayNext
<1>8. Fresh' /\ \A i \in Rows' : job'[i].seen \subseteq Job'
  BY <1>1, <1>5 DEF CInv, Fresh
<1> QED
  BY <1>6, <1>7a, <1>8 DEF CInv

\* A creation that fails leaves a row that is never committed.
LEMMA FailCreationCInv ==
  ASSUME TypeOK, CInv, NEW r \in Request, FailCreation(r)
  PROVE  CInv'
<1>1. /\ UNCHANGED <<job, committed>> /\ Rows' = Rows /\ Job' = Job
      /\ creating' = [q \in DOMAIN creating \ {r} |-> creating[q]]
  BY DEF FailCreation, Left, Rows, Job
<1>2. ASSUME NEW q \in DOMAIN creating' PROVE UnderwayThen(q)
  <2>1. LastOverThen(creating'[q])
    BY <1>1, LastStaysOver DEF CInv, Underway
  <2> QED BY <1>1, <2>1 DEF UnderwayThen, CInv, Underway
<1>3. Underway'
  BY <1>2, UnderwayNext
<1>4. OneRunningUnlessRaced'
  BY <1>1, RacedKept DEF CInv, SameJob
<1> QED
  BY <1>1, <1>3, <1>4 DEF CInv, Fresh

\* One case per kind of step.
LEMMA NextCInv == TypeOK /\ CInv /\ [Next]_vars => CInv'
<1> SUFFICES ASSUME TypeOK, CInv, [Next]_vars PROVE CInv'
  OBVIOUS
<1>1. CASE \/ \E d \in Definition : Redefine(d)
           \/ \E w \in Worker : \/ LockRead(w) \/ Receive(w) \/ LoseAnswer(w)
                                \/ Die(w) \/ Restart(w)
           \/ LockWrite \/ RollBack
           \/ \E i \in Job : Complete(i)
           \/ Tick
           \/ UNCHANGED vars
  <2>1. /\ Rows' = Rows /\ Job' = Job /\ UNCHANGED creating
        /\ \A i \in Rows : SameJob(i)
        /\ Fresh => Fresh'
    BY <1>1, JobsKept
  <2>2. Fresh
    BY DEF CInv
  <2> QED BY <2>1, <2>2, SameCInv
<1>2. ASSUME NEW r \in Request, (\E d \in Definition : SyncJobs(r, d)) \/ PostStart(r)
      PROVE  CInv'
  BY <1>2, ChecksOfRequests, CheckedCInv
<1>3. ASSUME NEW r \in Request, CreateJob(r) \/ CommitJob(r) \/ FailCreation(r)
      PROVE  CInv'
  BY <1>3, CreateJobCInv, CommitJobCInv, FailCreationCInv
<1> QED
  BY <1>1, <1>2, <1>3 DEF Next

\* Nothing is created at first.
LEMMA InitCInv == Init => CInv
<1> SUFFICES ASSUME Init PROVE CInv
  OBVIOUS
<1>1. Job = {} /\ Rows = {} /\ Enabled = {} /\ DOMAIN creating = {}
  BY DEF Init, Job, Rows, Enabled
<1> QED
  BY <1>1 DEF CInv, Fresh, Underway, OneRunningUnlessRaced

\* jobs_store.py start, sync.py: however jobs are started, restarted, completed and
\* assigned, a job is created while a former one of its definition runs only after a
\* start by the name of a job, or a creation that did not see the former one.
THEOREM OneRunningJob == Spec => []OneRunningUnlessRaced
<1>1. TypeOK /\ CInv /\ [Next]_vars => CInv'
  BY NextCInv
<1>2. CInv => OneRunningUnlessRaced
  BY DEF CInv
<1> QED
  BY <1>1, <1>2, InitCInv, TypeCorrect, PTL DEF Spec

----------------------------------------------------------------------------
(* Assignments *)

\* A worker is given what it matches.
Matched ==
  /\ \A i \in Enabled : job[i].to \in Worker => job[i].definition \in Wanted[job[i].to]
  /\ locking.worker \in Worker =>
       \A i \in locking.given : job[i].definition \in Wanted[locking.worker]

\* What an assignment under way gives a worker with a limit, and what it has,
\* are within the limit together.
Bounded ==
  locking.worker \in Worker \ Unlimited =>
    /\ Cardinality(Holds(locking.worker) \cup locking.given) <= Max
    /\ locking.shed = {}

\* What an assignment under way gives is nobody else's, and what it takes away is
\* the worker's.
Free ==
  \A i \in Enabled :
    /\ i \in locking.given =>
         job[i].to \in {locking.worker, NoWorker} \/ job[i].age > Expiry
    /\ i \in locking.shed => job[i].to = locking.worker

\* A worker waits for the assignment under way, that is younger than what it runs.
Waiting ==
  \A w \in Worker :
    locking.worker = w => /\ answer[w].state # "answered"
                          /\ \A i \in DOMAIN run[w] : locking.age <= run[w][i]

\* A worker with a limit has the assignment of what its last answer, or the answer
\* that comes, gave it as long as the answer is fresh.
Leased ==
  \A w \in Worker \ Unlimited, i \in Enabled :
    /\ i \in DOMAIN run[w] /\ run[w][i] <= Expiry =>
         job[i].to = w /\ job[i].age <= run[w][i]
    /\ answer[w].state = "answered" /\ i \in answer[w].items /\ answer[w].age <= Expiry =>
         job[i].to = w /\ job[i].age <= answer[w].age

LInv == WithinLimit /\ Matched /\ Bounded /\ Free /\ Waiting /\ Leased

\* The number of some of the jobs.
LEMMA JobsFinite ==
  ASSUME TypeOK, NEW S \in SUBSET Job
  PROVE  /\ IsFiniteSet(S) /\ Cardinality(S) \in Nat
         /\ \A T \in SUBSET S : Cardinality(T) <= Cardinality(S)
<1>1. IsFiniteSet(Job)
  <2>1. Len(job) \in Nat /\ Job \subseteq 1 .. Len(job)
    BY RowsOfJobs
  <2>2. IsFiniteSet(1 .. Len(job))
    BY <2>1, FS_Interval
  <2> QED BY <2>1, <2>2, FS_Subset
<1>2. IsFiniteSet(S)
  BY <1>1, FS_Subset
<1> QED
  BY <1>2, FS_Subset, FS_CardinalityType

\* Types of the ages and sets the invariant compares.
LEMMA Ages ==
  ASSUME TypeOK
  PROVE  /\ Expiry \in Nat /\ Max \in Nat /\ Expired = Expiry + 1
         /\ \A i \in Job : job[i] \in Row /\ job[i].age \in 0 .. Expired
         /\ \A w \in Worker : /\ DOMAIN run[w] \subseteq Job
                              /\ \A i \in DOMAIN run[w] : run[w][i] \in 0 .. Expired
                              /\ answer[w].items \subseteq Job
                              /\ answer[w].age \in 0 .. Expired
         /\ locking.given \subseteq Job /\ locking.shed \subseteq Job
         /\ locking.age \in 0 .. Expired
         /\ Enabled \subseteq Job /\ \A w : Holds(w) \subseteq Job
<1>1. \A i \in Job : job[i] \in Row /\ job[i].age \in 0 .. Expired
  BY RowsOfJobs DEF Row
<1>2. ASSUME NEW w \in Worker
      PROVE  /\ DOMAIN run[w] \subseteq Job
             /\ \A i \in DOMAIN run[w] : run[w][i] \in 0 .. Expired
  <2>1. run[w] \in Runs(Job)
    BY DEF TypeOK, Runs
  <2>2. PICK items \in SUBSET Job : run[w] \in [items -> 0 .. Expired]
    BY <2>1, RunsOf
  <2> QED BY <2>2
<1>3. Enabled \subseteq Job /\ \A w : Holds(w) \subseteq Job
  BY DEF Enabled, Holds
<1> QED
  BY <1>1, <1>2, <1>3, WorkerManagerAssumption DEF TypeOK, Expired

\* The jobs that are not over after a step that creates none were not over before.
LEMMA StillEnabled ==
  ASSUME TypeOK, LockWrite \/ Tick \/ \E i \in Job : Complete(i)
  PROVE  /\ Job' = Job /\ Enabled' \subseteq Enabled
         /\ \A i \in Job : job'[i].definition = job[i].definition
<1>1. /\ Job' = Job /\ Job \subseteq Rows
      /\ \A i \in Rows : SameJob(i)
  BY JobsKept, RowsOfJobs
<1> QED
  BY <1>1 DEF Enabled, SameJob

\* Nothing is assigned at first.
LEMMA InitLInv == Init => LInv
<1> SUFFICES ASSUME Init PROVE LInv
  OBVIOUS
<1>1. Enabled = {}
  BY DEF Init, Enabled, Job
<1>2. \A w : Holds(w) = {}
  BY <1>1 DEF Holds
<1>3. Max \in Nat
  BY WorkerManagerAssumption
<1>4. WithinLimit
  BY <1>2, <1>3, FS_EmptySet DEF WithinLimit
<1>5. locking.worker \notin Worker /\ locking.given = {} /\ locking.shed = {}
  BY WorkerManagerAssumption DEF Init, Unlocked
<1> QED
  BY <1>1, <1>4, <1>5 DEF LInv, Matched, Bounded, Free, Waiting, Leased

\* A change of the jobs alone, that adds none to those assigned, keeps the invariant.
LEMMA SameRows ==
  ASSUME TypeOK, LInv, UNCHANGED <<locking, answer, run>>, Job \subseteq Job',
         \A i \in Job : job'[i].definition = job[i].definition,
         \A i \in Enabled' : \/ i \in Enabled /\ job'[i] = job[i]
                             \/ i \notin Job /\ job'[i].to = NoWorker
  PROVE  LInv'
<1>1. NoWorker \notin Worker
  BY WorkerManagerAssumption
<1>2. \A w \in Worker : Holds(w)' \subseteq Holds(w)
  BY <1>1 DEF Holds
<1>3. WithinLimit'
  <2> SUFFICES ASSUME NEW w \in Worker \ Unlimited PROVE Cardinality(Holds(w)') <= Max
    BY DEF WithinLimit
  <2>1. /\ Cardinality(Holds(w)') <= Cardinality(Holds(w)) /\ Cardinality(Holds(w)) \in Nat
        /\ Cardinality(Holds(w)') \in Nat
    BY <1>2, JobsFinite, Ages
  <2> QED BY <2>1, Ages DEF LInv, WithinLimit
<1>4. Matched'
  BY <1>1, Ages DEF LInv, Matched
<1>5. Bounded'
  <2> SUFFICES ASSUME locking.worker \in Worker \ Unlimited
               PROVE  /\ Cardinality(Holds(locking.worker)' \cup locking.given) <= Max
                      /\ locking.shed = {}
    BY DEF Bounded
  <2> DEFINE S == Holds(locking.worker) \cup locking.given
             T == Holds(locking.worker)' \cup locking.given
  <2>1. S \in SUBSET Job
    BY Ages
  <2>2. T \in SUBSET S
    BY <1>2
  <2>3. Cardinality(T) <= Cardinality(S) /\ Cardinality(S) \in Nat /\ Cardinality(T) \in Nat
    <3> HIDE DEF S, T
    <3>1. T \in SUBSET Job
      BY <2>1, <2>2
    <3> QED BY <2>1, <2>2, <3>1, JobsFinite
  <2>4. Cardinality(S) <= Max /\ locking.shed = {}
    BY DEF LInv, Bounded
  <2> QED BY <2>3, <2>4, Ages
<1>6. Free'
  BY Ages DEF LInv, Free
<1>7. Waiting'
  BY DEF LInv, Waiting
<1>8. Leased'
  <2> SUFFICES ASSUME NEW w \in Worker \ Unlimited, NEW i \in Enabled'
               PROVE  /\ i \in DOMAIN run[w] /\ run[w][i] <= Expiry =>
                           job'[i].to = w /\ job'[i].age <= run[w][i]
                      /\ answer[w].state = "answered" /\ i \in answer[w].items
                           /\ answer[w].age <= Expiry =>
                           job'[i].to = w /\ job'[i].age <= answer[w].age
    BY DEF Leased
  <2>1. CASE i \in Enabled /\ job'[i] = job[i]
    <3>1. /\ i \in DOMAIN run[w] /\ run[w][i] <= Expiry =>
               job[i].to = w /\ job[i].age <= run[w][i]
          /\ answer[w].state = "answered" /\ i \in answer[w].items
               /\ answer[w].age <= Expiry =>
               job[i].to = w /\ job[i].age <= answer[w].age
      BY <2>1 DEF LInv, Leased
    <3>2. job'[i].to = job[i].to /\ job'[i].age = job[i].age
      BY <2>1
    <3> QED BY <3>1, <3>2
  <2>2. CASE i \notin Job
    BY <2>2, Ages
  <2> QED BY <2>1, <2>2
<1> QED
  BY <1>3, <1>4, <1>5, <1>6, <1>7, <1>8 DEF LInv

\* What becomes of the answers and of what runs.
LEMMA ReceiveLInv ==
  ASSUME TypeOK, LInv, NEW w \in Worker,
         Receive(w) \/ LoseAnswer(w) \/ Die(w) \/ Restart(w)
  PROVE  LInv'
<1>0. UNCHANGED <<job, committed, locking>>
  BY DEF Receive, LoseAnswer, Die, Restart, jobVars
<1>1. Enabled' = Enabled /\ \A v : Holds(v)' = Holds(v)
  BY <1>0 DEF Enabled, Job, Holds
<1>2. WithinLimit' /\ Matched' /\ Bounded' /\ Free'
  BY <1>0, <1>1 DEF LInv, WithinLimit, Matched, Bounded, Free
<1>3. /\ answer \in [Worker -> [state : {"idle", "asked", "answered"}, items : SUBSET Job,
                               age : 0 .. Expired]]
      /\ run \in [Worker -> Runs(Job)]
  BY DEF TypeOK, Runs
<1>4. ASSUME NEW v \in Worker
      PROVE  /\ answer'[v] = answer[v] \/ answer'[v].state = "idle"
             /\ \/ run'[v] = run[v]
                \/ DOMAIN run'[v] = {}
                \/ /\ answer[v].state = "answered"
                   /\ run'[v] = [i \in answer[v].items |-> answer[v].age]
  BY <1>3 DEF Receive, LoseAnswer, Die, Restart, Idle
<1>5. Waiting'
  BY <1>0, <1>4 DEF LInv, Waiting
<1>6. Leased'
  <2> SUFFICES ASSUME NEW v \in Worker \ Unlimited, NEW i \in Enabled
               PROVE  /\ i \in DOMAIN run'[v] /\ run'[v][i] <= Expiry =>
                           job[i].to = v /\ job[i].age <= run'[v][i]
                      /\ answer'[v].state = "answered" /\ i \in answer'[v].items
                           /\ answer'[v].age <= Expiry =>
                           job[i].to = v /\ job[i].age <= answer'[v].age
    BY <1>0, <1>1 DEF Leased
  <2>1. /\ i \in DOMAIN run[v] /\ run[v][i] <= Expiry =>
             job[i].to = v /\ job[i].age <= run[v][i]
        /\ answer[v].state = "answered" /\ i \in answer[v].items /\ answer[v].age <= Expiry =>
             job[i].to = v /\ job[i].age <= answer[v].age
    BY DEF LInv, Leased
  <2>2. answer'[v].state = "answered" => answer'[v] = answer[v]
    BY <1>4
  <2>3. CASE run'[v] = run[v] \/ DOMAIN run'[v] = {}
    BY <2>1, <2>2, <2>3
  <2>4. CASE /\ answer[v].state = "answered"
             /\ run'[v] = [k \in answer[v].items |-> answer[v].age]
    BY <2>1, <2>2, <2>4
  <2> QED BY <1>4, <2>3, <2>4
<1> QED
  BY <1>2, <1>5, <1>6 DEF LInv

\* Time ages what a worker has no less than what the manager has.
LEMMA TickLInv ==
  ASSUME TypeOK, LInv, Tick
  PROVE  LInv'
<1>0. /\ Job' = Job /\ Enabled' \subseteq Enabled
      /\ \A i \in Job : job'[i].definition = job[i].definition
  BY StillEnabled
<1>1. \A i \in Job : job'[i].to = job[i].to /\ job'[i].age = Older(job[i].age)
  BY Ages, RowsOfJobs DEF Tick, Row
<1>2. /\ \A w \in Worker : /\ DOMAIN run'[w] = DOMAIN run[w]
                           /\ \A i \in DOMAIN run[w] : run'[w][i] = Older(run[w][i])
  BY DEF Tick
<1>3. \A w \in Worker : /\ answer'[w].state = answer[w].state
                        /\ answer'[w].items = answer[w].items
                        /\ answer'[w].age = Older(answer[w].age)
  BY DEF Tick, TypeOK
<1>4. /\ locking'.worker = locking.worker /\ locking'.given = locking.given
      /\ locking'.shed = locking.shed /\ locking'.age = Older(locking.age)
  BY DEF Tick, TypeOK
<1>5. \A w : Holds(w)' \subseteq Holds(w)
  BY <1>0, <1>1, Ages, OlderAge DEF Holds
<1>6. WithinLimit'
  <2> SUFFICES ASSUME NEW w \in Worker \ Unlimited PROVE Cardinality(Holds(w)') <= Max
    BY DEF WithinLimit
  <2>1. /\ Cardinality(Holds(w)') <= Cardinality(Holds(w)) /\ Cardinality(Holds(w)) \in Nat
        /\ Cardinality(Holds(w)') \in Nat
    BY <1>5, JobsFinite, Ages
  <2> QED BY <2>1, Ages DEF LInv, WithinLimit
<1>7. Matched'
  BY <1>0, <1>1, <1>4, Ages DEF LInv, Matched
<1>8. Bounded'
  <2> SUFFICES ASSUME NEW u \in Worker \ Unlimited, u = locking.worker
               PROVE  /\ Cardinality(Holds(u)' \cup locking.given) <= Max
                      /\ locking.shed = {}
    BY <1>4 DEF Bounded, Holds
  <2> DEFINE S == Holds(u) \cup locking.given
             T == Holds(u)' \cup locking.given
  <2>1. S \in SUBSET Job
    BY Ages
  <2>2. T \in SUBSET S
    BY <1>5
  <2>3. Cardinality(T) <= Cardinality(S) /\ Cardinality(S) \in Nat /\ Cardinality(T) \in Nat
    <3> HIDE DEF S, T
    <3>1. T \in SUBSET Job
      BY <2>1, <2>2
    <3> QED BY <2>1, <2>2, <3>1, JobsFinite
  <2>4. Cardinality(S) <= Max /\ locking.shed = {}
    BY DEF LInv, Bounded
  <2> QED BY <2>3, <2>4, Ages
<1>9. Free'
  BY <1>0, <1>1, <1>4, Ages, OlderAge DEF LInv, Free
<1>10. Waiting'
  BY <1>2, <1>3, <1>4, Ages, OlderAge DEF LInv, Waiting
<1>11. Leased'
  <2> SUFFICES ASSUME NEW w \in Worker \ Unlimited, NEW i \in Enabled'
               PROVE  /\ i \in DOMAIN run'[w] /\ run'[w][i] <= Expiry =>
                           job'[i].to = w /\ job'[i].age <= run'[w][i]
                      /\ answer'[w].state = "answered" /\ i \in answer'[w].items
                           /\ answer'[w].age <= Expiry =>
                           job'[i].to = w /\ job'[i].age <= answer'[w].age
    BY DEF Leased
  <2>1. i \in Enabled /\ i \in Job /\ job[i].age \in 0 .. Expired
    BY <1>0, Ages
  <2>2. ASSUME i \in DOMAIN run'[w], run'[w][i] <= Expiry
        PROVE  job'[i].to = w /\ job'[i].age <= run'[w][i]
    <3>1. /\ i \in DOMAIN run[w] /\ run[w][i] \in 0 .. Expired
          /\ run'[w][i] = Older(run[w][i])
      BY <1>2, <2>2, Ages
    <3>2. run[w][i] <= Expiry
      BY <2>2, <3>1, Ages, OlderAge
    <3>3. job[i].to = w /\ job[i].age <= run[w][i]
      BY <2>1, <3>1, <3>2 DEF LInv, Leased
    <3> QED BY <1>1, <2>1, <3>1, <3>3, OlderAge
  <2>3. ASSUME answer'[w].state = "answered", i \in answer'[w].items,
               answer'[w].age <= Expiry
        PROVE  job'[i].to = w /\ job'[i].age <= answer'[w].age
    <3>1. /\ answer[w].age \in 0 .. Expired /\ answer'[w].age = Older(answer[w].age)
          /\ answer[w].state = "answered" /\ i \in answer[w].items
      <4>1. answer[w].age \in 0 .. Expired
        BY DEF TypeOK
      <4> QED BY <1>3, <2>3, <4>1
    <3>2. answer[w].age <= Expiry
      BY <2>3, <3>1, Ages, OlderAge
    <3>3. job[i].to = w /\ job[i].age <= answer[w].age
      BY <2>1, <3>1, <3>2 DEF LInv, Leased
    <3> QED BY <1>1, <2>1, <3>1, <3>3, OlderAge
  <2> QED BY <2>2, <2>3
<1> QED
  BY <1>6, <1>7, <1>8, <1>9, <1>10, <1>11 DEF LInv

\* What a worker gets besides what it keeps is within its limit.
LEMMA TakenWithinLimit ==
  ASSUME TypeOK, LInv, NEW w \in Worker \ Unlimited, NEW kept \in SUBSET Assigned(w),
         Cardinality(kept) = Smallest(Max, Cardinality(Assigned(w))),
         NEW new \in Taken(w, kept)
  PROVE  kept = Assigned(w) /\ Cardinality(kept \cup new) <= Max
<1>1. Assigned(w) \subseteq Holds(w) /\ Unassigned(w) \subseteq Job
  BY DEF Assigned, Unassigned, Holds, Enabled
<1>2. Holds(w) \in SUBSET Job /\ Max \in Nat
  BY Ages
<1>3. /\ IsFiniteSet(Assigned(w)) /\ Cardinality(Assigned(w)) \in Nat
      /\ Cardinality(Holds(w)) \in Nat
      /\ Cardinality(Assigned(w)) <= Cardinality(Holds(w))
  BY <1>1, <1>2, JobsFinite
<1>4. Cardinality(Assigned(w)) <= Max
  BY <1>2, <1>3 DEF LInv, WithinLimit
<1>5. Cardinality(kept) = Cardinality(Assigned(w))
  BY <1>2, <1>3, <1>4 DEF Smallest
<1>6. kept = Assigned(w) /\ IsFiniteSet(kept) /\ Cardinality(kept) \in Nat
  BY <1>3, <1>5, FS_Subset
<1>7. Cardinality(Unassigned(w)) \in Nat
  BY <1>1, JobsFinite
<1>8. IsFiniteSet(new) /\ Cardinality(new) \in Nat /\ Cardinality(new) <= Max - Cardinality(kept)
  <2> DEFINE n == Smallest(Max - Cardinality(kept), Cardinality(Unassigned(w)))
  <2>1. n \in Nat /\ n <= Max - Cardinality(kept)
    BY <1>2, <1>4, <1>5, <1>6, <1>7 DEF Smallest
  <2>2. CASE n = 0
    <3>1. new = {}
      BY <2>2 DEF Taken
    <3> QED BY <2>1, <2>2, <3>1, FS_EmptySet
  <2>3. CASE n # 0
    <3>1. new \subseteq Unassigned(w) /\ Cardinality(new) = n
      BY <2>3 DEF Taken
    <3>2. IsFiniteSet(new)
      BY <1>1, <3>1, JobsFinite
    <3> QED BY <2>1, <3>1, <3>2
  <2> QED BY <2>2, <2>3
<1>9. Cardinality(kept \cup new) <= Cardinality(kept) + Cardinality(new)
  <2>1. /\ Cardinality(kept \cup new) =
             Cardinality(kept) + Cardinality(new) - Cardinality(kept \cap new)
        /\ IsFiniteSet(kept \cap new)
    BY <1>6, <1>8, FS_Union, FS_Intersection
  <2>2. Cardinality(kept \cap new) \in Nat
    BY <2>1, FS_CardinalityType
  <2> QED BY <1>6, <1>8, <2>1, <2>2
<1>10. Cardinality(kept \cup new) \in Nat
  BY <1>6, <1>8, FS_Union, FS_CardinalityType
<1> QED
  BY <1>2, <1>6, <1>8, <1>9, <1>10

\* What is chosen is nobody else's, and within the limit.
LEMMA LockReadLInv ==
  ASSUME TypeOK, LInv, NEW w \in Worker, LockRead(w)
  PROVE  LInv'
<1>1. PICK kept \in SUBSET Assigned(w) :
        /\ Cardinality(kept) = Smallest(Max, Cardinality(Assigned(w)))
        /\ \E new \in Taken(w, kept) :
             locking' = [worker |-> w,
                         given  |-> {i \in kept \cup new :
                                       Joins(i) /\ status[job[i].definition] = "ok"},
                         shed   |-> Assigned(w) \ kept,
                         failed |-> {i \in kept \cup new : ~Joins(i)},
                         age    |-> 0]
  BY DEF LockRead
<1>2. PICK new \in Taken(w, kept) :
        locking' = [worker |-> w,
                    given  |-> {i \in kept \cup new :
                                  Joins(i) /\ status[job[i].definition] = "ok"},
                    shed   |-> Assigned(w) \ kept,
                    failed |-> {i \in kept \cup new : ~Joins(i)},
                    age    |-> 0]
  BY <1>1
<1>3. /\ locking'.worker = w /\ locking'.given \subseteq kept \cup new
      /\ locking'.shed = Assigned(w) \ kept /\ locking'.age = 0
  BY <1>2
<1>4. /\ UNCHANGED <<status, job, committed, run, alive, faults>>
      /\ answer' = [answer EXCEPT ![w].state = "asked"]
  BY DEF LockRead, jobVars
<1>5. Enabled' = Enabled /\ \A v : Holds(v)' = Holds(v)
  BY <1>4 DEF Enabled, Job, Holds
<1>6. /\ \A i \in kept \cup new : /\ i \in Enabled
                                  /\ job[i].definition \in Wanted[w]
                                  /\ job[i].to \in {w, NoWorker} \/ job[i].age > Expiry
      /\ \A i \in Assigned(w) : job[i].to = w
  BY WhatIsFound DEF Assigned, Unassigned
<1>7. WithinLimit'
  BY <1>5 DEF LInv, WithinLimit
<1>8. Matched'
  BY <1>3, <1>4, <1>5, <1>6 DEF LInv, Matched
<1>9. Free'
  BY <1>3, <1>4, <1>5, <1>6 DEF Free
<1>10. ASSUME w \notin Unlimited
       PROVE  Cardinality(Holds(w) \cup locking'.given) <= Max /\ locking'.shed = {}
  <2>1. kept = Assigned(w) /\ Cardinality(kept \cup new) <= Max
    BY <1>1, <1>10, TakenWithinLimit
  <2>2. Holds(w) \subseteq Assigned(w)
    BY DEF LInv, Matched, Holds, Assigned, Enabled
  <2>3. Holds(w) \cup locking'.given \in SUBSET (kept \cup new) /\ kept \cup new \in SUBSET Job
    BY <1>3, <1>6, <2>1, <2>2, Ages
  <2>4. /\ Cardinality(Holds(w) \cup locking'.given) <= Cardinality(kept \cup new)
        /\ Cardinality(Holds(w) \cup locking'.given) \in Nat
        /\ Cardinality(kept \cup new) \in Nat
    <3> DEFINE S == kept \cup new
               T == Holds(w) \cup locking'.given
    <3>1. S \in SUBSET Job /\ T \in SUBSET S /\ T \in SUBSET Job
      BY <2>3
    <3> HIDE DEF S, T
    <3>2. Cardinality(T) <= Cardinality(S) /\ Cardinality(T) \in Nat /\ Cardinality(S) \in Nat
      BY <3>1, JobsFinite
    <3> QED BY <3>2 DEF S, T
  <2> QED BY <1>3, <2>1, <2>4, Ages
<1>11. Bounded'
  BY <1>3, <1>5, <1>10 DEF Bounded
<1>12. \A v \in Worker : /\ v # w => answer'[v] = answer[v]
                         /\ answer'[w].state = "asked"
  BY <1>4 DEF TypeOK
<1>13. Waiting'
  <2> SUFFICES ASSUME NEW v \in Worker, locking'.worker = v
               PROVE  /\ answer'[v].state # "answered"
                      /\ \A i \in DOMAIN run[v] : locking'.age <= run[v][i]
    BY <1>4 DEF Waiting
  <2>1. v = w
    BY <1>3
  <2>2. \A i \in DOMAIN run[v] : 0 <= run[v][i]
    BY Ages
  <2> QED BY <1>3, <1>12, <2>1, <2>2
<1>14. Leased'
  <2> SUFFICES ASSUME NEW v \in Worker \ Unlimited, NEW i \in Enabled
               PROVE  /\ i \in DOMAIN run[v] /\ run[v][i] <= Expiry =>
                           job[i].to = v /\ job[i].age <= run[v][i]
                      /\ answer'[v].state = "answered" /\ i \in answer'[v].items
                           /\ answer'[v].age <= Expiry =>
                           job[i].to = v /\ job[i].age <= answer'[v].age
    BY <1>4, <1>5 DEF Leased
  <2>1. /\ i \in DOMAIN run[v] /\ run[v][i] <= Expiry =>
             job[i].to = v /\ job[i].age <= run[v][i]
        /\ answer[v].state = "answered" /\ i \in answer[v].items /\ answer[v].age <= Expiry =>
             job[i].to = v /\ job[i].age <= answer[v].age
    BY DEF LInv, Leased
  <2>2. answer'[v].state = "answered" => answer'[v] = answer[v]
    BY <1>12
  <2> QED BY <2>1, <2>2
<1> QED
  BY <1>7, <1>8, <1>9, <1>11, <1>13, <1>14 DEF LInv

\* The row of a job that is not over after the commit of an assignment.
LEMMA WrittenRows ==
  ASSUME TypeOK, LockWrite, NEW i \in Enabled'
  PROVE  /\ i \in Enabled
         /\ \/ /\ i \in locking.given
               /\ job'[i].to = locking.worker /\ job'[i].age = locking.age
            \/ i \notin locking.given /\ i \in locking.shed /\ job'[i].to = NoWorker
            \/ /\ i \notin locking.given /\ i \notin locking.shed
               /\ job'[i] = job[i]
<1>1. i \in Enabled /\ i \in Job /\ i \in Rows
  BY StillEnabled, RowsOfJobs, Ages
<1>2. ~job[i].over /\ ~job'[i].over
  BY <1>1 DEF Enabled
<1>3. job[i] \in Row /\ Completed(job[i]).over = TRUE
  BY <1>1, RowsOfJobs, CompletedRow
<1>4. CASE i \in locking.given
  <2>1. job'[i] = [job[i] EXCEPT !.to = locking.worker, !.age = locking.age]
    BY <1>1, <1>2, <1>4 DEF LockWrite
  <2> QED BY <1>1, <1>3, <1>4, <2>1 DEF Row
<1>5. CASE i \notin locking.given /\ i \in locking.shed
  <2>1. job'[i] = [job[i] EXCEPT !.to = NoWorker, !.age = Expired]
    BY <1>1, <1>2, <1>5 DEF LockWrite
  <2> QED BY <1>1, <1>3, <1>5, <2>1 DEF Row
<1>6. CASE i \notin locking.given /\ i \notin locking.shed
  <2>1. CASE i \in locking.failed
    <3>1. job'[i] = Completed(job[i])
      BY <1>1, <1>2, <1>6, <2>1 DEF LockWrite
    <3> QED BY <1>2, <1>3, <3>1
  <2>2. CASE i \notin locking.failed
    <3>1. job'[i] = job[i]
      BY <1>1, <1>2, <1>6, <2>2 DEF LockWrite
    <3> QED BY <1>1, <1>6, <3>1
  <2> QED BY <2>1, <2>2
<1> QED
  BY <1>4, <1>5, <1>6

\* It still is when it is written: _LOCK_LOCK keeps other requests out.
LEMMA LockWriteLInv ==
  ASSUME TypeOK, LInv, LockWrite
  PROVE  LInv'
<1> DEFINE u == locking.worker
<1>0. /\ NoWorker \notin Worker /\ Job' = Job /\ Enabled' \subseteq Enabled
      /\ \A i \in Job : job'[i].definition = job[i].definition
      /\ run' = run
  BY WorkerManagerAssumption, StillEnabled DEF LockWrite
<1>1. /\ locking'.worker = NoWorker /\ locking'.given = {} /\ locking'.shed = {}
  BY DEF LockWrite, Unlocked
<1>2. \A w \in Worker : /\ w # u => Holds(w)' \subseteq Holds(w)
                        /\ Holds(w)' \subseteq Holds(w) \cup locking.given
  BY <1>0, WrittenRows DEF Holds
<1>3. WithinLimit'
  <2> SUFFICES ASSUME NEW w \in Worker \ Unlimited PROVE Cardinality(Holds(w)') <= Max
    BY DEF WithinLimit
  <2> DEFINE S == IF w = u THEN Holds(w) \cup locking.given ELSE Holds(w)
  <2>1. S \in SUBSET Job /\ Holds(w)' \in SUBSET S /\ Holds(w)' \in SUBSET Job
    BY <1>2, Ages
  <2>2. Cardinality(S) <= Max
    BY DEF LInv, WithinLimit, Bounded
  <2> HIDE DEF S
  <2>3. /\ Cardinality(Holds(w)') <= Cardinality(S) /\ Cardinality(S) \in Nat
        /\ Cardinality(Holds(w)') \in Nat
    BY <2>1, JobsFinite
  <2> QED BY <2>2, <2>3, Ages
<1>4. Matched'
  <2> SUFFICES ASSUME NEW i \in Enabled', job'[i].to \in Worker
               PROVE  job[i].definition \in Wanted[job'[i].to]
    BY <1>0, <1>1, Ages DEF Matched
  <2> QED BY <1>0, WrittenRows DEF LInv, Matched
<1>5. Bounded' /\ Free'
  BY <1>0, <1>1 DEF Bounded, Free
<1>6. Waiting'
  BY <1>0, <1>1 DEF Waiting
<1>7. ASSUME NEW w \in Worker \ Unlimited, NEW i \in Enabled',
             job[i].to = w, w # u, job[i].age <= Expiry
      PROVE  job'[i] = job[i]
  <2>1. i \in Enabled /\ job[i].age \in 0 .. Expired
    BY <1>0, Ages
  <2>2. i \notin locking.given /\ i \notin locking.shed
    BY <1>0, <1>7, <2>1, Ages DEF LInv, Free
  <2> QED BY <2>2, WrittenRows
<1>8. ASSUME NEW w \in Worker \ Unlimited, NEW i \in Enabled', job[i].to = w, w = u
      PROVE  \/ job'[i].to = w /\ job'[i].age = locking.age
             \/ job'[i] = job[i]
  <2>1. i \notin locking.shed
    BY <1>8 DEF LInv, Bounded
  <2> QED BY <1>8, <2>1, WrittenRows
<1>9. ASSUME NEW w \in Worker \ Unlimited, NEW i \in Enabled',
             i \in DOMAIN run[w], run[w][i] <= Expiry
      PROVE  job'[i].to = w /\ job'[i].age <= run[w][i]
  <2>1. job[i].to = w /\ job[i].age <= run[w][i] /\ i \in Enabled
    BY <1>0, <1>9 DEF LInv, Leased
  <2>2. job[i].age \in 0 .. Expired /\ run[w][i] \in 0 .. Expired /\ Expiry \in Nat
    BY <1>9, <2>1, Ages
  <2>3. CASE w # u
    <3>1. job'[i] = job[i]
      BY <1>7, <1>9, <2>1, <2>2, <2>3
    <3> QED BY <2>1, <3>1
  <2>4. CASE w = u
    <3>1. locking.age <= run[w][i]
      BY <1>9, <2>4 DEF LInv, Waiting
    <3>2. \/ job'[i].to = w /\ job'[i].age = locking.age
          \/ job'[i] = job[i]
      BY <1>8, <2>1, <2>4
    <3> QED BY <2>1, <3>1, <3>2
  <2> QED BY <2>3, <2>4
<1>10. ASSUME NEW w \in Worker \ Unlimited, NEW i \in Enabled', answer'[w].state = "answered",
              i \in answer'[w].items, answer'[w].age <= Expiry
       PROVE  job'[i].to = w /\ job'[i].age <= answer'[w].age
  <2>1. CASE w # u
    <3>1. answer'[w] = answer[w]
      BY <2>1 DEF LockWrite, TypeOK
    <3>2. job[i].to = w /\ job[i].age <= answer[w].age /\ i \in Enabled
      BY <1>0, <1>10, <3>1 DEF LInv, Leased
    <3>3. job[i].age \in 0 .. Expired /\ answer[w].age \in 0 .. Expired /\ Expiry \in Nat
      BY <1>10, <3>2, Ages
    <3>4. job'[i] = job[i]
      BY <1>7, <1>10, <2>1, <3>1, <3>2, <3>3
    <3> QED BY <3>1, <3>2, <3>4
  <2>2. CASE w = u
    <3>1. answer[w].state # "answered"
      BY <2>2 DEF LInv, Waiting
    <3>2. answer'[w] = IF answer[w].state = "asked"
                       THEN [state |-> "answered", items |-> locking.given, age |-> locking.age]
                       ELSE answer[w]
      BY <2>2 DEF LockWrite, TypeOK
    <3>3. /\ answer[w].state = "asked" /\ answer'[w].items = locking.given
          /\ answer'[w].age = locking.age
      BY <1>10, <3>1, <3>2
    <3>4. job'[i].to = w /\ job'[i].age = locking.age
      BY <1>10, <2>2, <3>3, WrittenRows
    <3> QED BY <3>3, <3>4, Ages
  <2> QED BY <2>1, <2>2
<1>11. Leased'
  BY <1>0, <1>9, <1>10 DEF Leased
<1> QED
  BY <1>3, <1>4, <1>5, <1>6, <1>11 DEF LInv

\* A job that is committed is assigned to nobody, and the one that it cancels is over.
LEMMA CommitJobLInv ==
  ASSUME TypeOK, CInv, LInv, NEW r \in Request, CommitJob(r)
  PROVE  LInv'
<1> DEFINE k == creating[r].row
<1>1. /\ Rows' = Rows /\ Job' = Job \cup {k} /\ k \in Rows
      /\ UNCHANGED <<locking, answer, run>>
      /\ \A i \in Rows : /\ SameJob(i)
                         /\ job'[i] = job[i] \/ (job'[i].over /\ job'[i].to = NoWorker)
  BY JobCommitted
<1>2. k \notin Job /\ job[k].to = NoWorker /\ Job \subseteq Rows
  BY <1>1, RowsOfJobs DEF CInv, Underway, Fresh, CommitJob
<1>3. ASSUME NEW i \in Enabled'
      PROVE  \/ i \in Enabled /\ job'[i] = job[i]
             \/ i \notin Job /\ job'[i].to = NoWorker
  <2>1. i \in Job' /\ i \in Rows /\ ~job'[i].over
    BY <1>1, <1>2 DEF Enabled
  <2>2. job'[i] = job[i]
    BY <1>1, <2>1
  <2>3. CASE i \in Job
    BY <2>1, <2>2, <2>3 DEF Enabled
  <2>4. CASE i \notin Job
    BY <1>1, <1>2, <2>1, <2>2, <2>4
  <2> QED BY <2>3, <2>4
<1>4. Job \subseteq Job' /\ \A i \in Job : job'[i].definition = job[i].definition
  BY <1>1, <1>2 DEF SameJob
<1> QED
  BY <1>1, <1>3, <1>4, SameRows

\* What was chosen is given up.
LEMMA RollBackLInv ==
  ASSUME TypeOK, LInv, RollBack
  PROVE  LInv'
<1>1. /\ Job' = Job /\ UNCHANGED <<job, run>> /\ locking' = Unlocked
      /\ \A w \in Worker : answer'[w] = answer[w] \/ answer'[w] = Idle
  BY DEF TypeOK, RollBack, Job, jobVars
<1>2. Enabled' = Enabled /\ \A w : Holds(w)' = Holds(w)
  BY <1>1 DEF Enabled, Job, Holds
<1>3. locking'.worker \notin Worker /\ locking'.given = {} /\ locking'.shed = {}
  BY <1>1, WorkerManagerAssumption DEF Unlocked
<1>4. Idle.state = "idle"
  BY DEF Idle
<1>5. WithinLimit' /\ Matched' /\ Bounded' /\ Free' /\ Waiting'
  BY <1>1, <1>2, <1>3 DEF LInv, WithinLimit, Matched, Bounded, Free, Waiting
<1>6. Leased'
  BY <1>1, <1>2, <1>4 DEF LInv, Leased
<1> QED BY <1>5, <1>6 DEF LInv

\* One case per action.
LEMMA NextLInv == TypeOK /\ CInv /\ LInv /\ [Next]_vars => LInv'
<1> SUFFICES ASSUME TypeOK, CInv, LInv, [Next]_vars PROVE LInv'
  OBVIOUS
<1>1. ASSUME UNCHANGED <<job, committed, locking, answer, run>> PROVE LInv'
  <2>1. Enabled' = Enabled /\ \A w : Holds(w)' = Holds(w)
    BY <1>1 DEF Enabled, Job, Holds
  <2> QED BY <1>1, <2>1 DEF LInv, WithinLimit, Matched, Bounded, Free, Waiting, Leased
<1>2. ASSUME NEW r \in Request,
             \/ \E d \in Definition : SyncJobs(r, d)
             \/ PostStart(r) \/ CreateJob(r) \/ FailCreation(r)
      PROVE  LInv'
  <2>1. /\ Job' = Job /\ UNCHANGED <<locking, answer, run>> /\ Job \subseteq Rows
        /\ \A i \in Rows : job'[i] = job[i]
    BY <1>2, JobsUnseen, RowsOfJobs
  <2>2. \A i \in Enabled' : i \in Enabled /\ job'[i] = job[i]
    BY <2>1 DEF Enabled
  <2> QED BY <2>1, <2>2, SameRows
<1>3. ASSUME NEW r \in Request, CommitJob(r) PROVE LInv'
  BY <1>3, CommitJobLInv
<1>4. ASSUME NEW w \in Worker, Receive(w) \/ LoseAnswer(w) \/ Die(w) \/ Restart(w) PROVE LInv'
  BY <1>4, ReceiveLInv
<1>5. ASSUME NEW k \in Job, Complete(k) PROVE LInv'
  <2>1. /\ Job' = Job /\ Enabled' \subseteq Enabled
        /\ \A i \in Job : job'[i].definition = job[i].definition
    BY <1>5, StillEnabled
  <2>2. /\ UNCHANGED <<locking, answer, run>> /\ job'[k] = Completed(job[k])
        /\ \A i \in Job : i # k => job'[i] = job[i]
    BY <1>5, RowsOfJobs DEF Complete
  <2>3. job'[k].over
    BY <2>2, RowsOfJobs, CompletedRow
  <2>4. \A i \in Enabled' : i \in Enabled /\ job'[i] = job[i]
    <3>1. k \notin Enabled'
      BY <2>3 DEF Enabled
    <3> QED BY <2>1, <2>2, <3>1, Ages
  <2> QED BY <2>1, <2>2, <2>4, SameRows
<1>6. CASE UNCHANGED vars
  BY <1>1, <1>6 DEF vars, jobVars
<1>7. ASSUME NEW d \in Definition, Redefine(d) PROVE LInv'
  BY <1>1, <1>7 DEF Redefine, jobVars
<1>8. CASE RollBack
  BY <1>8, RollBackLInv
<1> QED
  BY <1>2, <1>3, <1>4, <1>5, <1>6, <1>7, <1>8, LockReadLInv, LockWriteLInv, TickLInv DEF Next

\* lock.py: whoever asks, whatever is lost and whenever jobs are created and completed,
\* a worker that names no executor never has more assignments than its limit.
THEOREM AssignedWithinLimit == Spec => []WithinLimit
<1>1. TypeOK /\ CInv /\ LInv /\ [Next]_vars => LInv' /\ CInv'
  BY NextLInv, NextCInv
<1>2. LInv => WithinLimit
  BY DEF LInv
<1> QED
  BY <1>1, <1>2, InitLInv, InitCInv, TypeCorrect, PTL DEF Spec

\* lock.py: two workers run a queue whose job is not over only when one of them has an
\* answer that has expired, or names executors.
THEOREM ExclusiveAssignment == Spec => []ExclusiveWhileFresh
<1>1. TypeOK /\ CInv /\ LInv /\ [Next]_vars => LInv' /\ CInv'
  BY NextLInv, NextCInv
<1>2. TypeOK /\ LInv => ExclusiveWhileFresh
  <2> SUFFICES ASSUME TypeOK, LInv, NEW v \in Worker, NEW w \in Worker, v # w,
                      NEW i \in Enabled \cap DOMAIN run[v] \cap DOMAIN run[w]
               PROVE  \E u \in {v, w} : run[u][i] > Expiry \/ u \in Unlimited
    BY DEF ExclusiveWhileFresh
  <2>1. run[v][i] \in 0 .. Expired /\ run[w][i] \in 0 .. Expired /\ Expiry \in Nat
    BY Ages
  <2>2. CASE v \notin Unlimited /\ w \notin Unlimited /\ run[v][i] <= Expiry /\ run[w][i] <= Expiry
    <3>1. job[i].to = v /\ job[i].to = w
      BY <2>2 DEF LInv, Leased
    <3> QED BY <3>1
  <2> QED BY <2>1, <2>2, Ages
<1> QED
  BY <1>1, <1>2, InitLInv, InitCInv, TypeCorrect, PTL DEF Spec
=============================================================================
