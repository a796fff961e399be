------------------------------ MODULE JobState ------------------------------
(***************************************************************************)
(* The states of the jobs of one worker (worker/services/job_state: store.py *)
(* and service.py, over utils/asyncutils.py DelayedThrottle): an update goes *)
(* into the current state, which a delayed task sends to the worker manager; *)
(* a read looks into the current state, then into the one last sent, and    *)
(* then asks the worker manager, in one request shared by all the readers of *)
(* the moment.                                                              *)
(*                                                                          *)
(* A key is anything an update replaces: the cursor of a job, its           *)
(* completion, the state of a cursor.  The values of a key are numbered in  *)
(* the order they are set; 0 is "no value".  A delay may end at any time,   *)
(* which also stands for flush_event.  A request that the client saw fail   *)
(* may have been applied before, never after.                               *)
(*                                                                          *)
(* The worker manager has a state under a key that is a format of the       *)
(* cursor.  States are saved under one format and asked under several, which *)
(* nothing relates: the worker manager may still have one that a worker with *)
(* another save format left, which counts as 0, older than what is set here. *)
(* It answers with a JSON object, sorted by its keys: the last one wins,    *)
(* whatever its format.                                                     *)
(***************************************************************************)
EXTENDS Integers, Sequences

CONSTANTS
  Key,         \* what the updates replace
  Reader,      \* the tasks that read a state: the iteration of one job each
  MaxUpdates,  \* bound: the values set per key
  CursorFormat,
  SaveFormat,  \* save_cursor_format
  Formats,     \* Formats[k]: fetch_cursor_formats, by the names k has under them
  Former       \* Former[k]: other formats under which k has a state

ASSUME JobStateAssumption == MaxUpdates \in Nat /\ Key # {}

ASSUME FormatsAssumption == \A k \in Key : Formats[k] \in Seq(CursorFormat)

VARIABLES
  last,        \* last[k]: the last value set of k (history)
  currentState, \* _store._current_state
  flushing,    \* _store._flushing_state: Empty when it is None
  flusher,     \* _delayed_flush
  arrived,     \* the request of the flush under way was applied
  failed,      \* the last flush failed (history)
  db,          \* the states the worker manager has under the save format
  phase,       \* "open", "closing", "closed" or "exited"
  fetcher,     \* _cursors_fetcher._delayed_fetch
  cancelled,   \* its _call_fut was cancelled
  reader       \* reader[r]: what reader r does

storeVars == <<last, currentState, flushing, flusher, arrived, failed, db, phase>>
fetchVars == <<fetcher, cancelled, reader>>
vars == <<storeVars, fetchVars>>

----------------------------------------------------------------------------
(* State formulae *)

Value == 0 .. MaxUpdates
Empty == [k \in Key |-> 0]

\* JobsStates.merge: the values of `new` replace those of `old`.
Merge(old, new) == [k \in Key |-> IF new[k] # 0 THEN new[k] ELSE old[k]]

\* DelayedThrottle: its delayed_task is "none", in its "delay" or "calling" the
\* function; `params` says whether delayed_params is set.
Idle == [task |-> "none", params |-> FALSE]

\* Mutant: a call made during another one is not remembered.
CallNowaitWhenIdle(t) ==
  IF t.task = "none" THEN [task |-> "delay", params |-> TRUE] ELSE t

CallNowait(t) ==
  [task |-> IF t.task = "none" THEN "delay" ELSE t.task, params |-> TRUE]

Called(t) == [task |-> "calling", params |-> FALSE]

\* The `finally` of _delay_call
Ended(t) == IF t.params THEN CallNowait([t EXCEPT !.task = "none"]) ELSE Idle

\* Mutant: the state being sent is not looked at.
LocalCurrent(k) == currentState[k]

\* get_local_cursors_states: 0 when k has to be fetched
Local(k) == IF currentState[k] # 0 THEN currentState[k] ELSE flushing[k]

\* The worker manager has a state of k under the key that format f makes.
Stored(k, f) == IF f = SaveFormat THEN db[k] # 0 ELSE f \in Former[k]

\* The formats of k, by their position, whose key is found.
Found(k) == {i \in DOMAIN Formats[k] : Stored(k, Formats[k][i])}

\* _do_fetch: the states are mapped back from the keys to the cursor in the
\* order of the answer, where the last one wins.
Answer(k) ==
  IF \E i \in Found(k) : Formats[k][i] = SaveFormat /\ \A j \in Found(k) : j <= i
    THEN db[k] ELSE 0

\* Readers waiting for _call_fut, and for the future of the call under way
In(pc) == {r \in Reader : reader[r].pc = pc}

NotReading(pc) == [pc |-> pc, key |-> CHOOSE k \in Key : TRUE, floor |-> 0, got |-> 0]

\* The readers R end up in pc
Leaving(R, pc) ==
  reader' = [r \in Reader |-> IF r \in R THEN NotReading(pc) ELSE reader[r]]

----------------------------------------------------------------------------
Init ==
  /\ last = Empty
  /\ currentState = Empty
  /\ flushing = Empty
  /\ flusher = Idle
  /\ arrived = FALSE
  /\ failed = FALSE
  /\ db = Empty
  /\ phase = "open"
  /\ fetcher = Idle
  /\ cancelled = FALSE
  /\ reader = [r \in Reader |-> NotReading("idle")]

----------------------------------------------------------------------------
(* Updates and their flush *)

\* set_job_cursor, set_job_completed, set_job_failed, set_job_cursor_state
Set(k) ==
  /\ phase = "open"
  /\ last[k] < MaxUpdates
  /\ last' = [last EXCEPT ![k] = @ + 1]
  /\ currentState' = [currentState EXCEPT ![k] = last[k] + 1]
  /\ flusher' = CallNowait(flusher)
  /\ UNCHANGED <<flushing, arrived, failed, db, phase, fetchVars>>

\* Service.close waits for the task it found.
CloseAfter == IF phase = "closing" THEN "closed" ELSE phase

\* The delay is over: the current state is set aside and sent, unless it is
\* empty.
BeginFlush ==
  /\ phase # "exited"
  /\ flusher.task = "delay"
  /\ flushing' = currentState
  /\ currentState' = Empty
  /\ arrived' = FALSE
  /\ IF currentState = Empty
       THEN /\ flusher' = Ended(Called(flusher))
            /\ phase' = CloseAfter
       ELSE /\ flusher' = Called(flusher)
            /\ UNCHANGED phase
  /\ UNCHANGED <<last, failed, db, fetchVars>>

\* The worker manager applies the request.
Arrive ==
  /\ phase # "exited"
  /\ flusher.task = "calling"
  /\ ~arrived
  /\ arrived' = TRUE
  /\ db' = Merge(db, flushing)
  /\ UNCHANGED <<last, currentState, flushing, flusher, failed, phase, fetchVars>>

\* The answer: what was sent stays in _flushing_state.
EndFlush ==
  /\ phase # "exited"
  /\ flusher.task = "calling"
  /\ arrived
  /\ flusher' = Ended(flusher)
  /\ failed' = FALSE
  /\ phase' = CloseAfter
  /\ UNCHANGED <<last, currentState, flushing, arrived, db, fetchVars>>

\* Mutant: what was being sent replaces what was set meanwhile.
FailFlushOverwriting ==
  /\ phase # "exited"
  /\ flusher.task = "calling"
  /\ currentState' = Merge(currentState, flushing)
  /\ flushing' = Empty
  /\ flusher' = Ended(flusher)
  /\ failed' = TRUE
  /\ phase' = CloseAfter
  /\ UNCHANGED <<last, arrived, db, fetchVars>>

\* The request fails, whether it was applied or not: the state is restored, and
\* nothing sends it again before the next update.
FailFlush ==
  /\ phase # "exited"
  /\ flusher.task = "calling"
  /\ currentState' = Merge(flushing, currentState)
  /\ flushing' = Empty
  /\ flusher' = Ended(flusher)
  /\ failed' = TRUE
  /\ phase' = CloseAfter
  /\ UNCHANGED <<last, arrived, db, fetchVars>>

\* Service.close: one more call, and the task is told not to wait.
Close ==
  /\ phase = "open"
  /\ flusher' = CallNowait(flusher)
  /\ phase' = "closing"
  /\ UNCHANGED <<last, currentState, flushing, arrived, failed, db, fetchVars>>

\* The other services are closed and the process ends, with the tasks it has.
Exit ==
  /\ phase = "closed"
  /\ phase' = "exited"
  /\ UNCHANGED <<last, currentState, flushing, flusher, arrived, failed, db, fetchVars>>

----------------------------------------------------------------------------
(* Reads *)

\* Reader r needs the state of k: it has it, or joins the next request.  A
\* future that was cancelled stays there until the request is made.
Read(r, k) ==
  /\ phase = "open"
  /\ reader[r].pc \in {"idle", "done"}
  /\ LET new == [pc |-> "done", key |-> k, floor |-> last[k], got |-> Local(k)]
     IN  IF Local(k) # 0
           THEN /\ reader' = [reader EXCEPT ![r] = new]
                /\ UNCHANGED <<fetcher, cancelled>>
           ELSE /\ reader' = [reader EXCEPT ![r] =
                     IF cancelled THEN NotReading("victim")
                     ELSE [new EXCEPT !.pc = "joined"]]
                /\ fetcher' = CallNowait(fetcher)
                /\ UNCHANGED cancelled
  /\ UNCHANGED storeVars

\* The delay is over: the next readers get another future.
BeginFetch ==
  /\ phase # "exited"
  /\ fetcher.task = "delay"
  /\ fetcher' = Called(fetcher)
  /\ cancelled' = FALSE
  /\ reader' = [r \in Reader |-> IF reader[r].pc = "joined"
                                 THEN [reader[r] EXCEPT !.pc = "asked"] ELSE reader[r]]
  /\ UNCHANGED storeVars

\* The worker manager answers with the states it has.
EndFetch ==
  /\ phase # "exited"
  /\ fetcher.task = "calling"
  /\ fetcher' = Ended(fetcher)
  /\ reader' = [r \in Reader |->
       IF reader[r].pc = "asked"
       THEN [reader[r] EXCEPT !.pc = "done", !.got = Answer(reader[r].key)]
       ELSE reader[r]]
  /\ UNCHANGED <<cancelled, storeVars>>

\* The request fails: its readers get the error, and go on without a state.
FailFetch ==
  /\ phase # "exited"
  /\ fetcher.task = "calling"
  /\ fetcher' = Ended(fetcher)
  /\ Leaving(In("asked"), "idle")
  /\ UNCHANGED <<cancelled, storeVars>>

\* The task of r is cancelled, its queue being removed: so is the future it
\* waits for, and every other reader that waits for it.  A reader that was
\* cancelled, or saw an error, may be another job next; a victim is the end of
\* its generator, which nothing polls again.
CancelRead(r) ==
  /\ phase # "exited"
  /\ reader[r].pc \in {"joined", "asked"}
  /\ cancelled' = (cancelled \/ reader[r].pc = "joined")
  /\ reader' = [s \in Reader |->
       IF s = r THEN NotReading("idle")
       ELSE IF reader[s].pc = reader[r].pc THEN NotReading("victim")
       ELSE reader[s]]
  /\ UNCHANGED <<fetcher, storeVars>>

----------------------------------------------------------------------------
Next ==
  \/ \E k \in Key : Set(k)
  \/ BeginFlush \/ Arrive \/ EndFlush \/ FailFlush \/ Close \/ Exit
  \/ \E r \in Reader, k \in Key : Read(r, k)
  \/ BeginFetch \/ EndFetch \/ FailFetch
  \/ \E r \in Reader : CancelRead(r)

Spec == Init /\ [][Next]_vars

\* The delays end, and so do the requests, one way or the other.
Fairness ==
  /\ WF_vars(BeginFlush) /\ WF_vars(EndFlush \/ FailFlush)
  /\ WF_vars(BeginFetch) /\ WF_vars(EndFetch \/ FailFetch)

FairSpec == Spec /\ Fairness

----------------------------------------------------------------------------
(* Properties *)

States == [Key -> Value]
Throttle == [task : {"none", "delay", "calling"}, params : BOOLEAN]
PCs == {"idle", "joined", "asked", "done", "victim"}

\* The values the variables take; a call under way has readers of one future,
\* and a delay always ends with a call to make.
TypeOK ==
  /\ last \in States /\ currentState \in States /\ flushing \in States /\ db \in States
  /\ flusher \in Throttle /\ fetcher \in Throttle
  /\ \A t \in {flusher, fetcher} : t.task = "delay" <=> t.params /\ t.task # "calling"
  /\ arrived \in BOOLEAN /\ failed \in BOOLEAN /\ cancelled \in BOOLEAN
  /\ phase \in {"open", "closing", "closed", "exited"}
  /\ reader \in [Reader -> [pc : PCs, key : Key, floor : Value, got : Value]]

\* JobsStatesSyncStore.flush: the last value set of each key is stored, being
\* sent, or still there to be sent, whatever fails and whenever it was set; and
\* nothing older can replace it later (store.py:94-109, 27-51).
NothingForgotten ==
  \A k \in Key :
    \/ /\ db[k] = last[k]
       /\ currentState[k] \in {0, last[k]}
       /\ flusher.task = "calling" /\ ~arrived => flushing[k] \in {0, last[k]}
    \/ currentState[k] = last[k]
    \/ flusher.task = "calling" /\ flushing[k] = last[k] /\ currentState[k] = 0

\* What is left to send has a task to send it, unless the last flush failed: no
\* update is missed between the end of a flush and the next (asyncutils.py:207-253).
DirtyIsScheduled == currentState # Empty /\ flusher.task = "none" => failed

\* What is saved of k is not asked for, or has a former state answered after it.
Overshadowed(k) ==
  ~ \E i \in DOMAIN Formats[k] :
      /\ Formats[k][i] = SaveFormat
      /\ \A j \in DOMAIN Formats[k] : j > i => Formats[k][j] \notin Former[k] \cup {SaveFormat}

\* A read gives no value older than the last set before it, whether it finds it
\* in one of the two local states or fetches it; but for a cursor of which the
\* answer ends with a former state, which hides all that was set here once it is
\* no longer in a local state (store.py:114-121, service.py:101-131, 240-248).
ReadYourWrites ==
  \A r \in Reader :
    reader[r].pc = "done" =>
      \/ reader[r].got >= reader[r].floor
      \/ Overshadowed(reader[r].key) /\ reader[r].got = 0

\* A reader that waits for a request is answered, sees it fail or is cancelled
\* (asyncutils.py:214-253).
ReadsEnd ==
  \A r \in Reader :
    reader[r].pc \in {"joined", "asked"} ~>
      reader[r].pc \notin {"joined", "asked"} \/ phase = "exited"
=============================================================================
