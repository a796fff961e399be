----------------------------- MODULE JobProofs -----------------------------
(***************************************************************************)
(* Proofs about the jobs of a worker.                                      *)
(*                                                                         *)
(* JobState, for any keys, readers and number of updates: type             *)
(* correctness, no update forgotten, none left without a task to send it,  *)
(* and reads that see the writes before them unless a state under another  *)
(* format is answered last.                                                *)
(*                                                                         *)
(* Inventories, for any number of inputs, items and runs, any size of a    *)
(* batch and concurrency of the root: nothing is yielded twice, whatever   *)
(* goes wrong; and, but for two faults with which the code does lose items *)
(* (LosslessFaults), cursors go past nothing that was not done and a job   *)
(* completes only when it went over everything.  The invariant says where  *)
(* each input, each cursor and what is in flight stand (Shape), and that   *)
(* what any cursor, kept or to come, goes past was left (SoundCursors).    *)
(***************************************************************************)
EXTENDS JobState, Inventories, WellFoundedInduction, TLAPS

----------------------------------------------------------------------------
(* JobState *)

\* The server is never ahead of what was set, what is to be sent is the last
\* value, and so is what was sent unless a newer one is to be sent.
Order ==
  \A k \in Key :
    /\ db[k] <= last[k]
    /\ currentState[k] \in {0, last[k]}
    /\ flushing[k] <= last[k]
    /\ flushing[k] # 0 /\ currentState[k] = 0 => flushing[k] = last[k]

\* The request under way never takes the server back, and what is set during
\* it makes another call.
Sending ==
  flusher.task = "calling" =>
    /\ \A k \in Key :
         flushing[k] # 0 =>
           /\ db[k] <= flushing[k]
           /\ arrived => db[k] = flushing[k]
    /\ ~flusher.params => currentState = Empty

\* The server has what was set before a reader asked for it.
Asking ==
  \A r \in Reader :
    reader[r].pc \in {"joined", "asked"} => reader[r].floor <= db[reader[r].key]

IInv == /\ TypeOK /\ Order /\ Sending /\ Asking
        /\ NothingForgotten /\ DirtyIsScheduled /\ ReadYourWrites

\* The record of a reader that does not wait has its type.
LEMMA NotReadingType ==
  \A pc \in PCs : NotReading(pc) \in [pc : PCs, key : Key, floor : Value, got : Value]
<1>1. \E k \in Key : TRUE
  BY JobStateAssumption
<1>2. (CHOOSE k \in Key : TRUE) \in Key
  BY <1>1
<1> QED BY <1>2, JobStateAssumption DEF NotReading, Value

\* The values are natural numbers.
LEMMA Numbers ==
  ASSUME TypeOK
  PROVE  \A k \in Key : /\ last[k] \in Nat /\ db[k] \in Nat
                        /\ currentState[k] \in Nat /\ flushing[k] \in Nat
<1>1. Value \subseteq Nat
  BY JobStateAssumption DEF Value
<1>2. \A f \in States, k \in Key : f[k] \in Nat
  BY <1>1 DEF States
<1> QED BY <1>2 DEF TypeOK

\* A fetch answers with the state under the save format, unless a former one hides it.
LEMMA AnswerIsStored ==
  ASSUME NEW k \in Key
  PROVE  /\ Answer(k) \in {0, db[k]}
         /\ ~Overshadowed(k) => Answer(k) = db[k]
<1>1. Answer(k) \in {0, db[k]}
  BY DEF Answer
<1>2. ASSUME ~Overshadowed(k), db[k] # 0 PROVE Answer(k) = db[k]
  <2>1. PICK i \in DOMAIN Formats[k] :
          /\ Formats[k][i] = SaveFormat
          /\ \A j \in DOMAIN Formats[k] : j > i => Formats[k][j] \notin Former[k] \cup {SaveFormat}
    BY <1>2 DEF Overshadowed
  <2>2. i \in Found(k)
    BY <1>2, <2>1 DEF Found, Stored
  <2>3. ASSUME NEW j \in Found(k) PROVE j <= i
    <3>1. j \in DOMAIN Formats[k] /\ Formats[k][j] \in Former[k] \cup {SaveFormat}
      BY DEF Found, Stored
    <3>2. DOMAIN Formats[k] \subseteq Int
      BY FormatsAssumption
    <3> QED BY <2>1, <3>1, <3>2
  <2> QED BY <2>1, <2>2, <2>3 DEF Answer
<1> QED BY <1>1, <1>2

\* What the operations of a throttle give is a throttle, that has a call to
\* make exactly when its task is in its delay.
LEMMA ThrottleTypes ==
  ASSUME NEW t \in Throttle, t.task = "delay" <=> t.params /\ t.task # "calling"
  PROVE  /\ CallNowait(t) \in Throttle /\ CallNowait(t).params
         /\ CallNowait(t).task = IF t.task = "calling" THEN "calling" ELSE "delay"
         /\ Called(t) = [task |-> "calling", params |-> FALSE]
         /\ Called(t) \in Throttle
         /\ t.task = "calling" =>
              Ended(t) = IF t.params THEN [task |-> "delay", params |-> TRUE]
                         ELSE [task |-> "none", params |-> FALSE]
BY DEF CallNowait, Called, Ended, Idle, Throttle

\* The service opens with nothing set, sent or asked.
THEOREM InitIInv == Init => IInv
<1> SUFFICES ASSUME Init PROVE IInv
  OBVIOUS
<1>1. TypeOK
  <2>1. Empty \in States
    BY JobStateAssumption DEF Empty, States, Value
  <2>2. Idle \in Throttle /\ ~Idle.params /\ Idle.task = "none"
    BY DEF Idle, Throttle
  <2>3. reader \in [Reader -> [pc : PCs, key : Key, floor : Value, got : Value]]
    BY NotReadingType DEF Init, PCs
  <2> QED BY <2>1, <2>2, <2>3 DEF Init, TypeOK
<1>2. Order /\ Sending /\ NothingForgotten /\ DirtyIsScheduled
  BY DEF Init, Empty, Idle, Order, Sending, NothingForgotten, DirtyIsScheduled
<1>3. Asking /\ ReadYourWrites
  BY DEF Init, Asking, ReadYourWrites, NotReading
<1> QED BY <1>1, <1>2, <1>3 DEF IInv

\* Every update and every step of a flush preserve the invariant.
LEMMA StoreSteps ==
  ASSUME IInv,
         \/ \E k \in Key : Set(k)
         \/ BeginFlush \/ Arrive \/ EndFlush \/ FailFlush \/ Close \/ Exit
  PROVE  IInv'
<1> USE JobStateAssumption DEF IInv
<1>0. /\ flusher \in Throttle
      /\ flusher.task = "delay" <=> flusher.params /\ flusher.task # "calling"
  BY DEF TypeOK
<1>1. ASSUME NEW k \in Key, Set(k) PROVE IInv'
  <2>1. /\ CallNowait(flusher) \in Throttle /\ CallNowait(flusher).params
        /\ CallNowait(flusher).task = IF flusher.task = "calling" THEN "calling" ELSE "delay"
    BY <1>0, ThrottleTypes
  <2>2. TypeOK'
    BY <1>1, <2>1 DEF Set, TypeOK, States, Value, fetchVars
  <2>3. /\ \A l \in Key : last[l] \in Nat /\ db[l] \in Nat /\ currentState[l] \in Nat /\ flushing[l] \in Nat
        /\ \A l \in Key : last'[l] = IF l = k THEN last[k] + 1 ELSE last[l]
        /\ \A l \in Key : currentState'[l] = IF l = k THEN last[k] + 1 ELSE currentState[l]
    BY <1>1 DEF Set, TypeOK, States, Value
  <2>4. Order' /\ NothingForgotten'
    BY <1>1, <2>1, <2>3 DEF Set, Order, NothingForgotten
  <2>5. Sending' /\ DirtyIsScheduled'
    BY <1>1, <2>1, <2>3 DEF Set, Sending, DirtyIsScheduled
  <2>6. Asking' /\ ReadYourWrites'
    BY <1>1 DEF Set, Asking, ReadYourWrites, fetchVars
  <2> QED BY <2>2, <2>4, <2>5, <2>6
<1>2. CASE BeginFlush
  <2>1. Called(flusher) = [task |-> "calling", params |-> FALSE]
    BY DEF Called
  <2>2. Ended(Called(flusher)) = [task |-> "none", params |-> FALSE]
    BY <2>1 DEF Ended, Idle
  <2>3. /\ flusher' \in {[task |-> "calling", params |-> FALSE], [task |-> "none", params |-> FALSE]}
        /\ flusher'.task # "delay" /\ ~flusher'.params
        /\ flusher'.task = "none" => currentState = Empty
    BY <1>2, <2>1, <2>2 DEF BeginFlush
  <2>4. Empty \in States /\ \A k \in Key : Empty[k] = 0
    BY DEF Empty, States, Value
  <2>11. /\ [task |-> "calling", params |-> FALSE] \in Throttle
         /\ [task |-> "none", params |-> FALSE] \in Throttle
    BY DEF Throttle
  <2>12. flusher' \in Throttle
    BY <2>3, <2>11
  <2>13. phase' \in {"open", "closing", "closed", "exited"}
    BY <1>2 DEF BeginFlush, CloseAfter, TypeOK
  <2>14. /\ flushing' \in States /\ currentState' \in States /\ arrived' \in BOOLEAN
         /\ UNCHANGED <<last, failed, db, fetcher, cancelled, reader>>
    BY <1>2, <2>4 DEF BeginFlush, TypeOK, fetchVars
  <2>15. \A t \in {flusher', fetcher'} : t.task = "delay" <=> t.params /\ t.task # "calling"
    BY <2>3, <2>14 DEF TypeOK
  <2>5. TypeOK'
    BY <2>12, <2>13, <2>14, <2>15 DEF TypeOK
  <2>6. \A k \in Key : last[k] \in Nat /\ db[k] \in Nat /\ currentState[k] \in Nat /\ flushing[k] \in Nat
    BY Numbers
  <2>7. flusher.task = "delay" /\ flushing' = currentState /\ currentState' = Empty /\ arrived' = FALSE
        /\ last' = last /\ db' = db /\ failed' = failed
    BY <1>2 DEF BeginFlush
  <2>8. Order'
    BY <2>4, <2>6, <2>7 DEF Order
  <2>9. NothingForgotten'
    BY <2>3, <2>4, <2>6, <2>7 DEF Order, NothingForgotten
  <2>10. Sending' /\ DirtyIsScheduled'
    BY <2>3, <2>4, <2>6, <2>7 DEF Order, Sending, DirtyIsScheduled
  <2>16. Asking' /\ ReadYourWrites'
    BY <1>2 DEF BeginFlush, Asking, ReadYourWrites, fetchVars
  <2> QED BY <2>5, <2>8, <2>9, <2>10, <2>16
<1>3. CASE Arrive
  <2>1. \A k \in Key : last[k] \in Nat /\ db[k] \in Nat /\ currentState[k] \in Nat /\ flushing[k] \in Nat
    BY Numbers
  <2>2. \A k \in Key : db'[k] = IF flushing[k] # 0 THEN flushing[k] ELSE db[k]
    BY <1>3 DEF Arrive, Merge
  <2>3. TypeOK'
    BY <1>3, <2>2 DEF Arrive, Merge, TypeOK, States, fetchVars
  <2>4. flusher.task = "calling" /\ ~arrived /\ arrived' /\ UNCHANGED <<last, currentState, flushing, flusher, failed>>
    BY <1>3 DEF Arrive
  <2>5. \A k \in Key : db[k] <= db'[k]
    BY <2>1, <2>2, <2>4 DEF Sending
  <2>6. \A k \in Key : flushing[k] # 0 => flushing[k] = last[k] \/ currentState[k] = last[k]
    BY DEF Order
  <2>7. \A k \in Key : flushing[k] <= last[k]
    BY DEF Order
  <2>8. Order' /\ Sending' /\ DirtyIsScheduled'
    BY <2>1, <2>2, <2>4, <2>7 DEF Order, Sending, DirtyIsScheduled
  <2>9. NothingForgotten'
    BY <2>1, <2>2, <2>4, <2>6 DEF NothingForgotten, Order
  <2>10. Asking' /\ ReadYourWrites'
    BY <1>3, <2>1, <2>2, <2>5 DEF Arrive, Asking, ReadYourWrites, TypeOK, fetchVars, Value
  <2> QED BY <2>3, <2>8, <2>9, <2>10
<1>4. CASE EndFlush
  <2>1. Ended(flusher) = IF flusher.params THEN [task |-> "delay", params |-> TRUE]
                         ELSE [task |-> "none", params |-> FALSE]
    BY <1>0, <1>4, ThrottleTypes DEF EndFlush
  <2>2. flusher' \in Throttle /\ flusher'.task # "calling"
        /\ (flusher'.task = "delay" <=> flusher'.params)
        /\ (flusher'.task = "none" => ~flusher.params)
    BY <1>4, <2>1 DEF EndFlush, Throttle
  <2>3. TypeOK'
    BY <1>4, <2>2 DEF EndFlush, TypeOK, CloseAfter, fetchVars
  <2>4. \A k \in Key : last[k] \in Nat /\ db[k] \in Nat /\ currentState[k] \in Nat /\ flushing[k] \in Nat
    BY Numbers
  <2>5. flusher.task = "calling" /\ arrived /\ UNCHANGED <<last, currentState, flushing, db>>
    BY <1>4 DEF EndFlush
  <2>6. Order' /\ Sending'
    BY <2>2, <2>5 DEF Order, Sending
  <2>7. NothingForgotten'
    BY <2>2, <2>4, <2>5 DEF NothingForgotten, Order, Sending
  <2>8. DirtyIsScheduled'
    BY <2>2, <2>5 DEF DirtyIsScheduled, Sending
  <2>9. Asking' /\ ReadYourWrites'
    BY <1>4 DEF EndFlush, Asking, ReadYourWrites, fetchVars
  <2> QED BY <2>3, <2>6, <2>7, <2>8, <2>9
<1>5. CASE FailFlush
  <2>1. Ended(flusher) = IF flusher.params THEN [task |-> "delay", params |-> TRUE]
                         ELSE [task |-> "none", params |-> FALSE]
    BY <1>0, <1>5, ThrottleTypes DEF FailFlush
  <2>2. flusher' \in Throttle /\ flusher'.task # "calling"
        /\ (flusher'.task = "delay" <=> flusher'.params)
    BY <1>5, <2>1 DEF FailFlush, Throttle
  <2>3. \A k \in Key : last[k] \in Nat /\ db[k] \in Nat /\ currentState[k] \in Nat /\ flushing[k] \in Nat
    BY Numbers
  <2>4. \A k \in Key : currentState'[k] = IF currentState[k] # 0 THEN currentState[k] ELSE flushing[k]
    BY <1>5 DEF FailFlush, Merge
  <2>5. \A k \in Key : flushing'[k] = 0
    BY <1>5 DEF FailFlush, Empty
  <2>6. TypeOK'
    BY <1>5, <2>2, <2>4 DEF FailFlush, TypeOK, States, Value, Empty, Merge, CloseAfter, fetchVars
  <2>7. flusher.task = "calling" /\ failed' /\ UNCHANGED <<last, db>>
    BY <1>5 DEF FailFlush
  <2>8. Order' /\ Sending' /\ DirtyIsScheduled'
    BY <2>2, <2>3, <2>4, <2>5, <2>7 DEF Order, Sending, DirtyIsScheduled
  <2>9. NothingForgotten'
    BY <2>2, <2>3, <2>4, <2>7 DEF NothingForgotten, Order
  <2>10. Asking' /\ ReadYourWrites'
    BY <1>5 DEF FailFlush, Asking, ReadYourWrites, fetchVars
  <2> QED BY <2>6, <2>8, <2>9, <2>10
<1>6. CASE Close
  <2>1. /\ CallNowait(flusher) \in Throttle /\ CallNowait(flusher).params
        /\ CallNowait(flusher).task = IF flusher.task = "calling" THEN "calling" ELSE "delay"
    BY <1>0, ThrottleTypes
  <2>2. TypeOK'
    BY <1>6, <2>1 DEF Close, TypeOK, fetchVars
  <2>3. Order' /\ NothingForgotten' /\ Sending' /\ DirtyIsScheduled'
    BY <1>6, <2>1 DEF Close, Order, NothingForgotten, Sending, DirtyIsScheduled
  <2>4. Asking' /\ ReadYourWrites'
    BY <1>6 DEF Close, Asking, ReadYourWrites, fetchVars
  <2> QED BY <2>2, <2>3, <2>4
<1>7. CASE Exit
  BY <1>7 DEF Exit, TypeOK, Order, Sending, NothingForgotten, DirtyIsScheduled, Asking,
              ReadYourWrites, fetchVars
<1> QED BY <1>1, <1>2, <1>3, <1>4, <1>5, <1>6, <1>7

\* Every step of the readers preserves the invariant.
LEMMA ReaderSteps ==
  ASSUME IInv,
         \/ \E r \in Reader, k \in Key : Read(r, k)
         \/ BeginFetch \/ EndFetch \/ FailFetch
         \/ \E r \in Reader : CancelRead(r)
  PROVE  IInv'
<1> DEFINE Record == [pc : PCs, key : Key, floor : Value, got : Value]
           Answered(r) ==
             reader'[r].pc = "done" =>
               \/ reader'[r].got >= reader'[r].floor
               \/ Overshadowed(reader'[r].key) /\ reader'[r].got = 0
           Served(r) == reader'[r].pc \in {"joined", "asked"} =>
                          reader'[r].floor <= db[reader'[r].key]
<1>0. /\ fetcher \in Throttle /\ reader \in [Reader -> Record]
      /\ fetcher.task = "delay" <=> fetcher.params /\ fetcher.task # "calling"
  BY DEF IInv, TypeOK
<1>1. ASSUME UNCHANGED storeVars, cancelled' \in BOOLEAN, fetcher' \in Throttle,
             fetcher'.task = "delay" <=> fetcher'.params /\ fetcher'.task # "calling",
             reader' \in [Reader -> Record],
             \A r \in Reader : Answered(r) /\ Served(r)
      PROVE  IInv'
  <2>1. TypeOK'
    BY <1>1 DEF IInv, TypeOK, storeVars
  <2>2. Order' /\ Sending' /\ NothingForgotten' /\ DirtyIsScheduled'
    BY <1>1 DEF IInv, Order, Sending, NothingForgotten, DirtyIsScheduled, storeVars
  <2>3. Asking' /\ ReadYourWrites'
    BY <1>1 DEF Asking, ReadYourWrites, storeVars
  <2> QED BY <2>1, <2>2, <2>3 DEF IInv
<1>2. \A pc \in PCs : NotReading(pc) \in Record /\ NotReading(pc).pc = pc
  BY NotReadingType DEF NotReading
<1>3. ASSUME fetcher.task = "calling"
      PROVE  /\ Ended(fetcher) \in Throttle
             /\ Ended(fetcher).task = "delay" <=>
                  Ended(fetcher).params /\ Ended(fetcher).task # "calling"
  <2>1. Ended(fetcher) \in {[task |-> "delay", params |-> TRUE],
                             [task |-> "none", params |-> FALSE]}
    BY <1>0, <1>3, ThrottleTypes
  <2>2. CASE Ended(fetcher) = [task |-> "delay", params |-> TRUE]
    BY <2>2 DEF Throttle
  <2>3. CASE Ended(fetcher) = [task |-> "none", params |-> FALSE]
    BY <2>3 DEF Throttle
  <2> QED BY <2>1, <2>2, <2>3
<1>4. \A r \in Reader : /\ reader[r].pc = "done" =>
                             \/ reader[r].got >= reader[r].floor
                             \/ Overshadowed(reader[r].key) /\ reader[r].got = 0
                        /\ reader[r].pc \in {"joined", "asked"} =>
                             reader[r].floor <= db[reader[r].key]
  BY DEF IInv, Asking, ReadYourWrites
<1>5. ASSUME NEW r \in Reader, NEW k \in Key, Read(r, k) PROVE IInv'
  <2> DEFINE new == [pc |-> "done", key |-> k, floor |-> last[k], got |-> Local(k)]
             asking == [new EXCEPT !.pc = "joined"]
  <2>1. last[k] \in Value /\ Local(k) \in Value /\ db[k] \in Value
    BY DEF IInv, TypeOK, States, Local
  <2>2. new \in Record /\ asking \in Record /\ asking.pc = "joined"
        /\ asking.key = k /\ asking.floor = last[k]
    BY <2>1 DEF PCs
  <2>3. CASE Local(k) # 0
    <3>1. Local(k) >= last[k]
      BY <2>3, Numbers DEF Local, IInv, Order
    <3>2. UNCHANGED <<fetcher, cancelled, storeVars>> /\ reader' = [reader EXCEPT ![r] = new]
      BY <1>5, <2>3 DEF Read
    <3>3. reader' \in [Reader -> Record]
      BY <1>0, <2>2, <3>2
    <3>4. \A s \in Reader : reader'[s] = IF s = r THEN new ELSE reader[s]
      BY <1>0, <3>2
    <3>5. \A s \in Reader : Answered(s) /\ Served(s)
      BY <1>4, <3>1, <3>4
    <3> QED BY <1>0, <1>1, <3>2, <3>3, <3>5 DEF IInv, TypeOK
  <2>4. CASE Local(k) = 0
    <3>1. last[k] <= db[k]
      BY <2>4, Numbers DEF Local, IInv, NothingForgotten, Order
    <3>2. /\ UNCHANGED <<cancelled, storeVars>> /\ fetcher' = CallNowait(fetcher)
          /\ \E x \in {NotReading("victim"), asking} : reader' = [reader EXCEPT ![r] = x]
      BY <1>5, <2>4 DEF Read
    <3>3. PICK x \in {NotReading("victim"), asking} : reader' = [reader EXCEPT ![r] = x]
      BY <3>2
    <3>4. x \in Record /\ (x = asking \/ x.pc = "victim")
      BY <1>2, <2>2, <3>3 DEF PCs
    <3>5. reader' \in [Reader -> Record]
      BY <1>0, <3>3, <3>4
    <3>6. \A s \in Reader : reader'[s] = IF s = r THEN x ELSE reader[s]
      BY <1>0, <3>3
    <3>7. \A s \in Reader : Answered(s) /\ Served(s)
      BY <1>4, <2>2, <3>1, <3>4, <3>6
    <3>8. /\ fetcher' \in Throttle
          /\ fetcher'.task = "delay" <=> fetcher'.params /\ fetcher'.task # "calling"
      BY <1>0, <3>2, ThrottleTypes
    <3> QED BY <1>1, <3>2, <3>5, <3>7, <3>8 DEF IInv, TypeOK
  <2> QED BY <2>3, <2>4
<1>6. CASE BeginFetch
  <2>1. /\ UNCHANGED storeVars /\ cancelled' \in BOOLEAN
        /\ fetcher' = [task |-> "calling", params |-> FALSE]
    BY <1>6 DEF BeginFetch, Called
  <2>2. \A s \in Reader : reader'[s] = IF reader[s].pc = "joined"
                                       THEN [reader[s] EXCEPT !.pc = "asked"] ELSE reader[s]
    BY <1>6 DEF BeginFetch
  <2>3. \A x \in Record : /\ [x EXCEPT !.pc = "asked"] \in Record
                          /\ [x EXCEPT !.pc = "asked"].pc = "asked"
                          /\ [x EXCEPT !.pc = "asked"].floor = x.floor
                          /\ [x EXCEPT !.pc = "asked"].key = x.key
    BY DEF PCs
  <2>4. reader' \in [Reader -> Record]
    BY <1>0, <1>6, <2>3 DEF BeginFetch
  <2>5. \A s \in Reader : Answered(s) /\ Served(s)
    BY <1>0, <1>4, <2>2, <2>3
  <2>6. fetcher' \in Throttle
    BY <2>1 DEF Throttle
  <2> QED BY <1>1, <2>1, <2>4, <2>5, <2>6
<1>7. CASE EndFetch
  <2>1. UNCHANGED <<cancelled, storeVars>> /\ fetcher.task = "calling" /\ fetcher' = Ended(fetcher)
    BY <1>7 DEF EndFetch
  <2> DEFINE answer(s) == Answer(reader[s].key)
  <2>2. \A s \in Reader :
          reader'[s] = IF reader[s].pc = "asked"
                       THEN [reader[s] EXCEPT !.pc = "done", !.got = answer(s)]
                       ELSE reader[s]
    BY <1>7 DEF EndFetch
  <2>3. \A x \in Record, v \in Value :
          /\ [x EXCEPT !.pc = "done", !.got = v] \in Record
          /\ [x EXCEPT !.pc = "done", !.got = v].pc = "done"
          /\ [x EXCEPT !.pc = "done", !.got = v].floor = x.floor
          /\ [x EXCEPT !.pc = "done", !.got = v].key = x.key
          /\ [x EXCEPT !.pc = "done", !.got = v].got = v
    BY DEF PCs
  <2>4. \A s \in Reader : reader[s] \in Record /\ db[reader[s].key] \in Value
    BY <1>0 DEF IInv, TypeOK, States
  <2>5. \A s \in Reader : /\ answer(s) \in {0, db[reader[s].key]}
                          /\ ~Overshadowed(reader[s].key) => answer(s) = db[reader[s].key]
    BY <2>4, AnswerIsStored
  <2>6. \A s \in Reader : answer(s) \in Value
    BY <2>4, <2>5, JobStateAssumption DEF Value
  <2>7. reader' \in [Reader -> Record]
    <3>1. ASSUME NEW s \in Reader PROVE reader'[s] \in Record
      <4> HIDE DEF answer
      <4>1. [reader[s] EXCEPT !.pc = "done", !.got = answer(s)] \in Record
        BY <2>3, <2>4, <2>6
      <4> QED BY <2>2, <2>4, <4>1
    <3>2. reader' = [s \in Reader |-> reader'[s]]
      BY <1>7 DEF EndFetch
    <3> QED BY <3>1, <3>2
  <2>8. ASSUME NEW s \in Reader PROVE Answered(s) /\ Served(s)
    <3>1. CASE reader[s].pc = "asked"
      <4> HIDE DEF answer
      <4>1. /\ reader'[s].pc = "done" /\ reader'[s].floor = reader[s].floor
            /\ reader'[s].key = reader[s].key /\ reader'[s].got = answer(s)
        <5>1. reader'[s] = [reader[s] EXCEPT !.pc = "done", !.got = answer(s)]
          BY <2>2, <3>1
        <5> QED BY <2>3, <2>4, <2>6, <5>1
      <4>2. reader[s].floor <= db[reader[s].key]
        BY <1>4, <3>1
      <4>3. reader[s].floor \in Int /\ db[reader[s].key] \in Int
        BY <2>4, JobStateAssumption DEF Value
      <4>4. CASE answer(s) = db[reader[s].key]
        BY <4>1, <4>2, <4>3, <4>4
      <4>5. CASE answer(s) # db[reader[s].key]
        BY <2>5, <4>1, <4>5
      <4> QED BY <4>4, <4>5
    <3>2. CASE reader[s].pc # "asked"
      BY <1>4, <2>2, <3>2
    <3> QED BY <3>1, <3>2
  <2> QED BY <1>1, <1>3, <2>1, <2>7, <2>8 DEF IInv, TypeOK
<1>8. CASE FailFetch
  <2>1. UNCHANGED <<cancelled, storeVars>> /\ fetcher.task = "calling" /\ fetcher' = Ended(fetcher)
    BY <1>8 DEF FailFetch
  <2>2. \A s \in Reader : reader'[s] = NotReading("idle") \/ reader'[s] = reader[s]
    BY <1>8 DEF FailFetch, Leaving
  <2>3. reader' \in [Reader -> Record]
    BY <1>0, <1>2, <1>8 DEF FailFetch, Leaving, PCs
  <2>4. \A s \in Reader : Answered(s) /\ Served(s)
    BY <1>2, <1>4, <2>2 DEF PCs
  <2> QED BY <1>1, <1>3, <2>1, <2>3, <2>4 DEF IInv, TypeOK
<1>9. ASSUME NEW r \in Reader, CancelRead(r) PROVE IInv'
  <2>1. UNCHANGED <<fetcher, storeVars>> /\ cancelled' \in BOOLEAN
    BY <1>9 DEF CancelRead, IInv, TypeOK
  <2>2. \A s \in Reader : \/ reader'[s] = NotReading("idle") \/ reader'[s] = NotReading("victim")
                          \/ reader'[s] = reader[s]
    BY <1>9 DEF CancelRead
  <2>3. reader' \in [Reader -> Record]
    BY <1>0, <1>2, <1>9 DEF CancelRead, PCs
  <2>4. \A s \in Reader : Answered(s) /\ Served(s)
    BY <1>2, <1>4, <2>2 DEF PCs
  <2> QED BY <1>0, <1>1, <2>1, <2>3, <2>4
<1> QED BY <1>5, <1>6, <1>7, <1>8, <1>9

\* Every step of the service preserves the invariant.
THEOREM NextIInv == IInv /\ [Next]_vars => IInv'
<1> SUFFICES ASSUME IInv, [Next]_vars PROVE IInv'
  OBVIOUS
<1>1. CASE UNCHANGED vars
  BY <1>1 DEF vars, storeVars, fetchVars, IInv, TypeOK, Order, Sending, Asking,
              NothingForgotten, DirtyIsScheduled, ReadYourWrites
<1>2. CASE Next
  BY <1>2, StoreSteps, ReaderSteps DEF Next
<1> QED BY <1>1, <1>2

\* The variables of the service keep their types.
THEOREM TypeCorrect == Spec => []TypeOK
<1>1. IInv => TypeOK
  BY DEF IInv
<1> QED BY <1>1, InitIInv, NextIInv, PTL DEF Spec

\* The last value set of each key is never forgotten nor replaced by an older
\* one, whatever flush fails and whenever the key is set (store.py:94-109).
THEOREM UpdatesKept == Spec => []NothingForgotten
<1>1. IInv => NothingForgotten
  BY DEF IInv
<1> QED BY <1>1, InitIInv, NextIInv, PTL DEF Spec

\* What is left to send has a task to send it, unless the last flush failed
\* (asyncutils.py:207-253).
THEOREM UpdatesScheduled == Spec => []DirtyIsScheduled
<1>1. IInv => DirtyIsScheduled
  BY DEF IInv
<1> QED BY <1>1, InitIInv, NextIInv, PTL DEF Spec

\* A read sees every value set before it, unless a former state is answered last
\* (service.py:101-131, 240-248).
THEOREM ReadsSeeWrites == Spec => []ReadYourWrites
<1>1. IInv => ReadYourWrites
  BY DEF IInv
<1> QED BY <1>1, InitIInv, NextIInv, PTL DEF Spec

----------------------------------------------------------------------------
(* Inventories: the inductive invariant *)

Cursor == [after : Nat, partials : SUBSET Nat]
JobCursors == [current : Nat, of : [Input -> Cursor]]

InputState == [next : Nat, after : Nat, partials : SUBSET Nat,
               pending : SUBSET Nat, kept : SUBSET Nat]

\* The values the variables take.
InventoryTypes ==
  /\ kind \in Kinds
  /\ status \in {"idle", "running", "failing", "ended"}
  /\ inv \in [Input -> InputState]
  /\ slot \in [Input -> {"none", "running", "ended"}]
  /\ settled \in [Input -> BOOLEAN]
  /\ current \in Nat /\ outer \in SUBSET Nat
  /\ taken \in Nat /\ active \in SUBSET Input /\ multi \in [Input -> Cursor]
  /\ inflight \in SUBSET SUBSET AllItems /\ left \in SUBSET AllItems
  /\ cursor \in JobCursors /\ from \in JobCursors
  /\ completion \in {"none", "success", "error"} /\ runs \in Nat

\* The last item of an input, its `after` and what is in flight between them.
WindowOf(I) ==
  /\ I.after <= I.next + 1
  /\ I.pending \cup I.kept \subseteq 1 .. I.next
  /\ I.pending \cap I.kept = {}
  /\ 1 .. I.next \subseteq 1 .. I.after \cup I.pending \cup I.kept
  /\ \A p \in I.pending : I.after <= p
  /\ \A k \in I.kept : \E p \in I.pending : p < k

Windows == \A i \in Input : WindowOf(inv[i])

MessageOf(m, i) == m = Message(i, ItemsOf(m, i)) /\ m # {}

\* What is in flight is what is pending in the inputs, each item in one message.
InFlight ==
  /\ \A m \in inflight : \E i \in Input \ {0} : MessageOf(m, i)
  /\ \A m \in inflight : \A i \in Input : ItemsOf(m, i) \subseteq inv[i].pending
  /\ \A m, o \in inflight : m # o => m \cap o = {}
  /\ status # "idle" \/ inflight # {} =>
       \A i \in Input \ {0} : \A n \in inv[i].pending : \E m \in inflight : <<i, n>> \in m

\* Nothing is pending in an input whose event is set.
Events == \A i \in Input \ {0} : settled[i] => inv[i].pending = {}

\* The items that an input of this run is to skip.
Known(i) == IF kind = "batching" THEN outer ELSE inv[i].partials

\* A run is past the cursor it started at, and still knows the partials that it has
\* not met.
Resumption ==
  status # "idle" =>
    /\ \A i \in Input :
         /\ inv[i].next + (IF kind = "loop" THEN 1 ELSE 0) >= from.of[i].after
         /\ \A p \in from.of[i].partials : p > inv[i].next => p \in Known(i)
    /\ kind = "batching" => outer \subseteq from.of[1].partials

\* Which inputs a run has started, and where those that ended are.
Generators ==
  /\ status = "failing" => kind = "fanin"
  /\ status = "running" =>
       /\ kind # "loop" =>
            \A i \in Input : slot[i] = "ended" => inv[i].next >= Size[kind][i]
       /\ kind \in {"fanin", "batching", "loop"} => \A i \in Input : slot[i] # "none"

\* The chained inventory is at its current input, from the one of its cursor on.
Chain ==
  kind = "chained" =>
    /\ status # "idle" =>
         /\ 1 <= current /\ from.current <= current
         /\ \A i \in Input : slot[i] = "running" => i = current
    /\ status = "running" /\ current \in Input =>
         /\ slot[current] # "none"
         /\ slot[current] = "ended" => current + 1 \notin Input

\* The items pending in the root of a joined inventory are those in process_item and
\* the one that waits; no inventory was started for an item its cursor goes past.
Join ==
  /\ kind # "joined" => taken = 0 /\ active = {}
  /\ status = "idle" => taken = 0 /\ active = {}
  /\ kind = "joined" /\ status # "idle" =>
       /\ inv[0].pending = active \cup ({taken} \ {0})
       /\ taken \notin active /\ taken \in Input /\ 0 \notin active
       /\ status = "running" => slot[0] # "none"
       /\ \A r \in active : slot[r] # "none"
       /\ \A r \in Input \ {0} :
            slot[r] # "none" \/ r = taken => ~ Covers(from.of[0], r)

\* The batches of any run are the same: they begin at the multiples of BatchSize.
Batched1 == Size["batching"][1]
Boundary(b) == \E k \in 0 .. b : b = k * BatchSize
Batch(b) == {n \in 1 .. Batched1 : b < n /\ n <= b + BatchSize}
Batched(P) == \A x \in P : \E b \in Nat : Boundary(b) /\ x \in Batch(b) /\ Batch(b) \subseteq P
Aligned(b) == Boundary(b) \/ b >= Batched1

Batches ==
  kind = "batching" =>
    /\ inv[1].partials = {}
    /\ Aligned(inv[1].next) /\ Aligned(inv[1].after) /\ Aligned(cursor.of[1].after)
    /\ Batched(inv[1].kept) /\ Batched(inv[1].pending)
    /\ Batched(cursor.of[1].partials) /\ Batched(from.of[1].partials)
    /\ \A m \in inflight : Batched(ItemsOf(m, 1))

Shape == /\ InventoryTypes /\ Windows /\ InFlight /\ Events
         /\ Resumption /\ Generators /\ Chain /\ Join /\ Batches

----------------------------------------------------------------------------
(* The state of one input *)

\* J is I after the items of S, those from I.next + 1 to m, entered process_item.
Enters(I, S, m, J) ==
  /\ J \in InputState /\ WindowOf(J)
  /\ J.next = m /\ J.partials = I.partials /\ J.after = I.after
  /\ J.pending = I.pending \cup S /\ J.kept = I.kept
  /\ I.pending \cap S = {}

\* J is I after the items of S left process_item: it says of nothing else that it
\* is done.
Leaves(I, S, J) ==
  /\ J \in InputState /\ WindowOf(J)
  /\ J.next = I.next /\ J.partials = I.partials
  /\ J.pending = I.pending \ S
  /\ J.kept \subseteq I.kept \cup S
  /\ 1 .. J.after \subseteq 1 .. I.after \cup I.kept \cup S

\* J is I after its next item, n, was entered and left.
Skips(I, n, J) ==
  /\ J \in InputState /\ WindowOf(J)
  /\ J.next = n /\ J.partials = I.partials \ {n}
  /\ J.pending = I.pending
  /\ J.kept \subseteq I.kept \cup {n}
  /\ 1 .. J.after \subseteq 1 .. I.after \cup I.kept \cup {n}

\* Max gives the greatest element of a bounded set of naturals.
LEMMA MaxOfBounded ==
  ASSUME NEW S \in SUBSET Nat, NEW b \in Nat, \A s \in S : s <= b, S # {}
  PROVE  Max(S) \in S /\ \A y \in S : y <= Max(S)
<1> DEFINE T == {b - s : s \in S}
<1>1. \A m, n \in Nat : m < n => <<m, n>> \in OpToRel(<, Nat)
  BY DEF OpToRel
<1>2. T # {} /\ T \subseteq Nat
  <2>1. \A s \in S : b - s \in Nat
    OBVIOUS
  <2> QED BY <2>1
<1>3. PICK m \in T : \A n \in T : ~ (<<n, m>> \in OpToRel(<, Nat))
  <2> HIDE DEF T
  <2> QED BY <1>2, NatLessThanWellFounded, WFMin
<1>4. PICK x \in S : m = b - x
  BY <1>3
<1>5. ASSUME NEW y \in S PROVE x >= y
  <2>1. b - y \in T /\ b - y \in Nat /\ m \in Nat
    BY <1>2, <1>3
  <2>2. ~ (b - y < m)
    BY <1>1, <1>3, <2>1
  <2> QED BY <1>4, <2>2
<1> QED BY <1>5 DEF Max

\* What the end of process_item makes of an input.
LEMMA LeftIs ==
  ASSUME NEW I \in InputState, WindowOf(I), NEW S \in SUBSET I.pending,
         NEW J, J = Left(I, S)
  PROVE  Leaves(I, S, J)
<1> DEFINE P == I.pending \ S
           K == I.kept \cup S
           D == {n \in K : \A p \in P : n < p}
           a == IF D = {} THEN I.after ELSE Max(D)
<1>1. /\ J = [I EXCEPT !.pending = P, !.kept = K \ D, !.after = a]
      /\ P \in SUBSET Nat /\ K \in SUBSET Nat /\ D \in SUBSET K
      /\ I.next \in Nat /\ I.after \in Nat
      /\ K \subseteq 1 .. I.next /\ P \subseteq 1 .. I.next /\ P \cap K = {}
  BY DEF Left, InputState, WindowOf
<1>2. D # {} => a \in D /\ \A y \in D : y <= a
  <2> SUFFICES ASSUME D # {} PROVE Max(D) \in D /\ \A y \in D : y <= Max(D)
    OBVIOUS
  <2>1. D \in SUBSET Nat /\ \A s \in D : s <= I.next
    BY <1>1
  <2> QED BY <1>1, <2>1, MaxOfBounded
<1>3. a \in Nat
  BY <1>1, <1>2
<1>4. /\ J.pending = P /\ J.kept = K \ D /\ J.after = a
      /\ J.next = I.next /\ J.partials = I.partials /\ J \in InputState
  BY <1>1, <1>3 DEF InputState
<1>5. 1 .. a \subseteq 1 .. I.after \cup K
  <2> SUFFICES ASSUME NEW x \in 1 .. a, x > I.after PROVE x \in K
    BY <1>1, <1>3
  <2>1. D # {} /\ a \in D /\ a \in 1 .. I.next
    BY <1>1, <1>2, <1>3
  <2>2. x \in I.pending \cup I.kept
    BY <1>1, <1>3, <2>1 DEF WindowOf
  <2>3. x \notin P
    BY <1>1, <1>3, <2>1
  <2> QED BY <2>2, <2>3
<1>6. I.after <= a
  BY <1>1, <1>2, <1>3 DEF WindowOf
<1>7. WindowOf(J)
  <2>1. 1 .. I.next \subseteq 1 .. a \cup P \cup (K \ D)
    <3> SUFFICES ASSUME NEW x \in 1 .. I.next, x \notin P, x \notin K \ D
                 PROVE  x \in 1 .. a
      OBVIOUS
    <3>1. CASE x \in D
      BY <1>1, <1>2, <1>3, <3>1
    <3>2. CASE x \in 1 .. I.after
      BY <1>1, <1>3, <1>6, <3>2
    <3> QED BY <3>1, <3>2 DEF WindowOf
  <2>2. \A p \in P : a <= p
    <3>1. CASE D = {}
      BY <3>1 DEF WindowOf
    <3>2. CASE D # {}
      BY <1>1, <1>2, <1>3, <3>2
    <3> QED BY <3>1, <3>2
  <2>3. \A k \in K \ D : \E p \in P : p < k
    <3> SUFFICES ASSUME NEW k \in K \ D PROVE \E p \in P : p < k
      OBVIOUS
    <3>1. PICK p \in P : ~ (k < p)
      BY <1>1
    <3>2. p # k /\ p \in Nat /\ k \in Nat
      BY <1>1, <3>1
    <3> QED BY <3>1, <3>2
  <2>4. a <= I.next + 1
    BY <1>1, <1>2 DEF WindowOf
  <2> HIDE DEF D, a
  <2> QED BY <1>1, <1>4, <2>1, <2>2, <2>3, <2>4 DEF WindowOf
<1> QED BY <1>1, <1>4, <1>5, <1>7 DEF Leaves

\* The next items of an input, up to m, enter process_item.
LEMMA EnteredIs ==
  ASSUME NEW I \in InputState, WindowOf(I), NEW m \in Nat, m > I.next,
         NEW S, S = (I.next + 1) .. m, NEW J, J = Entered(I, S)
  PROVE  Enters(I, S, m, J)
<1>1. /\ I.next \in Nat /\ I.after \in Nat
      /\ I.pending \in SUBSET Nat /\ I.kept \in SUBSET Nat
  BY DEF InputState
<1>2. Max(S) = m
  <2>1. S \in SUBSET Nat /\ S # {} /\ m \in S /\ \A s \in S : s <= m
    BY <1>1
  <2>2. Max(S) \in S /\ \A y \in S : y <= Max(S)
    BY <2>1, MaxOfBounded
  <2> QED BY <1>1, <2>1, <2>2
<1>3. /\ J \in InputState
      /\ J.next = m /\ J.partials = I.partials /\ J.after = I.after
      /\ J.pending = I.pending \cup S /\ J.kept = I.kept
  <2>1. J = [I EXCEPT !.next = m, !.pending = I.pending \cup S]
    BY <1>2 DEF Entered
  <2>2. S \in SUBSET Nat
    BY <1>1
  <2> QED BY <1>1, <2>1, <2>2 DEF InputState
<1>4. I.pending \cap S = {} /\ I.kept \cap S = {}
  BY <1>1 DEF WindowOf
<1>5. /\ I.pending \cup S \cup I.kept \subseteq 1 .. m
      /\ 1 .. m \subseteq 1 .. I.after \cup I.pending \cup S \cup I.kept
  BY <1>1 DEF WindowOf
<1>6. \A p \in I.pending \cup S : I.after <= p
  BY <1>1 DEF WindowOf
<1>7. \A k \in I.kept : \E p \in I.pending \cup S : p < k
  BY <1>1 DEF WindowOf
<1>8. I.after <= m + 1
  BY <1>1 DEF WindowOf
<1>9. WindowOf(J)
  BY <1>3, <1>4, <1>5, <1>6, <1>7, <1>8 DEF WindowOf
<1> QED BY <1>3, <1>4, <1>9 DEF Enters

\* The next item of an input was processed in an earlier run.
LEMMA SkippedIs ==
  ASSUME NEW I \in InputState, WindowOf(I),
         NEW n, n = I.next + 1, NEW J, J = Skipped(I, n)
  PROVE  Skips(I, n, J)
<1> DEFINE E == Entered(I, {n})
           F == [E EXCEPT !.partials = @ \ {n}]
<1>1. /\ n \in Nat /\ n > I.next /\ {n} = (I.next + 1) .. n /\ I.next \in Nat
      /\ I \in InputState
  BY DEF InputState
<1>2. /\ E \in InputState /\ WindowOf(E)
      /\ E.next = n /\ E.partials = I.partials /\ E.after = I.after
      /\ E.pending = I.pending \cup {n} /\ E.kept = I.kept
      /\ I.pending \cap {n} = {}
  <2>1. PICK S : S = {n}
    OBVIOUS
  <2>2. PICK G : G = Entered(I, S)
    OBVIOUS
  <2>3. S = (I.next + 1) .. n
    BY <1>1, <2>1
  <2>4. Enters(I, S, n, G)
    BY <1>1, <2>2, <2>3, EnteredIs
  <2>5. E = G
    BY <2>1, <2>2
  <2> HIDE DEF E
  <2> QED BY <2>1, <2>4, <2>5 DEF Enters
<1>3. /\ F \in InputState /\ F.next = n /\ F.partials = I.partials \ {n}
      /\ F.after = I.after /\ F.pending = I.pending \cup {n} /\ F.kept = I.kept
  <2>1. \A G \in InputState : LET H == [G EXCEPT !.partials = G.partials \ {n}] IN
          /\ H \in InputState /\ H.next = G.next /\ H.partials = G.partials \ {n}
          /\ H.after = G.after /\ H.pending = G.pending /\ H.kept = G.kept
    BY DEF InputState
  <2> HIDE DEF E
  <2> QED BY <1>2, <2>1
<1>4. WindowOf(F)
  <2> HIDE DEF E, F
  <2> QED BY <1>2, <1>3 DEF WindowOf
<1>5. J = Left(F, {n}) /\ {n} \in SUBSET F.pending
  BY <1>3 DEF Skipped
<1>6. Leaves(F, {n}, J)
  <2> HIDE DEF F
  <2> QED BY <1>3, <1>4, <1>5, LeftIs
<1> HIDE DEF E, F
<1> QED BY <1>2, <1>3, <1>6 DEF Leaves, Skips

----------------------------------------------------------------------------
(* The inputs and the messages *)

\* The inputs of each kind, from the sizes.
LEMMA InputFacts ==
  ASSUME kind \in Kinds
  PROVE  /\ Input \subseteq Nat /\ \A i \in Input : Size[kind][i] \in Nat
         /\ kind \in {"batching", "loop"} => Input = {1}
         /\ kind # "joined" => 0 \notin Input
         /\ kind = "joined" => Input = 0 .. Size[kind][0] /\ 0 \in Input
         /\ kind = "chained" => \E n \in Nat : Input = 1 .. n
<1>1. CASE kind \in {"chained", "fanin"}
  <2>1. Size[kind] \in Seq(Nat)
    BY <1>1, SizeAssumption
  <2>2. Len(Size[kind]) \in Nat /\ Input = 1 .. Len(Size[kind])
    BY <2>1 DEF Input
  <2>3. \A i \in Input : Size[kind][i] \in Nat
    BY <2>1, <2>2
  <2> QED BY <1>1, <2>2, <2>3
<1>2. CASE kind \in {"batching", "loop"}
  <2>1. Size[kind] \in [{1} -> Nat]
    BY <1>2, SizeAssumption
  <2> QED BY <1>2, <2>1 DEF Input
<1>3. CASE kind = "joined"
  <2>1. /\ Size[kind][0] \in Nat
        /\ Size[kind] \in [0 .. Size[kind][0] -> Nat] /\ Input = 0 .. Size[kind][0]
    BY <1>3, SizeAssumption DEF Input
  <2> QED BY <1>3, <2>1
<1> QED BY <1>1, <1>2, <1>3 DEF Kinds

\* A run is of the same inventory all along.
LEMMA SameInputs ==
  ASSUME kind' = kind
  PROVE  /\ Input' = Input /\ AllItems' = AllItems /\ JobCursors' = JobCursors
         /\ \A i : Items(i)' = Items(i)
BY DEF Input, AllItems, Items, JobCursors, Cursor

\* A message of one input gives its items back, and none of another.
LEMMA MessageItems ==
  ASSUME NEW i, NEW S, S # {}
  PROVE  /\ ItemsOf(Message(i, S), i) = S
         /\ \A j : j # i => ItemsOf(Message(i, S), j) = {}
         /\ {x[1] : x \in Message(i, S)} = {i}
         /\ MessageOf(Message(i, S), i)
<1> DEFINE m == Message(i, S)
<1>1. /\ \A n \in S : <<i, n>> \in m
      /\ \A x \in m : x[1] = i /\ x[2] \in S /\ x = <<i, x[2]>>
  BY DEF Message
<1> HIDE DEF m
<1>2. ASSUME NEW j PROVE \A n : n \in ItemsOf(m, j) <=> j = i /\ n \in S
  <2>1. ASSUME NEW n \in ItemsOf(m, j) PROVE j = i /\ n \in S
    BY <1>1 DEF ItemsOf
  <2>2. ASSUME NEW n \in S PROVE n \in ItemsOf(m, i)
    <3>1. <<i, n>> \in {y \in m : y[1] = i} /\ <<i, n>>[2] = n
      BY <1>1
    <3> QED BY <3>1 DEF ItemsOf
  <2> QED BY <2>1, <2>2
<1>3. ItemsOf(m, i) = S /\ \A j : j # i => ItemsOf(m, j) = {}
  BY <1>2
<1>4. {x[1] : x \in m} = {i} /\ m # {}
  <2>1. PICK n \in S : TRUE
    OBVIOUS
  <2>2. <<i, n>> \in m /\ <<i, n>>[1] = i
    BY <1>1
  <2> QED BY <1>1, <2>2
<1>5. m = Message(i, S)
  BY DEF m
<1> QED BY <1>3, <1>4, <1>5 DEF MessageOf

----------------------------------------------------------------------------
(* The steps that leave the inputs where they are *)

\* The inputs, the cursors and what is in flight stay, but for a crash.
Quiet == /\ kind' = kind /\ inv' = inv /\ cursor' = cursor /\ from' = from
         /\ outer' = outer
         /\ status' # "idle" => status # "idle"
         /\ inflight' = inflight \/ (inflight' = {} /\ status' = "idle")

\* What keeps the inputs and what is in flight keeps all that is about them.
LEMMA QuietKeeps ==
  ASSUME Shape, Quiet, Events'
  PROVE  Windows' /\ InFlight' /\ Events' /\ Resumption' /\ Batches'
<1>1. Input' = Input
  BY SameInputs DEF Quiet
<1>2. Windows'
  BY <1>1 DEF Quiet, Shape, Windows
<1>3. InFlight'
  BY <1>1 DEF Quiet, Shape, InFlight
<1>4. Resumption'
  BY <1>1 DEF Quiet, Shape, Resumption, Known
<1>5. Batches'
  <2>1. \A m \in inflight' : m \in inflight
    BY DEF Quiet
  <2> QED BY <2>1 DEF Quiet, Shape, Batches
<1> QED BY <1>2, <1>3, <1>4, <1>5

\* The end of an input; the next one of a chained inventory begins.
LEMMA EndInputKeeps ==
  ASSUME Shape, NEW i \in Input, EndInput(i)
  PROVE  Shape'
<1>1. /\ kind' = kind /\ inv' = inv /\ status' = status /\ status = "running"
      /\ UNCHANGED <<cursor, from, outer, taken, active, multi, inflight, left, completion, runs>>
      /\ slot[i] = "running" /\ Next1(i) \notin Items(i)
      /\ settled' = [settled EXCEPT ![i] = @ \/ inv[i].pending = {}]
  BY DEF EndInput, joinVars, jobVars
<1>2. Input' = Input /\ AllItems' = AllItems /\ JobCursors' = JobCursors
  BY <1>1, SameInputs
<1>3. i \in Nat /\ Size[kind][i] \in Nat /\ inv[i].next \in Nat
  BY InputFacts DEF Shape, InventoryTypes, InputState
<1>4. inv[i].next >= Size[kind][i]
  BY <1>1, <1>3 DEF Next1, Items
<1>7. ASSUME NEW j \in Input \ {0}, settled'[j] PROVE inv[j].pending = {}
  <2>1. settled' = [settled EXCEPT ![i] = settled[i] \/ inv[i].pending = {}]
        /\ settled \in [Input -> BOOLEAN] /\ j \in Input
    BY <1>1 DEF Shape, InventoryTypes
  <2>2. CASE j = i
    <3>1. settled'[i] <=> settled[i] \/ inv[i].pending = {}
      BY <2>1
    <3> QED BY <1>7, <2>2, <3>1 DEF Shape, Events
  <2>3. CASE j # i
    <3>1. settled'[j] = settled[j]
      BY <2>1, <2>3
    <3> QED BY <1>7, <3>1 DEF Shape, Events
  <2> QED BY <2>2, <2>3
<1>8. Events'
  BY <1>1, <1>2, <1>7 DEF Events
<1>9. Quiet
  BY <1>1 DEF Quiet
<1>5. CASE kind = "chained" /\ i + 1 \in Input
  <2>1. /\ current' = i + 1 /\ i = current
        /\ slot' = [slot EXCEPT ![i] = "ended", ![i + 1] = "running"]
    BY <1>1, <1>5 DEF EndInput, Shape, Chain
  <2>2. InventoryTypes'
    BY <1>1, <1>2, <1>3, <1>5, <2>1 DEF Shape, InventoryTypes
  <2>3. Generators'
    BY <1>1, <1>2, <1>4, <1>5, <2>1 DEF Shape, Generators, InventoryTypes
  <2>4. Chain'
    <3>1. from.current <= i + 1
      BY <1>1, <1>3, <1>5, <2>1 DEF Shape, Chain, InventoryTypes, JobCursors
    <3>2. \A j \in Input : slot'[j] = "running" => j = i + 1
      BY <1>1, <1>5, <2>1 DEF Shape, Chain, InventoryTypes
    <3>3. slot'[i + 1] = "running"
      BY <1>5, <2>1 DEF Shape, InventoryTypes
    <3>4. from'.current <= current' /\ 1 <= current'
      BY <1>1, <1>3, <2>1, <3>1
    <3>5. \A j \in Input' : slot'[j] = "running" => j = current'
      BY <1>2, <2>1, <3>2
    <3>6. slot'[current'] = "running"
      BY <2>1, <3>3
    <3> QED BY <3>4, <3>5, <3>6 DEF Chain
  <2>5. Join'
    BY <1>1, <1>2, <1>5 DEF Shape, Join
  <2>7. Windows' /\ InFlight' /\ Events' /\ Resumption' /\ Batches'
    BY <1>8, <1>9, QuietKeeps
  <2> QED BY <2>2, <2>3, <2>4, <2>5, <2>7 DEF Shape
<1>6. CASE ~ (kind = "chained" /\ i + 1 \in Input)
  <2>1. slot' = [slot EXCEPT ![i] = "ended"] /\ current' = current
    BY <1>6 DEF EndInput
  <2>2. InventoryTypes'
    BY <1>1, <1>2, <1>3, <1>6, <2>1 DEF Shape, InventoryTypes
  <2>3. Generators'
    BY <1>1, <1>2, <1>4, <1>6, <2>1 DEF Shape, Generators, InventoryTypes
  <2>4. Chain'
    <3> SUFFICES ASSUME kind = "chained" PROVE Chain'
      BY <1>1 DEF Chain
    <3>1. i = current
      BY <1>1 DEF Shape, Chain
    <3>2. \A j \in Input : slot'[j] = "running" => slot[j] = "running"
      BY <2>1 DEF Shape, InventoryTypes
    <3>3. slot'[i] = "ended"
      BY <2>1 DEF Shape, InventoryTypes
    <3> QED BY <1>1, <1>2, <1>6, <2>1, <3>1, <3>2, <3>3 DEF Shape, Chain
  <2>5. Join'
    <3>1. \A j \in Input : slot'[j] # "none" <=> slot[j] # "none"
      BY <1>1, <2>1 DEF Shape, InventoryTypes
    <3>2. kind = "joined" => 0 \in Input
      BY InputFacts DEF Shape, InventoryTypes
    <3> QED BY <1>1, <1>2, <3>1, <3>2 DEF Shape, Join, InventoryTypes
  <2>7. Windows' /\ InFlight' /\ Events' /\ Resumption' /\ Batches'
    BY <1>8, <1>9, QuietKeeps
  <2> QED BY <2>2, <2>3, <2>4, <2>5, <2>7 DEF Shape
<1> QED BY <1>5, <1>6

\* A loop that is stopped ends without having gone over everything.
LEMMA StopLoopKeeps ==
  ASSUME Shape, StopLoop
  PROVE  Shape'
<1>1. /\ kind' = kind /\ inv' = inv /\ status' = status /\ kind = "loop"
      /\ UNCHANGED <<settled, current, cursor, from, outer, taken, active, multi,
                     inflight, left, completion, runs>>
      /\ slot' = [slot EXCEPT ![1] = "ended"]
  BY DEF StopLoop, joinVars, jobVars
<1>2. Input' = Input /\ AllItems' = AllItems /\ JobCursors' = JobCursors
  BY <1>1, SameInputs
<1>3. InventoryTypes'
  BY <1>1, <1>2 DEF Shape, InventoryTypes
<1>4. Generators'
  BY <1>1, <1>2 DEF Shape, Generators, InventoryTypes
<1>5. Chain' /\ Join'
  BY <1>1 DEF Shape, Chain, Join
<1>6. Quiet /\ Events'
  BY <1>1, <1>2 DEF Quiet, Shape, Events
<1> QED BY <1>3, <1>4, <1>5, <1>6, QuietKeeps DEF Shape

\* The item of the root that waited goes to those in process_item.
LEMMA AddSubKeeps ==
  ASSUME Shape, AddSub
  PROVE  Shape'
<1>1. /\ kind' = kind /\ inv' = inv /\ status' = status /\ status = "running"
      /\ UNCHANGED <<settled, current, cursor, from, outer, multi, inflight, left,
                     completion, runs>>
      /\ slot' = [slot EXCEPT ![taken] = "running"] /\ taken # 0
      /\ active' = active \cup {taken} /\ taken' = 0
  BY DEF AddSub, jobVars
<1>2. Input' = Input /\ AllItems' = AllItems /\ JobCursors' = JobCursors
  BY <1>1, SameInputs
<1>3. /\ kind = "joined" /\ taken \in Input /\ taken \notin active /\ 0 \in Input
      /\ inv[0].pending = active \cup {taken} /\ 0 \notin active
  BY <1>1, InputFacts DEF Shape, Join, InventoryTypes
<1>4. InventoryTypes'
  BY <1>1, <1>2, <1>3 DEF Shape, InventoryTypes
<1>5. Generators'
  BY <1>1, <1>2, <1>3 DEF Shape, Generators, InventoryTypes
<1>6. Chain'
  BY <1>1, <1>3 DEF Chain
<1>7. Join'
  <2>1. \A r \in Input : slot'[r] # "none" <=> slot[r] # "none" \/ r = taken
    BY <1>1, <1>3 DEF Shape, InventoryTypes
  <2> QED BY <1>1, <1>2, <1>3, <2>1 DEF Shape, Join, InventoryTypes
<1>8. Quiet /\ Events'
  BY <1>1, <1>2 DEF Quiet, Shape, Events
<1> QED BY <1>4, <1>5, <1>6, <1>7, <1>8, QuietKeeps DEF Shape

\* The job ends, the process dies, or the queue of an inventory that is not joined is
\* closed.
LEMMA StopKeeps ==
  ASSUME Shape, Complete \/ JobFails \/ Crash \/ (CloseJob /\ kind # "joined")
  PROVE  Shape'
<1>1. /\ kind' = kind /\ inv' = inv /\ status' \in {"idle", "ended"}
      /\ status # "idle" /\ (inflight' = inflight \/ (inflight' = {} /\ status' = "idle"))
      /\ UNCHANGED <<slot, settled, current, cursor, from, outer, multi, left, runs>>
      /\ completion' \in {"none", "success", "error"}
      /\ \/ UNCHANGED <<taken, active>> /\ (status' = "idle" => kind # "joined")
         \/ (taken' = 0 /\ active' = {} /\ status' = "idle")
  BY DEF Complete, JobFails, Crash, CloseJob, Ends, inputVars, joinVars, jobVars, Shape,
         InventoryTypes
<1>2. Input' = Input /\ AllItems' = AllItems /\ JobCursors' = JobCursors
  BY <1>1, SameInputs
<1>3. InventoryTypes'
  BY <1>1, <1>2 DEF Shape, InventoryTypes
<1>4. Generators' /\ Chain'
  BY <1>1, <1>2 DEF Shape, Generators, Chain
<1>5. Join'
  BY <1>1, <1>2 DEF Shape, Join
<1>6. Quiet /\ Events'
  BY <1>1, <1>2 DEF Quiet, Shape, Events
<1> QED BY <1>3, <1>4, <1>5, <1>6, QuietKeeps DEF Shape

\* An input raises.
LEMMA FailsKeeps ==
  ASSUME Shape, NEW i \in Input, InputFails(i) \/ FanInFails(i)
  PROVE  Shape'
<1>1. /\ kind' = kind /\ inv' = inv /\ status' \in {"failing", "ended"}
      /\ status = "running" /\ kind # "joined"
      /\ UNCHANGED <<settled, current, cursor, from, outer, taken, active, multi, inflight,
                     left, runs>>
      /\ completion' \in {"none", "success", "error"}
      /\ status' = "failing" => kind = "fanin"
      /\ slot' = slot \/ (slot' = [slot EXCEPT ![i] = "ended"] /\ kind = "fanin")
  BY DEF InputFails, FanInFails, Raises, Ends, inputVars, joinVars, Shape,
         InventoryTypes
<1>2. Input' = Input /\ AllItems' = AllItems /\ JobCursors' = JobCursors
  BY <1>1, SameInputs
<1>3. InventoryTypes'
  BY <1>1, <1>2 DEF Shape, InventoryTypes
<1>4. Generators' /\ Chain'
  BY <1>1, <1>2 DEF Shape, Generators, Chain
<1>5. Join'
  BY <1>1, <1>2 DEF Shape, Join
<1>6. Quiet /\ Events'
  BY <1>1, <1>2 DEF Quiet, Shape, Events
<1> QED BY <1>3, <1>4, <1>5, <1>6, QuietKeeps DEF Shape

----------------------------------------------------------------------------
(* The steps of an input to its next item *)

\* Input i goes to J, past the item J.next.
Moves(i, J) ==
  /\ kind' = kind /\ from' = from /\ cursor' = cursor /\ status' = status
  /\ status # "idle"
  /\ inv' = [inv EXCEPT ![i] = J]
  /\ J \in InputState /\ WindowOf(J) /\ J.next > inv[i].next
  /\ \A p \in inv[i].partials : p > J.next => p \in J.partials
  /\ outer' \in SUBSET outer /\ \A p \in outer : p > J.next => p \in outer'

\* An input that goes forward stays past the cursor of the run.
LEMMA MovesKeeps ==
  ASSUME Shape, NEW i \in Input, NEW J, Moves(i, J)
  PROVE  /\ inv' \in [Input -> InputState] /\ inv'[i] = J
         /\ \A j \in Input : j # i => inv'[j] = inv[j]
         /\ Windows' /\ Resumption'
<1>1. Input' = Input
  BY SameInputs DEF Moves
<1>2. /\ inv' \in [Input -> InputState] /\ inv'[i] = J
      /\ \A j \in Input : j # i => inv'[j] = inv[j]
  BY DEF Moves, Shape, InventoryTypes
<1>3. Windows'
  BY <1>1, <1>2 DEF Moves, Shape, Windows
<1>4. Resumption'
  <2>1. \A j \in Input : inv'[j].next >= inv[j].next /\ inv'[j].next \in Nat /\ inv[j].next \in Nat
    BY <1>2 DEF Moves, Shape, InventoryTypes, InputState
  <2>2. \A j \in Input : from.of[j].after \in Nat /\ from.of[j].partials \in SUBSET Nat
    BY DEF Shape, InventoryTypes, JobCursors, Cursor
  <2>3. \A j \in Input : inv'[j].next + (IF kind = "loop" THEN 1 ELSE 0) >= from.of[j].after
    BY <2>1, <2>2 DEF Moves, Shape, Resumption
  <2>4. ASSUME NEW j \in Input, NEW p \in from.of[j].partials, p > inv'[j].next
        PROVE  p \in Known(j)'
    <3>1. p \in Nat /\ p > inv[j].next
      BY <2>1, <2>2, <2>4
    <3>2. p \in Known(j)
      BY <3>1 DEF Moves, Shape, Resumption
    <3>3. CASE kind = "batching"
      <4>1. j = i /\ p \in outer
        BY <3>2, <3>3, InputFacts DEF Known, Shape, InventoryTypes
      <4> QED BY <1>2, <2>4, <3>3, <4>1 DEF Known, Moves
    <3>4. CASE kind # "batching"
      <4>1. p \in inv[j].partials
        BY <3>2, <3>4 DEF Known
      <4>2. CASE j = i
        BY <1>2, <2>4, <3>4, <4>1, <4>2 DEF Known, Moves
      <4>3. CASE j # i
        BY <1>2, <3>4, <4>1, <4>3 DEF Known, Moves
      <4> QED BY <4>2, <4>3
    <3> QED BY <3>3, <3>4
  <2>5. kind = "batching" => outer' \subseteq from.of[1].partials
    BY DEF Moves, Shape, Resumption
  <2> QED BY <1>1, <2>3, <2>4, <2>5 DEF Moves, Resumption
<1> QED BY <1>2, <1>3, <1>4

\* An input yields the message of its items S.
LEMMA YieldsInFlight ==
  ASSUME Shape, NEW i \in Input \ {0}, NEW S, S # {}, S \subseteq Items(i), NEW J, NEW n,
         Moves(i, J), Enters(inv[i], S, n, J), inflight' = inflight \cup {Message(i, S)}
  PROVE  InFlight' /\ inflight' \in SUBSET SUBSET AllItems
<1> DEFINE m == Message(i, S)
<1>1. Input' = Input /\ status' # "idle"
  BY SameInputs DEF Moves
<1>2. /\ inv'[i] = J /\ \A j \in Input : j # i => inv'[j] = inv[j]
      /\ J.pending = inv[i].pending \cup S /\ inv[i].pending \cap S = {}
  BY MovesKeeps DEF Enters
<1>3. /\ ItemsOf(m, i) = S /\ MessageOf(m, i)
      /\ \A j : j # i => ItemsOf(m, j) = {}
  BY MessageItems
<1>4. \A x \in m : x[1] = i /\ x[2] \in S /\ x = <<i, x[2]>>
  BY DEF Message
<1>5. \A s \in S : <<i, s>> \in m
  BY DEF Message
<1>6. m \in SUBSET AllItems
  <2>1. \A s \in S : <<i, s>> \in AllItems
    BY DEF AllItems
  <2> QED BY <1>4, <2>1
<1> HIDE DEF m
<1>7. inflight' = inflight \cup {m}
  BY DEF m
<1>8. ASSUME NEW o \in inflight PROVE o \cap m = {}
  <2> SUFFICES ASSUME NEW x \in o, x \in m PROVE FALSE
    OBVIOUS
  <2>1. x[1] = i /\ x[2] \in S /\ x[2] \in ItemsOf(o, i)
    BY <1>4 DEF ItemsOf
  <2>2. ItemsOf(o, i) \subseteq inv[i].pending
    BY DEF Shape, InFlight
  <2> QED BY <1>2, <2>1, <2>2
<1>9. \A o \in inflight' : \E j \in Input \ {0} : MessageOf(o, j)
  BY <1>3, <1>7 DEF Shape, InFlight
<1>10. \A o \in inflight' : \A j \in Input : ItemsOf(o, j) \subseteq inv'[j].pending
  <2>1. \A j \in Input : ItemsOf(m, j) \subseteq inv'[j].pending
    BY <1>2, <1>3
  <2>2. \A j \in Input : inv[j].pending \subseteq inv'[j].pending
    BY <1>2
  <2> QED BY <1>7, <2>1, <2>2 DEF Shape, InFlight
<1>11. \A o, q \in inflight' : o # q => o \cap q = {}
  BY <1>7, <1>8 DEF Shape, InFlight
<1>12. ASSUME NEW j \in Input \ {0}, NEW p \in inv'[j].pending
       PROVE  \E o \in inflight' : <<j, p>> \in o
  <2>1. CASE p \in inv[j].pending
    BY <1>7, <2>1 DEF Shape, InFlight, Moves
  <2>2. CASE p \notin inv[j].pending
    <3>1. j = i /\ p \in S
      BY <1>2, <1>12, <2>2
    <3> QED BY <1>5, <1>7, <3>1
  <2> QED BY <2>1, <2>2
<1>13. InFlight'
  BY <1>1, <1>9, <1>10, <1>11, <1>12 DEF InFlight
<1> QED BY <1>6, <1>7, <1>13 DEF Shape, InventoryTypes

\* An input goes past items, and what is pending in it stays, or it is the root.
LEMMA PassesInFlight ==
  ASSUME Shape, NEW i \in Input, NEW J, Moves(i, J), inflight' = inflight,
         J.pending = inv[i].pending \/ (i = 0 /\ inv[i].pending \subseteq J.pending)
  PROVE  InFlight'
<1>1. Input' = Input /\ status' # "idle"
  BY SameInputs DEF Moves
<1>2. inv'[i] = J /\ \A j \in Input : j # i => inv'[j] = inv[j]
  BY MovesKeeps
<1>3. \A j \in Input : inv[j].pending \subseteq inv'[j].pending
  BY <1>2
<1>4. \A j \in Input \ {0} : inv[j].pending = inv'[j].pending
  BY <1>2
<1>5. \A o \in inflight : \A j \in Input : ItemsOf(o, j) \subseteq inv'[j].pending
  BY <1>3 DEF Shape, InFlight
<1> QED BY <1>1, <1>4, <1>5 DEF Moves, Shape, InFlight

\* The state of an input after its next item, n, was yielded or skipped.
LEMMA NextItem ==
  ASSUME Shape, NEW i \in Input, NEW n, n = Next1(i)
  PROVE  /\ Enters(inv[i], {n}, n, Entered(inv[i], {n}))
         /\ Skips(inv[i], n, Skipped(inv[i], n))
         /\ n \in Nat /\ n > inv[i].next
<1>1. PICK I \in InputState : I = inv[i]
  BY DEF Shape, InventoryTypes
<1>2. WindowOf(I) /\ I.next \in Nat /\ n = I.next + 1 /\ n \in Nat /\ n > I.next
  BY <1>1 DEF Shape, Windows, Next1, InputState
<1>3. PICK S : S = {n}
  OBVIOUS
<1>4. S = (I.next + 1) .. n
  BY <1>2, <1>3
<1>5. PICK J : J = Entered(I, S)
  OBVIOUS
<1>6. Enters(I, S, n, J)
  BY <1>2, <1>4, <1>5, EnteredIs
<1>7. PICK K : K = Skipped(I, n)
  OBVIOUS
<1>8. Skips(I, n, K)
  BY <1>2, <1>7, SkippedIs
<1> QED BY <1>1, <1>2, <1>3, <1>5, <1>6, <1>7, <1>8

\* What does not depend on the items that the inputs are at.
LEMMA GeneratorsKeep ==
  ASSUME Shape, NEW i \in Input, NEW J, Moves(i, J), slot' = slot, current' = current
  PROVE  Generators' /\ Chain'
<1>1. Input' = Input /\ kind' = kind /\ status' = status /\ from' = from
  BY SameInputs DEF Moves
<1>2. \A j \in Input : inv'[j].next >= inv[j].next /\ inv'[j].next \in Nat /\ inv[j].next \in Nat
  BY MovesKeeps DEF Moves, Shape, InventoryTypes, InputState
<1>3. \A j \in Input : Size[kind][j] \in Nat
  BY InputFacts DEF Shape, InventoryTypes
<1>4. Generators'
  BY <1>1, <1>2, <1>3 DEF Shape, Generators
<1>5. Chain'
  BY <1>1 DEF Shape, Chain
<1> QED BY <1>4, <1>5

\* An item is yielded or skipped.
LEMMA YieldItemKeeps ==
  ASSUME Shape, NEW i \in Input, YieldItem(i)
  PROVE  Shape'
<1>1. /\ kind' = kind /\ status' = status /\ status = "running" /\ i # 0 /\ kind # "batching"
      /\ UNCHANGED <<slot, current, outer, taken, active, multi, cursor, completion,
                     runs, from, left>>
      /\ CanYield(i)
  BY DEF YieldItem, joinVars, jobVars
<1> DEFINE n == Next1(i)
<1>2. Input' = Input /\ AllItems' = AllItems /\ JobCursors' = JobCursors
  BY <1>1, SameInputs
<1>3. n \in Items(i) /\ n \in Nat /\ n > inv[i].next
  BY <1>1, NextItem DEF CanYield
<1>4. CASE n \in inv[i].partials
  <2>1. PICK J : J = Skipped(inv[i], n)
    OBVIOUS
  <2>2. /\ inv' = [inv EXCEPT ![i] = J] /\ inflight' = inflight
        /\ settled' = [settled EXCEPT ![i] = inv[i].pending = {}]
    BY <1>4, <2>1 DEF YieldItem
  <2>3. Skips(inv[i], n, J)
    BY <2>1, NextItem
  <2>4. Moves(i, J)
    BY <1>1, <1>3, <2>2, <2>3 DEF Moves, Skips, Shape, InventoryTypes
  <2>5. inv' \in [Input -> InputState] /\ Windows' /\ Resumption'
    BY <2>4, MovesKeeps
  <2>6. InFlight'
    BY <2>2, <2>3, <2>4, PassesInFlight DEF Skips
  <2>7. InventoryTypes'
    BY <1>1, <1>2, <2>2, <2>5 DEF Shape, InventoryTypes
  <2>8. Generators' /\ Chain'
    BY <1>1, <2>4, GeneratorsKeep
  <2>9. Join'
    <3>1. kind = "joined" => inv'[0] = inv[0]
      BY <1>1, <2>4, InputFacts, MovesKeeps DEF Shape, InventoryTypes
    <3> QED BY <1>1, <1>2, <3>1 DEF Shape, Join
  <2>10. Events'
    <3>1. \A j \in Input : inv'[j].pending = inv[j].pending
      BY <2>3, <2>4, MovesKeeps DEF Skips
    <3>2. \A j \in Input : j # i => settled'[j] = settled[j]
      BY <2>2 DEF Shape, InventoryTypes
    <3>3. settled'[i] => inv[i].pending = {}
      BY <2>2 DEF Shape, InventoryTypes
    <3> QED BY <1>2, <3>1, <3>2, <3>3 DEF Shape, Events
  <2>11. Batches'
    BY <1>1 DEF Batches
  <2> QED BY <2>5, <2>6, <2>7, <2>8, <2>9, <2>10, <2>11 DEF Shape
<1>5. CASE n \notin inv[i].partials
  <2>1. PICK J : J = Entered(inv[i], {n})
    OBVIOUS
  <2>2. /\ inv' = [inv EXCEPT ![i] = J] /\ inflight' = inflight \cup {Message(i, {n})}
        /\ settled' = [settled EXCEPT ![i] = FALSE]
    BY <1>5, <2>1 DEF YieldItem
  <2>3. Enters(inv[i], {n}, n, J)
    BY <2>1, NextItem
  <2>4. Moves(i, J)
    BY <1>1, <1>3, <2>2, <2>3 DEF Moves, Enters, Shape, InventoryTypes
  <2>5. inv' \in [Input -> InputState] /\ Windows' /\ Resumption'
    BY <2>4, MovesKeeps
  <2>6. InFlight' /\ inflight' \in SUBSET SUBSET AllItems
    <3>1. PICK S : S = {n}
      OBVIOUS
    <3>2. S # {} /\ S \subseteq Items(i) /\ Enters(inv[i], S, n, J)
          /\ inflight' = inflight \cup {Message(i, S)}
      BY <1>3, <2>2, <2>3, <3>1
    <3> QED BY <1>1, <2>4, <3>2, YieldsInFlight
  <2>7. InventoryTypes'
    BY <1>1, <1>2, <2>2, <2>5, <2>6 DEF Shape, InventoryTypes
  <2>8. Generators' /\ Chain'
    BY <1>1, <2>4, GeneratorsKeep
  <2>9. Join'
    <3>1. kind = "joined" => inv'[0] = inv[0]
      BY <1>1, <2>4, InputFacts, MovesKeeps DEF Shape, InventoryTypes
    <3> QED BY <1>1, <1>2, <3>1 DEF Shape, Join
  <2>10. Events'
    <3>1. \A j \in Input : j # i => inv'[j].pending = inv[j].pending
      BY <2>4, MovesKeeps
    <3>2. \A j \in Input : j # i => settled'[j] = settled[j]
      BY <2>2 DEF Shape, InventoryTypes
    <3>3. ~ settled'[i]
      BY <2>2 DEF Shape, InventoryTypes
    <3> QED BY <1>2, <3>1, <3>2, <3>3 DEF Shape, Events
  <2>11. Batches'
    BY <1>1 DEF Batches
  <2> QED BY <2>5, <2>6, <2>7, <2>8, <2>9, <2>10, <2>11 DEF Shape
<1> QED BY <1>4, <1>5

\* A merged input whose item was ready yields it after another one raised.
LEMMA YieldReadyKeeps ==
  ASSUME Shape, NEW i \in Input, YieldReady(i)
  PROVE  Shape'
<1>1. /\ kind' = kind /\ status' = status /\ status = "failing"
      /\ UNCHANGED <<current, outer, taken, active, multi, cursor, completion, runs, from, left>>
      /\ CanYield(i) /\ slot' = [slot EXCEPT ![i] = "ended"]
  BY DEF YieldReady, joinVars, jobVars
<1> DEFINE n == Next1(i)
<1>2. Input' = Input /\ AllItems' = AllItems /\ JobCursors' = JobCursors
  BY <1>1, SameInputs
<1>3. n \in Items(i) /\ n \in Nat /\ n > inv[i].next
  BY <1>1, NextItem DEF CanYield
<1>4. kind = "fanin" /\ i # 0
  BY <1>1, InputFacts DEF Shape, Generators, InventoryTypes
<1>5. PICK J : J = Entered(inv[i], {n})
  OBVIOUS
<1>6. /\ inv' = [inv EXCEPT ![i] = J] /\ inflight' = inflight \cup {Message(i, {n})}
      /\ settled' = [settled EXCEPT ![i] = FALSE]
  BY <1>5 DEF YieldReady
<1>7. Enters(inv[i], {n}, n, J)
  BY <1>5, NextItem
<1>8. Moves(i, J)
  BY <1>1, <1>3, <1>6, <1>7 DEF Moves, Enters, Shape, InventoryTypes
<1>9. inv' \in [Input -> InputState] /\ Windows' /\ Resumption'
  BY <1>8, MovesKeeps
<1>10. InFlight' /\ inflight' \in SUBSET SUBSET AllItems
  <2>1. PICK S : S = {n}
    OBVIOUS
  <2>2. S # {} /\ S \subseteq Items(i) /\ Enters(inv[i], S, n, J)
        /\ inflight' = inflight \cup {Message(i, S)}
    BY <1>3, <1>6, <1>7, <2>1
  <2> QED BY <1>4, <1>8, <2>2, YieldsInFlight
<1>11. InventoryTypes'
  BY <1>1, <1>2, <1>6, <1>9, <1>10 DEF Shape, InventoryTypes
<1>12. Generators' /\ Chain' /\ Join' /\ Batches'
  BY <1>1, <1>4 DEF Shape, Generators, Chain, Join, Batches
<1>13. Events'
  <2>1. \A j \in Input : j # i => inv'[j].pending = inv[j].pending
    BY <1>8, MovesKeeps
  <2>2. \A j \in Input : j # i => settled'[j] = settled[j]
    BY <1>6 DEF Shape, InventoryTypes
  <2>3. ~ settled'[i]
    BY <1>6 DEF Shape, InventoryTypes
  <2> QED BY <1>2, <2>1, <2>2, <2>3 DEF Shape, Events
<1> QED BY <1>9, <1>10, <1>11, <1>12, <1>13 DEF Shape

\* The root has its next item: its inventory has not been started in this run.
LEMMA TakeRootKeeps ==
  ASSUME Shape, TakeRoot
  PROVE  Shape'
<1>1. /\ kind' = kind /\ status' = status /\ status = "running" /\ kind = "joined" /\ taken = 0
      /\ UNCHANGED <<slot, settled, current, outer, active, multi, inflight, cursor, completion,
                     runs, from, left>>
      /\ CanYield(0)
  BY DEF TakeRoot, jobVars
<1> DEFINE r == Next1(0)
<1>2. Input' = Input /\ AllItems' = AllItems /\ JobCursors' = JobCursors
  BY <1>1, SameInputs
<1>3. 0 \in Input /\ Input = 0 .. Size[kind][0] /\ Size[kind][0] \in Nat
  BY <1>1, InputFacts DEF Shape, InventoryTypes
<1>4. r \in Items(0) /\ r \in Nat /\ r > inv[0].next /\ r \in Input \ {0}
  <2>1. r \in Items(0) /\ r \in Nat /\ r > inv[0].next
    BY <1>1, <1>3, NextItem DEF CanYield
  <2> HIDE DEF r
  <2> QED BY <1>3, <2>1 DEF Items
<1>5. PICK J : /\ inv' = [inv EXCEPT ![0] = J]
               /\ \/ /\ r \in inv[0].partials /\ J = Skipped(inv[0], r) /\ taken' = 0
                  \/ /\ r \notin inv[0].partials /\ J = Entered(inv[0], {r}) /\ taken' = r
  BY <1>1 DEF TakeRoot
<1>6. \/ Skips(inv[0], r, J) /\ taken' = 0
      \/ Enters(inv[0], {r}, r, J) /\ taken' = r /\ r \notin inv[0].partials
  BY <1>3, <1>5, NextItem
<1>7. Moves(0, J)
  <2> HIDE DEF r
  <2> QED BY <1>1, <1>4, <1>5, <1>6 DEF Moves, Skips, Enters, Shape, InventoryTypes
<1>8. /\ inv' \in [Input -> InputState] /\ Windows' /\ Resumption'
      /\ inv'[0] = J /\ \A j \in Input : j # 0 => inv'[j] = inv[j]
  BY <1>3, <1>7, MovesKeeps
<1>9. InFlight'
  <2>1. J.pending = inv[0].pending \/ inv[0].pending \subseteq J.pending
    BY <1>6 DEF Skips, Enters
  <2> QED BY <1>1, <1>3, <1>7, <2>1, PassesInFlight
<1>10. InventoryTypes'
  BY <1>1, <1>2, <1>4, <1>6, <1>8 DEF Shape, InventoryTypes
<1>11. Generators' /\ Chain'
  BY <1>1, <1>3, <1>7, GeneratorsKeep
<1>12. Join'
  <2>1. inv[0].pending = active /\ 0 \notin active
    BY <1>1 DEF Shape, Join
  <2>2. inv[0].pending \subseteq 1 .. inv[0].next /\ inv[0].next \in Nat
    BY <1>3 DEF Shape, Windows, WindowOf, InventoryTypes, InputState
  <2>3. r \notin active
    <3> HIDE DEF r
    <3> QED BY <1>4, <2>1, <2>2
  <2>4. r \notin inv[0].partials => ~ Covers(from.of[0], r)
    <3>1. /\ from.of[0].after \in Nat /\ inv[0].next >= from.of[0].after
          /\ \A p \in from.of[0].partials : p > inv[0].next => p \in inv[0].partials
      BY <1>1, <1>3 DEF Shape, InventoryTypes, InputState, JobCursors, Cursor, Resumption, Known
    <3> HIDE DEF r
    <3> QED BY <1>4, <2>2, <3>1 DEF Covers
  <2>5. J.pending = active \cup ({taken'} \ {0})
    BY <1>4, <1>6, <2>1 DEF Skips, Enters
  <2>6. taken' \notin active /\ taken' \in Input
    BY <1>3, <1>4, <1>6, <2>1, <2>3
  <2>7. \A q \in Input \ {0} : slot[q] # "none" \/ q = taken' => ~ Covers(from.of[0], q)
    BY <1>1, <1>6, <2>4 DEF Shape, Join
  <2> HIDE DEF r
  <2> QED BY <1>1, <1>2, <1>8, <2>5, <2>6, <2>7 DEF Shape, Join
<1>13. Events'
  BY <1>1, <1>2, <1>8 DEF Shape, Events
<1>14. Batches'
  BY <1>1 DEF Batches
<1> QED BY <1>8, <1>9, <1>10, <1>11, <1>12, <1>13, <1>14 DEF Shape

----------------------------------------------------------------------------
(* The batches *)

\* The numbers the batches are made of.
LEMMA BatchedIsNat == BatchSize \in Nat \ {0} /\ Batched1 \in Nat
BY InventoriesAssumption, SizeAssumption DEF Batched1

\* A batch ends where another may begin.
LEMMA NextBoundary ==
  ASSUME NEW b \in Nat, Boundary(b)
  PROVE  Boundary(b + BatchSize) /\ b + BatchSize \in Nat
<1>1. PICK k \in 0 .. b : b = k * BatchSize
  BY DEF Boundary
<1>2. BatchSize \in Nat /\ BatchSize >= 1 /\ k \in Nat /\ k + 1 \in 0 .. (b + BatchSize)
  BY <1>1, BatchedIsNat
<1>3. b + BatchSize = (k + 1) * BatchSize
  BY <1>1, <1>2
<1> QED BY <1>2, <1>3 DEF Boundary

\* The first batch begins at the beginning.
LEMMA FirstBoundary == Boundary(0)
<1>1. 0 = 0 * BatchSize /\ 0 \in 0 .. 0
  BY BatchedIsNat
<1> QED BY <1>1 DEF Boundary

\* Two batches are a batch apart.
LEMMA BoundariesApart ==
  ASSUME NEW a \in Nat, NEW b \in Nat, Boundary(a), Boundary(b), a < b
  PROVE  a + BatchSize <= b
<1>1. PICK k \in 0 .. a : a = k * BatchSize
  BY DEF Boundary
<1>2. PICK l \in 0 .. b : b = l * BatchSize
  BY DEF Boundary
<1>3. PICK B \in Nat : B = BatchSize /\ B >= 1
  BY BatchedIsNat
<1>4. k < l
  <2> SUFFICES ASSUME l <= k PROVE FALSE
    BY <1>1, <1>2
  <2>1. k = l + (k - l) /\ k - l \in Nat /\ l \in Nat
    BY <1>1, <1>2
  <2>2. k * B = l * B + (k - l) * B
    BY <1>3, <2>1
  <2>3. (k - l) * B >= 0
    BY <1>3, <2>1
  <2> QED BY <1>1, <1>2, <1>3, <2>1, <2>2, <2>3
<1>5. PICK d \in Nat : l = k + 1 + d
  <2>1. l - k - 1 \in Nat /\ l = k + 1 + (l - k - 1)
    BY <1>1, <1>2, <1>4
  <2> QED BY <2>1
<1>6. l * B = k * B + B + d * B /\ d * B >= 0 /\ d * B \in Nat
  BY <1>1, <1>3, <1>5
<1> QED BY <1>1, <1>2, <1>3, <1>6

\* An item is in one batch.
LEMMA SameBatch ==
  ASSUME NEW a \in Nat, NEW b \in Nat, Boundary(a), Boundary(b),
         NEW x \in Batch(a), x \in Batch(b)
  PROVE  a = b
<1>1. x \in Nat /\ a < x /\ x <= a + BatchSize /\ b < x /\ x <= b + BatchSize
  BY BatchedIsNat DEF Batch
<1>2. BatchSize \in Nat
  BY BatchedIsNat
<1>3. ~ (a < b)
  BY <1>1, <1>2, BoundariesApart
<1>4. ~ (b < a)
  BY <1>1, <1>2, BoundariesApart
<1> QED BY <1>3, <1>4

\* Sets of whole batches are closed under union.
LEMMA BatchedUnion ==
  ASSUME NEW P, NEW S, Batched(P), Batched(S)
  PROVE  Batched(P \cup S)
BY DEF Batched

\* Sets of whole batches are closed under difference: batches do not overlap.
LEMMA BatchedMinus ==
  ASSUME NEW P, NEW S, Batched(P), Batched(S)
  PROVE  Batched(P \ S)
<1> SUFFICES ASSUME NEW x \in P \ S
             PROVE  \E b \in Nat : Boundary(b) /\ x \in Batch(b) /\ Batch(b) \subseteq P \ S
  BY DEF Batched
<1>1. PICK b \in Nat : Boundary(b) /\ x \in Batch(b) /\ Batch(b) \subseteq P
  BY DEF Batched
<1>2. ASSUME NEW y \in Batch(b), y \in S PROVE FALSE
  <2>1. PICK c \in Nat : Boundary(c) /\ y \in Batch(c) /\ Batch(c) \subseteq S
    BY <1>2 DEF Batched
  <2>2. b = c
    BY <1>1, <1>2, <2>1, SameBatch
  <2> QED BY <1>1, <2>1, <2>2
<1> QED BY <1>1, <1>2

\* The items that are done before any pending one make whole batches.
LEMMA LeftBatches ==
  ASSUME NEW I \in InputState, WindowOf(I), NEW S \in SUBSET I.pending, NEW J, J = Left(I, S),
         Batched(I.pending), Batched(I.kept), Batched(S), Aligned(I.after)
  PROVE  Batched(J.kept) /\ Batched(J.pending) /\ Aligned(J.after)
<1> DEFINE P == I.pending \ S
           K == I.kept \cup S
           D == {n \in K : \A p \in P : n < p}
           a == IF D = {} THEN I.after ELSE Max(D)
<1>1. /\ J.pending = P /\ J.kept = K \ D /\ J.after = a
      /\ P \in SUBSET Nat /\ K \in SUBSET Nat /\ D \in SUBSET K
      /\ I.next \in Nat /\ K \subseteq 1 .. I.next /\ P \cap K = {}
  BY DEF Left, InputState, WindowOf
<1>2. Batched(P) /\ Batched(K)
  BY BatchedMinus, BatchedUnion
<1>3. BatchSize \in Nat /\ BatchSize >= 1 /\ Batched1 \in Nat
  BY BatchedIsNat
<1>4. ASSUME NEW x \in D
      PROVE  \E b \in Nat : Boundary(b) /\ x \in Batch(b) /\ Batch(b) \subseteq D
  <2>1. PICK b \in Nat : Boundary(b) /\ x \in Batch(b) /\ Batch(b) \subseteq K
    BY <1>1, <1>2 DEF Batched
  <2>2. ASSUME NEW y \in Batch(b), NEW p \in P PROVE y < p
    <3>1. PICK c \in Nat : Boundary(c) /\ p \in Batch(c) /\ Batch(c) \subseteq P
      BY <1>2 DEF Batched
    <3>2. b # c
      BY <1>1, <2>1, <3>1
    <3>3. x < p
      OBVIOUS
    <3>4. /\ b < x /\ y <= b + BatchSize /\ c < p /\ p <= c + BatchSize
          /\ x \in Nat /\ y \in Nat /\ p \in Nat
      BY <1>3, <2>1, <3>1 DEF Batch
    <3>5. ~ (c < b)
      BY <1>3, <2>1, <3>1, <3>3, <3>4, BoundariesApart
    <3>6. b + BatchSize <= c
      BY <2>1, <3>1, <3>2, <3>5, BoundariesApart
    <3> QED BY <1>3, <3>4, <3>6
  <2> QED BY <2>1, <2>2
<1>5. Batched(D)
  BY <1>4 DEF Batched
<1>6. Aligned(a)
  <2>1. CASE D = {}
    BY <2>1
  <2>2. CASE D # {}
    <3>1. a \in D /\ a \in Nat /\ \A y \in D : y <= a
      <4>1. D \in SUBSET Nat /\ \A s \in D : s <= I.next
        BY <1>1
      <4>2. Max(D) \in D /\ \A y \in D : y <= Max(D)
        BY <1>1, <2>2, <4>1, MaxOfBounded
      <4> QED BY <2>2, <4>1, <4>2
    <3>2. PICK b \in Nat : Boundary(b) /\ a \in Batch(b) /\ Batch(b) \subseteq D
      BY <1>4, <3>1
    <3> HIDE DEF a, D
    <3>3. b < a /\ a <= b + BatchSize /\ a <= Batched1
      BY <3>2 DEF Batch
    <3>4. CASE b + BatchSize <= Batched1
      <4>1. b + BatchSize \in Batch(b)
        BY <1>3, <3>4 DEF Batch
      <4>2. a = b + BatchSize
        BY <1>3, <3>1, <3>2, <3>3, <4>1
      <4> QED BY <3>2, <4>2, NextBoundary DEF Aligned
    <3>5. CASE ~ (b + BatchSize <= Batched1)
      <4>1. Batched1 \in Batch(b)
        BY <1>3, <3>1, <3>3, <3>5 DEF Batch
      <4> QED BY <1>3, <3>1, <3>2, <4>1 DEF Aligned
    <3> QED BY <3>4, <3>5
  <2> QED BY <2>1, <2>2
<1> HIDE DEF P, K, D, a
<1> QED BY <1>1, <1>2, <1>5, <1>6, BatchedMinus

\* The items of the next message of a batching inventory make a batch.
LEMMA NextBatch ==
  ASSUME Shape, kind = "batching", CanYield(1), NEW S,
         S = {n \in Items(1) : inv[1].next < n /\ n <= inv[1].next + BatchSize}
  PROVE  /\ S # {} /\ S \subseteq Items(1) /\ Batched(S)
         /\ \E b \in Nat : Boundary(b) /\ S = Batch(b)
         /\ \E m \in Nat : m > inv[1].next /\ S = (inv[1].next + 1) .. m /\ Max(S) = m /\ Aligned(m)
<1>1. PICK b \in Nat : b = inv[1].next
  BY InputFacts DEF Shape, InventoryTypes, InputState
<1>2. Items(1) = 1 .. Batched1 /\ Batched1 \in Nat /\ BatchSize \in Nat /\ BatchSize >= 1
  BY BatchedIsNat DEF Items, Batched1
<1>3. b + 1 \in 1 .. Batched1
  BY <1>1, <1>2 DEF CanYield, Next1
<1>4. Boundary(b)
  BY <1>1, <1>2, <1>3 DEF Shape, Batches, Aligned
<1>5. S = Batch(b)
  BY <1>1, <1>2 DEF Batch
<1>6. S # {} /\ S \subseteq Items(1) /\ Batched(S)
  <2>1. b + 1 \in S
    BY <1>1, <1>2, <1>3
  <2>2. Batched(S)
    BY <1>4, <1>5 DEF Batched
  <2> QED BY <2>1, <2>2
<1>7. PICK m \in Nat : m > b /\ S = (b + 1) .. m /\ Aligned(m)
  <2>1. CASE b + BatchSize <= Batched1
    <3>1. S = (b + 1) .. (b + BatchSize)
      BY <1>2, <1>5, <2>1 DEF Batch
    <3> QED BY <1>2, <1>4, <3>1, NextBoundary DEF Aligned
  <2>2. CASE ~ (b + BatchSize <= Batched1)
    <3>1. S = (b + 1) .. Batched1
      BY <1>2, <1>5, <2>2 DEF Batch
    <3> QED BY <1>2, <1>3, <3>1 DEF Aligned
  <2> QED BY <2>1, <2>2
<1>8. Max(S) = m
  <2>1. S \in SUBSET Nat /\ m \in S /\ \A s \in S : s <= m
    BY <1>7
  <2>2. Max(S) \in S /\ \A y \in S : y <= Max(S)
    BY <1>6, <2>1, MaxOfBounded
  <2> QED BY <2>1, <2>2
<1> QED BY <1>1, <1>4, <1>5, <1>6, <1>7, <1>8

\* A batch is yielded, or left at once.
LEMMA YieldBatchKeeps ==
  ASSUME Shape, YieldBatch
  PROVE  Shape'
<1>1. /\ kind' = kind /\ status' = status /\ status = "running" /\ kind = "batching"
      /\ UNCHANGED <<slot, current, taken, active, multi, cursor, completion, runs, from, left>>
      /\ CanYield(1)
      /\ settled' = [settled EXCEPT ![1] = inv'[1].pending = {}]
  BY DEF YieldBatch, joinVars, jobVars
<1>2. Input' = Input /\ AllItems' = AllItems /\ JobCursors' = JobCursors
  BY <1>1, SameInputs
<1>3. Input = {1}
  BY <1>1, InputFacts DEF Shape, InventoryTypes
<1>4. PICK S : S = {n \in Items(1) : inv[1].next < n /\ n <= inv[1].next + BatchSize}
  OBVIOUS
<1>5. S # {} /\ S \subseteq Items(1) /\ Batched(S)
  BY <1>1, <1>4, NextBatch
<1>6. PICK m \in Nat : m > inv[1].next /\ S = (inv[1].next + 1) .. m /\ Max(S) = m /\ Aligned(m)
  BY <1>1, <1>4, NextBatch
<1>7. PICK E : E = Entered(inv[1], S)
  OBVIOUS
<1>8. PICK I \in InputState : I = inv[1] /\ WindowOf(I)
  BY <1>3 DEF Shape, InventoryTypes, Windows
<1>9. Enters(I, S, m, E)
  BY <1>6, <1>7, <1>8, EnteredIs
<1>10. /\ I.partials = {} /\ Batched(I.kept) /\ Batched(I.pending) /\ Aligned(I.after)
       /\ outer \in SUBSET Nat
  BY <1>1, <1>8 DEF Shape, Batches, InventoryTypes
<1>11. PICK J : /\ inv' = [inv EXCEPT ![1] = J]
                /\ \/ /\ m \in outer /\ J = Left(E, S) /\ outer' = outer \ {m}
                      /\ inflight' = inflight
                   \/ /\ J = E /\ outer' = outer /\ inflight' = inflight \cup {Message(1, S)}
  BY <1>4, <1>6, <1>7 DEF YieldBatch
<1>12. /\ J \in InputState /\ WindowOf(J) /\ J.next = m /\ J.partials = {}
       /\ Batched(J.kept) /\ Batched(J.pending) /\ Aligned(J.after)
  <2>1. CASE J = E
    <3>1. Batched(I.pending \cup S)
      BY <1>5, <1>10, BatchedUnion
    <3> QED BY <1>9, <1>10, <2>1, <3>1 DEF Enters
  <2>2. CASE J = Left(E, S)
    <3>1. E \in InputState /\ WindowOf(E) /\ S \in SUBSET E.pending
      BY <1>9 DEF Enters
    <3>2. Leaves(E, S, J)
      BY <2>2, <3>1, LeftIs
    <3>3. Batched(E.pending) /\ Batched(E.kept) /\ Aligned(E.after)
      <4>1. Batched(I.pending \cup S)
        BY <1>5, <1>10, BatchedUnion
      <4> QED BY <1>9, <1>10, <4>1 DEF Enters
    <3>4. Batched(J.kept) /\ Batched(J.pending) /\ Aligned(J.after)
      BY <1>5, <2>2, <3>1, <3>3, LeftBatches
    <3>5. J.next = m /\ J.partials = {} /\ J.pending = I.pending
      BY <1>9, <1>10, <3>2 DEF Enters, Leaves
    <3> QED BY <3>2, <3>4, <3>5 DEF Leaves
  <2> QED BY <1>11, <2>1, <2>2
<1>13. Moves(1, J)
  <2>1. outer' \in SUBSET outer /\ \A p \in outer : p > m => p \in outer'
    BY <1>10, <1>11
  <2> QED BY <1>1, <1>6, <1>8, <1>10, <1>11, <1>12, <2>1 DEF Moves
<1>14. inv' \in [Input -> InputState] /\ Windows' /\ Resumption' /\ inv'[1] = J
  BY <1>3, <1>13, MovesKeeps
<1>15. InFlight' /\ inflight' \in SUBSET SUBSET AllItems
  <2>1. CASE J = E /\ inflight' = inflight \cup {Message(1, S)}
    <3>1. 1 \in Input \ {0} /\ Enters(inv[1], S, m, J)
      BY <1>3, <1>8, <1>9, <2>1
    <3> QED BY <1>5, <1>13, <2>1, <3>1, YieldsInFlight
  <2>2. CASE J = Left(E, S) /\ inflight' = inflight
    <3>1. J.pending = inv[1].pending
      <4>1. Leaves(E, S, J)
        BY <1>9, <2>2, LeftIs DEF Enters
      <4> QED BY <1>8, <1>9, <4>1 DEF Enters, Leaves
    <3>2. InFlight'
      BY <1>3, <1>13, <2>2, <3>1, PassesInFlight
    <3> QED BY <2>2, <3>2 DEF Shape, InventoryTypes
  <2> QED BY <1>11, <2>1, <2>2
<1>16. InventoryTypes'
  <2>1. outer' \in SUBSET Nat
    BY <1>10, <1>11
  <2> QED BY <1>1, <1>2, <1>14, <1>15, <2>1 DEF Shape, InventoryTypes
<1>17. Generators' /\ Chain'
  BY <1>1, <1>3, <1>13, GeneratorsKeep
<1>18. Join'
  BY <1>1 DEF Shape, Join
<1>19. Events'
  <2>1. settled'[1] <=> inv'[1].pending = {}
    BY <1>1, <1>3 DEF Shape, InventoryTypes
  <2> QED BY <1>2, <1>3, <2>1 DEF Events
<1>20. Batches'
  <2>1. \A o \in inflight' : Batched(ItemsOf(o, 1))
    <3>1. ItemsOf(Message(1, S), 1) = S
      BY <1>5, MessageItems
    <3> QED BY <1>1, <1>5, <1>11, <3>1 DEF Shape, Batches
  <2> QED BY <1>1, <1>6, <1>12, <1>14, <2>1 DEF Shape, Batches
<1> QED BY <1>14, <1>15, <1>16, <1>17, <1>18, <1>19, <1>20 DEF Shape

----------------------------------------------------------------------------
(* The steps at which items leave process_item *)

\* The items of R[i] leave input i, for each i.
Lets(R) ==
  /\ kind' = kind /\ from' = from /\ outer' = outer /\ current' = current
  /\ status' = status \/ status' = "idle"
  /\ inv' \in [Input -> InputState]
  /\ \A i \in Input : Leaves(inv[i], R[i], inv'[i])

\* What leaves process_item keeps the windows and where the run resumed.
LEMMA LetsKeeps ==
  ASSUME Shape, NEW R, Lets(R)
  PROVE  Windows' /\ Resumption'
<1>1. Input' = Input
  BY SameInputs DEF Lets
<1>2. \A i \in Input : WindowOf(inv'[i]) /\ inv'[i].next = inv[i].next /\ inv'[i].partials = inv[i].partials
  BY DEF Lets, Leaves
<1>3. Windows'
  BY <1>1, <1>2 DEF Windows
<1>4. Resumption'
  BY <1>1, <1>2 DEF Lets, Shape, Resumption, Known
<1> QED BY <1>3, <1>4

\* LeftIs, for an input of the job.
LEMMA ToLeave ==
  ASSUME Shape, NEW i \in Input, NEW S \in SUBSET inv[i].pending
  PROVE  Leaves(inv[i], S, Left(inv[i], S)) /\ Left(inv[i], S) \in InputState
<1>1. PICK I \in InputState : I = inv[i] /\ WindowOf(I)
  BY DEF Shape, InventoryTypes, Windows
<1>2. PICK J : J = Left(I, S)
  OBVIOUS
<1>3. Leaves(I, S, J)
  BY <1>1, <1>2, LeftIs
<1> QED BY <1>1, <1>2, <1>3 DEF Leaves

\* The cursor of each inventory is a cursor.
LEMMA JobCursorTypes ==
  ASSUME InventoryTypes, NEW invs \in [Input -> InputState], NEW m \in [Input -> Cursor]
  PROVE  JobCursor(invs, m) \in JobCursors
<1>1. \A i \in Input : CursorOf(invs[i]) \in Cursor
  BY DEF CursorOf, InputState, Cursor
<1>2. NoCursor \in Cursor
  BY DEF NoCursor, Cursor
<1>3. CurrentCursor(invs) \in [Input -> Cursor] /\ CursorsOf(invs) \in [Input -> Cursor]
  BY <1>1, <1>2 DEF CurrentCursor, CursorsOf
<1>4. current \in Nat
  BY DEF InventoryTypes
<1> QED BY <1>3, <1>4 DEF JobCursor, JobCursors

\* What the step is made of.
LEMMA LeaveIs ==
  ASSUME Shape, NEW m \in inflight, Leave(m)
  PROVE  \E R, parts :
           /\ R = [i \in Input |-> ItemsOf(m, i)] /\ Lets(R)
           /\ inv' = [i \in Input |-> Left(inv[i], ItemsOf(m, i))]
           /\ parts \in [Input -> Cursor] /\ multi' = parts
           /\ parts = IF kind = "joined" THEN WithSubs(inv', {x[1] : x \in m}) ELSE multi
           /\ cursor' \in {cursor, JobCursor(inv', parts)} /\ cursor' \in JobCursors
<1> DEFINE R == [i \in Input |-> ItemsOf(m, i)]
           invs == [i \in Input |-> Left(inv[i], ItemsOf(m, i))]
           parts == IF kind = "joined" THEN WithSubs(invs, {x[1] : x \in m}) ELSE multi
<1>1. \A i \in Input : ItemsOf(m, i) \subseteq inv[i].pending
  BY DEF Shape, InFlight
<1>2. \A i \in Input : Leaves(inv[i], ItemsOf(m, i), invs[i]) /\ invs[i] \in InputState
  BY <1>1, ToLeave
<1>3. invs \in [Input -> InputState]
  BY <1>2
<1>4. /\ inv' = invs /\ multi' = parts /\ cursor' \in {cursor, JobCursor(invs, parts)}
      /\ kind' = kind /\ from' = from /\ outer' = outer /\ current' = current /\ status' = status
  BY DEF Leave
<1>5. Lets(R)
  BY <1>2, <1>3, <1>4 DEF Lets
<1> HIDE DEF invs
<1>6. parts \in [Input -> Cursor]
  <2>1. \A i \in Input : CursorOf(invs[i]) \in Cursor
    BY <1>3 DEF CursorOf, InputState, Cursor
  <2>2. multi \in [Input -> Cursor]
    BY DEF Shape, InventoryTypes
  <2> QED BY <2>1, <2>2 DEF WithSubs
<1> HIDE DEF parts
<1>7. JobCursor(invs, parts) \in JobCursors /\ cursor \in JobCursors
  BY <1>3, <1>6, JobCursorTypes DEF Shape, InventoryTypes
<1>8. cursor' \in JobCursors
  BY <1>4, <1>7
<1> QED BY <1>4, <1>5, <1>6, <1>8 DEF invs, parts

\* A message is left: its items are in flight in no other message.
LEMMA LeaveKeepsShape ==
  ASSUME Shape, NEW m \in inflight, Leave(m)
  PROVE  Shape'
<1>1. PICK R, parts :
           /\ R = [i \in Input |-> ItemsOf(m, i)] /\ Lets(R)
           /\ inv' = [i \in Input |-> Left(inv[i], ItemsOf(m, i))]
           /\ parts \in [Input -> Cursor] /\ multi' = parts
           /\ parts = (IF kind = "joined" THEN WithSubs(inv', {x[1] : x \in m}) ELSE multi)
           /\ cursor' \in {cursor, JobCursor(inv', parts)} /\ cursor' \in JobCursors
  BY LeaveIs
<1>2. /\ kind' = kind /\ status' = status /\ inflight' = inflight \ {m} /\ left' = left \cup m
      /\ UNCHANGED <<slot, current, outer, taken, active, completion, runs, from>>
      /\ settled' = [i \in Input |-> \/ settled[i]
                                     \/ ItemsOf(m, i) # {} /\ Left(inv[i], ItemsOf(m, i)).pending = {}]
  BY DEF Leave
<1>3. Input' = Input /\ AllItems' = AllItems /\ JobCursors' = JobCursors
  BY <1>2, SameInputs
<1>4. Windows' /\ Resumption'
  BY <1>1, LetsKeeps
<1>5. /\ inv' \in [Input -> InputState]
      /\ \A i \in Input : /\ inv'[i].pending = inv[i].pending \ ItemsOf(m, i)
                         /\ inv'[i].next = inv[i].next
  BY <1>1 DEF Lets, Leaves
<1>6. InventoryTypes'
  <2>1. settled' \in [Input -> BOOLEAN]
    BY <1>2
  <2>2. inflight' \in SUBSET SUBSET AllItems /\ left' \in SUBSET AllItems
    BY <1>2 DEF Shape, InventoryTypes
  <2> QED BY <1>1, <1>2, <1>3, <1>5, <2>1, <2>2 DEF Shape, InventoryTypes
<1>7. InFlight'
  <2>1. \A o \in inflight' : o \in inflight /\ o # m /\ o \cap m = {}
    BY <1>2 DEF Shape, InFlight
  <2>2. ASSUME NEW o \in inflight', NEW i \in Input PROVE ItemsOf(o, i) \subseteq inv'[i].pending
    <3>1. ItemsOf(o, i) \subseteq inv[i].pending
      BY <2>1 DEF Shape, InFlight
    <3>2. ItemsOf(o, i) \cap ItemsOf(m, i) = {}
      <4> SUFFICES ASSUME NEW n \in ItemsOf(o, i), n \in ItemsOf(m, i) PROVE FALSE
        OBVIOUS
      <4>1. PICK x \in o : x[1] = i /\ x[2] = n
        BY DEF ItemsOf
      <4>2. PICK y \in m : y[1] = i /\ y[2] = n
        BY DEF ItemsOf
      <4>3. x = y
        <5>1. x \in AllItems /\ y \in AllItems
          BY <2>1 DEF Shape, InventoryTypes
        <5>2. x = <<x[1], x[2]>> /\ y = <<y[1], y[2]>>
          BY <5>1 DEF AllItems
        <5> QED BY <4>1, <4>2, <5>2
      <4> QED BY <2>1, <4>3
    <3> QED BY <1>5, <3>1, <3>2
  <2>3. ASSUME status' # "idle" \/ inflight' # {}, NEW i \in Input \ {0}, NEW n \in inv'[i].pending
        PROVE  \E o \in inflight' : <<i, n>> \in o
    <3>1. n \in inv[i].pending /\ n \notin ItemsOf(m, i)
      BY <1>5
    <3>2. PICK o \in inflight : <<i, n>> \in o
      BY <1>2, <2>1, <2>3, <3>1 DEF Shape, InFlight
    <3>3. o # m
      <4>1. <<i, n>>[1] = i /\ <<i, n>>[2] = n
        OBVIOUS
      <4>2. n \in ItemsOf(o, i)
        BY <3>2, <4>1 DEF ItemsOf
      <4> QED BY <3>1, <4>2
    <3> QED BY <1>2, <3>2, <3>3
  <2> QED BY <1>3, <2>1, <2>2, <2>3 DEF Shape, InFlight
<1>8. Events'
  <2> SUFFICES ASSUME NEW i \in Input \ {0}, settled'[i] PROVE inv'[i].pending = {}
    BY <1>3 DEF Events
  <2>1. settled'[i] <=> settled[i] \/ (ItemsOf(m, i) # {} /\ Left(inv[i], ItemsOf(m, i)).pending = {})
    BY <1>2
  <2>2. CASE settled[i]
    BY <1>5, <2>2 DEF Shape, Events
  <2>3. CASE Left(inv[i], ItemsOf(m, i)).pending = {}
    BY <1>1, <2>3
  <2> QED BY <2>1, <2>2, <2>3
<1>9. Generators' /\ Chain'
  BY <1>2, <1>3, <1>5 DEF Shape, Generators, Chain
<1>10. Join'
  <2>1. kind = "joined" => ItemsOf(m, 0) = {} /\ 0 \in Input
    <3>1. PICK i \in Input \ {0} : MessageOf(m, i)
      BY DEF Shape, InFlight
    <3>2. ItemsOf(m, i) # {}
      BY <3>1 DEF MessageOf, Message
    <3>3. ItemsOf(m, 0) = {}
      BY <3>1, <3>2, MessageItems DEF MessageOf
    <3> QED BY <3>3, InputFacts DEF Shape, InventoryTypes
  <2>2. kind = "joined" => inv'[0].pending = inv[0].pending
    BY <1>5, <2>1
  <2> QED BY <1>2, <1>3, <2>2 DEF Shape, Join
<1>11. Batches'
  <2> SUFFICES ASSUME kind = "batching" PROVE Batches'
    BY <1>2 DEF Batches
  <2>1. Input = {1}
    BY InputFacts DEF Shape, InventoryTypes
  <2>2. PICK I \in InputState : I = inv[1] /\ WindowOf(I)
    BY <2>1 DEF Shape, InventoryTypes, Windows
  <2>3. PICK S \in SUBSET I.pending : S = ItemsOf(m, 1)
    BY <2>1, <2>2 DEF Shape, InFlight
  <2>4. PICK J : J = Left(I, S) /\ J = inv'[1]
    BY <1>1, <2>1, <2>2, <2>3
  <2>5. Batched(I.pending) /\ Batched(I.kept) /\ Batched(S) /\ Aligned(I.after) /\ I.partials = {}
    BY <2>2, <2>3 DEF Shape, Batches
  <2>6. Batched(J.kept) /\ Batched(J.pending) /\ Aligned(J.after)
    BY <2>2, <2>3, <2>4, <2>5, LeftBatches
  <2>7. J.partials = {} /\ J.next = I.next
    BY <2>2, <2>3, <2>4, <2>5, LeftIs DEF Leaves
  <2>8. Aligned(cursor'.of[1].after) /\ Batched(cursor'.of[1].partials)
    <3>1. CASE cursor' = cursor
      BY <3>1 DEF Shape, Batches
    <3>2. CASE cursor' = JobCursor(inv', parts)
      <4>1. cursor'.of[1] = CursorOf(inv'[1])
        BY <2>1, <3>2 DEF JobCursor, CursorsOf
      <4>2. cursor'.of[1].after = J.after /\ cursor'.of[1].partials = J.kept
        BY <2>4, <2>7, <4>1 DEF CursorOf
      <4> QED BY <2>6, <4>2
    <3> QED BY <1>1, <3>1, <3>2
  <2>9. \A o \in inflight' : Batched(ItemsOf(o, 1))
    BY <1>2 DEF Shape, Batches
  <2> QED BY <1>2, <2>2, <2>4, <2>6, <2>7, <2>8, <2>9 DEF Shape, Batches
<1> QED BY <1>4, <1>6, <1>7, <1>8, <1>9, <1>10, <1>11 DEF Shape

\* The items of R leave the root.
LEMMA LeaveRootIs ==
  ASSUME Shape, kind = "joined", status # "idle", NEW R \in SUBSET active, LeaveRoot(R),
         kind' = kind, from' = from, outer' = outer, current' = current,
         status' = status \/ status' = "idle", inflight' = inflight, settled' = settled,
         cursor' = cursor
  PROVE  /\ Windows' /\ Resumption' /\ InFlight' /\ Events' /\ Batches'
         /\ inv' \in [Input -> InputState] /\ multi' \in [Input -> Cursor]
         /\ inv'[0] = Left(inv[0], R) /\ inv'[0].pending = inv[0].pending \ R
         /\ inv'[0].next = inv[0].next
         /\ \A i \in Input \ {0} : inv'[i] = inv[i]
<1>1. Input' = Input
  BY SameInputs
<1>2. 0 \in Input /\ inv \in [Input -> InputState] /\ R \in SUBSET inv[0].pending
  BY InputFacts DEF Shape, InventoryTypes, Join
<1>3. PICK J : J = Left(inv[0], R)
  OBVIOUS
<1>4. Leaves(inv[0], R, J) /\ J \in InputState
  BY <1>2, <1>3, ToLeave
<1>5. /\ inv' = [inv EXCEPT ![0] = J] /\ active' = active \ R
      /\ multi' = [i \in Input |-> IF i = 0 THEN CursorOf(J)
                                  ELSE IF i \in R THEN NoCursor ELSE multi[i]]
  BY <1>3 DEF LeaveRoot
<1>6. /\ inv' \in [Input -> InputState] /\ inv'[0] = J
      /\ \A i \in Input \ {0} : inv'[i] = inv[i]
  BY <1>2, <1>4, <1>5
<1>7. PICK S : S = [i \in Input |-> IF i = 0 THEN R ELSE {}]
  OBVIOUS
<1>8. Lets(S)
  <2>1. ASSUME NEW i \in Input PROVE Leaves(inv[i], S[i], inv'[i])
    <3>1. CASE i = 0
      BY <1>4, <1>6, <1>7, <3>1
    <3>2. CASE i # 0
      <4>1. S[i] = {} /\ inv'[i] = inv[i] /\ inv[i] \in InputState /\ WindowOf(inv[i])
        BY <1>2, <1>6, <1>7, <3>2 DEF Shape, Windows
      <4> QED BY <4>1 DEF Leaves
    <3> QED BY <3>1, <3>2
  <2> QED BY <1>6, <2>1 DEF Lets
<1>9. Windows' /\ Resumption'
  BY <1>8, LetsKeeps
<1>10. multi' \in [Input -> Cursor]
  <2>1. CursorOf(J) \in Cursor /\ NoCursor \in Cursor /\ multi \in [Input -> Cursor]
    BY <1>4 DEF CursorOf, NoCursor, Cursor, InputState, Shape, InventoryTypes
  <2> QED BY <1>5, <2>1
<1>11. J.pending = inv[0].pending \ R /\ J.next = inv[0].next
  BY <1>4 DEF Leaves
<1>12. InFlight'
  <2>1. ASSUME NEW m \in inflight PROVE ItemsOf(m, 0) = {}
    <3>1. PICK i \in Input \ {0} : MessageOf(m, i)
      BY DEF Shape, InFlight
    <3>2. ItemsOf(m, i) # {}
      BY <3>1 DEF MessageOf, Message
    <3> QED BY <3>1, <3>2, MessageItems DEF MessageOf
  <2>2. \A m \in inflight : \A i \in Input : ItemsOf(m, i) \subseteq inv'[i].pending
    BY <1>6, <2>1 DEF Shape, InFlight
  <2> QED BY <1>1, <1>6, <2>2 DEF Shape, InFlight
<1>13. Events' /\ Batches'
  BY <1>1, <1>6 DEF Shape, Events, Batches
<1> QED BY <1>3, <1>6, <1>9, <1>10, <1>11, <1>12, <1>13

\* An item of the root leaves process_item when its inventory is over.
LEMMA RootDoneKeeps ==
  ASSUME Shape, NEW r \in Input, RootDone(r)
  PROVE  Shape'
<1>1. /\ kind' = kind /\ status' = status /\ status = "running" /\ r \in active
      /\ UNCHANGED <<slot, settled, current, outer, taken, inflight, cursor, completion, runs,
                     from, left>>
      /\ LeaveRoot({r}) /\ active' = active \ {r}
  BY DEF RootDone, LeaveRoot, jobVars
<1>2. Input' = Input /\ AllItems' = AllItems /\ JobCursors' = JobCursors
  BY <1>1, SameInputs
<1>3. kind = "joined"
  BY <1>1 DEF Shape, Join
<1>4. {r} \in SUBSET active
  BY <1>1
<1>5. /\ Windows' /\ Resumption' /\ InFlight' /\ Events' /\ Batches'
      /\ inv' \in [Input -> InputState] /\ multi' \in [Input -> Cursor]
      /\ inv'[0].pending = inv[0].pending \ {r} /\ inv'[0].next = inv[0].next
      /\ \A i \in Input \ {0} : inv'[i] = inv[i]
  BY <1>1, <1>3, <1>4, LeaveRootIs
<1>6. InventoryTypes'
  BY <1>1, <1>2, <1>5 DEF Shape, InventoryTypes
<1>7. Generators' /\ Chain'
  BY <1>1, <1>2, <1>3, <1>5 DEF Shape, Generators, Chain
<1>8. Join'
  BY <1>1, <1>2, <1>3, <1>5 DEF Shape, Join
<1> QED BY <1>5, <1>6, <1>7, <1>8 DEF Shape

\* A joined inventory is closed, with the items of the root it is at.
LEMMA CloseJoinKeeps ==
  ASSUME Shape, CloseJob, kind = "joined"
  PROVE  Shape'
<1>1. /\ kind' = kind /\ status' = "idle" /\ status = "running"
      /\ UNCHANGED <<settled, current, outer, inflight, cursor, completion, runs, from, left>>
      /\ LeaveRoot(active) /\ active' = {} /\ taken' = 0 /\ slot' = [i \in Input |-> "ended"]
  BY DEF CloseJob, StopJoin, LeaveRoot, jobVars
<1>2. Input' = Input /\ AllItems' = AllItems /\ JobCursors' = JobCursors
  BY <1>1, SameInputs
<1>3. /\ Windows' /\ Resumption' /\ InFlight' /\ Events' /\ Batches'
      /\ inv' \in [Input -> InputState] /\ multi' \in [Input -> Cursor]
  BY <1>1, LeaveRootIs
<1>4. InventoryTypes'
  BY <1>1, <1>2, <1>3 DEF Shape, InventoryTypes
<1>5. Generators' /\ Chain' /\ Join'
  BY <1>1 DEF Shape, Generators, Chain, Join
<1> QED BY <1>3, <1>4, <1>5 DEF Shape

----------------------------------------------------------------------------
(* The start of a run *)

\* A run that starts is where its cursor says, with nothing in flight.
LEMMA StartKeeps ==
  ASSUME Shape, Start
  PROVE  Shape'
<1>1. /\ kind' = kind /\ status' = "running" /\ inflight = {} /\ status = "idle"
      /\ UNCHANGED <<taken, active, inflight, cursor, completion, left>>
      /\ runs' = runs + 1 /\ from' = cursor
      /\ inv' = [i \in Input |-> Began(i)]
      /\ slot' = [i \in Input |-> IF i \in StartInputs THEN "running" ELSE "none"]
      /\ settled' = [i \in Input |-> FALSE]
      /\ current' = Resume /\ multi' = cursor.of
      /\ outer' = IF kind = "batching" THEN cursor.of[1].partials ELSE {}
  BY DEF Start
<1>2. Input' = Input /\ AllItems' = AllItems /\ JobCursors' = JobCursors
  BY <1>1, SameInputs
<1>3. /\ cursor \in JobCursors /\ cursor.of \in [Input -> Cursor] /\ cursor.current \in Nat
      /\ \A i \in Input : cursor.of[i].after \in Nat /\ cursor.of[i].partials \in SUBSET Nat
  BY DEF Shape, InventoryTypes, JobCursors, Cursor
<1>4. ASSUME NEW i \in Input
      PROVE  /\ Began(i) \in InputState
             /\ Began(i).pending = {} /\ Began(i).kept = {}
             /\ Began(i).after = cursor.of[i].after
             /\ Began(i).partials = IF kind = "batching" THEN {} ELSE cursor.of[i].partials
             /\ Began(i).next + (IF kind = "loop" THEN 1 ELSE 0) >= cursor.of[i].after
             /\ Began(i).next <= cursor.of[i].after /\ cursor.of[i].after <= Began(i).next + 1
             /\ kind # "loop" => Began(i).next = cursor.of[i].after
  <2> DEFINE s == StartCursor(i)
  <2>1. /\ s \in Cursor /\ s.after = cursor.of[i].after
        /\ s.partials = IF kind = "batching" THEN {} ELSE cursor.of[i].partials
    BY <1>3 DEF StartCursor, Cursor
  <2>2. PICK n \in Nat : n = s.after
    BY <1>3, <2>1
  <2> HIDE DEF s
  <2>3. Resumed(s) = [next |-> n, after |-> n, partials |-> s.partials, pending |-> {}, kept |-> {}]
    BY <2>2 DEF Resumed
  <2>4. s.partials \in SUBSET Nat
    BY <2>1 DEF Cursor
  <2>5. CASE kind = "loop" /\ n > 0
    <3>1. Began(i) = [Resumed(s) EXCEPT !.next = n - 1]
      BY <2>1, <2>2, <2>3, <2>5 DEF Began, s
    <3>2. Began(i) = [next |-> n - 1, after |-> n, partials |-> s.partials, pending |-> {}, kept |-> {}]
      BY <2>3, <3>1
    <3>3. n - 1 \in Nat
      BY <2>5
    <3> QED BY <2>1, <2>2, <2>4, <2>5, <3>2, <3>3 DEF InputState
  <2>6. CASE ~ (kind = "loop" /\ n > 0)
    <3>1. Began(i) = Resumed(s)
      BY <2>1, <2>2, <2>6 DEF Began, s
    <3> QED BY <2>1, <2>2, <2>3, <2>4, <2>6, <3>1 DEF InputState
  <2> QED BY <2>5, <2>6
<1>5. inv' \in [Input -> InputState] /\ \A i \in Input : inv'[i] = Began(i)
  BY <1>1, <1>4
<1>6. current' \in Nat /\ (kind = "chained" => 1 <= current' /\ cursor.current <= current')
  BY <1>1, <1>3 DEF Resume
<1>7. InventoryTypes'
  <2>1. outer' \in SUBSET Nat
    BY <1>1, <1>3, InputFacts DEF Shape, InventoryTypes
  <2> QED BY <1>1, <1>2, <1>3, <1>5, <1>6, <2>1 DEF Shape, InventoryTypes
<1>8. Windows'
  <2> SUFFICES ASSUME NEW i \in Input PROVE WindowOf(inv'[i])
    BY <1>2 DEF Windows
  <2>1. PICK I \in InputState : I = inv'[i]
    BY <1>5
  <2>2. /\ I.pending = {} /\ I.kept = {} /\ I.next <= I.after /\ I.after <= I.next + 1
        /\ I.next \in Nat /\ I.after \in Nat
    BY <1>4, <1>5, <2>1 DEF InputState
  <2>3. WindowOf(I)
    BY <2>2 DEF WindowOf
  <2> QED BY <2>1, <2>3
<1>9. InFlight' /\ Events'
  BY <1>1, <1>2, <1>4, <1>5 DEF InFlight, Events
<1>10. Resumption'
  <2>1. \A i \in Input : \A p \in cursor.of[i].partials : p \in Known(i)'
    BY <1>1, <1>4, <1>5, InputFacts DEF Known, Shape, InventoryTypes
  <2>2. kind = "batching" => outer' \subseteq cursor.of[1].partials
    BY <1>1
  <2> QED BY <1>1, <1>2, <1>4, <1>5, <2>1, <2>2 DEF Resumption
<1>11. Generators'
  <2>1. kind \in {"fanin", "batching", "loop"} => StartInputs = Input
    BY DEF StartInputs
  <2> QED BY <1>1, <1>2, <2>1 DEF Generators
<1>12. Chain'
  <2> SUFFICES ASSUME kind = "chained" PROVE Chain'
    BY <1>1 DEF Chain
  <2>1. StartInputs = {current'}
    BY <1>1 DEF StartInputs
  <2>2. \A i \in Input : slot'[i] = IF i = current' THEN "running" ELSE "none"
    BY <1>1, <2>1
  <2>3. from'.current <= current'
    BY <1>1, <1>6
  <2> QED BY <1>2, <1>6, <2>2, <2>3 DEF Chain
<1>13. Join'
  <2>1. CASE kind = "joined"
    <3>1. 0 \in Input /\ StartInputs = {0}
      BY <2>1, InputFacts DEF Shape, InventoryTypes, StartInputs
    <3>2. taken = 0 /\ active = {}
      BY <1>1, <2>1 DEF Shape, Join
    <3> QED BY <1>1, <1>2, <1>4, <1>5, <2>1, <3>1, <3>2 DEF Join
  <2>2. CASE kind # "joined"
    BY <1>1, <2>2 DEF Shape, Join
  <2> QED BY <2>1, <2>2
<1>14. Batches'
  <2> SUFFICES ASSUME kind = "batching" PROVE Batches'
    BY <1>1 DEF Batches
  <2>1. 1 \in Input
    BY InputFacts DEF Shape, InventoryTypes
  <2>2. Batched({})
    BY DEF Batched
  <2> QED BY <1>1, <1>4, <1>5, <2>1, <2>2 DEF Shape, Batches
<1> QED BY <1>7, <1>8, <1>9, <1>10, <1>11, <1>12, <1>13, <1>14 DEF Shape

----------------------------------------------------------------------------
(* The shape of the runs *)

\* Nothing has run at first.
LEMMA InitShape == InitInventory => Shape
<1> SUFFICES ASSUME InitInventory PROVE Shape
  OBVIOUS
<1>1. /\ kind \in Kinds /\ status = "idle" /\ inflight = {} /\ left = {}
      /\ inv = [i \in Input |-> Resumed(NoCursor)]
      /\ slot = [i \in Input |-> "none"] /\ settled = [i \in Input |-> FALSE]
      /\ current = 0 /\ outer = {} /\ taken = 0 /\ active = {}
      /\ multi = [i \in Input |-> NoCursor]
      /\ cursor = Nothing /\ from = Nothing /\ completion = "none" /\ runs = 0
  BY DEF InitInventory
<1>2. Resumed(NoCursor) = [next |-> 0, after |-> 0, partials |-> {}, pending |-> {}, kept |-> {}]
  BY DEF Resumed, NoCursor
<1>3. NoCursor \in Cursor /\ Resumed(NoCursor) \in InputState
  BY <1>2 DEF NoCursor, Cursor, InputState
<1>4. Nothing \in JobCursors /\ Nothing.of = [i \in Input |-> NoCursor]
  BY <1>3 DEF Nothing, JobCursors
<1>5. InventoryTypes
  BY <1>1, <1>3, <1>4 DEF InventoryTypes
<1>6. Windows
  <2>1. WindowOf(Resumed(NoCursor))
    <3>1. PICK I : I = Resumed(NoCursor)
      OBVIOUS
    <3>2. I.next = 0 /\ I.after = 0 /\ I.pending = {} /\ I.kept = {}
      BY <1>2, <3>1
    <3>3. WindowOf(I)
      BY <3>2 DEF WindowOf
    <3> QED BY <3>1, <3>3
  <2> QED BY <1>1, <2>1 DEF Windows
<1>7. InFlight /\ Events /\ Resumption /\ Generators /\ Chain /\ Join
  BY <1>1 DEF InFlight, Events, Resumption, Generators, Chain, Join
<1>8. Batches
  <2> SUFFICES ASSUME kind = "batching" PROVE Batches
    BY DEF Batches
  <2>1. 1 \in Input
    BY <1>1, InputFacts
  <2>2. Batched({}) /\ Aligned(0)
    BY FirstBoundary DEF Batched, Aligned
  <2>3. /\ inv[1] = Resumed(NoCursor) /\ cursor.of[1] = NoCursor /\ from.of[1] = NoCursor
    BY <1>1, <1>4, <2>1
  <2>4. NoCursor.after = 0 /\ NoCursor.partials = {}
    BY DEF NoCursor
  <2>5. /\ inv[1].next = 0 /\ inv[1].after = 0
        /\ inv[1].partials = {} /\ inv[1].pending = {} /\ inv[1].kept = {}
    BY <1>2, <2>3
  <2>6. /\ cursor.of[1].after = 0
        /\ cursor.of[1].partials = {} /\ from.of[1].partials = {}
    BY <2>3, <2>4
  <2>7. inflight = {}
    BY <1>1
  <2> QED BY <2>2, <2>5, <2>6, <2>7 DEF Batches
<1> QED BY <1>5, <1>6, <1>7, <1>8 DEF Shape

\* One case per action.
LEMMA NextShape == Shape /\ [NextInventory]_inventoryVars => Shape'
<1> SUFFICES ASSUME Shape, [NextInventory]_inventoryVars PROVE Shape'
  OBVIOUS
<1>1. CASE Start
  BY <1>1, StartKeeps
<1>2. CASE YieldBatch
  BY <1>2, YieldBatchKeeps
<1>3. CASE TakeRoot
  BY <1>3, TakeRootKeeps
<1>4. CASE AddSub
  BY <1>4, AddSubKeeps
<1>5. CASE Complete \/ JobFails \/ Crash
  BY <1>5, StopKeeps
<1>6. CASE CloseJob
  BY <1>6, StopKeeps, CloseJoinKeeps
<1>7. CASE \E i \in Input : YieldItem(i) \/ EndInput(i) \/ RootDone(i)
  BY <1>7, YieldItemKeeps, EndInputKeeps, RootDoneKeeps
<1>8. CASE \E m \in inflight : Leave(m)
  BY <1>8, LeaveKeepsShape
<1>9. CASE StopLoop
  BY <1>9, StopLoopKeeps
<1>10. CASE \E i \in Input : InputFails(i) \/ FanInFails(i) \/ YieldReady(i)
  BY <1>10, FailsKeeps, YieldReadyKeeps
<1>11. CASE UNCHANGED inventoryVars
  <2>1. /\ UNCHANGED <<kind, status, inv, slot, settled, current, outer, taken, active, multi,
                       inflight, cursor, completion, runs, from, left>>
    BY <1>11 DEF inventoryVars, inputVars, joinVars, jobVars
  <2>2. Input' = Input /\ AllItems' = AllItems /\ JobCursors' = JobCursors
    BY <2>1, SameInputs
  <2>3. InventoryTypes'
    BY <2>1, <2>2 DEF Shape, InventoryTypes
  <2>4. Generators' /\ Chain' /\ Join' /\ Events'
    BY <2>1, <2>2 DEF Shape, Generators, Chain, Join, Events
  <2>5. Quiet
    BY <2>1 DEF Quiet
  <2> QED BY <2>3, <2>4, <2>5, QuietKeeps DEF Shape
<1> QED BY <1>1, <1>2, <1>3, <1>4, <1>5, <1>6, <1>7, <1>8, <1>9, <1>10, <1>11
        DEF NextInventory, Step, Fault

\* A run of a job keeps the shape that the invariants below rest on, with every fault.
THEOREM InventoryShape == InventorySpec => []Shape
<1> QED BY InitShape, NextShape, PTL DEF InventorySpec

----------------------------------------------------------------------------
(* Nothing is yielded twice *)

\* Steps that yield nothing yield nothing twice.
LEMMA NothingNew ==
  ASSUME NothingTwice, kind' = kind, from' = from, inflight' \subseteq inflight
  PROVE  NothingTwice'
<1>1. CoveredBy(from)' = CoveredBy(from)
  BY SameInputs DEF CoveredBy
<1> QED BY <1>1 DEF NothingTwice

\* The next item of an input is one that the cursor of the run does not go past.
LEMMA NextIsNew ==
  ASSUME Shape, status # "idle", kind # "batching", NEW i \in Input \ {0}, CanYield(i),
         Next1(i) \notin inv[i].partials, <<i, Next1(i)>> \in CoveredBy(from)
  PROVE  kind = "loop" /\ Next1(i) = from.of[1].after
<1>1. PICK n : n = Next1(i)
  OBVIOUS
<1>2. /\ n = inv[i].next + 1 /\ inv[i].next \in Nat /\ n \notin inv[i].partials
      /\ slot[i] = "running" /\ kind \in Kinds /\ i \in Nat
      /\ from.of[i].after \in Nat /\ from.of[i].partials \in SUBSET Nat
      /\ from.current \in Nat /\ current \in Nat
  <2>1. inv[i] \in InputState /\ from \in JobCursors /\ kind \in Kinds /\ current \in Nat
    BY DEF Shape, InventoryTypes
  <2>2. from.of[i] \in Cursor /\ from.current \in Nat
    BY <2>1 DEF JobCursors
  <2> QED BY <1>1, <2>1, <2>2, InputFacts DEF CanYield, Next1, InputState, Cursor
<1>3. /\ inv[i].next + (IF kind = "loop" THEN 1 ELSE 0) >= from.of[i].after
      /\ \A p \in from.of[i].partials : p > inv[i].next => p \in inv[i].partials
  BY DEF Shape, Resumption, Known
<1>4. n \notin from.of[i].partials
  BY <1>2, <1>3
<1>5. Covers(from.of[i], n)
  <2>1. ~ (kind = "chained" /\ i < from.current)
    <3> SUFFICES ASSUME kind = "chained" PROVE ~ (i < from.current)
      OBVIOUS
    <3>1. i = current /\ from.current <= current
      BY <1>2 DEF Shape, Chain
    <3> QED BY <1>2, <3>1
  <2>2. ~ (kind = "joined" /\ Covers(from.of[0], i))
    BY <1>2 DEF Shape, Join
  <2> QED BY <1>1, <2>1, <2>2 DEF CoveredBy
<1>6. n <= from.of[i].after
  BY <1>4, <1>5 DEF Covers
<1>7. kind = "loop"
  BY <1>2, <1>3, <1>6
<1>8. n = from.of[i].after
  BY <1>2, <1>3, <1>6, <1>7
<1>9. i = 1
  BY <1>7, <1>2, InputFacts
<1> QED BY <1>1, <1>7, <1>8, <1>9

\* The next batch that the run does not know to be done has no item that its cursor
\* goes past.
LEMMA BatchIsNew ==
  ASSUME Shape, status # "idle", kind = "batching", CanYield(1), NEW S,
         S = {n \in Items(1) : inv[1].next < n /\ n <= inv[1].next + BatchSize},
         Max(S) \notin outer
  PROVE  Message(1, S) \cap CoveredBy(from) = {}
<1> SUFFICES ASSUME NEW x \in S, <<1, x>> \in CoveredBy(from) PROVE FALSE
  BY DEF Message
<1>1. 1 \in Input /\ inv[1] \in InputState /\ from.of[1] \in Cursor
  BY InputFacts DEF Shape, InventoryTypes, JobCursors
<1>2. /\ inv[1].next \in Nat /\ from.of[1].after \in Nat /\ from.of[1].partials \in SUBSET Nat
  BY <1>1 DEF InputState, Cursor
<1>3. PICK m \in Nat : m > inv[1].next /\ S = (inv[1].next + 1) .. m /\ Max(S) = m
  BY NextBatch
<1>4. /\ inv[1].next >= from.of[1].after
      /\ \A p \in from.of[1].partials : p > inv[1].next => p \in outer
  BY <1>1, <1>2 DEF Shape, Resumption, Known
<1>5. x \in Nat /\ x > inv[1].next
  BY <1>2, <1>3
<1>6. Covers(from.of[1], x)
  BY DEF CoveredBy
<1>7. x \in from.of[1].partials
  BY <1>2, <1>4, <1>5, <1>6 DEF Covers
<1>8. PICK b \in Nat : Boundary(b) /\ x \in Batch(b) /\ Batch(b) \subseteq from.of[1].partials
  BY <1>7 DEF Shape, Batches, Batched
<1>9. PICK a \in Nat : Boundary(a) /\ S = Batch(a)
  <2>1. \E a \in Nat : Boundary(a) /\ S = Batch(a)
    BY NextBatch DEF Boundary
  <2> QED BY <2>1
<1>10. a = b
  <2>1. x \in Batch(a)
    BY <1>9
  <2> QED BY <1>8, <1>9, <2>1, SameBatch
<1>11. m \in from.of[1].partials
  BY <1>2, <1>3, <1>8, <1>9, <1>10
<1> QED BY <1>3, <1>4, <1>11

\* Only YieldItem, YieldReady and YieldBatch yield.
LEMMA NextNothingTwice ==
  ASSUME Shape, NothingTwice, [NextInventory]_inventoryVars
  PROVE  NothingTwice'
<1> DEFINE Twice(x) == kind = "loop" /\ x[2] = from.of[1].after
<1>1. ASSUME NEW i \in Input \ {0}, NEW m, m = Message(i, {Next1(i)}), CanYield(i),
             status # "idle", kind # "batching", Next1(i) \notin inv[i].partials,
             kind' = kind, from' = from, inflight' = inflight \cup {m}
      PROVE  NothingTwice'
  <2>1. CoveredBy(from)' = CoveredBy(from)
    BY <1>1, SameInputs DEF CoveredBy
  <2>2. ASSUME NEW x \in m \cap CoveredBy(from) PROVE Twice(x)
    <3>1. x = <<i, Next1(i)>>
      BY <1>1 DEF Message
    <3>2. kind = "loop" /\ Next1(i) = from.of[1].after
      BY <1>1, <3>1, NextIsNew
    <3> QED BY <3>1, <3>2
  <2> QED BY <1>1, <2>1, <2>2 DEF NothingTwice
<1>2. CASE \E i \in Input : YieldItem(i) \/ YieldReady(i)
  <2>1. PICK i \in Input : YieldItem(i) \/ YieldReady(i)
    BY <1>2
  <2>2. CASE inflight' = inflight
    BY <2>1, <2>2, NothingNew DEF YieldItem, YieldReady, jobVars
  <2>3. CASE inflight' # inflight
    <3>1. /\ CanYield(i) /\ status # "idle" /\ kind' = kind /\ from' = from
          /\ Next1(i) \notin inv[i].partials
          /\ inflight' = inflight \cup {Message(i, {Next1(i)})}
      BY <2>1, <2>3 DEF YieldItem, YieldReady, jobVars
    <3>2. kind # "batching" /\ i # 0
      <4>1. CASE YieldItem(i)
        BY <4>1 DEF YieldItem
      <4>2. CASE YieldReady(i)
        <5>1. kind = "fanin"
          BY <4>2 DEF YieldReady, Shape, Generators
        <5> QED BY <5>1, InputFacts DEF Shape, InventoryTypes
      <4> QED BY <2>1, <4>1, <4>2
    <3>3. i \in Input \ {0}
      BY <3>2
    <3> QED BY <1>1, <3>1, <3>2, <3>3
  <2> QED BY <2>2, <2>3
<1>3. CASE YieldBatch
  <2>1. /\ kind = "batching" /\ status # "idle" /\ CanYield(1) /\ kind' = kind /\ from' = from
    BY <1>3 DEF YieldBatch, jobVars
  <2>2. PICK S : S = {n \in Items(1) : inv[1].next < n /\ n <= inv[1].next + BatchSize}
    OBVIOUS
  <2>3. CASE Max(S) \in outer
    BY <1>3, <2>1, <2>2, <2>3, NothingNew DEF YieldBatch
  <2>4. CASE Max(S) \notin outer
    <3>1. inflight' = inflight \cup {Message(1, S)}
      BY <1>3, <2>2, <2>4 DEF YieldBatch
    <3>2. Message(1, S) \cap CoveredBy(from) = {}
      BY <2>1, <2>2, <2>4, BatchIsNew
    <3>3. CoveredBy(from)' = CoveredBy(from)
      BY <2>1, SameInputs DEF CoveredBy
    <3> QED BY <2>1, <3>1, <3>2, <3>3 DEF NothingTwice
  <2> QED BY <2>3, <2>4
<1>4. CASE Start
  BY <1>4 DEF Start, NothingTwice
<1>5. CASE \/ TakeRoot \/ AddSub \/ Complete \/ JobFails \/ StopLoop \/ CloseJob \/ Crash
           \/ UNCHANGED inventoryVars
  <2>1. kind' = kind /\ from' = from /\ inflight' \subseteq inflight
    BY <1>5 DEF TakeRoot, AddSub, Complete, JobFails, StopLoop, CloseJob, Crash, jobVars,
                inventoryVars
  <2> QED BY <2>1, NothingNew
<1>6. CASE \E i \in Input : EndInput(i) \/ RootDone(i) \/ InputFails(i) \/ FanInFails(i)
  <2>1. kind' = kind /\ from' = from /\ inflight' \subseteq inflight
    BY <1>6 DEF EndInput, RootDone, InputFails, FanInFails, Raises, jobVars
  <2> QED BY <2>1, NothingNew
<1>7. CASE \E m \in inflight : Leave(m)
  <2>1. kind' = kind /\ from' = from /\ inflight' \subseteq inflight
    BY <1>7 DEF Leave
  <2> QED BY <2>1, NothingNew
<1> QED BY <1>2, <1>3, <1>4, <1>5, <1>6, <1>7 DEF NextInventory, Step, Fault

\* A run yields nothing that the cursor it started at goes past, but for the last
\* iteration of a loop, whatever the inventory is made of and whatever goes wrong: the
\* iterate methods of inventories/ take apart the cursor that their cursor property made.
THEOREM YieldedOnce == InventorySpec => []NothingTwice
<1>1. InitInventory => NothingTwice
  BY DEF InitInventory, NothingTwice
<1>2. Shape /\ NothingTwice /\ [NextInventory]_inventoryVars => NothingTwice'
  BY NextNothingTwice
<1> QED BY <1>1, <1>2, InventoryShape, PTL DEF InventorySpec

----------------------------------------------------------------------------
(* Nothing is lost *)

\* The faults after which the code does go past what was not done: a chained inventory
\* forgets what was in flight of the inputs before the current one when the worker
\* dies, and the close of a joined one counts the items of the root that it is at as
\* done.
LosslessFaults == <<"chained", "crash">> \notin Faults /\ <<"joined", "close">> \notin Faults

\* Item n of input i is in L, the items left; for an item of the root, all those of
\* its inventory.
Done(L, i, n) == IF i = 0 THEN n \in Input \ {0} /\ Message(n, Items(n)) \subseteq L
                 ELSE <<i, n>> \in L

Sound(L, i, c) == \A n \in (1 .. c.after) \cup c.partials : Done(L, i, n)

\* What any cursor, stored or to come, goes past was left.
SoundCursors ==
  \A i \in Input : /\ Sound(left, i, CursorOf(inv[i])) /\ Sound(left, i, multi[i])
                   /\ Sound(left, i, cursor.of[i]) /\ Sound(left, i, from.of[i])

\* The inputs that the chained inventory is past were left or are in flight.
ChainLeft ==
  kind = "chained" =>
    \A i \in Input : i < current \/ i < cursor.current =>
      Message(i, Items(i)) \subseteq left \cup UNION inflight

Completion == (completion # "none" => status = "ended") /\ GoesOverAll

\* What was left stays left.
LEMMA SoundGrows ==
  ASSUME NEW L, NEW K, L \subseteq K, NEW i, NEW c, Sound(L, i, c)
  PROVE  Sound(K, i, c)
BY DEF Sound, Done

\* Sound cursors of the next state.
LEMMA SoundNext ==
  ASSUME kind' = kind,
         \A i \in Input : /\ Sound(left', i, CursorOf(inv'[i])) /\ Sound(left', i, multi'[i])
                          /\ Sound(left', i, cursor'.of[i]) /\ Sound(left', i, from'.of[i])
  PROVE  SoundCursors'
<1>1. Input' = Input /\ \A i : Items(i)' = Items(i)
  BY SameInputs
<1> SUFFICES ASSUME NEW i \in Input
             PROVE  /\ Sound(left, i, CursorOf(inv[i]))' /\ Sound(left, i, multi[i])'
                    /\ Sound(left, i, cursor.of[i])' /\ Sound(left, i, from.of[i])'
  BY <1>1 DEF SoundCursors
<1>2. Sound(left, i, CursorOf(inv[i]))'
  BY <1>1 DEF Sound, Done, Message
<1>3. Sound(left, i, multi[i])'
  BY <1>1 DEF Sound, Done, Message
<1>4. Sound(left, i, cursor.of[i])'
  BY <1>1 DEF Sound, Done, Message
<1>5. Sound(left, i, from.of[i])'
  BY <1>1 DEF Sound, Done, Message
<1> QED BY <1>2, <1>3, <1>4, <1>5

\* Input i goes from I to J, and says of nothing but what is in S that it is done.
LEMMA InputSound ==
  ASSUME NEW L, NEW i, NEW I, NEW J, NEW S, Sound(L, i, CursorOf(I)),
         J.partials \subseteq I.partials, J.kept \subseteq I.kept \cup S,
         1 .. J.after \subseteq 1 .. I.after \cup I.kept \cup S,
         \A n \in S : Done(L, i, n)
  PROVE  Sound(L, i, CursorOf(J))
BY DEF Sound, CursorOf

\* A cursor that goes past nothing is sound.
LEMMA NothingSound == ASSUME NEW L, NEW i PROVE Sound(L, i, NoCursor)
BY DEF Sound, NoCursor

\* One input goes to its next item, the cursors stay.
LEMMA InputMoves ==
  ASSUME Shape, SoundCursors, NEW i \in Input, NEW J, inv' = [inv EXCEPT ![i] = J],
         Sound(left, i, CursorOf(J)), kind' = kind,
         left' = left, multi' = multi, cursor' = cursor, from' = from
  PROVE  SoundCursors'
<1>1. \A j \in Input : inv'[j] = IF j = i THEN J ELSE inv[j]
  BY DEF Shape, InventoryTypes
<1>2. \A j \in Input : Sound(left', j, CursorOf(inv'[j]))
  BY <1>1 DEF SoundCursors
<1>3. \A j \in Input : /\ Sound(left', j, multi'[j])
                       /\ Sound(left', j, cursor'.of[j]) /\ Sound(left', j, from'.of[j])
  BY DEF SoundCursors
<1> QED BY <1>2, <1>3, SoundNext

\* The items of an input of which nothing is pending were done up to the last.
LEMMA DoneToNext ==
  ASSUME Shape, SoundCursors, NEW i \in Input, NEW n \in 1 .. inv[i].next,
         n \notin inv[i].pending
  PROVE  Done(left, i, n)
<1>1. PICK I \in InputState : I = inv[i]
  BY DEF Shape, InventoryTypes
<1>2. n \in 1 .. I.after \cup I.kept
  BY <1>1 DEF Shape, Windows, WindowOf
<1>3. Sound(left, i, CursorOf(I))
  BY <1>1 DEF SoundCursors
<1> QED BY <1>2, <1>3 DEF Sound, CursorOf

\* An input that yields says no more than before.
LEMMA EnterSound ==
  ASSUME NEW L, NEW i, NEW I, NEW J, NEW S, NEW m, Enters(I, S, m, J), Sound(L, i, CursorOf(I))
  PROVE  Sound(L, i, CursorOf(J))
BY DEF Enters, Sound, CursorOf

\* An input that skips a partial says no more than its cursor said.
LEMMA SkipSound ==
  ASSUME NEW L, NEW i, NEW I \in InputState, NEW J, NEW n \in I.partials, Skips(I, n, J),
         Sound(L, i, CursorOf(I))
  PROVE  Sound(L, i, CursorOf(J))
<1>1. Done(L, i, n)
  BY DEF Sound, CursorOf
<1>2. PICK S : S = {n}
  OBVIOUS
<1>3. /\ J.partials \subseteq I.partials /\ J.kept \subseteq I.kept \cup S
      /\ 1 .. J.after \subseteq 1 .. I.after \cup I.kept \cup S
  BY <1>2 DEF Skips
<1>4. \A x \in S : Done(L, i, x)
  BY <1>1, <1>2
<1> QED BY <1>3, <1>4, InputSound

\* An input whose items leave says that they are done.
LEMMA LeavesSound ==
  ASSUME NEW L, NEW i, NEW I, NEW J, NEW S, Leaves(I, S, J), Sound(L, i, CursorOf(I)),
         \A n \in S : Done(L, i, n)
  PROVE  Sound(L, i, CursorOf(J))
BY InputSound DEF Leaves

----------------------------------------------------------------------------
(* The cursors stay sound *)

\* An item that is skipped was left, as the cursor of the input said.
LEMMA YieldSound ==
  ASSUME Shape, SoundCursors, NEW i \in Input, YieldItem(i) \/ YieldReady(i)
  PROVE  SoundCursors'
<1>1. PICK n : n = Next1(i)
  OBVIOUS
<1>2. /\ kind' = kind /\ left' = left /\ multi' = multi /\ cursor' = cursor /\ from' = from
  BY DEF YieldItem, YieldReady, joinVars, jobVars
<1>3. inv[i] \in InputState /\ Sound(left, i, CursorOf(inv[i]))
  BY DEF Shape, InventoryTypes, SoundCursors
<1>4. CASE inv' = [inv EXCEPT ![i] = Entered(inv[i], {n})]
  <2>1. Enters(inv[i], {n}, n, Entered(inv[i], {n}))
    BY <1>1, NextItem
  <2>2. Sound(left, i, CursorOf(Entered(inv[i], {n})))
    BY <1>3, <2>1, EnterSound
  <2> QED BY <1>2, <1>4, <2>2, InputMoves
<1>5. CASE n \in inv[i].partials /\ inv' = [inv EXCEPT ![i] = Skipped(inv[i], n)]
  <2>1. Skips(inv[i], n, Skipped(inv[i], n))
    BY <1>1, NextItem
  <2>2. Sound(left, i, CursorOf(Skipped(inv[i], n)))
    BY <1>3, <1>5, <2>1, SkipSound
  <2> QED BY <1>2, <1>5, <2>2, InputMoves
<1>6. \/ inv' = [inv EXCEPT ![i] = Entered(inv[i], {n})]
      \/ n \in inv[i].partials /\ inv' = [inv EXCEPT ![i] = Skipped(inv[i], n)]
  BY <1>1 DEF YieldItem, YieldReady
<1> QED BY <1>4, <1>5, <1>6

\* So was the inventory of an item of the root that is skipped.
LEMMA TakeRootSound ==
  ASSUME Shape, SoundCursors, TakeRoot
  PROVE  SoundCursors'
<1>1. PICK n : n = Next1(0)
  OBVIOUS
<1>2. /\ kind' = kind /\ left' = left /\ multi' = multi /\ cursor' = cursor /\ from' = from
  BY DEF TakeRoot, jobVars
<1>3. 0 \in Input
  BY InputFacts DEF TakeRoot, Shape, InventoryTypes
<1>4. inv[0] \in InputState /\ Sound(left, 0, CursorOf(inv[0]))
  BY <1>3 DEF Shape, InventoryTypes, SoundCursors
<1>5. CASE inv' = [inv EXCEPT ![0] = Entered(inv[0], {n})]
  <2>1. Enters(inv[0], {n}, n, Entered(inv[0], {n}))
    BY <1>1, <1>3, NextItem
  <2>2. Sound(left, 0, CursorOf(Entered(inv[0], {n})))
    BY <1>4, <2>1, EnterSound
  <2> QED BY <1>2, <1>3, <1>5, <2>2, InputMoves
<1>6. CASE n \in inv[0].partials /\ inv' = [inv EXCEPT ![0] = Skipped(inv[0], n)]
  <2>1. Skips(inv[0], n, Skipped(inv[0], n))
    BY <1>1, <1>3, NextItem
  <2>2. Sound(left, 0, CursorOf(Skipped(inv[0], n)))
    BY <1>4, <1>6, <2>1, SkipSound
  <2> QED BY <1>2, <1>3, <1>6, <2>2, InputMoves
<1>7. \/ inv' = [inv EXCEPT ![0] = Entered(inv[0], {n})]
      \/ n \in inv[0].partials /\ inv' = [inv EXCEPT ![0] = Skipped(inv[0], n)]
  BY <1>1 DEF TakeRoot
<1> QED BY <1>5, <1>6, <1>7

\* A batch is left at once only when all its items were left in an earlier run.
LEMMA YieldBatchSound ==
  ASSUME Shape, SoundCursors, YieldBatch
  PROVE  SoundCursors'
<1>1. /\ kind = "batching" /\ status # "idle" /\ CanYield(1)
      /\ kind' = kind /\ left' = left /\ multi' = multi /\ cursor' = cursor /\ from' = from
  BY DEF YieldBatch, joinVars, jobVars
<1>2. PICK S : S = {n \in Items(1) : inv[1].next < n /\ n <= inv[1].next + BatchSize}
  OBVIOUS
<1>3. 1 \in Input /\ inv[1] \in InputState /\ WindowOf(inv[1])
  BY <1>1, InputFacts DEF Shape, InventoryTypes, Windows
<1>4. PICK m \in Nat : m > inv[1].next /\ S = (inv[1].next + 1) .. m /\ Max(S) = m
  BY <1>1, <1>2, NextBatch
<1>5. PICK E : E = Entered(inv[1], S)
  OBVIOUS
<1>6. Enters(inv[1], S, m, E)
  BY <1>3, <1>4, <1>5, EnteredIs
<1>7. Sound(left, 1, CursorOf(inv[1]))
  BY <1>3 DEF SoundCursors
<1>8. Sound(left, 1, CursorOf(E))
  BY <1>6, <1>7, EnterSound
<1>9. CASE Max(S) \in outer
  <2>1. inv' = [inv EXCEPT ![1] = Left(E, S)]
    BY <1>2, <1>5, <1>9 DEF YieldBatch
  <2>2. S \subseteq from.of[1].partials
    <3>1. m \in from.of[1].partials
      BY <1>1, <1>4, <1>9 DEF Shape, Resumption
    <3>2. PICK b \in Nat : Boundary(b) /\ m \in Batch(b) /\ Batch(b) \subseteq from.of[1].partials
      BY <1>1, <3>1 DEF Shape, Batches, Batched
    <3>3. PICK a \in Nat : Boundary(a) /\ S = Batch(a)
      <4>1. \E a \in Nat : Boundary(a) /\ S = Batch(a)
        BY <1>1, <1>2, NextBatch
      <4> QED BY <4>1
    <3>4. m \in S
      BY <1>3, <1>4 DEF InputState
    <3>5. a = b
      <4>1. m \in Batch(a)
        BY <3>3, <3>4
      <4> QED BY <3>2, <3>3, <4>1, SameBatch
    <3> QED BY <3>2, <3>3, <3>5
  <2>3. \A n \in S : Done(left, 1, n)
    <3>1. Sound(left, 1, from.of[1])
      BY <1>3 DEF SoundCursors
    <3> QED BY <2>2, <3>1 DEF Sound
  <2>4. Leaves(E, S, Left(E, S))
    <3>1. E \in InputState /\ WindowOf(E) /\ S \in SUBSET E.pending
      BY <1>6 DEF Enters
    <3> QED BY <3>1, LeftIs
  <2>5. Sound(left, 1, CursorOf(Left(E, S)))
    BY <1>8, <2>3, <2>4, LeavesSound
  <2> QED BY <1>1, <1>3, <2>1, <2>5, InputMoves
<1>10. CASE Max(S) \notin outer
  <2>1. inv' = [inv EXCEPT ![1] = E]
    BY <1>2, <1>5, <1>10 DEF YieldBatch
  <2> QED BY <1>1, <1>3, <1>8, <2>1, InputMoves
<1> QED BY <1>9, <1>10

\* An item of the root is done only when all the items of its inventory were left.
LEMMA RootDoneSound ==
  ASSUME Shape, SoundCursors, NEW r \in Input, RootDone(r)
  PROVE  SoundCursors'
<1>1. /\ kind = "joined" /\ r # 0 /\ 0 \in Input /\ r \in Nat
      /\ kind' = kind /\ left' = left /\ cursor' = cursor /\ from' = from
      /\ status = "running" /\ slot[r] = "ended" /\ settled[r] /\ r \in active
  <2>1. kind = "joined"
    BY DEF Shape, Join, RootDone
  <2>2. r # 0
    BY <2>1 DEF Shape, Join, RootDone
  <2>3. 0 \in Input /\ r \in Nat
    BY <2>1, InputFacts DEF Shape, InventoryTypes
  <2> QED BY <2>1, <2>2, <2>3 DEF RootDone, jobVars
<1>2. Done(left, 0, r)
  <2> SUFFICES ASSUME NEW n \in Items(r) PROVE <<r, n>> \in left
    BY <1>1 DEF Done, Message
  <2>1. inv[r].next >= Size[kind][r] /\ inv[r].pending = {}
    BY <1>1 DEF Shape, Generators, Events
  <2>2. inv[r].next \in Nat /\ Size[kind][r] \in Nat
    BY InputFacts DEF Shape, InventoryTypes, InputState
  <2>3. n \in 1 .. inv[r].next
    BY <2>1, <2>2 DEF Items
  <2>4. Done(left, r, n)
    BY <2>1, <2>3, DoneToNext
  <2> QED BY <1>1, <2>4 DEF Done
<1>3. PICK J : J = Left(inv[0], {r})
  OBVIOUS
<1>4. inv' = [inv EXCEPT ![0] = J]
  BY <1>3 DEF RootDone, LeaveRoot
<1>5. Sound(left, 0, CursorOf(J))
  <2>1. {r} \in SUBSET inv[0].pending
    BY <1>1 DEF Shape, Join
  <2>2. Leaves(inv[0], {r}, J)
    BY <1>1, <1>3, <2>1, ToLeave
  <2>3. Sound(left, 0, CursorOf(inv[0]))
    BY <1>1 DEF SoundCursors
  <2>4. \A n \in {r} : Done(left, 0, n)
    BY <1>2
  <2> QED BY <2>2, <2>3, <2>4, LeavesSound
<1>6. \A i \in Input : inv'[i] = IF i = 0 THEN J ELSE inv[i]
  BY <1>4 DEF Shape, InventoryTypes
<1>7. \A i \in Input : multi'[i] = IF i = 0 THEN CursorOf(J)
                                   ELSE IF i = r THEN NoCursor ELSE multi[i]
  BY <1>3 DEF RootDone, LeaveRoot
<1>8. \A i \in Input : Sound(left', i, CursorOf(inv'[i]))
  BY <1>1, <1>5, <1>6 DEF SoundCursors
<1>9. \A i \in Input : Sound(left', i, multi'[i])
  BY <1>1, <1>5, <1>7, NothingSound DEF SoundCursors
<1>10. \A i \in Input : Sound(left', i, cursor'.of[i]) /\ Sound(left', i, from'.of[i])
  BY <1>1 DEF SoundCursors
<1> QED BY <1>1, <1>8, <1>9, <1>10, SoundNext

\* A message that is left is done, and the cursor of the job says no more than that.
LEMMA LeaveSound ==
  ASSUME Shape, SoundCursors, NEW m \in inflight, Leave(m)
  PROVE  SoundCursors'
<1>1. kind' = kind /\ from' = from /\ left' = left \cup m /\ current' = current
  BY DEF Leave
<1>2. PICK R, parts :
        /\ R = [i \in Input |-> ItemsOf(m, i)] /\ Lets(R)
        /\ inv' = [i \in Input |-> Left(inv[i], ItemsOf(m, i))]
        /\ parts \in [Input -> Cursor] /\ multi' = parts
        /\ parts = IF kind = "joined" THEN WithSubs(inv', {x[1] : x \in m}) ELSE multi
        /\ cursor' \in {cursor, JobCursor(inv', parts)} /\ cursor' \in JobCursors
  BY LeaveIs
<1>3. \A i, c : Sound(left, i, c) => Sound(left', i, c)
  BY <1>1, SoundGrows
<1>4. ASSUME NEW i \in Input, NEW n \in R[i] PROVE Done(left', i, n)
  <2>1. PICK x \in m : x[1] = i /\ x[2] = n
    BY <1>2, <1>4 DEF ItemsOf
  <2>2. PICK j \in Input \ {0} : MessageOf(m, j)
    BY DEF Shape, InFlight
  <2>3. x \in Message(j, ItemsOf(m, j))
    BY <2>1, <2>2 DEF MessageOf
  <2>4. i = j /\ x = <<i, n>>
    BY <2>1, <2>3 DEF Message
  <2> QED BY <1>1, <2>1, <2>2, <2>4 DEF Done
<1>5. \A i \in Input : Sound(left', i, CursorOf(inv'[i]))
  <2> SUFFICES ASSUME NEW i \in Input PROVE Sound(left', i, CursorOf(inv'[i]))
    OBVIOUS
  <2>1. Leaves(inv[i], R[i], inv'[i])
    BY <1>2 DEF Lets
  <2>2. Sound(left', i, CursorOf(inv[i]))
    BY <1>3 DEF SoundCursors
  <2>3. \A n \in R[i] : Done(left', i, n)
    BY <1>4
  <2> QED BY <2>1, <2>2, <2>3, LeavesSound
<1>6. \A i \in Input : Sound(left', i, parts[i])
  <2> SUFFICES ASSUME NEW i \in Input PROVE Sound(left', i, parts[i])
    OBVIOUS
  <2>1. parts[i] = multi[i] \/ parts[i] = CursorOf(inv'[i])
    BY <1>2 DEF WithSubs
  <2> QED BY <1>3, <1>5, <2>1 DEF SoundCursors
<1>7. \A i \in Input : Sound(left', i, cursor'.of[i])
  <2> SUFFICES ASSUME NEW i \in Input PROVE Sound(left', i, cursor'.of[i])
    OBVIOUS
  <2>1. CASE cursor' = cursor
    BY <1>3, <2>1 DEF SoundCursors
  <2>2. CASE cursor' = JobCursor(inv', parts)
    <3>1. \/ cursor'.of[i] = CursorOf(inv'[i]) \/ cursor'.of[i] = NoCursor
          \/ cursor'.of[i] = parts[i]
      BY <2>2 DEF JobCursor, CurrentCursor, CursorsOf
    <3> QED BY <1>5, <1>6, <3>1, NothingSound
  <2> QED BY <1>2, <2>1, <2>2
<1>8. \A i \in Input : Sound(left', i, from'.of[i])
  BY <1>1, <1>3 DEF SoundCursors
<1> QED BY <1>1, <1>2, <1>5, <1>6, <1>7, <1>8, SoundNext

\* The inputs begin with what the cursor of the job says of them.
LEMMA StartSound ==
  ASSUME Shape, SoundCursors, Start
  PROVE  SoundCursors'
<1>1. /\ kind' = kind /\ left' = left /\ cursor' = cursor /\ from' = cursor
      /\ multi' = cursor.of /\ inv' = [i \in Input |-> Began(i)]
  BY DEF Start
<1>2. \A i \in Input : Sound(left', i, CursorOf(inv'[i]))
  <2> SUFFICES ASSUME NEW i \in Input PROVE Sound(left, i, CursorOf(Began(i)))
    BY <1>1
  <2>1. PICK c \in Cursor : c = cursor.of[i]
    BY DEF Shape, InventoryTypes, JobCursors
  <2>2. PICK s : s = StartCursor(i)
    OBVIOUS
  <2>3. s.after = c.after /\ s.partials \subseteq c.partials
    BY <2>1, <2>2 DEF StartCursor, Cursor
  <2>4. /\ Began(i).after = s.after /\ Began(i).partials = s.partials /\ Began(i).kept = {}
    BY <2>2 DEF Began, Resumed
  <2>5. Sound(left, i, c)
    BY <2>1 DEF SoundCursors
  <2> QED BY <2>3, <2>4, <2>5 DEF Sound, CursorOf
<1> QED BY <1>1, <1>2, SoundNext DEF SoundCursors

\* With LosslessFaults a joined inventory is not closed.
LEMMA NextSound ==
  ASSUME LosslessFaults, Shape, SoundCursors, [NextInventory]_inventoryVars
  PROVE  SoundCursors'
<1>1. CASE UNCHANGED <<kind, inv, multi, left, cursor, from>>
  BY <1>1, SoundNext DEF SoundCursors
<1>2. CASE AddSub \/ Complete \/ JobFails \/ StopLoop \/ Crash \/ UNCHANGED inventoryVars
  BY <1>1, <1>2 DEF AddSub, Complete, JobFails, StopLoop, Crash, jobVars, inputVars, joinVars,
                    inventoryVars
<1>3. CASE CloseJob
  <2>1. kind # "joined"
    BY <1>3 DEF CloseJob, May, LosslessFaults
  <2> QED BY <1>1, <1>3, <2>1 DEF CloseJob, jobVars, inputVars, joinVars
<1>4. CASE \E i \in Input : EndInput(i) \/ InputFails(i) \/ FanInFails(i)
  BY <1>1, <1>4 DEF EndInput, InputFails, FanInFails, Raises, jobVars, inputVars, joinVars
<1>5. CASE \E i \in Input : YieldItem(i) \/ YieldReady(i)
  BY <1>5, YieldSound
<1>6. CASE \E i \in Input : RootDone(i)
  BY <1>6, RootDoneSound
<1>7. CASE \E m \in inflight : Leave(m)
  BY <1>7, LeaveSound
<1> QED BY <1>2, <1>3, <1>4, <1>5, <1>6, <1>7, StartSound, YieldBatchSound, TakeRootSound
        DEF NextInventory, Step, Fault

----------------------------------------------------------------------------
(* The chained inventory, and the end of the job *)

\* A job is of one kind of inventory.
LEMMA SameKind == [NextInventory]_inventoryVars => kind' = kind
BY DEF NextInventory, Step, Fault, Start, YieldBatch, TakeRoot, AddSub, Complete, JobFails,
       YieldItem, EndInput, RootDone, Leave, StopLoop, CloseJob, Crash, InputFails, FanInFails,
       Raises, YieldReady, jobVars, inventoryVars

\* What was left or in flight, and stays so.
LEMMA ChainStays ==
  ASSUME ChainLeft, kind' = kind, current' = current,
         cursor'.current \in {cursor.current, current},
         left \cup UNION inflight \subseteq left' \cup UNION (inflight')
  PROVE  ChainLeft'
BY SameInputs DEF ChainLeft, Message

\* What the chained inventory is past when it goes on with the next one.
LEMMA ChainGoesOn ==
  ASSUME Shape, SoundCursors, ChainLeft, NEW i \in Input, EndInput(i)
  PROVE  ChainLeft'
<1>1. /\ kind' = kind /\ cursor' = cursor /\ left' = left /\ inflight' = inflight
      /\ inv[i].pending = inv'[i].pending /\ slot[i] = "running" /\ status = "running"
      /\ Next1(i) \notin Items(i)
  BY DEF EndInput, jobVars
<1>2. CASE current' = current
  BY <1>1, <1>2, ChainStays
<1>3. CASE kind = "chained" /\ current' = i + 1
  <2>1. i = current
    BY <1>1, <1>3 DEF Shape, Chain
  <2>2. Input' = Input /\ \A j : Items(j)' = Items(j)
    BY <1>1, SameInputs
  <2>3. Input \subseteq Nat /\ Size[kind][i] \in Nat /\ inv[i].next \in Nat /\ i # 0
    BY <1>3, InputFacts DEF Shape, InventoryTypes, InputState
  <2>4. Message(i, Items(i)) \subseteq left \cup UNION inflight
    <3> SUFFICES ASSUME NEW n \in Items(i) PROVE <<i, n>> \in left \cup UNION inflight
      BY DEF Message
    <3>1. n \in 1 .. inv[i].next
      BY <1>1, <2>3 DEF Next1, Items
    <3>2. CASE n \in inv[i].pending
      BY <1>1, <2>3, <3>2 DEF Shape, InFlight
    <3>3. CASE n \notin inv[i].pending
      <4>1. Done(left, i, n)
        BY <3>1, <3>3, DoneToNext
      <4> QED BY <2>3, <4>1 DEF Done
    <3> QED BY <3>2, <3>3
  <2>5. ASSUME NEW j \in Input, j < current' \/ j < cursor'.current
        PROVE  Message(j, Items(j)) \subseteq left \cup UNION inflight
    <3>1. j = i \/ j < current \/ j < cursor.current
      BY <1>1, <1>3, <2>1, <2>3, <2>5
    <3> QED BY <1>3, <2>4, <3>1 DEF ChainLeft
  <2> QED BY <1>1, <2>2, <2>5 DEF ChainLeft, Message
<1> QED BY <1>2, <1>3 DEF EndInput

\* With LosslessFaults nothing in flight of a chained inventory is dropped.
LEMMA NextChainLeft ==
  ASSUME LosslessFaults, Shape, SoundCursors, ChainLeft, [NextInventory]_inventoryVars
  PROVE  ChainLeft'
<1> SUFFICES ASSUME kind = "chained" PROVE ChainLeft'
  BY SameKind DEF ChainLeft
<1>1. kind' = kind
  BY SameKind
<1>2. CASE Start
  <2>1. /\ cursor' = cursor /\ left' = left /\ inflight' = inflight
        /\ current' = IF cursor.current = 0 THEN 1 ELSE cursor.current
    BY <1>2 DEF Start, Resume
  <2>2. Input' = Input /\ \A j : Items(j)' = Items(j)
    BY <1>1, SameInputs
  <2>3. Input \subseteq Nat \ {0}
    BY InputFacts DEF Shape, InventoryTypes
  <2>4. ASSUME NEW j \in Input, j < current' \/ j < cursor'.current
        PROVE  Message(j, Items(j)) \subseteq left \cup UNION inflight
    <3>1. cursor.current \in Nat
      BY DEF Shape, InventoryTypes, JobCursors
    <3>2. j < cursor.current
      BY <2>1, <2>3, <2>4, <3>1
    <3> QED BY <3>2 DEF ChainLeft
  <2> QED BY <2>1, <2>2, <2>4 DEF ChainLeft, Message
<1>3. CASE \E m \in inflight : Leave(m)
  <2>1. PICK m \in inflight : Leave(m)
    BY <1>3
  <2>2. current' = current /\ left' = left \cup m /\ inflight' = inflight \ {m}
    BY <2>1 DEF Leave
  <2>3. cursor'.current \in {cursor.current, current}
    BY <2>1 DEF Leave, JobCursor
  <2>4. left \cup UNION inflight \subseteq left' \cup UNION (inflight')
    BY <2>2
  <2> QED BY <1>1, <2>2, <2>3, <2>4, ChainStays
<1>4. CASE \E i \in Input : EndInput(i)
  BY <1>4, ChainGoesOn
<1>5. CASE UNCHANGED <<current, cursor, left>> /\ inflight \subseteq inflight'
  BY <1>1, <1>5, ChainStays
<1>6. CASE \E i \in Input : YieldItem(i) \/ YieldReady(i) \/ InputFails(i) \/ FanInFails(i)
                           \/ RootDone(i)
  BY <1>5, <1>6 DEF YieldItem, YieldReady, InputFails, FanInFails, Raises, RootDone, jobVars
<1>7. CASE \/ YieldBatch \/ TakeRoot \/ AddSub \/ Complete \/ JobFails \/ StopLoop \/ CloseJob
           \/ UNCHANGED inventoryVars
  <2>1. ~ YieldBatch
    BY DEF YieldBatch
  <2> QED BY <1>5, <1>7, <2>1 DEF TakeRoot, AddSub, Complete, JobFails, StopLoop, CloseJob, jobVars,
                                 inventoryVars
<1>8. ~ Crash
  BY DEF Crash, May, LosslessFaults
<1> QED BY <1>2, <1>3, <1>4, <1>6, <1>7, <1>8 DEF NextInventory, Step, Fault

\* All the items of an input that ended with nothing pending were left.
LEMMA EndedIsLeft ==
  ASSUME Shape, SoundCursors, status = "running", kind # "loop",
         NEW i \in Input, slot[i] = "ended", inv[i].pending = {}, NEW n \in Items(i)
  PROVE  Done(left, i, n)
<1>1. inv[i].next \in Nat /\ Size[kind][i] \in Nat
  BY InputFacts DEF Shape, InventoryTypes, InputState
<1>2. inv[i].next >= Size[kind][i]
  BY DEF Shape, Generators
<1>3. n \in 1 .. inv[i].next
  BY <1>1, <1>2 DEF Items
<1> QED BY <1>3, DoneToNext

\* Job.run ends when its generators have, and what was yielded was left.
LEMMA CompleteGoesOverAll ==
  ASSUME Shape, SoundCursors, ChainLeft, Complete
  PROVE  left = AllItems \/ (kind = "loop" /\ Message(1, 1 .. inv[1].next) \subseteq left)
<1>1. /\ status = "running" /\ \A i \in Input : slot[i] # "running"
      /\ taken = 0 /\ active = {} /\ (kind # "joined" => inflight = {})
      /\ kind \in Kinds /\ left \subseteq AllItems
      /\ \A i \in Input : slot[i] \in {"none", "running", "ended"}
  BY DEF Complete, Shape, InventoryTypes
<1>2. kind # "joined" => \A i \in Input : inv[i].pending = {}
  <2> SUFFICES ASSUME kind # "joined", NEW i \in Input PROVE inv[i].pending = {}
    OBVIOUS
  <2>1. i # 0
    BY <1>1, InputFacts
  <2> QED BY <1>1, <2>1 DEF Shape, InFlight
<1>3. CASE kind = "loop"
  <2>1. 1 \in Input
    BY <1>1, <1>3, InputFacts
  <2>2. ASSUME NEW n \in 1 .. inv[1].next PROVE <<1, n>> \in left
    <3>1. Done(left, 1, n)
      BY <1>2, <1>3, <2>1, DoneToNext
    <3> QED BY <3>1 DEF Done
  <2> QED BY <1>3, <2>2 DEF Message
<1>4. CASE kind \in {"fanin", "batching"}
  <2> SUFFICES ASSUME NEW i \in Input \ {0}, NEW n \in Items(i) PROVE <<i, n>> \in left
    BY <1>1 DEF AllItems
  <2>1. slot[i] = "ended"
    BY <1>1, <1>4 DEF Shape, Generators
  <2>2. Done(left, i, n)
    BY <1>1, <1>2, <1>4, <2>1, EndedIsLeft
  <2> QED BY <2>2 DEF Done
<1>5. CASE kind = "chained"
  <2> SUFFICES ASSUME NEW i \in Input \ {0}, NEW n \in Items(i) PROVE <<i, n>> \in left
    BY <1>1 DEF AllItems
  <2>1. PICK l \in Nat : Input = 1 .. l
    BY <1>1, <1>5, InputFacts
  <2>2. current \in Nat /\ 1 <= current
    BY <1>1, <1>5 DEF Shape, InventoryTypes, Chain
  <2>3. CASE i < current
    <3>1. Message(i, Items(i)) \subseteq left \cup UNION inflight
      BY <1>5, <2>3 DEF ChainLeft
    <3> QED BY <1>1, <1>5, <3>1 DEF Message
  <2>4. CASE ~ (i < current)
    <3>1. current \in Input
      BY <2>1, <2>2, <2>4
    <3>2. slot[current] = "ended" /\ current + 1 \notin Input
      BY <1>1, <1>5, <3>1 DEF Shape, Chain
    <3>3. i = current
      BY <2>1, <2>2, <2>4, <3>1, <3>2
    <3>4. Done(left, i, n)
      BY <1>1, <1>2, <1>5, <3>2, <3>3, EndedIsLeft
    <3> QED BY <3>4 DEF Done
  <2> QED BY <2>3, <2>4
<1>6. CASE kind = "joined"
  <2>1. 0 \in Input /\ Input = 0 .. Size[kind][0]
    BY <1>1, <1>6, InputFacts
  <2>2. inv[0].pending = {} /\ slot[0] = "ended"
    BY <1>1, <1>6, <2>1 DEF Shape, Join
  <2> SUFFICES ASSUME NEW i \in Input \ {0}, NEW n \in Items(i) PROVE <<i, n>> \in left
    BY <1>1 DEF AllItems
  <2>3. i \in Items(0)
    BY <2>1 DEF Items
  <2>4. Done(left, 0, i)
    BY <1>1, <1>6, <2>1, <2>2, <2>3, EndedIsLeft
  <2> QED BY <2>4 DEF Done, Message
<1> QED BY <1>1, <1>3, <1>4, <1>5, <1>6 DEF Kinds

\* After its completion a job only leaves messages.
LEMMA NextCompletion ==
  ASSUME Shape, SoundCursors, ChainLeft, Completion, [NextInventory]_inventoryVars
  PROVE  Completion'
<1>1. Shape'
  BY NextShape
<1>2. CASE Complete
  <2>1. kind' = kind /\ left' = left /\ inv' = inv /\ status' = "ended"
    BY <1>2 DEF Complete, Ends, inputVars
  <2>2. left = AllItems \/ (kind = "loop" /\ Message(1, 1 .. inv[1].next) \subseteq left)
    BY <1>2, CompleteGoesOverAll
  <2>3. AllItems' = AllItems
    BY <2>1, SameInputs
  <2> QED BY <2>1, <2>2, <2>3 DEF Completion, GoesOverAll, Message
<1>3. CASE JobFails \/ \E i \in Input : InputFails(i)
  BY <1>3 DEF JobFails, InputFails, Ends, Completion, GoesOverAll
<1>4. CASE UNCHANGED <<kind, status, left, inv, completion>>
  BY <1>4, SameInputs DEF Completion, GoesOverAll, Message
<1>5. CASE completion = "none" /\ completion' = "none"
  BY <1>5 DEF Completion, GoesOverAll
<1>6. CASE status # "ended" /\ completion' = completion
  BY <1>5, <1>6 DEF Completion
<1>7. CASE \E m \in inflight : Leave(m)
  <2>1. PICK m \in inflight : Leave(m)
    BY <1>7
  <2>2. kind' = kind /\ status' = status /\ completion' = completion /\ left \subseteq left'
    BY <2>1 DEF Leave
  <2>3. AllItems' = AllItems
    BY <2>2, SameInputs
  <2>4. left' \subseteq AllItems
    <3>1. left' \in SUBSET (AllItems')
      BY <1>1 DEF Shape, InventoryTypes
    <3> QED BY <2>3, <3>1
  <2>5. kind = "loop" => inv'[1].next = inv[1].next
    <3> SUFFICES ASSUME kind = "loop" PROVE inv'[1].next = inv[1].next
      OBVIOUS
    <3>1. 1 \in Input
      BY InputFacts DEF Shape, InventoryTypes
    <3>2. PICK R, parts :
            /\ R = [i \in Input |-> ItemsOf(m, i)] /\ Lets(R)
            /\ inv' = [i \in Input |-> Left(inv[i], ItemsOf(m, i))]
            /\ parts \in [Input -> Cursor] /\ multi' = parts
            /\ parts = IF kind = "joined" THEN WithSubs(inv', {x[1] : x \in m}) ELSE multi
            /\ cursor' \in {cursor, JobCursor(inv', parts)} /\ cursor' \in JobCursors
      BY <2>1, LeaveIs
    <3> QED BY <3>1, <3>2 DEF Lets, Leaves
  <2> QED BY <2>2, <2>3, <2>4, <2>5 DEF Completion, GoesOverAll, Message
<1>8. CASE YieldBatch \/ TakeRoot \/ AddSub \/ Start \/ StopLoop \/ CloseJob \/ Crash
           \/ UNCHANGED inventoryVars
  BY <1>4, <1>5, <1>6, <1>8
     DEF YieldBatch, TakeRoot, AddSub, Start, StopLoop, CloseJob, Crash, jobVars, inventoryVars,
         inputVars
<1>9. CASE \E i \in Input : \/ YieldItem(i) \/ EndInput(i) \/ RootDone(i) \/ FanInFails(i)
                            \/ YieldReady(i)
  BY <1>6, <1>9 DEF YieldItem, EndInput, RootDone, FanInFails, YieldReady, Raises, jobVars
<1> QED BY <1>2, <1>3, <1>7, <1>8, <1>9 DEF NextInventory, Step, Fault

----------------------------------------------------------------------------
(* The theorems *)

InventoryInv == Shape /\ SoundCursors /\ ChainLeft /\ Completion

\* The first cursors go past nothing.
LEMMA InitProgress == InitInventory => SoundCursors /\ ChainLeft /\ Completion
<1> SUFFICES ASSUME InitInventory PROVE SoundCursors /\ ChainLeft /\ Completion
  OBVIOUS
<1>1. /\ kind \in Kinds /\ inv = [i \in Input |-> Resumed(NoCursor)]
      /\ multi = [i \in Input |-> NoCursor]
      /\ cursor = Nothing /\ from = Nothing /\ completion = "none" /\ current = 0
  BY DEF InitInventory
<1>2. CursorOf(Resumed(NoCursor)) = NoCursor
  BY DEF CursorOf, Resumed, NoCursor
<1>3. Nothing.current = 0 /\ \A i \in Input : Nothing.of[i] = NoCursor
  BY DEF Nothing
<1>4. SoundCursors
  <2>1. \A i \in Input : /\ CursorOf(inv[i]) = NoCursor /\ multi[i] = NoCursor
                         /\ cursor.of[i] = NoCursor /\ from.of[i] = NoCursor
    BY <1>1, <1>2, <1>3
  <2> QED BY <2>1, NothingSound DEF SoundCursors
<1>5. ChainLeft
  <2>1. Input \subseteq Nat
    BY <1>1, InputFacts
  <2> QED BY <1>1, <1>3, <2>1 DEF ChainLeft
<1>6. Completion
  BY <1>1 DEF Completion, GoesOverAll
<1> QED BY <1>4, <1>5, <1>6

\* The invariant implies the property.
LEMMA SoundCovers == InventoryInv => CursorCoversLeft
<1> SUFFICES ASSUME InventoryInv, NEW x \in CoveredBy(cursor)
             PROVE  x \in left \cup (IF kind = "chained" THEN UNION inflight ELSE {})
  BY DEF CursorCoversLeft
<1>1. kind \in Kinds
  BY DEF InventoryInv, Shape, InventoryTypes
<1>2. PICK i \in Input \ {0} : x \in {i} \X Items(i)
  BY DEF CoveredBy, AllItems
<1> DEFINE n == x[2]
<1>6. n \in Items(i) /\ x = <<i, n>> /\ x[1] = i
  BY <1>2
<1>3. CASE Covers(cursor.of[i], n)
  <2>1. cursor.of[i] \in Cursor
    BY <1>2 DEF InventoryInv, Shape, InventoryTypes, JobCursors
  <2>2. n \in (1 .. cursor.of[i].after) \cup cursor.of[i].partials
    BY <1>1, <1>6, <1>3, <2>1, InputFacts DEF Covers, Items, Cursor
  <2>3. Done(left, i, n)
    BY <1>2, <2>2 DEF InventoryInv, SoundCursors, Sound
  <2> QED BY <1>2, <1>6, <2>3 DEF Done
<1>4. CASE kind = "chained" /\ i < cursor.current
  <2>1. Message(i, Items(i)) \subseteq left \cup UNION inflight
    BY <1>2, <1>4 DEF InventoryInv, ChainLeft
  <2> QED BY <1>4, <1>6, <2>1 DEF Message
<1>5. CASE kind = "joined" /\ Covers(cursor.of[0], i)
  <2>1. 0 \in Input /\ i \in Nat \ {0}
    BY <1>1, <1>2, <1>5, InputFacts
  <2>2. cursor.of[0] \in Cursor
    BY <2>1 DEF InventoryInv, Shape, InventoryTypes, JobCursors
  <2>3. i \in (1 .. cursor.of[0].after) \cup cursor.of[0].partials
    BY <1>5, <2>1, <2>2 DEF Covers, Cursor
  <2>4. Done(left, 0, i)
    BY <2>1, <2>3 DEF InventoryInv, SoundCursors, Sound
  <2> QED BY <1>6, <2>4 DEF Done, Message
<1> QED BY <1>6, <1>3, <1>4, <1>5 DEF CoveredBy

\* Of whatever it is built, an inventory keeps its cursors sound: but for the two faults
\* with which the code does go past what was not done.
THEOREM InventoryInvariant ==
  ASSUME LosslessFaults
  PROVE  InventorySpec => []InventoryInv
<1>1. InitInventory => InventoryInv
  BY InitShape, InitProgress DEF InventoryInv
<1>2. InventoryInv /\ [NextInventory]_inventoryVars => InventoryInv'
  BY NextShape, NextSound, NextChainLeft, NextCompletion DEF InventoryInv
<1> QED BY <1>1, <1>2, PTL DEF InventorySpec

\* The cursor that item_to_topic gives to the state service goes past nothing that is
\* still to be done, for the cursor property of every inventory.
THEOREM CursorsCoverLeft ==
  ASSUME LosslessFaults
  PROVE  InventorySpec => []CursorCoversLeft
BY SoundCovers, InventoryInvariant, PTL

\* Job.run completes the job with success only when iterate went over all the items of
\* all the inputs, and they were left.
THEOREM JobGoesOverAll ==
  ASSUME LosslessFaults
  PROVE  InventorySpec => []GoesOverAll
<1>1. InventoryInv => GoesOverAll
  BY DEF InventoryInv, Completion
<1> QED BY <1>1, InventoryInvariant, PTL
=============================================================================
