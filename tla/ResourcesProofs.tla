-------------------------- MODULE ResourcesProofs --------------------------
(***************************************************************************)
(* Proofs about Resources, for every set of clients, types and objects:     *)
(* type correctness, the accounting of the objects (NothingLost), exclusive *)
(* use, no reuse before the release time, the refinement of                 *)
(* ResourceAllocation, and that no object waits in vain: the wake-ups under *)
(* way and the objects missing cover the clients that wait.                 *)
(***************************************************************************)
EXTENDS Resources, SequenceTheorems, FiniteSetTheorems, WellFoundedInduction,
        TLAPS

PCs == {"idle", "waiting", "notified", "held"}

\* An object a client holds has no background task releasing it.
HeldNotDelayed == Held \cap delayed = {}

\* An object whose context raised is registered, and nobody is to release it.
LeakedApart == leaked \subseteq resources \ (Held \cup delayed)

IInv ==
  /\ TypeOK /\ NothingLost /\ Exclusive /\ HeldNotDelayed /\ LeakedApart
  /\ NoEarlyReuse

\* Removing an element leaves a sequence.
LEMMA RemoveAtIsSeq ==
  ASSUME NEW S, NEW s \in Seq(S), NEW i \in 1 .. Len(s)
  PROVE  RemoveAt(s, i) \in Seq(S)
<1>1. SubSeq(s, 1, i - 1) \in Seq(S)
  <2>1. \A j \in 1 .. (i - 1) : s[j] \in S
    OBVIOUS
  <2> QED BY <2>1, SubSeqProperties
<1>2. SubSeq(s, i + 1, Len(s)) \in Seq(S)
  <2>1. \A j \in (i + 1) .. Len(s) : s[j] \in S
    OBVIOUS
  <2> QED BY <2>1, SubSeqProperties
<1> QED BY <1>1, <1>2, ConcatProperties DEF RemoveAt

\* notify() keeps the types of the queues, the places and the history.
LEMMA NotifyTypes ==
  ASSUME NEW T, NEW L,
         NEW ws \in [Type -> Seq(Client)], NEW pcs \in [Client -> PCs],
         lost \in [Type -> BOOLEAN], Notify(T, ws, pcs, L)
  PROVE  /\ waiters' \in [Type -> Seq(Client)]
         /\ pc' \in [Client -> PCs]
         /\ lost' \in [Type -> BOOLEAN]
<1>1. waiters' \in [Type -> Seq(Client)]
  BY DEF Notify
<1>2. pc' \in [Client -> PCs]
  BY DEF Notify, PCs
<1>3. lost' \in [Type -> BOOLEAN]
  BY DEF Notify
<1> QED BY <1>1, <1>2, <1>3

\* The release times an object may get are times, or none.
LEMMA EnterTimesTypes ==
  ASSUME NEW o \in Obj
  PROVE  EnterTimes(o) \subseteq None .. MaxDelay
<1>1. /\ MaxDelay \in Nat
      /\ DefaultDelay[o] \in 0 .. MaxDelay
      /\ Resets[o] \subseteq 0 .. MaxDelay
  BY ObjAssumption
<1>2. \A x, y \in None .. MaxDelay : (IF x > y THEN x ELSE y) \in None .. MaxDelay
  OBVIOUS
<1>3. (IF DefaultDelay[o] = 0 THEN None ELSE DefaultDelay[o]) \in None .. MaxDelay
  BY <1>1 DEF None
<1>4. 0 .. MaxDelay \subseteq None .. MaxDelay
  BY <1>1 DEF None
<1> QED BY <1>1, <1>2, <1>3, <1>4 DEF EnterTimes

\* Entering the contexts of O changes their release times only.
LEMMA EnterTypes ==
  ASSUME TypeOK, NEW O \in SUBSET Obj, Enter(O)
  PROVE  /\ release_at' \in [Obj -> None .. MaxDelay]
         /\ \A o \in Obj \ O : release_at'[o] = release_at[o]
BY EnterTimesTypes DEF Enter, TypeOK

\* The exit of what c holds, as a message ends or its wait is cancelled.
LEMMA ReleaseAllKeepsIInv ==
  ASSUME IInv, NEW c \in Client, NEW L,
         NEW ws \in [Type -> Seq(Client)], NEW pcs \in [Client -> PCs],
         ReleaseAll(held[c], ws, pcs, L),
         held' = [held EXCEPT ![c] = {}],
         UNCHANGED <<resources, release_at, leaked>>
  PROVE  IInv'
<1> DEFINE O == held[c]
<1> DEFINE freed == Immediate(O) \cap used
<1>0. /\ used' = used \ freed
      /\ availables' = availables \cup freed
      /\ delayed' = delayed \cup (O \ Immediate(O))
      /\ Notify(TypesOf(freed), ws, pcs, L)
  BY DEF ReleaseAll
<1>1. O \subseteq Obj /\ freed \subseteq O
  BY DEF IInv, TypeOK, Immediate
<1>2. \A o \in freed : release_at[o] = None
  BY DEF Immediate
<1>3. TypeOK'
  <2>1. /\ waiters' \in [Type -> Seq(Client)]
        /\ pc' \in [Client -> PCs]
        /\ lost' \in [Type -> BOOLEAN]
    BY <1>0, NotifyTypes DEF IInv, TypeOK
  <2> QED BY <1>0, <1>1, <2>1 DEF IInv, TypeOK, PCs
<1>4. Held' = Held \ O
  BY DEF Held, IInv, TypeOK, Exclusive
<1>5. HeldNotDelayed'
  BY <1>0, <1>1, <1>4 DEF IInv, HeldNotDelayed, Held
<1>6. Exclusive'
  BY DEF IInv, TypeOK, Exclusive
<1>7. NothingLost'
  <2>1. O \subseteq Held
    BY DEF Held
  <2>2. used' = resources' \cap (Held' \cup delayed' \cup leaked')
    <3>1. Immediate(O) \subseteq O
      BY DEF Immediate
    <3>2. O \cap delayed = {}
      BY <2>1 DEF IInv, HeldNotDelayed
    <3>3. /\ used = resources \cap (Held \cup delayed \cup leaked)
          /\ resources' = resources /\ leaked' = leaked
      BY DEF IInv, NothingLost
    <3>4. leaked \cap Held = {}
      BY DEF IInv, LeakedApart
    <3> HIDE DEF O
    <3> QED BY <1>0, <1>4, <2>1, <3>1, <3>2, <3>3, <3>4
  <2>3. availables' = resources' \ used'
    BY <1>0, <1>1 DEF IInv, NothingLost
  <2> QED BY <2>2, <2>3 DEF NothingLost
<1>8. NoEarlyReuse'
  BY <1>0, <1>2 DEF IInv, NoEarlyReuse, None
<1>9. LeakedApart'
  <2>1. O \subseteq Held
    BY DEF Held
  <2> HIDE DEF O
  <2> QED BY <1>0, <1>4, <2>1 DEF IInv, LeakedApart
<1> QED BY <1>3, <1>5, <1>6, <1>7, <1>8, <1>9 DEF IInv

\* Going through the missing types, up to the end or to a wait.
LEMMA ProceedKeepsIInv ==
  ASSUME IInv, NEW c \in Client, Proceed(c)
  PROVE  IInv'
<1> DEFINE T    == Obtainable(c)
           rest == Missing(c) \ T
           blocked == CHOOSE t \in rest :
                        \A u \in rest : AcquireOrder(c, t, u)
<1>1. PICK O \in Pick(T) :
        /\ availables' = availables \ O
        /\ used' = used \cup O
        /\ held' = [held EXCEPT ![c] = @ \cup O]
        /\ Enter(O)
        /\ IF rest = {}
             THEN /\ pc' = [pc EXCEPT ![c] = "held"]
                  /\ UNCHANGED waiters
             ELSE /\ pc' = [pc EXCEPT ![c] = "waiting"]
                  /\ waiters' = [waiters EXCEPT ![blocked] = Append(@, c)]
        /\ UNCHANGED <<resources, delayed, leaked, lost>>
  BY DEF Proceed
<1>2. O \subseteq availables /\ O \subseteq Obj
  BY DEF Pick, IInv, TypeOK
<1>3. /\ release_at' \in [Obj -> None .. MaxDelay]
      /\ \A o \in Obj \ O : release_at'[o] = release_at[o]
  BY <1>1, <1>2, EnterTypes DEF IInv
<1>4. TypeOK'
  <2>1. waiters' \in [Type -> Seq(Client)]
    <3>1. waiters \in [Type -> Seq(Client)]
      BY DEF IInv, TypeOK
    <3>2. \A t \in Type : Append(waiters[t], c) \in Seq(Client)
      BY <3>1
    <3> HIDE DEF blocked, rest
    <3>3. CASE rest = {}
      BY <1>1, <3>1, <3>3
    <3>4. CASE rest # {}
      BY <1>1, <3>1, <3>2, <3>4
    <3> QED BY <3>3, <3>4
  <2>2. pc' \in [Client -> PCs]
    BY <1>1 DEF IInv, TypeOK, PCs
  <2> QED BY <1>1, <1>2, <1>3, <2>1, <2>2 DEF IInv, TypeOK, PCs
<1>5. Held' = Held \cup O
  BY <1>1 DEF Held, IInv, TypeOK
<1>6. O \cap (Held \cup delayed \cup leaked) = {}
  BY <1>2 DEF IInv, NothingLost
<1>7. HeldNotDelayed'
  BY <1>1, <1>5, <1>6 DEF IInv, HeldNotDelayed
<1>8. Exclusive'
  BY <1>1, <1>6 DEF IInv, TypeOK, Exclusive, Held
<1>9. NothingLost'
  BY <1>1, <1>2, <1>5 DEF IInv, NothingLost
<1>10. NoEarlyReuse'
  BY <1>1, <1>3 DEF IInv, TypeOK, NoEarlyReuse
<1>11. LeakedApart'
  BY <1>1, <1>5, <1>6 DEF IInv, LeakedApart
<1> QED BY <1>4, <1>7, <1>8, <1>9, <1>10, <1>11 DEF IInv

\* The context of an object raises as it is entered: what c holds or has just
\* entered is given back, and that object is nobody's.
LEMMA ProceedRaisesKeepsIInv ==
  ASSUME IInv, NEW c \in Client, ProceedRaises(c)
  PROVE  IInv'
<1>1. PICK t \in Obtainable(c) :
        LET before == {u \in Missing(c) \ {t} : AcquireOrder(c, u, t)}
        IN  \E bad \in Available(t) \cap BadLimits, O \in Pick(before) :
              /\ O \cap BadLimits = {}
              /\ Enter(O)
              /\ LET entered == held[c] \cup O
                     later   == {o \in entered : release_at'[o] # None}
                     freed   == (entered \ later) \cap (used \cup O)
                 IN  /\ used' = (used \cup O \cup {bad}) \ freed
                     /\ availables' = (availables \ (O \cup {bad})) \cup freed
                     /\ delayed' = delayed \cup later
                     /\ Notify(TypesOf(freed), waiters,
                               [pc EXCEPT ![c] = "idle"], {})
              /\ leaked' = leaked \cup {bad}
              /\ held' = [held EXCEPT ![c] = {}]
              /\ UNCHANGED resources
  BY DEF ProceedRaises
<1> DEFINE before == {u \in Missing(c) \ {t} : AcquireOrder(c, u, t)}
<1>2. PICK bad \in Available(t) \cap BadLimits, O \in Pick(before) :
        /\ O \cap BadLimits = {}
        /\ Enter(O)
        /\ LET entered == held[c] \cup O
               later   == {o \in entered : release_at'[o] # None}
               freed   == (entered \ later) \cap (used \cup O)
           IN  /\ used' = (used \cup O \cup {bad}) \ freed
               /\ availables' = (availables \ (O \cup {bad})) \cup freed
               /\ delayed' = delayed \cup later
               /\ Notify(TypesOf(freed), waiters, [pc EXCEPT ![c] = "idle"], {})
        /\ leaked' = leaked \cup {bad}
        /\ held' = [held EXCEPT ![c] = {}]
        /\ UNCHANGED resources
  BY <1>1
<1> DEFINE entered == held[c] \cup O
           later   == {o \in entered : release_at'[o] # None}
           freed   == (entered \ later) \cap (used \cup O)
<1>3. /\ used' = (used \cup O \cup {bad}) \ freed
      /\ availables' = (availables \ (O \cup {bad})) \cup freed
      /\ delayed' = delayed \cup later
      /\ Notify(TypesOf(freed), waiters, [pc EXCEPT ![c] = "idle"], {})
      /\ leaked' = leaked \cup {bad}
      /\ held' = [held EXCEPT ![c] = {}]
      /\ resources' = resources
  BY <1>2
<1>4. /\ O \subseteq availables /\ O \subseteq Obj /\ bad \notin O
      /\ bad \in availables /\ bad \in Obj
  BY <1>2 DEF Pick, Available, IInv, TypeOK
<1>5. /\ release_at' \in [Obj -> None .. MaxDelay]
      /\ \A o \in Obj \ O : release_at'[o] = release_at[o]
  BY <1>2, <1>4, EnterTypes DEF IInv
<1>6. /\ entered \subseteq Obj /\ later \subseteq entered
      /\ freed = (entered \ later) \cap (used \cup O)
      /\ \A o \in freed : release_at'[o] = None
      /\ entered = held[c] \cup O /\ held[c] \subseteq Held
  BY <1>4 DEF IInv, TypeOK, Held
<1>7. Held' = Held \ held[c]
  BY <1>3 DEF Held, IInv, TypeOK, Exclusive
<1> HIDE DEF entered, later, freed
<1>8. TypeOK'
  <2>1. [pc EXCEPT ![c] = "idle"] \in [Client -> PCs]
    BY DEF IInv, TypeOK, PCs
  <2>2. /\ waiters' \in [Type -> Seq(Client)]
        /\ pc' \in [Client -> PCs]
        /\ lost' \in [Type -> BOOLEAN]
    BY <1>3, <2>1, NotifyTypes DEF IInv, TypeOK
  <2>3. /\ used' \subseteq Obj /\ availables' \subseteq Obj
        /\ delayed' \subseteq Obj /\ leaked' \subseteq Obj
    BY <1>3, <1>4, <1>6 DEF IInv, TypeOK
  <2>4. held' \in [Client -> SUBSET Obj] /\ resources' \subseteq Obj
    BY <1>3 DEF IInv, TypeOK
  <2> QED BY <1>5, <2>2, <2>3, <2>4 DEF TypeOK, PCs
<1>9. /\ used = resources \cap (Held \cup delayed \cup leaked)
      /\ availables = resources \ used
      /\ Held \cap delayed = {}
      /\ leaked \cap (Held \cup delayed) = {} /\ leaked \subseteq resources
  BY DEF IInv, NothingLost, HeldNotDelayed, LeakedApart
<1>10. (O \cup {bad}) \cap (Held \cup delayed \cup leaked) = {}
  BY <1>4, <1>9
<1>11. O \cup {bad} \subseteq resources
  BY <1>4, <1>9
<1>12. NothingLost'
  <2>1. used' = resources' \cap (Held' \cup delayed' \cup leaked')
    <3> SUFFICES ASSUME NEW x
                 PROVE  x \in used' <=>
                          x \in resources /\ (x \in Held' \/ x \in delayed' \/ x \in leaked')
      BY <1>3
    <3>1. x \in used <=>
            x \in resources /\ (x \in Held \/ x \in delayed \/ x \in leaked)
      BY <1>9
    <3>2. x \in Held' <=> x \in Held /\ x \notin held[c]
      BY <1>7
    <3>3. /\ x \in delayed' <=> x \in delayed \/ x \in later
          /\ x \in leaked' <=> x \in leaked \/ x = bad
          /\ x \in used' <=> (x \in used \/ x \in O \/ x = bad) /\ x \notin freed
      BY <1>3
    <3>4. /\ x \in freed <=>
               (x \in held[c] \/ x \in O) /\ x \notin later /\ (x \in used \/ x \in O)
          /\ x \in later => x \in held[c] \/ x \in O
          /\ x \in held[c] => x \in Held
      BY <1>6
    <3>5. /\ x \in O \/ x = bad => x \in resources /\ x \notin Held
                                 /\ x \notin delayed /\ x \notin leaked
          /\ x \in O => x # bad
          /\ x \in Held => x \notin delayed /\ x \notin leaked
      BY <1>4, <1>9, <1>10, <1>11
    <3> QED BY <3>1, <3>2, <3>3, <3>4, <3>5
  <2>2. availables' = resources' \ used'
    <3> SUFFICES ASSUME NEW x
                 PROVE  x \in availables' <=> x \in resources /\ x \notin used'
      BY <1>3
    <3>1. /\ x \in availables <=> x \in resources /\ x \notin used
          /\ x \in freed => x \in used \/ x \in O
          /\ x \in used => x \in resources
          /\ x \in O \/ x = bad => x \in resources
          /\ x \in freed => x # bad
      BY <1>4, <1>6, <1>9, <1>10, <1>11
    <3>2. /\ x \in availables' <=>
               \/ x \in availables /\ x \notin O /\ x # bad
               \/ x \in freed
          /\ x \in used' <=> (x \in used \/ x \in O \/ x = bad) /\ x \notin freed
      BY <1>3
    <3> QED BY <3>1, <3>2
  <2> QED BY <2>1, <2>2 DEF NothingLost
<1>13. HeldNotDelayed'
  BY <1>3, <1>6, <1>7, <1>9, <1>10 DEF HeldNotDelayed
<1>14. LeakedApart'
  BY <1>3, <1>4, <1>6, <1>7, <1>9, <1>10, <1>11 DEF LeakedApart
<1>15. Exclusive'
  BY <1>3 DEF IInv, TypeOK, Exclusive
<1>16. NoEarlyReuse'
  BY <1>3, <1>5, <1>6 DEF IInv, TypeOK, NoEarlyReuse, None
<1> QED BY <1>8, <1>12, <1>13, <1>14, <1>15, <1>16 DEF IInv

\* The manager starts with no resource: every part of the invariant holds
\* (manager.py:142-149, 212-219).
THEOREM InitIInv == Init => IInv
<1> SUFFICES ASSUME Init PROVE IInv
  OBVIOUS
<1>1. TypeOK
  BY ObjAssumption DEF Init, TypeOK, None
<1> QED BY <1>1 DEF Init, IInv, NothingLost, Exclusive, HeldNotDelayed,
                    LeakedApart, Held, NoEarlyReuse

\* Every operation of the manager preserves the invariant: additions, removals,
\* acquisitions with and without waiting, cancellations, releases and delays.
THEOREM NextIInv == IInv /\ [Next]_vars => IInv'
<1> SUFFICES ASSUME IInv, [Next]_vars
             PROVE  IInv'
  OBVIOUS
<1> USE DEF IInv
<1>1. ASSUME NEW o \in Obj, AddResource(o)
      PROVE  IInv'
  <2>1. /\ waiters' \in [Type -> Seq(Client)]
        /\ pc' \in [Client -> PCs]
        /\ lost' \in [Type -> BOOLEAN]
    BY <1>1, NotifyTypes DEF AddResource, TypeOK, PCs
  <2>2. TypeOK'
    BY <1>1, <2>1, ObjAssumption DEF AddResource, TypeOK, PCs, None
  <2>3. Held' = Held
    BY <1>1 DEF AddResource, Held
  <2>4. NothingLost'
    BY <1>1, <2>3 DEF AddResource, NothingLost, LeakedApart
  <2>5. Exclusive' /\ HeldNotDelayed' /\ LeakedApart'
    BY <1>1, <2>3 DEF AddResource, Exclusive, HeldNotDelayed, LeakedApart
  <2>6. NoEarlyReuse'
    BY <1>1 DEF AddResource, NoEarlyReuse, TypeOK, None
  <2> QED BY <2>2, <2>4, <2>5, <2>6
<1>2. ASSUME NEW o \in Obj, RemoveResource(o)
      PROVE  IInv'
  <2>1. TypeOK'
    BY <1>2 DEF RemoveResource, TypeOK
  <2>2. Held' = Held
    BY <1>2 DEF RemoveResource, Held
  <2>3. /\ NothingLost' /\ Exclusive' /\ HeldNotDelayed' /\ LeakedApart'
        /\ NoEarlyReuse'
    BY <1>2, <2>2 DEF RemoveResource, NothingLost, Exclusive, HeldNotDelayed,
                      LeakedApart, NoEarlyReuse
  <2> QED BY <2>1, <2>3
<1>3. ASSUME NEW o \in Obj, DelayedRelease(o)
      PROVE  IInv'
  <2>1. /\ waiters' \in [Type -> Seq(Client)]
        /\ pc' \in [Client -> PCs]
        /\ lost' \in [Type -> BOOLEAN]
    BY <1>3, NotifyTypes DEF DelayedRelease, TypeOK, PCs
  <2>2. TypeOK'
    BY <1>3, <2>1 DEF DelayedRelease, TypeOK, PCs
  <2>3. Held' = Held
    BY <1>3 DEF DelayedRelease, Held
  <2>4. NothingLost'
    BY <1>3, <2>3 DEF DelayedRelease, NothingLost, HeldNotDelayed, LeakedApart
  <2>5. Exclusive' /\ HeldNotDelayed' /\ LeakedApart'
    BY <1>3, <2>3 DEF DelayedRelease, Exclusive, HeldNotDelayed, LeakedApart
  <2>6. NoEarlyReuse'
    BY <1>3 DEF DelayedRelease, NoEarlyReuse
  <2> QED BY <2>2, <2>4, <2>5, <2>6
<1>4. ASSUME NEW c \in Client, AcquireMany(c)
      PROVE  IInv'
  BY <1>4, ProceedKeepsIInv, ProceedRaisesKeepsIInv DEF AcquireMany
<1>5. ASSUME NEW c \in Client, AcquireManyFails(c)
      PROVE  IInv'
  <2>1. PICK O \in Pick(Obtainable(c)) :
          /\ Enter(O)
          /\ LET later == {o \in O : release_at'[o] # None}
             IN  /\ availables' = availables \ later
                 /\ used' = used \cup later
                 /\ delayed' = delayed \cup later
                 /\ Notify(TypesOf(O \ later), waiters, pc, {})
    BY <1>5 DEF AcquireManyFails
  <2> DEFINE later == {o \in O : release_at'[o] # None}
  <2>2. /\ O \subseteq availables
        /\ O \subseteq Obj
        /\ later \subseteq O
    BY DEF Pick, TypeOK
  <2>3. /\ availables' = availables \ later
        /\ used' = used \cup later
        /\ delayed' = delayed \cup later
        /\ Notify(TypesOf(O \ later), waiters, pc, {})
        /\ UNCHANGED <<resources, held, leaked>>
    BY <1>5, <2>1 DEF AcquireManyFails
  <2>4. /\ release_at' \in [Obj -> None .. MaxDelay]
        /\ \A o \in Obj \ O : release_at'[o] = release_at[o]
    BY <2>1, <2>2, EnterTypes
  <2>5. \A o \in O \ later : release_at'[o] = None
    OBVIOUS
  <2> HIDE DEF later
  <2>6. /\ waiters' \in [Type -> Seq(Client)]
        /\ pc' \in [Client -> PCs]
        /\ lost' \in [Type -> BOOLEAN]
    BY <2>3, NotifyTypes DEF TypeOK, PCs
  <2>7. TypeOK'
    BY <2>2, <2>3, <2>4, <2>6 DEF TypeOK, PCs
  <2>8. Held' = Held
    BY <2>3 DEF Held
  <2>9. NothingLost'
    BY <2>2, <2>3, <2>8 DEF NothingLost
  <2>10. Exclusive' /\ HeldNotDelayed' /\ LeakedApart'
    BY <2>2, <2>3, <2>8 DEF Exclusive, HeldNotDelayed, LeakedApart, NothingLost
  <2>11. NoEarlyReuse'
    BY <2>2, <2>3, <2>4, <2>5 DEF NoEarlyReuse, TypeOK, None
  <2> QED BY <2>7, <2>9, <2>10, <2>11
<1>6. ASSUME NEW c \in Client, Wake(c)
      PROVE  IInv'
  BY <1>6, ProceedKeepsIInv, ProceedRaisesKeepsIInv DEF Wake
<1>7. ASSUME NEW c \in Client, CancelWait(c)
      PROVE  IInv'
  <2> DEFINE t == NextType(c)
             gone == [pc EXCEPT ![c] = "idle"]
  <2>1. gone \in [Client -> PCs]
    BY DEF TypeOK, PCs
  <2>2. /\ held' = [held EXCEPT ![c] = {}]
        /\ UNCHANGED <<resources, release_at, leaked>>
        /\ waiters \in [Type -> Seq(Client)]
    BY <1>7 DEF CancelWait, TypeOK
  <2>3. CASE pc[c] = "notified"
    <3>1. ReleaseAll(held[c], waiters, gone, {t})
      BY <1>7, <2>3 DEF CancelWait
    <3> QED BY <2>1, <2>2, <3>1, ReleaseAllKeepsIInv
  <2>4. CASE pc[c] # "notified"
    <3>1. PICK i \in 1 .. Len(waiters[t]) :
            ReleaseAll(held[c], [waiters EXCEPT ![t] = RemoveAt(@, i)], gone, {})
      BY <1>7, <2>4 DEF CancelWait
    <3> DEFINE ws == [waiters EXCEPT ![t] = RemoveAt(@, i)]
    <3>2. ws \in [Type -> Seq(Client)]
      BY <2>2, RemoveAtIsSeq
    <3> QED BY <2>1, <2>2, <3>1, <3>2, ReleaseAllKeepsIInv
  <2> QED BY <2>3, <2>4
<1>8. ASSUME NEW c \in Client, Release(c)
      PROVE  IInv'
  <2>1. [pc EXCEPT ![c] = "idle"] \in [Client -> PCs]
    BY DEF TypeOK, PCs
  <2> QED BY <1>8, <2>1, ReleaseAllKeepsIInv DEF Release, TypeOK
<1>9. ASSUME NEW c \in Client, NEW o \in Obj, NEW when \in 0 .. MaxDelay,
             ReleaseLater(c, o, when)
      PROVE  IInv'
  <2>1. TypeOK'
    BY <1>9, ObjAssumption DEF ReleaseLater, TypeOK, None
  <2>2. Held' = Held /\ o \in Held
    BY <1>9 DEF ReleaseLater, Held
  <2>3. o \notin availables
    BY <2>2 DEF NothingLost
  <2>4. NoEarlyReuse'
    BY <1>9, <2>3 DEF ReleaseLater, NoEarlyReuse, TypeOK
  <2> QED BY <1>9, <2>1, <2>2, <2>4 DEF ReleaseLater, NothingLost, Exclusive,
                                        HeldNotDelayed, LeakedApart
<1>10. ASSUME Tick
       PROVE  IInv'
  <2>1. TypeOK'
    BY <1>10, ObjAssumption DEF Tick, TypeOK, None
  <2>2. NoEarlyReuse'
    BY <1>10 DEF Tick, NoEarlyReuse, TypeOK
  <2> QED BY <1>10, <2>1, <2>2 DEF Tick, NothingLost, Exclusive,
                                   HeldNotDelayed, LeakedApart, Held
<1>11. CASE UNCHANGED vars
  BY <1>11 DEF vars, TypeOK, NothingLost, Exclusive, HeldNotDelayed,
               LeakedApart, Held, NoEarlyReuse
<1> QED BY <1>1, <1>2, <1>3, <1>4, <1>5, <1>6, <1>7, <1>8, <1>9, <1>10, <1>11
        DEF Next

\* The variables of the manager keep their types.
THEOREM TypeCorrect == Spec => []TypeOK
<1>1. Spec => []IInv
  BY InitIInv, NextIInv, PTL DEF Spec
<1>2. IInv => TypeOK
  BY DEF IInv
<1> QED BY <1>1, <1>2, PTL

\* A resource object is in the hands of one client at a time, whatever is added,
\* removed or cancelled meanwhile (manager.py:151-209).
THEOREM ExclusiveUse == Spec => []Exclusive
<1>1. Spec => []IInv
  BY InitIInv, NextIInv, PTL DEF Spec
<1>2. IInv => Exclusive
  BY DEF IInv
<1> QED BY <1>1, <1>2, PTL

\* No registered resource is lost: each is available, or somebody will give it
\* back; no removed one comes back (manager.py:190-209).
THEOREM ResourcesAccounted == Spec => []NothingLost
<1>1. Spec => []IInv
  BY InitIInv, NextIInv, PTL DEF Spec
<1>2. IInv => NothingLost
  BY DEF IInv
<1> QED BY <1>1, <1>2, PTL

\* No resource becomes available before its release time (manager.py:52-84).
THEOREM ReuseAfterRelease == Spec => []NoEarlyReuse
<1>1. Spec => []IInv
  BY InitIInv, NextIInv, PTL DEF Spec
<1>2. IInv => NoEarlyReuse
  BY DEF IInv
<1> QED BY <1>1, <1>2, PTL

----------------------------------------------------------------------------
(* The wake-ups.  A notified client counts for the type it waits for, so the *)
(* invariant says where the clients of each queue stand, and that one step   *)
(* makes at most one object of a type available for each notify().           *)

\* The clients in the queue of a type wait for that type, un-notified.
Queued ==
  \A t \in Type, d \in Client : \A i \in 1 .. Len(waiters[t]) :
    waiters[t][i] = d => pc[d] = "waiting" /\ NextType(d) = t

\* A client is once in a queue.
NoRepeat ==
  \A t \in Type : \A i, j \in 1 .. Len(waiters[t]) :
    waiters[t][i] = waiters[t][j] => i = j

\* A client holds one object of a type at most.
OneOfEachType ==
  \A c \in Client : \A o, p \in held[c] : TypeOf[o] = TypeOf[p] => o = p

\* The objects and the clients that the property counts are finitely many.
Countable ==
  \A t \in Type : IsFiniteSet(Available(t)) /\ IsFiniteSet(Notified(t))

\* A client that waits, or was notified, still misses a type.
Waiting(d) == pc[d] \in {"waiting", "notified"}
StillMissing == \A d \in Client : Waiting(d) => Missing(d) # {}

WakeIInv ==
  /\ Queued /\ NoRepeat /\ OneOfEachType /\ Countable /\ StillMissing
  /\ WakeupsCoverAvailables

\* A set of types that is not empty has a least one: the types are finitely
\* many integers.
LEMMA SmallestType ==
  ASSUME NEW M \in SUBSET Type, M # {}
  PROVE  \E t \in M : \A u \in M : t <= u
<1> DEFINE below(t) == {u \in M : u <= t}
           B == {below(t) : t \in M}
<1>1. M \subseteq Int /\ IsFiniteSet(M)
  BY ClientAssumption, FS_Subset
<1>2. B \subseteq FiniteSubsetsOf(M)
  BY <1>1, FS_Subset DEF FiniteSubsetsOf
<1>3. B # {}
  OBVIOUS
<1>4. PICK x \in B : \A y \in B : <<y, x>> \notin StrictSubsetOrdering(M)
  <2> HIDE DEF B
  <2> QED BY <1>2, <1>3, FS_StrictSubsetOrderingWellFounded, WFMin
<1>5. PICK t \in M : x = below(t)
  OBVIOUS
<1>6. ASSUME NEW u \in M, ~ (t <= u)
      PROVE  FALSE
  <2>1. below(u) \in B /\ below(u) \subseteq M /\ below(t) \subseteq M
    OBVIOUS
  <2>2. below(u) \subseteq below(t) /\ t \in below(t) /\ t \notin below(u)
    <3>1. u \in Int /\ t \in Int /\ u < t
      BY <1>1, <1>6
    <3>2. \A v \in M : v <= u => v <= t
      BY <1>1, <3>1
    <3>3. \A v : v \in below(t) <=> v \in M /\ v <= t
      OBVIOUS
    <3>4. \A v : v \in below(u) <=> v \in M /\ v <= u
      OBVIOUS
    <3> HIDE DEF below
    <3>5. t \in below(t) /\ t \notin below(u)
      BY <3>1, <3>3, <3>4
    <3> QED BY <3>2, <3>3, <3>4, <3>5
  <2>3. <<below(u), below(t)>> \in StrictSubsetOrdering(M)
    <3> HIDE DEF below
    <3> QED BY <2>1, <2>2 DEF StrictSubsetOrdering
  <2> QED BY <1>4, <1>5, <2>1, <2>3
<1> QED BY <1>5, <1>6

\* The objects of type t in A; the clients that the places pcs call notified and
\* that nt gives the type t.
OfType(A, t) == {o \in A : TypeOf[o] = t}
NotifiedIn(pcs, nt, t) == {d \in Client : pcs[d] = "notified" /\ nt[d] = t}

\* The parts of the invariant, for queues, places and objects that a step is
\* still to change with its notify().
QueuedIn(ws, pcs, nt) ==
  \A t \in Type, d \in Client : \A i \in 1 .. Len(ws[t]) :
    ws[t][i] = d => pcs[d] = "waiting" /\ nt[d] = t

NoRepeatIn(ws) ==
  \A t \in Type : \A i, j \in 1 .. Len(ws[t]) : ws[t][i] = ws[t][j] => i = j

CoveredIn(A, ws, pcs, nt, L) ==
  \A t \in Type :
    /\ IsFiniteSet(OfType(A, t)) /\ IsFiniteSet(NotifiedIn(pcs, nt, t))
    /\ ws[t] # <<>> /\ ~lost[t] /\ t \notin L =>
         Cardinality(OfType(A, t)) <= Cardinality(NotifiedIn(pcs, nt, t))

\* What a client misses next depends on what it holds only.
LEMMA NextTypeStays ==
  ASSUME NEW d, held'[d] = held[d]
  PROVE  NextType(d)' = NextType(d)
BY DEF NextType, Missing

\* notify() on the types of the objects F that become available: if the others,
\* A, were covered by the clients notified, then all are.
LEMMA NotifyCovers ==
  ASSUME NEW A \in SUBSET Obj, NEW F \in SUBSET Obj, NEW L,
         NEW ws \in [Type -> Seq(Client)], NEW pcs \in [Client -> PCs],
         NEW nt, \A d \in Client : NextType(d)' = nt[d],
         lost \in [Type -> BOOLEAN],
         \A o, p \in F : TypeOf[o] = TypeOf[p] => o = p,
         availables' = A \cup F,
         Notify(TypesOf(F), ws, pcs, L),
         QueuedIn(ws, pcs, nt), NoRepeatIn(ws), CoveredIn(A, ws, pcs, nt, L)
  PROVE  /\ Queued' /\ NoRepeat' /\ Countable' /\ WakeupsCoverAvailables'
         /\ \A d \in Client :
              Waiting(d)' => pcs[d] \in {"waiting", "notified"}
<1> DEFINE waking == {t \in TypesOf(F) : ws[t] # <<>>}
           woken  == {Head(ws[t]) : t \in waking}
           At(t)  == OfType(A, t)
           Nt(t)  == NotifiedIn(pcs, nt, t)
<1>1. TypesOf(F) \subseteq Type /\ waking \subseteq Type
  BY ObjAssumption DEF TypesOf
<1>2. /\ waiters' = [t \in Type |-> IF t \in waking THEN Tail(ws[t]) ELSE ws[t]]
      /\ pc' = [c \in Client |-> IF c \in woken THEN "notified" ELSE pcs[c]]
      /\ lost' = [t \in Type |-> (lost[t] \/ t \in L) /\ waiters'[t] # <<>>]
  BY DEF Notify
<1>3. \A t \in waking :
        /\ Head(ws[t]) \in Client
        /\ Head(ws[t]) = ws[t][1]
        /\ 1 \in 1 .. Len(ws[t])
        /\ Len(Tail(ws[t])) = Len(ws[t]) - 1
        /\ \A i \in 1 .. Len(Tail(ws[t])) :
             i + 1 \in 1 .. Len(ws[t]) /\ Tail(ws[t])[i] = ws[t][i + 1]
        /\ Tail(ws[t]) \in Seq(Client)
  <2> SUFFICES ASSUME NEW t \in waking
               PROVE  /\ Head(ws[t]) \in Client
                      /\ Head(ws[t]) = ws[t][1]
                      /\ 1 \in 1 .. Len(ws[t])
                      /\ Len(Tail(ws[t])) = Len(ws[t]) - 1
                      /\ \A i \in 1 .. Len(Tail(ws[t])) :
                           i + 1 \in 1 .. Len(ws[t]) /\ Tail(ws[t])[i] = ws[t][i + 1]
                      /\ Tail(ws[t]) \in Seq(Client)
    OBVIOUS
  <2>1. ws[t] \in Seq(Client) /\ ws[t] # <<>>
    BY <1>1
  <2> QED BY <2>1, HeadTailProperties, EmptySeq, LenProperties
<1>4. \A t \in waking : pcs[Head(ws[t])] = "waiting" /\ nt[Head(ws[t])] = t
  BY <1>1, <1>3 DEF QueuedIn
<1>5. \A t \in Type : \A i \in 1 .. Len(waiters'[t]) :
        \E j \in 1 .. Len(ws[t]) :
          /\ waiters'[t][i] = ws[t][j]
          /\ j = (IF t \in waking THEN i + 1 ELSE i)
  BY <1>2, <1>3
<1>6. \A t \in Type : \A i \in 1 .. Len(waiters'[t]) : waiters'[t][i] \notin woken
  <2> SUFFICES ASSUME NEW t \in Type, NEW i \in 1 .. Len(waiters'[t]),
                      NEW u \in waking, waiters'[t][i] = Head(ws[u])
               PROVE  FALSE
    OBVIOUS
  <2>1. PICK j \in 1 .. Len(ws[t]) :
          /\ waiters'[t][i] = ws[t][j]
          /\ j = (IF t \in waking THEN i + 1 ELSE i)
    BY <1>5
  <2>2. Head(ws[u]) \in Client /\ ws[t][j] = Head(ws[u])
    BY <1>3, <2>1
  <2>3. nt[Head(ws[u])] = t /\ nt[Head(ws[u])] = u
    BY <1>4, <2>2 DEF QueuedIn
  <2>4. j = i + 1 /\ ws[t][j] = ws[t][1] /\ 1 \in 1 .. Len(ws[t])
    BY <1>3, <2>1, <2>2, <2>3
  <2> QED BY <2>4 DEF NoRepeatIn
<1>7. Queued'
  <2> SUFFICES ASSUME NEW t \in Type, NEW d \in Client,
                      NEW i \in 1 .. Len(waiters'[t]), waiters'[t][i] = d
               PROVE  pc'[d] = "waiting" /\ NextType(d)' = t
    BY DEF Queued
  <2>1. d \notin woken
    BY <1>6
  <2>2. \E j \in 1 .. Len(ws[t]) : ws[t][j] = d
    BY <1>5
  <2>3. pcs[d] = "waiting" /\ nt[d] = t
    BY <2>2 DEF QueuedIn
  <2> HIDE DEF woken
  <2> QED BY <1>2, <2>1, <2>3
<1>8. NoRepeat'
  <2> SUFFICES ASSUME NEW t \in Type,
                      NEW i \in 1 .. Len(waiters'[t]),
                      NEW j \in 1 .. Len(waiters'[t]),
                      waiters'[t][i] = waiters'[t][j]
               PROVE  i = j
    BY DEF NoRepeat
  <2> HIDE DEF waking
  <2>1. PICK k \in 1 .. Len(ws[t]) :
          /\ waiters'[t][i] = ws[t][k]
          /\ k = (IF t \in waking THEN i + 1 ELSE i)
    BY <1>5
  <2>2. PICK l \in 1 .. Len(ws[t]) :
          /\ waiters'[t][j] = ws[t][l]
          /\ l = (IF t \in waking THEN j + 1 ELSE j)
    BY <1>5
  <2>3. k = l
    BY <2>1, <2>2 DEF NoRepeatIn
  <2> QED BY <2>1, <2>2, <2>3
<1>9. \A t \in Type :
        Notified(t)' = IF t \in waking THEN Nt(t) \cup {Head(ws[t])} ELSE Nt(t)
  <2> SUFFICES ASSUME NEW t \in Type, NEW d \in Client
               PROVE  (pc'[d] = "notified" /\ nt[d] = t) <=>
                        \/ pcs[d] = "notified" /\ nt[d] = t
                        \/ t \in waking /\ d = Head(ws[t])
    BY <1>3 DEF Notified, NotifiedIn
  <2>1. CASE d \in woken
    BY <1>2, <1>4, <2>1
  <2>2. CASE d \notin woken
    BY <1>2, <2>2
  <2> QED BY <2>1, <2>2
<1>10. \A t \in waking : Head(ws[t]) \notin Nt(t)
  BY <1>4 DEF NotifiedIn
<1>11. \A t \in Type \ TypesOf(F) : Available(t)' = At(t)
  BY DEF Available, OfType, TypesOf
<1>12. \A o \in F : Available(TypeOf[o])' = At(TypeOf[o]) \cup {o}
  BY DEF Available, OfType
<1>13. \A t \in Type : IsFiniteSet(At(t)) /\ IsFiniteSet(Nt(t))
  BY DEF CoveredIn
<1>14. \A t \in Type :
         /\ IsFiniteSet(Available(t)')
         /\ Cardinality(Available(t)') \in Nat
         /\ Cardinality(At(t)) \in Nat
         /\ Cardinality(Available(t)') <= Cardinality(At(t)) + 1
         /\ t \notin TypesOf(F) => Cardinality(Available(t)') = Cardinality(At(t))
  <2> SUFFICES ASSUME NEW t \in Type
               PROVE  /\ IsFiniteSet(Available(t)')
                      /\ Cardinality(Available(t)') \in Nat
                      /\ Cardinality(At(t)) \in Nat
                      /\ Cardinality(Available(t)') <= Cardinality(At(t)) + 1
                      /\ t \notin TypesOf(F) =>
                           Cardinality(Available(t)') = Cardinality(At(t))
    OBVIOUS
  <2> HIDE DEF At
  <2>1. IsFiniteSet(At(t)) /\ Cardinality(At(t)) \in Nat
    BY <1>13, FS_CardinalityType
  <2>2. CASE t \notin TypesOf(F)
    BY <1>11, <2>1, <2>2
  <2>3. CASE t \in TypesOf(F)
    <3>1. PICK o \in F : TypeOf[o] = t
      BY <2>3 DEF TypesOf
    <3>2. Available(t)' = At(t) \cup {o}
      BY <1>12, <3>1
    <3>3. /\ IsFiniteSet(At(t) \cup {o})
          /\ Cardinality(At(t) \cup {o}) =
               IF o \in At(t) THEN Cardinality(At(t)) ELSE Cardinality(At(t)) + 1
      BY <2>1, FS_AddElement
    <3>4. /\ IsFiniteSet(Available(t)')
          /\ \/ Cardinality(Available(t)') = Cardinality(At(t))
             \/ Cardinality(Available(t)') = Cardinality(At(t)) + 1
      BY <3>2, <3>3
    <3> QED BY <2>1, <2>3, <3>4
  <2> QED BY <2>2, <2>3
<1>15. \A t \in Type :
         /\ IsFiniteSet(Notified(t)')
         /\ Cardinality(Nt(t)) \in Nat
         /\ Cardinality(Notified(t)') =
              Cardinality(Nt(t)) + (IF t \in waking THEN 1 ELSE 0)
  <2> SUFFICES ASSUME NEW t \in Type
               PROVE  /\ IsFiniteSet(Notified(t)')
                      /\ Cardinality(Nt(t)) \in Nat
                      /\ Cardinality(Notified(t)') =
                           Cardinality(Nt(t)) + (IF t \in waking THEN 1 ELSE 0)
    OBVIOUS
  <2> HIDE DEF Nt, waking
  <2>1. IsFiniteSet(Nt(t)) /\ Cardinality(Nt(t)) \in Nat
    BY <1>13, FS_CardinalityType
  <2>2. CASE t \in waking
    <3>1. /\ IsFiniteSet(Nt(t) \cup {Head(ws[t])})
          /\ Cardinality(Nt(t) \cup {Head(ws[t])}) = Cardinality(Nt(t)) + 1
      BY <1>10, <2>1, <2>2, FS_AddElement
    <3>2. Notified(t)' = Nt(t) \cup {Head(ws[t])}
      BY <1>9, <2>2
    <3> QED BY <2>1, <2>2, <3>1, <3>2
  <2>3. CASE t \notin waking
    BY <1>9, <2>1, <2>3
  <2> QED BY <2>2, <2>3
<1>16. Countable'
  BY <1>14, <1>15 DEF Countable
<1>17. WakeupsCoverAvailables'
  <2> SUFFICES ASSUME NEW t \in Type, waiters'[t] # <<>>, ~lost'[t]
               PROVE  Cardinality(Available(t)') <= Cardinality(Notified(t)')
    BY DEF WakeupsCoverAvailables
  <2>1. ws[t] # <<>>
    BY <1>1, <1>2
  <2>2. ~lost[t] /\ t \notin L
    BY <1>2
  <2>3. Cardinality(At(t)) <= Cardinality(Nt(t))
    BY <2>1, <2>2 DEF CoveredIn
  <2>4. t \in waking <=> t \in TypesOf(F)
    BY <2>1
  <2> HIDE DEF At, Nt, waking
  <2> QED BY <1>14, <1>15, <2>3, <2>4
<1>18. ASSUME NEW d \in Client, Waiting(d)'
       PROVE  pcs[d] \in {"waiting", "notified"}
  BY <1>2, <1>4, <1>18 DEF Waiting
<1> QED BY <1>7, <1>8, <1>16, <1>17, <1>18

\* The next type of a client that misses some is the least one.
LEMMA NextTypeIsLeast ==
  ASSUME NEW c \in Client, Missing(c) # {}
  PROVE  NextType(c) \in Missing(c) /\ \A u \in Missing(c) : NextType(c) <= u
<1>1. Missing(c) \in SUBSET Type
  BY ClientAssumption DEF Missing
<1>2. \E t \in Missing(c) : \A u \in Missing(c) : t <= u
  BY <1>1, SmallestType
<1> QED BY <1>2 DEF NextType, AcquireOrder

\* Going through the missing types keeps the wake-ups covered: where c takes an
\* object it leaves the clients notified, and it waits where nothing is free.
LEMMA ProceedCovers ==
  ASSUME IInv, WakeIInv, NEW c \in Client, pc[c] \in {"idle", "notified"},
         Proceed(c)
  PROVE  WakeIInv'
<1> DEFINE T    == Obtainable(c)
           rest == Missing(c) \ T
           blocked == CHOOSE t \in rest :
                        \A u \in rest : AcquireOrder(c, t, u)
<1>1. PICK O \in Pick(T) :
        /\ availables' = availables \ O
        /\ held' = [held EXCEPT ![c] = @ \cup O]
        /\ IF rest = {}
             THEN /\ pc' = [pc EXCEPT ![c] = "held"]
                  /\ UNCHANGED waiters
             ELSE /\ pc' = [pc EXCEPT ![c] = "waiting"]
                  /\ waiters' = [waiters EXCEPT ![blocked] = Append(@, c)]
        /\ UNCHANGED lost
  BY DEF Proceed
<1>2. /\ O \subseteq availables /\ O \subseteq Obj /\ TypesOf(O) = T
      /\ \A o, p \in O : TypeOf[o] = TypeOf[p] => o = p
      /\ T \subseteq Missing(c)
      /\ Missing(c) \subseteq Type /\ Type \subseteq Int
  BY ClientAssumption DEF Pick, IInv, TypeOK, Obtainable, Missing
<1>3. /\ waiters \in [Type -> Seq(Client)]
      /\ pc \in [Client -> PCs]
      /\ held \in [Client -> SUBSET Obj]
  BY DEF IInv, TypeOK, PCs
<1>4. ASSUME rest # {}
      PROVE  blocked \in rest /\ \A u \in rest : blocked <= u
  <2>1. \E t \in rest : \A u \in rest : t <= u
    BY <1>2, <1>4, SmallestType
  <2> QED BY <2>1 DEF AcquireOrder
<1>5. ASSUME rest # {}
      PROVE  Available(blocked) = {}
  <2> HIDE DEF blocked
  <2>1. PICK u \in Missing(c) : u <= blocked /\ Available(u) = {}
    BY <1>4, <1>5 DEF Obtainable, AcquireOrder
  <2>2. u \in rest
    <3>1. u \in Int
      BY <1>2
    <3>2. u \notin Obtainable(c)
      <4>1. AcquireOrder(c, u, u)
        BY <3>1 DEF AcquireOrder
      <4> QED BY <2>1, <4>1 DEF Obtainable
    <3> QED BY <3>2
  <2>3. u = blocked
    <3>1. blocked \in rest /\ blocked <= u
      BY <1>4, <1>5, <2>2
    <3>2. u \in Int /\ blocked \in Int
      BY <1>2, <3>1
    <3> QED BY <2>1, <3>1, <3>2
  <2> QED BY <2>1, <2>3
<1>6. \A d \in Client \ {c} : held'[d] = held[d] /\ pc'[d] = pc[d]
  BY <1>1, <1>3
<1>7. \A d \in Client \ {c} : NextType(d)' = NextType(d)
  BY <1>6, NextTypeStays
<1>8. Missing(c)' = rest
  <2>1. held'[c] = held[c] \cup O
    BY <1>1, <1>3
  <2> QED BY <1>2, <2>1 DEF Missing, TypesOf
<1>9. NextType(c)' = blocked
  BY <1>8 DEF NextType, AcquireOrder
<1>10. \A t \in Type : \A i \in 1 .. Len(waiters[t]) :
         waiters[t][i] \in Client \ {c}
  BY <1>3 DEF WakeIInv, Queued
<1> HIDE DEF T, rest, blocked
<1>11. /\ pc'[c] = IF rest = {} THEN "held" ELSE "waiting"
       /\ \A t \in Type :
            waiters'[t] = IF rest # {} /\ t = blocked
                          THEN Append(waiters[t], c) ELSE waiters[t]
  BY <1>1, <1>3
<1>12. \A t \in Type : \A i \in 1 .. Len(waiters'[t]) :
         \/ i \in 1 .. Len(waiters[t]) /\ waiters'[t][i] = waiters[t][i]
         \/ /\ rest # {} /\ t = blocked
            /\ i = Len(waiters[t]) + 1 /\ waiters'[t][i] = c
  <2> SUFFICES ASSUME NEW t \in Type, NEW i \in 1 .. Len(waiters'[t])
               PROVE  \/ i \in 1 .. Len(waiters[t]) /\ waiters'[t][i] = waiters[t][i]
                      \/ /\ rest # {} /\ t = blocked
                         /\ i = Len(waiters[t]) + 1 /\ waiters'[t][i] = c
    OBVIOUS
  <2>1. waiters[t] \in Seq(Client)
    BY <1>3
  <2>2. CASE rest # {} /\ t = blocked
    <3>1. waiters'[t] = Append(waiters[t], c)
      BY <1>11, <2>2
    <3> QED BY <2>1, <2>2, <3>1
  <2>3. CASE ~ (rest # {} /\ t = blocked)
    BY <1>11, <2>1, <2>3
  <2> QED BY <2>2, <2>3
<1>13. Queued'
  <2> SUFFICES ASSUME NEW t \in Type, NEW d \in Client,
                      NEW i \in 1 .. Len(waiters'[t]), waiters'[t][i] = d
               PROVE  pc'[d] = "waiting" /\ NextType(d)' = t
    BY DEF Queued
  <2>1. CASE d = c
    BY <1>9, <1>10, <1>11, <1>12, <2>1
  <2>2. CASE d # c
    <3>1. i \in 1 .. Len(waiters[t]) /\ waiters[t][i] = d
      BY <1>12, <2>2
    <3>2. pc[d] = "waiting" /\ NextType(d) = t
      BY <3>1 DEF WakeIInv, Queued
    <3> QED BY <1>6, <1>7, <2>2, <3>2
  <2> QED BY <2>1, <2>2
<1>14. NoRepeat'
  <2> SUFFICES ASSUME NEW t \in Type,
                      NEW i \in 1 .. Len(waiters'[t]),
                      NEW j \in 1 .. Len(waiters'[t]),
                      waiters'[t][i] = waiters'[t][j]
               PROVE  i = j
    BY DEF NoRepeat
  <2> QED BY <1>10, <1>12 DEF WakeIInv, NoRepeat
<1>15. OneOfEachType'
  <2> SUFFICES ASSUME NEW d \in Client, NEW o \in held'[d], NEW p \in held'[d],
                      TypeOf[o] = TypeOf[p]
               PROVE  o = p
    BY DEF OneOfEachType
  <2>1. CASE d # c
    BY <1>6, <2>1 DEF WakeIInv, OneOfEachType
  <2>2. CASE d = c
    <3>1. held'[c] = held[c] \cup O
      BY <1>1, <1>3
    <3>2. \A q \in O : TypeOf[q] \in T
      BY <1>2 DEF TypesOf
    <3>3. \A q \in held[c] : TypeOf[q] \notin T
      BY <1>2 DEF Missing, TypesOf
    <3> QED BY <1>2, <2>2, <3>1, <3>2, <3>3 DEF WakeIInv, OneOfEachType
  <2> QED BY <2>1, <2>2
<1>16. StillMissing'
  <2> SUFFICES ASSUME NEW d \in Client, Waiting(d)'
               PROVE  Missing(d)' # {}
    BY DEF StillMissing
  <2>1. CASE d = c
    BY <1>8, <1>11, <2>1 DEF Waiting
  <2>2. CASE d # c
    <3>1. Missing(d)' = Missing(d) /\ Waiting(d)
      BY <1>6, <2>2 DEF Missing, Waiting
    <3> QED BY <3>1 DEF WakeIInv, StillMissing
  <2> QED BY <2>1, <2>2
<1>17. \A t \in Type : Notified(t)' = Notified(t) \ {c}
  BY <1>6, <1>7, <1>11 DEF Notified
<1>18. \A t \in Type : Available(t)' = Available(t) \ O
  BY <1>1 DEF Available
<1>19. \A t \in Type :
         /\ IsFiniteSet(Available(t)) /\ IsFiniteSet(Notified(t))
         /\ Cardinality(Available(t)) \in Nat /\ Cardinality(Notified(t)) \in Nat
  BY FS_CardinalityType DEF WakeIInv, Countable
<1>20. Countable'
  <2> SUFFICES ASSUME NEW t \in Type
               PROVE  IsFiniteSet(Available(t)') /\ IsFiniteSet(Notified(t)')
    BY DEF Countable
  <2> QED BY <1>17, <1>18, <1>19, FS_Subset
<1>21. WakeupsCoverAvailables'
  <2> SUFFICES ASSUME NEW t \in Type, waiters'[t] # <<>>, ~lost[t]
               PROVE  Cardinality(Available(t)') <= Cardinality(Notified(t)')
    BY <1>1 DEF WakeupsCoverAvailables
  <2> DEFINE D == Available(t)
             N == Notified(t)
  <2>1. IsFiniteSet(N \ {c}) /\ Cardinality(N \ {c}) \in Nat
    BY <1>19, FS_Subset, FS_CardinalityType
  <2>2. IsFiniteSet(D \ O) /\ Cardinality(D \ O) <= Cardinality(D)
    BY <1>19, FS_Subset
  <2>3. CASE rest # {} /\ t = blocked
    <3>1. D \ O = {}
      BY <1>5, <2>3
    <3>2. Cardinality(D \ O) = 0
      BY <3>1, FS_EmptySet
    <3>3. Available(t)' = D \ O /\ Notified(t)' = N \ {c}
      BY <1>17, <1>18
    <3> HIDE DEF D, N
    <3> QED BY <2>1, <3>2, <3>3
  <2>4. CASE ~ (rest # {} /\ t = blocked)
    <3>1. Cardinality(D) <= Cardinality(N)
      BY <1>11, <2>4 DEF WakeIInv, WakeupsCoverAvailables
    <3>2. CASE c \notin N
      <4>1. Notified(t)' = N
        BY <1>17, <3>2
      <4>2. Available(t)' = D \ O
        BY <1>18
      <4>3. Cardinality(D \ O) \in Nat /\ Cardinality(D) \in Nat /\ Cardinality(N) \in Nat
        BY <1>19, <2>2, FS_CardinalityType
      <4> HIDE DEF D, N
      <4> QED BY <2>2, <3>1, <4>1, <4>2, <4>3
    <3>3. CASE c \in N
      <4>1. pc[c] = "notified" /\ NextType(c) = t /\ Missing(c) # {}
        BY <3>3 DEF Notified, WakeIInv, StillMissing, Waiting
      <4>2. t \in T
        <5> SUFFICES ASSUME t \notin T PROVE FALSE
          OBVIOUS
        <5>1. t \in Missing(c) /\ \A u \in Missing(c) : t <= u
          BY <4>1, NextTypeIsLeast
        <5>2. t \in rest
          BY <5>1 DEF rest
        <5>3. blocked \in rest /\ blocked <= t /\ t <= blocked
          BY <1>4, <5>1, <5>2 DEF rest
        <5>4. blocked = t
          BY <1>2, <5>1, <5>3 DEF rest
        <5> QED BY <2>4, <5>2, <5>4
      <4>3. PICK o \in O : TypeOf[o] = t
        BY <1>2, <4>2 DEF TypesOf
      <4>4. o \in D /\ D \ O \subseteq D \ {o}
        BY <1>2, <4>3 DEF Available
      <4>5. IsFiniteSet(D \ {o}) /\ Cardinality(D \ {o}) = Cardinality(D) - 1
        BY <1>19, <4>4, FS_RemoveElement
      <4>6. Cardinality(D \ O) <= Cardinality(D \ {o})
        BY <4>4, <4>5, FS_Subset
      <4>7. Cardinality(N \ {c}) = Cardinality(N) - 1
        BY <1>19, <3>3, FS_RemoveElement
      <4>8. Cardinality(D \ O) \in Nat /\ Cardinality(D) \in Nat /\ Cardinality(N) \in Nat
        BY <1>19, <2>2, FS_CardinalityType
      <4>9. Available(t)' = D \ O /\ Notified(t)' = N \ {c}
        BY <1>17, <1>18
      <4> HIDE DEF D, N
      <4> QED BY <3>1, <4>5, <4>6, <4>7, <4>8, <4>9
    <3> QED BY <3>2, <3>3
  <2> QED BY <2>3, <2>4
<1> QED BY <1>13, <1>14, <1>15, <1>16, <1>20, <1>21 DEF WakeIInv

\* What c holds is given back: the types of the objects released are notified.
\* c itself, when it was notified, is no longer counted (L).
LEMMA ReleaseAllCovers ==
  ASSUME IInv, WakeIInv, NEW c \in Client, NEW L,
         NEW ws \in [Type -> Seq(Client)],
         ReleaseAll(held[c], ws, [pc EXCEPT ![c] = "idle"], L),
         held' = [held EXCEPT ![c] = {}],
         \A t \in Type : \A i \in 1 .. Len(ws[t]) : \E j \in 1 .. Len(waiters[t]) :
           ws[t][i] = waiters[t][j] /\ ws[t][i] # c,
         NoRepeatIn(ws),
         \A t \in Type : ws[t] # <<>> => waiters[t] # <<>>,
         \A t \in Type : c \in Notified(t) => t \in L
  PROVE  WakeIInv'
<1> DEFINE F   == Immediate(held[c]) \cap used
           pcs == [pc EXCEPT ![c] = "idle"]
<1>1. /\ availables' = availables \cup F
      /\ Notify(TypesOf(F), ws, pcs, L)
  BY DEF ReleaseAll
<1>2. /\ F \in SUBSET Obj /\ F \subseteq held[c]
      /\ availables \in SUBSET Obj
      /\ pcs \in [Client -> PCs]
      /\ lost \in [Type -> BOOLEAN]
      /\ held \in [Client -> SUBSET Obj]
  BY DEF IInv, TypeOK, PCs, Immediate
<1>3. \A o, p \in F : TypeOf[o] = TypeOf[p] => o = p
  BY <1>2 DEF WakeIInv, OneOfEachType
<1>4. \A d \in Client \ {c} : held'[d] = held[d] /\ pcs[d] = pc[d]
  BY <1>2 DEF IInv, TypeOK
<1>5. pcs[c] = "idle"
  BY DEF IInv, TypeOK
<1>6. \A d \in Client \ {c} : NextType(d)' = NextType(d)
  BY <1>4, NextTypeStays
<1>7. PICK nt : \A d \in Client : nt[d] = NextType(d)'
  <2>1. \A d \in Client : [e \in Client |-> NextType(e)'][d] = NextType(d)'
    OBVIOUS
  <2> QED BY <2>1
<1> HIDE DEF F, pcs
<1>8. QueuedIn(ws, pcs, nt)
  <2> SUFFICES ASSUME NEW t \in Type, NEW d \in Client, NEW i \in 1 .. Len(ws[t]),
                      ws[t][i] = d
               PROVE  pcs[d] = "waiting" /\ nt[d] = t
    BY DEF QueuedIn
  <2>1. PICK j \in 1 .. Len(waiters[t]) : waiters[t][j] = d /\ d # c
    OBVIOUS
  <2>2. pc[d] = "waiting" /\ NextType(d) = t
    BY <2>1 DEF WakeIInv, Queued
  <2> QED BY <1>4, <1>6, <1>7, <2>1, <2>2
<1>9. ASSUME NEW t \in Type
      PROVE  /\ NotifiedIn(pcs, nt, t) = Notified(t) \ {c}
             /\ OfType(availables, t) = Available(t)
  BY <1>4, <1>5, <1>6, <1>7 DEF Notified, NotifiedIn, Available, OfType
<1>10. CoveredIn(availables, ws, pcs, nt, L)
  <2> SUFFICES ASSUME NEW t \in Type
               PROVE  /\ IsFiniteSet(Available(t))
                      /\ IsFiniteSet(Notified(t) \ {c})
                      /\ ws[t] # <<>> /\ ~lost[t] /\ t \notin L =>
                           Cardinality(Available(t)) <= Cardinality(Notified(t) \ {c})
    BY <1>9 DEF CoveredIn
  <2>1. IsFiniteSet(Available(t)) /\ IsFiniteSet(Notified(t))
    BY DEF WakeIInv, Countable
  <2>2. IsFiniteSet(Notified(t) \ {c})
    BY <2>1, FS_Subset
  <2>3. ASSUME ws[t] # <<>>, ~lost[t], t \notin L
        PROVE  Cardinality(Available(t)) <= Cardinality(Notified(t) \ {c})
    <3>1. Notified(t) \ {c} = Notified(t)
      BY <2>3
    <3> QED BY <2>3, <3>1 DEF WakeIInv, WakeupsCoverAvailables
  <2> QED BY <2>1, <2>2, <2>3
<1>11. /\ Queued' /\ NoRepeat' /\ Countable' /\ WakeupsCoverAvailables'
       /\ \A d \in Client : Waiting(d)' => pcs[d] \in {"waiting", "notified"}
  BY <1>1, <1>2, <1>3, <1>7, <1>8, <1>10, NotifyCovers
<1>12. OneOfEachType'
  BY <1>2, <1>4 DEF WakeIInv, OneOfEachType
<1>13. StillMissing'
  <2> SUFFICES ASSUME NEW d \in Client, Waiting(d)'
               PROVE  Missing(d)' # {}
    BY DEF StillMissing
  <2>1. pcs[d] \in {"waiting", "notified"} /\ d # c
    BY <1>5, <1>11
  <2>2. Waiting(d) /\ Missing(d)' = Missing(d)
    BY <1>4, <2>1 DEF Waiting, Missing
  <2> QED BY <2>2 DEF WakeIInv, StillMissing
<1> QED BY <1>11, <1>12, <1>13 DEF WakeIInv

\* The context of an object raises as c enters it: when c was notified for a
\* type, it has popped an object of that type, and what it had entered is given
\* back with a notify() for each type.
LEMMA ProceedRaisesCovers ==
  ASSUME IInv, WakeIInv, NEW c \in Client, pc[c] \in {"idle", "notified"},
         ProceedRaises(c)
  PROVE  WakeIInv'
<1> DEFINE Before(t) == {u \in Missing(c) \ {t} : AcquireOrder(c, u, t)}
<1>0. PICK t \in Obtainable(c) :
        \E bad \in Available(t) \cap BadLimits, O \in Pick(Before(t)) :
          /\ LET entered == held[c] \cup O
                 later   == {o \in entered : release_at'[o] # None}
                 freed   == (entered \ later) \cap (used \cup O)
             IN  /\ availables' = (availables \ (O \cup {bad})) \cup freed
                 /\ Notify(TypesOf(freed), waiters, [pc EXCEPT ![c] = "idle"], {})
          /\ held' = [held EXCEPT ![c] = {}]
  BY DEF ProceedRaises
<1>1. PICK bad \in Available(t) \cap BadLimits, O \in Pick(Before(t)) :
        /\ LET entered == held[c] \cup O
               later   == {o \in entered : release_at'[o] # None}
               freed   == (entered \ later) \cap (used \cup O)
           IN  /\ availables' = (availables \ (O \cup {bad})) \cup freed
               /\ Notify(TypesOf(freed), waiters, [pc EXCEPT ![c] = "idle"], {})
        /\ held' = [held EXCEPT ![c] = {}]
  BY <1>0
<1> DEFINE entered == held[c] \cup O
           later   == {o \in entered : release_at'[o] # None}
           F       == (entered \ later) \cap (used \cup O)
           A       == availables \ (O \cup {bad})
           pcs     == [pc EXCEPT ![c] = "idle"]
<1>2. /\ availables' = A \cup F
      /\ Notify(TypesOf(F), waiters, pcs, {})
      /\ held' = [held EXCEPT ![c] = {}]
  BY <1>1
<1>3. /\ O \subseteq availables /\ O \subseteq Obj
      /\ TypesOf(O) = Before(t)
      /\ \A o, p \in O : TypeOf[o] = TypeOf[p] => o = p
      /\ Missing(c) \subseteq Type /\ Type \subseteq Int
      /\ t \in Missing(c)
      /\ bad \in availables /\ TypeOf[bad] = t
  BY ClientAssumption DEF Pick, IInv, TypeOK, Obtainable, Missing, Available
<1>4. /\ waiters \in [Type -> Seq(Client)]
      /\ pc \in [Client -> PCs] /\ pcs \in [Client -> PCs]
      /\ held \in [Client -> SUBSET Obj]
      /\ lost \in [Type -> BOOLEAN]
      /\ availables \in SUBSET Obj
  BY DEF IInv, TypeOK, PCs
<1>5. F \in SUBSET Obj /\ A \in SUBSET Obj /\ F \subseteq held[c] \cup O
  BY <1>3, <1>4
<1>6. \A o, p \in F : TypeOf[o] = TypeOf[p] => o = p
  <2>1. \A o \in O : TypeOf[o] \in Missing(c)
    BY <1>3 DEF TypesOf
  <2>2. \A o \in held[c] : TypeOf[o] \notin Missing(c)
    BY DEF Missing, TypesOf
  <2>3. \A o, p \in held[c] : TypeOf[o] = TypeOf[p] => o = p
    BY DEF WakeIInv, OneOfEachType
  <2> HIDE DEF F
  <2> QED BY <1>3, <1>5, <2>1, <2>2, <2>3
<1>7. \A d \in Client \ {c} : held'[d] = held[d] /\ pcs[d] = pc[d]
  BY <1>2, <1>4
<1>8. pcs[c] = "idle"
  BY <1>4
<1>9. \A d \in Client \ {c} : NextType(d)' = NextType(d)
  BY <1>7, NextTypeStays
<1>10. PICK nt : \A d \in Client : nt[d] = NextType(d)'
  <2>1. \A d \in Client : [e \in Client |-> NextType(e)'][d] = NextType(d)'
    OBVIOUS
  <2> QED BY <2>1
<1> HIDE DEF F, A, pcs
<1>11. \A u \in Type, d \in Client : \A i \in 1 .. Len(waiters[u]) :
         waiters[u][i] = d => d # c /\ pc[d] = "waiting" /\ NextType(d) = u
  BY DEF WakeIInv, Queued
<1>12. QueuedIn(waiters, pcs, nt)
  BY <1>7, <1>9, <1>10, <1>11 DEF QueuedIn
<1>13. NoRepeatIn(waiters)
  BY DEF WakeIInv, NoRepeat, NoRepeatIn
<1>14. ASSUME NEW u \in Type, c \in Notified(u)
       PROVE  \E o \in Available(u) : o \notin A
  <2>1. pc[c] = "notified" /\ NextType(c) = u /\ Missing(c) # {}
    BY <1>14 DEF Notified, WakeIInv, StillMissing, Waiting
  <2>2. u \in Missing(c) /\ u <= t
    BY <1>3, <2>1, NextTypeIsLeast
  <2>3. CASE u = t
    BY <1>3, <2>3 DEF A, Available
  <2>4. CASE u # t
    <3>1. u \in Before(t)
      BY <2>2, <2>4 DEF AcquireOrder
    <3> HIDE DEF Before
    <3>2. PICK o \in O : TypeOf[o] = u
      BY <1>3, <3>1 DEF TypesOf
    <3> QED BY <1>3, <3>2 DEF A, Available
  <2> QED BY <2>3, <2>4
<1>15. CoveredIn(A, waiters, pcs, nt, {})
  <2> SUFFICES ASSUME NEW u \in Type
               PROVE  /\ IsFiniteSet(OfType(A, u))
                      /\ IsFiniteSet(NotifiedIn(pcs, nt, u))
                      /\ waiters[u] # <<>> /\ ~lost[u] =>
                           Cardinality(OfType(A, u)) <=
                             Cardinality(NotifiedIn(pcs, nt, u))
    BY DEF CoveredIn
  <2> DEFINE D == Available(u)
             N == Notified(u)
             E == OfType(A, u)
             M == NotifiedIn(pcs, nt, u)
  <2>1. M = N \ {c} /\ E \subseteq D
    BY <1>7, <1>8, <1>9, <1>10 DEF Notified, NotifiedIn, Available, OfType, A
  <2>2. IsFiniteSet(D) /\ IsFiniteSet(N)
    BY DEF WakeIInv, Countable
  <2>3. /\ IsFiniteSet(E) /\ IsFiniteSet(M)
        /\ Cardinality(E) <= Cardinality(D)
        /\ Cardinality(E) \in Nat /\ Cardinality(D) \in Nat
        /\ Cardinality(N) \in Nat /\ Cardinality(M) \in Nat
    BY <2>1, <2>2, FS_Subset, FS_CardinalityType
  <2>4. ASSUME waiters[u] # <<>>, ~lost[u]
        PROVE  Cardinality(D) <= Cardinality(N)
    BY <2>4 DEF WakeIInv, WakeupsCoverAvailables
  <2>5. CASE c \notin N
    <3>1. M = N
      BY <2>1, <2>5
    <3> HIDE DEF D, N, E, M
    <3> QED BY <2>3, <2>4, <3>1 DEF D, N, E, M
  <2>6. CASE c \in N
    <3>1. PICK o \in D : o \notin A
      BY <1>14, <2>6
    <3>2. E \subseteq D \ {o}
      BY <2>1, <3>1 DEF OfType
    <3>3. IsFiniteSet(D \ {o}) /\ Cardinality(D \ {o}) = Cardinality(D) - 1
      BY <2>2, <3>1, FS_RemoveElement
    <3>4. Cardinality(E) <= Cardinality(D \ {o})
      BY <3>2, <3>3, FS_Subset
    <3>5. Cardinality(N \ {c}) = Cardinality(N) - 1
      BY <2>2, <2>6, FS_RemoveElement
    <3>6. waiters[u] # <<>> /\ ~lost[u] => Cardinality(E) <= Cardinality(M)
      <4> HIDE DEF D, N, E, M
      <4> QED BY <2>1, <2>3, <2>4, <3>3, <3>4, <3>5
    <3> QED BY <2>3, <3>6
  <2> QED BY <2>5, <2>6
<1>16. /\ Queued' /\ NoRepeat' /\ Countable' /\ WakeupsCoverAvailables'
       /\ \A d \in Client : Waiting(d)' => pcs[d] \in {"waiting", "notified"}
  <2>1. PICK ws, L : ws = waiters /\ L = {}
    OBVIOUS
  <2>2. /\ ws \in [Type -> Seq(Client)]
        /\ Notify(TypesOf(F), ws, pcs, L)
        /\ QueuedIn(ws, pcs, nt) /\ NoRepeatIn(ws) /\ CoveredIn(A, ws, pcs, nt, L)
    BY <1>2, <1>4, <1>12, <1>13, <1>15, <2>1 DEF Notify
  <2> QED BY <1>2, <1>4, <1>5, <1>6, <1>10, <2>2, NotifyCovers
<1>17. OneOfEachType'
  BY <1>2, <1>4, <1>7 DEF WakeIInv, OneOfEachType
<1>18. StillMissing'
  <2> SUFFICES ASSUME NEW d \in Client, Waiting(d)'
               PROVE  Missing(d)' # {}
    BY DEF StillMissing
  <2>1. pcs[d] \in {"waiting", "notified"} /\ d # c
    BY <1>8, <1>16
  <2>2. Waiting(d) /\ Missing(d)' = Missing(d)
    BY <1>7, <2>1 DEF Waiting, Missing
  <2> QED BY <2>2 DEF WakeIInv, StillMissing
<1> QED BY <1>16, <1>17, <1>18 DEF WakeIInv

\* An object becomes available and nobody is notified, which its type remembers
\* as long as clients wait for it.
LEMMA LosingKeepsWakeIInv ==
  ASSUME IInv, WakeIInv, NEW o \in Obj,
         availables' = availables \cup {o},
         Notify({}, waiters, pc, {TypeOf[o]}),
         UNCHANGED held
  PROVE  WakeIInv'
<1>1. \A d \in Client : NextType(d)' = NextType(d) /\ Missing(d)' = Missing(d)
  BY NextTypeStays DEF Missing
<1>2. /\ waiters \in [Type -> Seq(Client)]
      /\ pc \in [Client -> PCs]
      /\ TypeOf[o] \in Type
  BY ObjAssumption DEF IInv, TypeOK, PCs
<1>3. /\ waiters' = waiters /\ pc' = pc
      /\ \A t \in Type :
           lost'[t] = ((lost[t] \/ t = TypeOf[o]) /\ waiters'[t] # <<>>)
  BY <1>2 DEF Notify
<1>4. \A t \in Type : Notified(t)' = Notified(t)
  BY <1>1, <1>3 DEF Notified
<1>5. Queued' /\ NoRepeat' /\ OneOfEachType' /\ StillMissing'
  BY <1>1, <1>3 DEF WakeIInv, Queued, NoRepeat, OneOfEachType, StillMissing, Waiting
<1>6. \A t \in Type : Available(t)' =
        IF t = TypeOf[o] THEN Available(t) \cup {o} ELSE Available(t)
  BY DEF Available
<1>7. Countable'
  <2> SUFFICES ASSUME NEW t \in Type
               PROVE  IsFiniteSet(Available(t)') /\ IsFiniteSet(Notified(t)')
    BY DEF Countable
  <2>1. IsFiniteSet(Available(t)) /\ IsFiniteSet(Notified(t))
    BY DEF WakeIInv, Countable
  <2>2. IsFiniteSet(Available(t) \cup {o})
    BY <2>1, FS_AddElement
  <2> QED BY <1>4, <1>6, <2>1, <2>2
<1>8. WakeupsCoverAvailables'
  <2> SUFFICES ASSUME NEW t \in Type, waiters'[t] # <<>>, ~lost'[t]
               PROVE  Cardinality(Available(t)') <= Cardinality(Notified(t)')
    BY DEF WakeupsCoverAvailables
  <2>1. waiters[t] # <<>> /\ ~lost[t] /\ t # TypeOf[o]
    BY <1>3
  <2>2. Available(t)' = Available(t) /\ Notified(t)' = Notified(t)
    BY <1>4, <1>6, <2>1
  <2> QED BY <2>1, <2>2 DEF WakeIInv, WakeupsCoverAvailables
<1> QED BY <1>5, <1>7, <1>8 DEF WakeIInv

\* The objects F become available beside A and their types are notified; no
\* client loses or gets anything.
LEMMA NotifyKeepsWakeIInv ==
  ASSUME IInv, WakeIInv, NEW A \in SUBSET availables, NEW F \in SUBSET Obj,
         \A o, p \in F : TypeOf[o] = TypeOf[p] => o = p,
         availables' = A \cup F,
         Notify(TypesOf(F), waiters, pc, {}),
         UNCHANGED held
  PROVE  WakeIInv'
<1>1. \A d \in Client : NextType(d)' = NextType(d) /\ Missing(d)' = Missing(d)
  BY NextTypeStays DEF Missing
<1>2. PICK nt : \A d \in Client : nt[d] = NextType(d)
  <2>1. \A d \in Client : [e \in Client |-> NextType(e)][d] = NextType(d)
    OBVIOUS
  <2> QED BY <2>1
<1>3. /\ waiters \in [Type -> Seq(Client)]
      /\ pc \in [Client -> PCs]
      /\ lost \in [Type -> BOOLEAN]
      /\ A \in SUBSET Obj
  BY DEF IInv, TypeOK, PCs
<1>4. QueuedIn(waiters, pc, nt)
  BY <1>2 DEF WakeIInv, Queued, QueuedIn
<1>5. NoRepeatIn(waiters)
  BY DEF WakeIInv, NoRepeat, NoRepeatIn
<1>6. CoveredIn(A, waiters, pc, nt, {})
  <2> DEFINE At(t) == OfType(A, t)
             Nt(t) == NotifiedIn(pc, nt, t)
  <2> SUFFICES ASSUME NEW t \in Type
               PROVE  /\ IsFiniteSet(At(t)) /\ IsFiniteSet(Nt(t))
                      /\ waiters[t] # <<>> /\ ~lost[t] =>
                           Cardinality(At(t)) <= Cardinality(Nt(t))
    BY DEF CoveredIn
  <2>1. Nt(t) = Notified(t) /\ At(t) \subseteq Available(t)
    BY <1>2 DEF Notified, Available, NotifiedIn, OfType
  <2>2. IsFiniteSet(Available(t)) /\ IsFiniteSet(Notified(t))
    BY DEF WakeIInv, Countable
  <2>3. /\ IsFiniteSet(At(t))
        /\ Cardinality(At(t)) <= Cardinality(Available(t))
        /\ Cardinality(At(t)) \in Nat /\ Cardinality(Available(t)) \in Nat
        /\ Cardinality(Notified(t)) \in Nat
    BY <2>1, <2>2, FS_Subset, FS_CardinalityType
  <2>4. waiters[t] # <<>> /\ ~lost[t] =>
          Cardinality(Available(t)) <= Cardinality(Notified(t))
    BY DEF WakeIInv, WakeupsCoverAvailables
  <2> HIDE DEF At, Nt
  <2> QED BY <2>1, <2>2, <2>3, <2>4
<1> HIDE DEF PCs
<1>7. /\ Queued' /\ NoRepeat' /\ Countable' /\ WakeupsCoverAvailables'
      /\ \A d \in Client : Waiting(d)' => pc[d] \in {"waiting", "notified"}
  <2>1. \A d \in Client : NextType(d)' = nt[d]
    BY <1>1, <1>2
  <2>2. PICK ws, pcs, L : ws = waiters /\ pcs = pc /\ L = {}
    OBVIOUS
  <2>3. Notify(TypesOf(F), ws, pcs, L)
    BY <2>2 DEF Notify
  <2>4. /\ ws \in [Type -> Seq(Client)] /\ pcs \in [Client -> PCs]
        /\ QueuedIn(ws, pcs, nt) /\ NoRepeatIn(ws)
        /\ CoveredIn(A, ws, pcs, nt, L)
    BY <1>3, <1>4, <1>5, <1>6, <2>2
  <2>5. /\ Queued' /\ NoRepeat' /\ Countable' /\ WakeupsCoverAvailables'
        /\ \A d \in Client : Waiting(d)' => pcs[d] \in {"waiting", "notified"}
    <3>1. /\ A \in SUBSET Obj /\ lost \in [Type -> BOOLEAN]
          /\ availables' = A \cup F
      BY <1>3
    <3>2. F \in SUBSET Obj
      OBVIOUS
    <3>3. \A o, p \in F : TypeOf[o] = TypeOf[p] => o = p
      OBVIOUS
    <3>4. Queued' /\ NoRepeat'
      BY <2>1, <2>3, <2>4, <3>1, <3>2, <3>3, NotifyCovers
    <3>5. Countable' /\ WakeupsCoverAvailables'
      BY <2>1, <2>3, <2>4, <3>1, <3>2, <3>3, NotifyCovers
    <3>6. \A d \in Client : Waiting(d)' => pcs[d] \in {"waiting", "notified"}
      BY <2>1, <2>3, <2>4, <3>1, <3>2, <3>3, NotifyCovers
    <3> QED BY <3>4, <3>5, <3>6
  <2> QED BY <2>2, <2>5
<1>8. OneOfEachType'
  BY DEF WakeIInv, OneOfEachType
<1>9. StillMissing'
  BY <1>1, <1>7 DEF WakeIInv, StillMissing, Waiting
<1> QED BY <1>7, <1>8, <1>9 DEF WakeIInv

\* No resource and no client: nothing waits and nothing is counted.
LEMMA InitWakeIInv == Init => WakeIInv
<1> SUFFICES ASSUME Init PROVE WakeIInv
  OBVIOUS
<1>1. \A t \in Type : Available(t) = {} /\ Notified(t) = {}
  BY DEF Init, Available, Notified
<1>2. \A t \in Type : waiters[t] = <<>> /\ Len(waiters[t]) = 0
  BY DEF Init
<1>3. Queued /\ NoRepeat
  BY <1>2 DEF Queued, NoRepeat
<1>4. OneOfEachType /\ StillMissing
  BY DEF Init, OneOfEachType, StillMissing, Waiting
<1>5. Countable /\ WakeupsCoverAvailables
  BY <1>1, <1>2, FS_EmptySet DEF Countable, WakeupsCoverAvailables
<1> QED BY <1>3, <1>4, <1>5 DEF WakeIInv

\* Removing the place i of a queue leaves the other ones, in their order.
LEMMA RemoveAtPlaces ==
  ASSUME NEW S, NEW s \in Seq(S), NEW i \in 1 .. Len(s),
         NEW k \in 1 .. Len(RemoveAt(s, i))
  PROVE  /\ RemoveAt(s, i)[k] = s[IF k < i THEN k ELSE k + 1]
         /\ (IF k < i THEN k ELSE k + 1) \in 1 .. Len(s)
<1> DEFINE a == SubSeq(s, 1, i - 1)
           b == SubSeq(s, i + 1, Len(s))
<1>1. Len(s) \in Nat /\ i \in Int /\ \A j \in 1 .. Len(s) : s[j] \in S
  BY LenProperties
<1>2. /\ a \in Seq(S) /\ Len(a) = i - 1
      /\ \A j \in 1 .. i - 1 : a[j] = s[j]
  <2>1. \A j \in 1 .. i - 1 : s[j] \in S
    BY <1>1
  <2>2. /\ a \in Seq(S)
        /\ Len(a) = IF 1 <= i - 1 THEN i - 1 - 1 + 1 ELSE 0
        /\ \A j \in 1 .. i - 1 - 1 + 1 : a[j] = s[1 + j - 1]
    BY <1>1, <2>1, SubSeqProperties
  <2> QED BY <1>1, <2>2
<1>3. /\ b \in Seq(S) /\ Len(b) = Len(s) - i
      /\ \A j \in 1 .. Len(s) - i : b[j] = s[i + j]
  <2>1. \A j \in i + 1 .. Len(s) : s[j] \in S
    BY <1>1
  <2>2. /\ b \in Seq(S)
        /\ Len(b) = IF i + 1 <= Len(s) THEN Len(s) - (i + 1) + 1 ELSE 0
        /\ \A j \in 1 .. Len(s) - (i + 1) + 1 : b[j] = s[(i + 1) + j - 1]
    BY <1>1, <2>1, SubSeqProperties
  <2>3. \A j \in 1 .. Len(s) - i : (i + 1) + j - 1 = i + j
    BY <1>1
  <2> QED BY <1>1, <2>2, <2>3
<1> HIDE DEF a, b
<1>4. /\ Len(a \o b) = Len(a) + Len(b)
      /\ \A j \in 1 .. Len(a) + Len(b) :
           (a \o b)[j] = IF j <= Len(a) THEN a[j] ELSE b[j - Len(a)]
  BY <1>2, <1>3, ConcatProperties
<1>5. RemoveAt(s, i) = a \o b
  BY DEF RemoveAt, a, b
<1>6. k \in 1 .. Len(s) - 1
  BY <1>1, <1>2, <1>3, <1>4, <1>5
<1>7. CASE k < i
  BY <1>1, <1>2, <1>3, <1>4, <1>5, <1>6, <1>7
<1>8. CASE ~ (k < i)
  <2>1. k - (i - 1) \in 1 .. Len(s) - i /\ i + (k - (i - 1)) = k + 1
    BY <1>1, <1>6, <1>8
  <2>2. (a \o b)[k] = b[k - (i - 1)]
    BY <1>1, <1>2, <1>3, <1>4, <1>6, <1>8
  <2> QED BY <1>1, <1>3, <1>5, <1>6, <1>8, <2>1, <2>2
<1> QED BY <1>7, <1>8

\* What neither enters a queue, a place or a hand keeps the wake-ups, as long as
\* no object becomes available.
LEMMA QuietKeepsWakeIInv ==
  ASSUME WakeIInv, availables' \subseteq availables,
         UNCHANGED <<waiters, pc, held, lost>>
  PROVE  WakeIInv'
<1>1. \A d \in Client : NextType(d)' = NextType(d) /\ Missing(d)' = Missing(d)
  BY NextTypeStays DEF Missing
<1>2. \A t \in Type : Notified(t)' = Notified(t)
  BY <1>1 DEF Notified
<1>3. \A t \in Type : Available(t)' \subseteq Available(t)
  BY DEF Available
<1>4. Queued' /\ NoRepeat' /\ OneOfEachType' /\ StillMissing'
  BY <1>1 DEF WakeIInv, Queued, NoRepeat, OneOfEachType, StillMissing, Waiting
<1>5. \A t \in Type :
        /\ IsFiniteSet(Available(t)') /\ IsFiniteSet(Notified(t)')
        /\ Cardinality(Available(t)') \in Nat
        /\ Cardinality(Available(t)) \in Nat
        /\ Cardinality(Notified(t)) \in Nat
        /\ Cardinality(Available(t)') <= Cardinality(Available(t))
  BY <1>2, <1>3, FS_Subset, FS_CardinalityType DEF WakeIInv, Countable
<1>6. Countable'
  BY <1>5 DEF Countable
<1>7. WakeupsCoverAvailables'
  <2> SUFFICES ASSUME NEW t \in Type, waiters[t] # <<>>, ~lost[t]
               PROVE  Cardinality(Available(t)') <= Cardinality(Notified(t)')
    BY DEF WakeupsCoverAvailables
  <2>1. Cardinality(Available(t)) <= Cardinality(Notified(t))
    BY DEF WakeIInv, WakeupsCoverAvailables
  <2> QED BY <1>2, <1>5, <2>1
<1> QED BY <1>4, <1>6, <1>7 DEF WakeIInv

\* Every operation keeps the wake-ups covered.
LEMMA NextWakeIInv == IInv /\ WakeIInv /\ [Next]_vars => WakeIInv'
<1> SUFFICES ASSUME IInv, WakeIInv, [Next]_vars
             PROVE  WakeIInv'
  OBVIOUS
<1>0. /\ availables \in SUBSET Obj /\ held \in [Client -> SUBSET Obj]
      /\ waiters \in [Type -> Seq(Client)]
      /\ pc \in [Client -> PCs]
  BY DEF IInv, TypeOK, PCs
<1>1. ASSUME NEW o \in Obj, AddResource(o)
      PROVE  WakeIInv'
  <2>1. /\ availables' = availables \cup {o}
        /\ TypesOf({o}) = {TypeOf[o]}
        /\ UNCHANGED held
    BY <1>1 DEF AddResource, TypesOf
  <2>2. CASE o \in BadStrategy
    <3>1. Notify({}, waiters, pc, {TypeOf[o]})
      BY <1>1, <2>2 DEF AddResource
    <3> QED BY <2>1, <3>1, LosingKeepsWakeIInv
  <2>3. CASE o \notin BadStrategy
    <3>1. Notify(TypesOf({o}), waiters, pc, {})
      BY <1>1, <2>1, <2>3 DEF AddResource
    <3> QED BY <2>1, <3>1, NotifyKeepsWakeIInv
  <2> QED BY <2>2, <2>3
<1>2. ASSUME NEW o \in Obj, RemoveResource(o)
      PROVE  WakeIInv'
  BY <1>2, QuietKeepsWakeIInv DEF RemoveResource
<1>3. ASSUME NEW o \in Obj, DelayedRelease(o)
      PROVE  WakeIInv'
  <2> DEFINE F == IF o \in used THEN {o} ELSE {}
  <2>1. /\ F \in SUBSET Obj
        /\ \A p, q \in F : TypeOf[p] = TypeOf[q] => p = q
        /\ availables' = availables \cup F
        /\ TypesOf(F) = (IF o \in used THEN {TypeOf[o]} ELSE {})
        /\ UNCHANGED held
    BY <1>3 DEF DelayedRelease, TypesOf
  <2>2. Notify(TypesOf(F), waiters, pc, {})
    BY <1>3, <2>1 DEF DelayedRelease
  <2> HIDE DEF F
  <2> QED BY <2>1, <2>2, NotifyKeepsWakeIInv
<1>4. ASSUME NEW c \in Client, AcquireMany(c)
      PROVE  WakeIInv'
  BY <1>4, ProceedCovers, ProceedRaisesCovers DEF AcquireMany
<1>5. ASSUME NEW c \in Client, AcquireManyFails(c)
      PROVE  WakeIInv'
  <2>1. PICK O \in Pick(Obtainable(c)) :
          LET later == {o \in O : release_at'[o] # None}
          IN  /\ availables' = availables \ later
              /\ Notify(TypesOf(O \ later), waiters, pc, {})
    BY <1>5 DEF AcquireManyFails
  <2> DEFINE later == {o \in O : release_at'[o] # None}
             A == availables \ O
             F == O \ later
  <2>2. /\ O \subseteq availables
        /\ \A o, p \in O : TypeOf[o] = TypeOf[p] => o = p
    BY DEF Pick
  <2>3. /\ availables' = availables \ later
        /\ Notify(TypesOf(F), waiters, pc, {})
        /\ UNCHANGED held
    BY <1>5, <2>1 DEF AcquireManyFails
  <2> HIDE DEF later
  <2>4. /\ A \in SUBSET availables /\ F \in SUBSET Obj
        /\ availables' = A \cup F
        /\ \A o, p \in F : TypeOf[o] = TypeOf[p] => o = p
    <3>1. later \subseteq O
      BY DEF later
    <3> QED BY <1>0, <2>2, <2>3, <3>1
  <2> HIDE DEF A, F
  <2> QED BY <2>3, <2>4, NotifyKeepsWakeIInv
<1>6. ASSUME NEW c \in Client, Wake(c)
      PROVE  WakeIInv'
  BY <1>6, ProceedCovers, ProceedRaisesCovers DEF Wake
<1>7. ASSUME NEW c \in Client, CancelWait(c)
      PROVE  WakeIInv'
  <2> DEFINE t == NextType(c)
             gone == [pc EXCEPT ![c] = "idle"]
  <2>1. held' = [held EXCEPT ![c] = {}]
    BY <1>7 DEF CancelWait
  <2>2. CASE pc[c] = "notified"
    <3>1. ReleaseAll(held[c], waiters, gone, {t})
      BY <1>7, <2>2 DEF CancelWait
    <3>2. NoRepeatIn(waiters)
      BY DEF WakeIInv, NoRepeat, NoRepeatIn
    <3>3. \A u \in Type : \A i \in 1 .. Len(waiters[u]) :
            \E j \in 1 .. Len(waiters[u]) :
              waiters[u][i] = waiters[u][j] /\ waiters[u][i] # c
      BY <2>2 DEF WakeIInv, Queued
    <3>4. \A u \in Type : c \in Notified(u) => u \in {t}
      BY DEF Notified
    <3> HIDE DEF t
    <3> QED BY <1>0, <2>1, <3>1, <3>2, <3>3, <3>4, ReleaseAllCovers
  <2>3. CASE pc[c] # "notified"
    <3>1. PICK i \in 1 .. Len(waiters[t]) :
            /\ waiters[t][i] = c
            /\ ReleaseAll(held[c], [waiters EXCEPT ![t] = RemoveAt(@, i)], gone, {})
      BY <1>7, <2>3 DEF CancelWait
    <3> DEFINE ws == [waiters EXCEPT ![t] = RemoveAt(@, i)]
               at(u, k) == IF u = t /\ ~ (k < i) THEN k + 1 ELSE k
    <3>2. ws \in [Type -> Seq(Client)]
      BY <1>0, RemoveAtIsSeq
    <3>3. \A u \in Type : \A k \in 1 .. Len(ws[u]) :
            at(u, k) \in 1 .. Len(waiters[u]) /\ ws[u][k] = waiters[u][at(u, k)]
      BY <1>0, RemoveAtPlaces
    <3>4. \A u \in Type : \A k \in 1 .. Len(ws[u]) : ws[u][k] # c
      <4> SUFFICES ASSUME NEW u \in Type, NEW k \in 1 .. Len(ws[u]), ws[u][k] = c
                   PROVE  FALSE
        OBVIOUS
      <4> HIDE DEF ws
      <4>1. at(u, k) \in 1 .. Len(waiters[u]) /\ waiters[u][at(u, k)] = c
        BY <3>3
      <4>2. u = t
        BY <4>1 DEF WakeIInv, Queued
      <4>3. at(u, k) = i
        BY <3>1, <4>1, <4>2 DEF WakeIInv, NoRepeat
      <4> QED BY <4>2, <4>3
    <3>5. NoRepeatIn(ws)
      <4> SUFFICES ASSUME NEW u \in Type, NEW k \in 1 .. Len(ws[u]),
                          NEW l \in 1 .. Len(ws[u]), ws[u][k] = ws[u][l]
                   PROVE  k = l
        BY DEF NoRepeatIn
      <4> HIDE DEF ws
      <4>1. at(u, k) = at(u, l)
        BY <3>3 DEF WakeIInv, NoRepeat
      <4> QED BY <4>1
    <3>6. \A u \in Type : ws[u] # <<>> => waiters[u] # <<>>
      <4> SUFFICES ASSUME NEW u \in Type, waiters[u] = <<>>
                   PROVE  ws[u] = <<>>
        OBVIOUS
      <4>1. u # t
        BY <3>1
      <4> QED BY <1>0, <4>1
    <3>7. \A u \in Type : c \notin Notified(u)
      BY <2>3 DEF Notified
    <3> HIDE DEF ws, at
    <3>8. \A u \in Type : \A k \in 1 .. Len(ws[u]) :
            \E j \in 1 .. Len(waiters[u]) :
              ws[u][k] = waiters[u][j] /\ ws[u][k] # c
      BY <3>3, <3>4
    <3>9. ReleaseAll(held[c], ws, gone, {})
      BY <3>1 DEF ws
    <3> QED BY <2>1, <3>2, <3>5, <3>6, <3>7, <3>8, <3>9, ReleaseAllCovers
  <2> QED BY <2>2, <2>3
<1>8. ASSUME NEW c \in Client, Release(c)
      PROVE  WakeIInv'
  <2>1. /\ ReleaseAll(held[c], waiters, [pc EXCEPT ![c] = "idle"], {})
        /\ held' = [held EXCEPT ![c] = {}]
        /\ pc[c] = "held"
    BY <1>8 DEF Release
  <2>2. NoRepeatIn(waiters)
    BY DEF WakeIInv, NoRepeat, NoRepeatIn
  <2>3. \A u \in Type : \A i \in 1 .. Len(waiters[u]) :
          \E j \in 1 .. Len(waiters[u]) :
            waiters[u][i] = waiters[u][j] /\ waiters[u][i] # c
    BY <2>1 DEF WakeIInv, Queued
  <2>4. \A u \in Type : c \notin Notified(u)
    BY <2>1 DEF Notified
  <2> QED BY <1>0, <2>1, <2>2, <2>3, <2>4, ReleaseAllCovers
<1>9. ASSUME NEW c \in Client, NEW o \in Obj, NEW when \in 0 .. MaxDelay,
             ReleaseLater(c, o, when)
      PROVE  WakeIInv'
  BY <1>9, QuietKeepsWakeIInv DEF ReleaseLater
<1>10. ASSUME Tick
       PROVE  WakeIInv'
  BY <1>10, QuietKeepsWakeIInv DEF Tick
<1>11. CASE UNCHANGED vars
  BY <1>11, QuietKeepsWakeIInv DEF vars
<1> QED BY <1>1, <1>2, <1>3, <1>4, <1>5, <1>6, <1>7, <1>8, <1>9, <1>10, <1>11
        DEF Next

\* While clients wait for a type, every available resource of that type has a
\* client notified for it, unless a notified client was cancelled or an add
\* raised before its notify(): otherwise no free resource and waiter stay side
\* by side (manager.py:158, 169-172, 183-188, 209, 227-238).
THEOREM WakeupsCover == Spec => []WakeupsCoverAvailables
<1>1. Spec => []IInv
  BY InitIInv, NextIInv, PTL DEF Spec
<1>2. Spec => []WakeIInv
  BY <1>1, InitWakeIInv, NextWakeIInv, PTL DEF Spec
<1>3. WakeIInv => WakeupsCoverAvailables
  BY DEF WakeIInv
<1> QED BY <1>2, <1>3, PTL

----------------------------------------------------------------------------
(* The refinement of ResourceAllocation: every step is a step of the         *)
(* allocation or leaves it alone.                                            *)

\* What the clients hold is what the allocation has lent.
LEMMA LentIsHeld == Allocation!Lent = Held
BY DEF Allocation!Lent, Held

\* What is free in the allocation is what the manager has available.
LEMMA FreeIsAvailable ==
  ASSUME IInv
  PROVE  Allocation!Free = availables
BY LentIsHeld DEF IInv, NothingLost, Allocation!Free

\* The exit of what a client holds is a return, or nothing when it holds nothing.
LEMMA ReleaseAllIsReturn ==
  ASSUME IInv, NEW c \in Client, NEW ws, NEW pcs, NEW L,
         ReleaseAll(held[c], ws, pcs, L),
         held' = [held EXCEPT ![c] = {}],
         UNCHANGED <<resources, release_at, leaked>>
  PROVE  Allocation!Next
<1> DEFINE R == held[c] \ Immediate(held[c])
<1>1. R \in SUBSET Obj /\ R \subseteq held[c]
  BY DEF IInv, TypeOK
<1>2. Allocation!Return(c, R)
  BY <1>1 DEF ReleaseAll, Allocation!Return
<1> QED BY <1>1, <1>2 DEF Allocation!Next

\* Going through the missing types lends what was free, or nothing.
LEMMA ProceedIsLend ==
  ASSUME IInv, NEW c \in Client, Proceed(c)
  PROVE  Allocation!Next
<1>1. PICK O \in Pick(Obtainable(c)) :
        /\ held' = [held EXCEPT ![c] = @ \cup O]
        /\ UNCHANGED <<resources, delayed, leaked>>
  BY DEF Proceed
<1>2. O \subseteq availables /\ O \in SUBSET Obj
  BY DEF Pick, IInv, TypeOK
<1>3. Allocation!Lend(c, O)
  BY <1>1, <1>2, FreeIsAvailable DEF Allocation!Lend
<1> QED BY <1>2, <1>3 DEF Allocation!Next

\* An acquisition that ends in the error of a context returns what the client
\* has; what it had just taken rests when it has a delay, and so does the object
\* of that context, for good.
LEMMA ProceedRaisesIsReturn ==
  ASSUME IInv, NEW c \in Client, ProceedRaises(c)
  PROVE  Allocation!Next
<1>1. PICK bad \in availables, O \in SUBSET availables :
        /\ delayed' = delayed \cup {o \in held[c] \cup O : release_at'[o] # None}
        /\ leaked' = leaked \cup {bad}
        /\ held' = [held EXCEPT ![c] = {}]
        /\ UNCHANGED resources
  BY DEF ProceedRaises, Pick, Available
<1> DEFINE R == {o \in held[c] \cup O : release_at'[o] # None} \cup {bad}
<1>2. R \in SUBSET Obj /\ R \subseteq held[c] \cup availables
  BY DEF IInv, TypeOK
<1>4. (delayed \cup leaked)' = (delayed \cup leaked) \cup R
  BY <1>1
<1> HIDE DEF R
<1>5. Allocation!Return(c, R)
  BY <1>1, <1>2, <1>4, FreeIsAvailable DEF Allocation!Return
<1> QED BY <1>2, <1>5 DEF Allocation!Next

\* Every step of the manager is a step of the allocation or leaves it alone.
LEMMA StepRefines ==
  ASSUME IInv, [Next]_vars
  PROVE  [Allocation!Next]_(Allocation!vars)
<1>1. ASSUME NEW o \in Obj, AddResource(o)
      PROVE  Allocation!Next
  BY <1>1, LentIsHeld DEF AddResource, Allocation!Enroll, Allocation!Next,
                          IInv, LeakedApart
<1>2. ASSUME NEW o \in Obj, RemoveResource(o)
      PROVE  Allocation!Next
  <2>1. \/ (delayed \cup leaked)' = delayed \cup leaked
        \/ (delayed \cup leaked)' = (delayed \cup leaked) \ {o}
    BY <1>2 DEF RemoveResource, IInv, LeakedApart
  <2> QED BY <1>2, <2>1 DEF RemoveResource, Allocation!Withdraw, Allocation!Next
<1>3. ASSUME NEW o \in Obj, DelayedRelease(o)
      PROVE  Allocation!Next
  BY <1>3 DEF DelayedRelease, Allocation!Rested, Allocation!Next, IInv, LeakedApart
<1>4. ASSUME NEW c \in Client, AcquireMany(c) \/ Wake(c)
      PROVE  Allocation!Next
  BY <1>4, ProceedIsLend, ProceedRaisesIsReturn DEF AcquireMany, Wake
<1>5. ASSUME NEW c \in Client, AcquireManyFails(c)
      PROVE  Allocation!Next
  <2>1. PICK O \in Pick(Obtainable(c)) :
          LET later == {o \in O : release_at'[o] # None}
          IN  delayed' = delayed \cup later
    BY <1>5 DEF AcquireManyFails
  <2> DEFINE later == {o \in O : release_at'[o] # None}
  <2>2. later \subseteq availables /\ later \in SUBSET Obj
    BY DEF Pick, IInv, TypeOK
  <2>3. delayed' = delayed \cup later /\ UNCHANGED <<resources, held, leaked>>
    BY <1>5, <2>1 DEF AcquireManyFails
  <2> HIDE DEF later
  <2>4. Allocation!Withhold(later)
    BY <2>2, <2>3, FreeIsAvailable DEF Allocation!Withhold
  <2> QED BY <2>2, <2>4 DEF Allocation!Next
<1>6. ASSUME NEW c \in Client, CancelWait(c)
      PROVE  Allocation!Next
  <2>1. /\ held' = [held EXCEPT ![c] = {}]
        /\ UNCHANGED <<resources, release_at, leaked>>
    BY <1>6 DEF CancelWait
  <2>2. \E ws, pcs, L : ReleaseAll(held[c], ws, pcs, L)
    BY <1>6 DEF CancelWait
  <2> QED BY <2>1, <2>2, ReleaseAllIsReturn
<1>7. ASSUME NEW c \in Client, Release(c)
      PROVE  Allocation!Next
  BY <1>7, ReleaseAllIsReturn DEF Release
<1>8. ASSUME NEW c \in Client, NEW o \in Obj, NEW when \in 0 .. MaxDelay,
             ReleaseLater(c, o, when)
      PROVE  UNCHANGED Allocation!vars
  BY <1>8 DEF ReleaseLater, Allocation!vars
<1>9. ASSUME Tick
      PROVE  UNCHANGED Allocation!vars
  BY <1>9 DEF Tick, Allocation!vars
<1>10. CASE UNCHANGED vars
  BY <1>10 DEF vars, Allocation!vars
<1> QED BY <1>1, <1>2, <1>3, <1>4, <1>5, <1>6, <1>7, <1>8, <1>9, <1>10 DEF Next

\* The manager of the resources implements the allocation.
THEOREM ImplementsAllocation == Spec => AllocationSpec
<1>1. Init => Allocation!Init
  BY DEF Init, Allocation!Init
<1>2. Spec => []IInv
  BY InitIInv, NextIInv, PTL DEF Spec
<1> QED BY <1>1, <1>2, StepRefines, PTL DEF Spec, AllocationSpec, Allocation!Spec
=============================================================================
