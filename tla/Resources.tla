----------------------------- MODULE Resources -----------------------------
(***************************************************************************)
(* The resources of a worker (worker/resources/manager.py).  A resource is  *)
(* lent to one message at a time.  ResourcesManager keeps one              *)
(* ExclusiveResources per resource type; a client (the submission of one    *)
(* message by an executor) asks for one resource of each type it needs,     *)
(* first without waiting, then waiting on the condition of each type in     *)
(* sorted order.  A resource with a delay or a rate limit is given back by  *)
(* a background task once its release time has come.                        *)
(*                                                                          *)
(* asyncio runs one coroutine at a time and the lock of the condition is    *)
(* never held over a suspension, so an operation is one step up to the      *)
(* point where it really waits: condition.wait_for.                         *)
(***************************************************************************)
EXTENDS Integers, FiniteSets, SequencesExt

CONSTANTS
  Client,      \* the tasks that acquire resources
  Type,        \* the resource types: integers, in the order sorted() gives
  Obj,         \* the ResourceData objects (compared by identity: eq=False)
  Needs,       \* Needs[c]: the types client c asks for
  TypeOf,      \* TypeOf[o]: the type of o
  NameOf,      \* NameOf[o]: the name of o, unique in its type at one time
  DefaultDelay,\* DefaultDelay[o]: default_delay of o, 0 when it has none
  Resets,      \* Resets[o]: what the rate limiter of o may answer: the time
               \* to its reset when the last call of the window is used
  BadLimits,   \* the objects with a limiter and rate limits that parse_many
               \* cannot read: entering their context raises
  BadStrategy, \* the objects of an unknown strategy: add raises once it has
               \* registered them, and they have no limiter
  MaxDelay     \* bound on any delay, in ticks

ASSUME ClientAssumption ==
  /\ Type \subseteq Int
  /\ IsFiniteSet(Type)
  /\ Needs \in [Client -> SUBSET Type]
  /\ \A c \in Client : Needs[c] # {}

ASSUME ObjAssumption ==
  /\ TypeOf \in [Obj -> Type]
  /\ MaxDelay \in Nat
  /\ DefaultDelay \in [Obj -> 0 .. MaxDelay]
  /\ Resets \in [Obj -> SUBSET (0 .. MaxDelay)]
  /\ BadLimits \subseteq Obj
  /\ BadStrategy \subseteq Obj \ BadLimits
  /\ \A o \in BadStrategy : Resets[o] = {}

\* ResourceContext.release_at is unset
None == -1

VARIABLES
  resources,   \* the registered objects (ExclusiveResources.resources)
  availables,  \* the objects try_acquire may pop
  used,        \* the objects popped and not yet given back
  waiters,     \* waiters[t]: the clients in condition.wait_for, not notified
  pc,          \* pc[c]: where client c stands in acquire_many
  held,        \* held[c]: the objects in the exit stack of client c
  delayed,     \* the objects with a pending _delayed_release task
  release_at,  \* release_at[o]: ticks left until release_at, or None
  leaked,      \* the objects popped whose context raised before the exit stack
               \* had it: still used, and nobody gives them back (history)
  lost         \* lost[t]: a wake-up of t went astray, as a notified waiter was
               \* cancelled or add raised before its notify() (history)

vars == <<resources, availables, used, waiters, pc, held, delayed,
          release_at, leaked, lost>>

----------------------------------------------------------------------------
(* State formulae *)

Key(o) == <<TypeOf[o], NameOf[o]>>
TypesOf(O) == {TypeOf[o] : o \in O}
Held == UNION {held[c] : c \in Client}
Available(t) == {o \in availables : TypeOf[o] = t}
Missing(c) == Needs[c] \ TypesOf(held[c])

\* Does c acquire t no later than u?  acquire_many sorts the types.
\* (Mutant: the first client goes through them the other way round.)
AcquireOrderUnsorted(c, t, u) ==
  IF c = CHOOSE d \in Client : TRUE THEN t >= u ELSE t <= u
AcquireOrder(c, t, u) == t <= u

\* The type c is to acquire next
NextType(c) ==
  CHOOSE t \in Missing(c) : \A u \in Missing(c) : AcquireOrder(c, t, u)

\* The types c gets without waiting, going through its missing types in order
Obtainable(c) ==
  {t \in Missing(c) :
     \A u \in Missing(c) : AcquireOrder(c, u, t) => Available(u) # {}}

\* The objects try_acquire may pop for the types T: set.pop is arbitrary
Pick(T) ==
  {O \in SUBSET availables :
     TypesOf(O) = T /\ \A o, p \in O : TypeOf[o] = TypeOf[p] => o = p}

Notified(t) == {c \in Client : pc[c] = "notified" /\ NextType(c) = t}

\* No object of the key of o is registered
KeyFree(o) == \A p \in resources : Key(p) # Key(o)

----------------------------------------------------------------------------
(* ResourceContext.__aenter__: the release time the delay and the limiter   *)
(* give.  The limiter only matters when it answers that the call being made *)
(* is the last one of its window, and only ever postpones.                  *)

EnterTimes(o) ==
  LET base == IF DefaultDelay[o] = 0 THEN None ELSE DefaultDelay[o]
  IN  {base} \cup {IF r > base THEN r ELSE base : r \in Resets[o]}

Enter(O) ==
  \E f \in [O -> None .. MaxDelay] :
    /\ \A o \in O : f[o] \in EnterTimes(o)
    /\ release_at' = [o \in Obj |-> IF o \in O THEN f[o] ELSE release_at[o]]

(* condition.notify() on each type of T, with the queues of waiters ws and   *)
(* the places pcs: the first waiter of the type, if there is one, is woken.  *)
(* L are the types that lose a wake-up by this very step.                    *)

\* (Mutant: the notify() is forgotten.)
NotifyNobody(T, ws, pcs, L) ==
  /\ waiters' = ws
  /\ pc' = pcs
  /\ lost' = [t \in Type |-> (lost[t] \/ t \in L) /\ ws[t] # <<>>]

Notify(T, ws, pcs, L) ==
  LET waking == {t \in T : ws[t] # <<>>}
      woken  == {Head(ws[t]) : t \in waking}
  IN  /\ waiters' = [t \in Type |-> IF t \in waking THEN Tail(ws[t]) ELSE ws[t]]
      /\ pc' = [c \in Client |-> IF c \in woken THEN "notified" ELSE pcs[c]]
      /\ lost' = [t \in Type |-> (lost[t] \/ t \in L) /\ waiters'[t] # <<>>]

(* The exit of the contexts of the objects O: an object without a release    *)
(* time is released at once, if it was not removed meanwhile; the others get *)
(* a background task.                                                        *)

Immediate(O) == {o \in O : release_at[o] = None}

\* (Mutant: release does not look whether the object is still in use.)
ReleaseAllBlindly(O, ws, pcs, L) ==
  /\ used' = used \ Immediate(O)
  /\ availables' = availables \cup Immediate(O)
  /\ delayed' = delayed \cup (O \ Immediate(O))
  /\ Notify(TypesOf(Immediate(O)), ws, pcs, L)

ReleaseAll(O, ws, pcs, L) ==
  LET freed == Immediate(O) \cap used
  IN  /\ used' = used \ freed
      /\ availables' = availables \cup freed
      /\ delayed' = delayed \cup (O \ Immediate(O))
      /\ Notify(TypesOf(freed), ws, pcs, L)

----------------------------------------------------------------------------
Init ==
  /\ resources = {}
  /\ availables = {}
  /\ used = {}
  /\ waiters = [t \in Type |-> <<>>]
  /\ pc = [c \in Client |-> "idle"]
  /\ held = [c \in Client |-> {}]
  /\ delayed = {}
  /\ release_at = [o \in Obj |-> None]
  /\ leaked = {}
  /\ lost = [t \in Type |-> FALSE]

\* A new ResourceData is registered; a key already registered is refused.
\* When its strategy is unknown, add raises before the notify(), and what was
\* registered stays: the polling provider only logs the error.
\* The identity of an object nothing refers to any more may be used again.
AddResource(o) ==
  /\ o \notin resources \cup Held \cup delayed
  /\ KeyFree(o)
  /\ resources' = resources \cup {o}
  /\ availables' = availables \cup {o}
  /\ release_at' = [release_at EXCEPT ![o] = None]
  /\ IF o \in BadStrategy
       THEN Notify({}, waiters, pc, {TypeOf[o]})
       ELSE Notify({TypeOf[o]}, waiters, pc, {})
  /\ UNCHANGED <<used, held, delayed, leaked>>

\* (Mutant: a removed object stays in the available ones.)
RemoveResourceKeepingIt(o) ==
  /\ o \in resources
  /\ resources' = resources \ {o}
  /\ used' = used \ {o}
  /\ leaked' = leaked \ {o}
  /\ UNCHANGED <<availables, waiters, pc, held, delayed, release_at, lost>>

\* The contexts and the tasks that refer to the object keep it.
RemoveResource(o) ==
  /\ o \in resources
  /\ resources' = resources \ {o}
  /\ availables' = availables \ {o}
  /\ used' = used \ {o}
  /\ leaked' = leaked \ {o}
  /\ UNCHANGED <<waiters, pc, held, delayed, release_at, lost>>

\* c goes through its missing types until one has nothing available: there it
\* waits, holding what it has.
Proceed(c) ==
  LET T    == Obtainable(c)
      rest == Missing(c) \ T
      blocked == CHOOSE t \in rest : \A u \in rest : AcquireOrder(c, t, u)
  IN  \E O \in Pick(T) :
        /\ O \cap BadLimits = {}
        /\ availables' = availables \ O
        /\ used' = used \cup O
        /\ held' = [held EXCEPT ![c] = @ \cup O]
        /\ Enter(O)
        /\ IF rest = {}
             THEN /\ pc' = [pc EXCEPT ![c] = "held"]
                  /\ UNCHANGED waiters
             ELSE /\ pc' = [pc EXCEPT ![c] = "waiting"]
                  /\ waiters' = [waiters EXCEPT ![blocked] = Append(@, c)]
        /\ UNCHANGED <<resources, delayed, leaked, lost>>

\* c pops an object whose context raises on entry.  The exit stack releases
\* what it had entered, before and now; the object itself stays used.
ProceedRaises(c) ==
  \E t \in Obtainable(c) :
    LET before == {u \in Missing(c) \ {t} : AcquireOrder(c, u, t)}
    IN  \E bad \in Available(t) \cap BadLimits, O \in Pick(before) :
          /\ O \cap BadLimits = {}
          /\ Enter(O)
          /\ LET entered == held[c] \cup O
                 later   == {o \in entered : release_at'[o] # None}
                 freed   == (entered \ later) \cap (used \cup O)
             IN  /\ used' = (used \cup O \cup {bad}) \ freed
                 /\ availables' = (availables \ (O \cup {bad})) \cup freed
                 /\ delayed' = delayed \cup later
                 /\ Notify(TypesOf(freed), waiters, [pc EXCEPT ![c] = "idle"], {})
          /\ leaked' = leaked \cup {bad}
          /\ held' = [held EXCEPT ![c] = {}]
          /\ UNCHANGED resources

\* acquire_many, waiting or not, up to its end, its first wait or its error
AcquireMany(c) ==
  /\ pc[c] = "idle"
  /\ Proceed(c) \/ ProceedRaises(c)

\* acquire_many(wait=False) finds a type with nothing available: it has entered
\* the contexts of the types before that one, and leaves them.
AcquireManyFails(c) ==
  /\ pc[c] = "idle"
  /\ Obtainable(c) # Missing(c)
  /\ \E O \in Pick(Obtainable(c)) :
       /\ O \cap BadLimits = {}
       /\ Enter(O)
       /\ LET later == {o \in O : release_at'[o] # None}
          IN  /\ availables' = availables \ later
              /\ used' = used \cup later
              /\ delayed' = delayed \cup later
              /\ Notify(TypesOf(O \ later), waiters, pc, {})
  /\ UNCHANGED <<resources, held, leaked>>

\* wait_for evaluates its predicate again; the resource may be gone, taken by a
\* client that did not wait, and then c waits behind the others.
Wake(c) ==
  /\ pc[c] = "notified"
  /\ Proceed(c) \/ ProceedRaises(c)

\* The task that waits is cancelled (its executor closes): the exit stack
\* releases what it had acquired.  A notification it had received is lost.
CancelWait(c) ==
  /\ pc[c] \in {"waiting", "notified"}
  /\ LET t == NextType(c)
         gone == [pc EXCEPT ![c] = "idle"]
     IN  IF pc[c] = "notified"
           THEN ReleaseAll(held[c], waiters, gone, {t})
           ELSE \E i \in 1 .. Len(waiters[t]) :
                  /\ waiters[t][i] = c
                  /\ ReleaseAll(held[c],
                       [waiters EXCEPT ![t] = RemoveAt(@, i)], gone, {})
  /\ held' = [held EXCEPT ![c] = {}]
  /\ UNCHANGED <<resources, release_at, leaked>>

\* The message is processed: ResourcesContext.release closes the exit stack.
Release(c) ==
  /\ pc[c] = "held"
  /\ ReleaseAll(held[c], waiters, [pc EXCEPT ![c] = "idle"], {})
  /\ held' = [held EXCEPT ![c] = {}]
  /\ UNCHANGED <<resources, release_at, leaked>>

\* The pipeline sets the time at which o is to be released.
ReleaseLater(c, o, when) ==
  /\ pc[c] = "held"
  /\ o \in held[c]
  /\ release_at' = [release_at EXCEPT ![o] = when]
  /\ UNCHANGED <<resources, availables, used, waiters, pc, held, delayed, leaked,
                 lost>>

\* The background task of o wakes up and releases it.
DelayedRelease(o) ==
  /\ o \in delayed
  /\ release_at[o] = 0
  /\ delayed' = delayed \ {o}
  /\ used' = used \ {o}
  /\ availables' = IF o \in used THEN availables \cup {o} ELSE availables
  /\ Notify(IF o \in used THEN {TypeOf[o]} ELSE {}, waiters, pc, {})
  /\ UNCHANGED <<resources, held, release_at, leaked>>

\* Time passes: it matters only while a release time is ahead.
Tick ==
  /\ \E o \in Obj : release_at[o] > 0
  /\ release_at' = [o \in Obj |-> IF release_at[o] > 0 THEN release_at[o] - 1
                                  ELSE release_at[o]]
  /\ UNCHANGED <<resources, availables, used, waiters, pc, held, delayed, leaked,
                 lost>>

Next ==
  \/ \E o \in Obj : AddResource(o) \/ RemoveResource(o) \/ DelayedRelease(o)
  \/ \E c \in Client : \/ AcquireMany(c) \/ AcquireManyFails(c) \/ Wake(c)
                       \/ CancelWait(c) \/ Release(c)
  \/ \E c \in Client, o \in Obj, when \in 0 .. MaxDelay : ReleaseLater(c, o, when)
  \/ Tick

Spec == Init /\ [][Next]_vars

(* Tasks that can run do run, the clock advances, and a pipeline that holds  *)
(* its resources ends.  Nothing says that a client is cancelled, that a      *)
(* resource is added or removed, or that a new acquisition is made.          *)
Fairness ==
  /\ \A c \in Client : WF_vars(Wake(c)) /\ WF_vars(Release(c))
  /\ \A o \in Obj : WF_vars(DelayedRelease(o))
  /\ WF_vars(Tick)

FairSpec == Spec /\ Fairness

----------------------------------------------------------------------------
(* Properties *)

\* The values the variables take.
TypeOK ==
  /\ resources \subseteq Obj
  /\ availables \subseteq Obj
  /\ used \subseteq Obj
  /\ waiters \in [Type -> Seq(Client)]
  /\ pc \in [Client -> {"idle", "waiting", "notified", "held"}]
  /\ held \in [Client -> SUBSET Obj]
  /\ delayed \subseteq Obj
  /\ release_at \in [Obj -> None .. MaxDelay]
  /\ leaked \subseteq Obj
  /\ lost \in [Type -> BOOLEAN]

\* A ResourceData is lent to one client at a time, whatever is removed, added,
\* cancelled or given back meanwhile (manager.py:197-209).
Exclusive ==
  \A c, d \in Client : c # d => held[c] \cap held[d] = {}

\* No resource is lost but by the error of its own context, and a removed one
\* does not come back: the objects a manager counts as used are the registered
\* ones that a client holds, that a background task is to release, or whose
\* context raised as it was entered, and every other registered object is
\* available (manager.py:59-72, 106-116, 190-209, and the stack of 232-238).
NothingLost ==
  /\ used = resources \cap (Held \cup delayed \cup leaked)
  /\ availables = resources \ used

\* While clients wait for a type, every available resource of the type has a
\* notified waiter coming for it, unless a wake-up went astray: the one
\* notified was cancelled, or add raised between the registration and its
\* notify() (manager.py:158, 169-172, 183-188, 209).  Otherwise a free resource
\* and a waiter can stay side by side for ever.
WakeupsCoverAvailables ==
  \A t \in Type :
    waiters[t] # <<>> /\ ~lost[t] =>
      Cardinality(Available(t)) <= Cardinality(Notified(t))

\* A resource given back is not lent again before the release time its delay,
\* its rate limit or its pipeline set (manager.py:64-68, 81-84).
NoEarlyReuse == \A o \in availables : release_at[o] <= 0

\* An object of the type is registered that somebody gives back, and no wake-up
\* of the type went astray
Served(t) == (\E o \in resources \ leaked : TypeOf[o] = t) /\ ~lost[t]

\* Clients that hold resources while they wait for others never block each
\* other for good, as sorting the types (manager.py:227-228) prevents it: again
\* and again one of them gets all it asked for, or the error of a context.
SomeoneProceeds ==
  \/ []<>(\/ \A c \in Client : pc[c] = "idle"
         \/ \E c \in Client : pc[c] = "held"
         \/ \E t \in Type : ~Served(t))
  \/ []<><<\E c \in Client : ProceedRaises(c)>>_vars

\* The manager implements the allocation of ResourceAllocation.
Allocation == INSTANCE ResourceAllocation
  WITH pool <- resources, lent <- held, resting <- delayed \cup leaked
AllocationSpec == Allocation!Spec
=============================================================================
