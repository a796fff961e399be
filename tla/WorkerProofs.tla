---------------------------- MODULE WorkerProofs ----------------------------
(***************************************************************************)
(* Proofs about a worker: Broker, with the Services it extends, and Executor, *)
(* one of the executors it adds.                                            *)
(*                                                                         *)
(* Broker, for any configuration and executors: what runs finds what it uses *)
(* open, whichever service fails to load, open or close, and wherever a     *)
(* signal finds the broker.  Nothing in the code compares the needs of two  *)
(* services as they open or close: that rests on the order _load_service left *)
(* (Ordered) and on what is open being the beginning of that order          *)
(* (Beginning).                                                             *)
(*                                                                         *)
(* Executor, for any queues, resources, limits and messages: each queue has *)
(* one task, the outputs of a queue outlive what it counts, and no queue is *)
(* overtaken more than twice.  The scheduler keeps neither fact anywhere:    *)
(* they follow from where the generator of each queue is suspended           *)
(* (Generator) while the batch and the group change (Batched), and the bound *)
(* from what is left of the batch (Overtaken).                               *)
(***************************************************************************)
EXTENDS Broker, Executor, SequenceTheorems, FiniteSetTheorems,
        WellFoundedInduction, TLAPS

(***************************************************************************)
(* The broker and its services                                             *)
(***************************************************************************)

\* A loaded service comes after those it needs.
Ordered ==
  \A i \in DOMAIN loaded : \A n \in Needs[loaded[i]] :
    \E j \in 1 .. (i - 1) : NameOf[loaded[j]] = n

\* The open services are the first ones.
Beginning == \E k \in 0 .. Len(loaded) : open = 1 .. k

\* What each phase of the broker implies.
Phases ==
  /\ broker \in {"new", "opening"} =>
       task = "none" /\ \A e \in Exec : executor[e] = "none"
  /\ broker = "new" => open = {}
  /\ broker \in {"running", "closing"} => open = DOMAIN loaded
  /\ broker \in {"services", "ended"} =>
       task # "running" /\ \A e \in Exec : executor[e] \in {"none", "closed"}
  /\ broker = "closing" => task # "running"

BrokerInv == TypeOK /\ Ordered /\ Beginning /\ Phases /\ UsedAreOpen

----------------------------------------------------------------------------
(* Sequences and intervals *)

\* A nonempty set of naturals has a least element.
LEMMA LeastExists ==
  ASSUME NEW S \in SUBSET Nat, S # {}
  PROVE  \E x \in S : \A y \in S : x <= y
<1>1. \A m, n \in Nat : m < n => <<m, n>> \in OpToRel(<, Nat)
  BY DEF OpToRel
<1>2. PICK x \in S : \A y \in S : ~ (<<y, x>> \in OpToRel(<, Nat))
  BY NatLessThanWellFounded, WFMin
<1>3. ASSUME NEW y \in S PROVE x <= y
  <2>1. x \in Nat /\ y \in Nat /\ ~ (y < x)
    BY <1>1, <1>2
  <2> QED BY <2>1
<1> QED BY <1>3

\* list.remove leaves a list.
LEMMA WithoutIsSeq ==
  ASSUME NEW s \in Seq(Class), NEW c
  PROVE  Without(s, c) \in Seq(Class)
<1> DEFINE I == {i \in 1 .. Len(s) : s[i] = c}
<1>1. Len(s) \in Nat /\ \A i \in 1 .. Len(s) : s[i] \in Class
  OBVIOUS
<1>2. ASSUME I # {}
      PROVE  Min(I) \in 1 .. Len(s)
  <2>1. \E x \in I : \A y \in I : x <= y
    <3>1. I \in SUBSET Nat
      BY <1>1
    <3> HIDE DEF I
    <3> QED BY <1>2, <3>1, LeastExists
  <2> QED BY <2>1 DEF Min
<1>3. ASSUME NEW i \in 1 .. Len(s)
      PROVE  RemoveAt(s, i) \in Seq(Class)
  <2>1. SubSeq(s, 1, i - 1) \in Seq(Class)
    BY <1>1, SubSeqProperties
  <2>2. SubSeq(s, i + 1, Len(s)) \in Seq(Class)
    BY <1>1, SubSeqProperties
  <2> QED BY <2>1, <2>2, ConcatProperties DEF RemoveAt
<1>4. CASE I = {}
  <2>1. RemoveFirst(s, c) = s
    BY <1>4 DEF RemoveFirst
  <2> QED BY <2>1 DEF Without
<1>5. CASE I # {}
  <2>1. RemoveFirst(s, c) = RemoveAt(s, Min(I))
    BY <1>5 DEF RemoveFirst, SelectInSeq
  <2> QED BY <1>2, <1>3, <1>5, <2>1 DEF Without
<1> QED BY <1>4, <1>5

\* Whatever standalone_config moves, the paths are a list of classes.
LEMMA StandaloneIsSeq ==
  ASSUME NEW services \in Seq(Class)
  PROVE  Base \o services \in Seq(Class) /\ StandalonePaths(services) \in Seq(Class)
<1>1. Base \in Seq(Class) /\ <<Databases, StandaloneApiClient>> \in Seq(Class)
  BY ServicesAssumption
<1>2. Without(Base, ApiClient) \in Seq(Class) /\ Without(services, Databases) \in Seq(Class)
  BY <1>1, WithoutIsSeq
<1>3. Base \o services \in Seq(Class)
  BY <1>1
<1>4. <<Databases, StandaloneApiClient>> \o Without(Base, ApiClient) \in Seq(Class)
  BY <1>1, <1>2
<1> HIDE DEF Without
<1> QED BY <1>2, <1>3, <1>4 DEF StandalonePaths

\* The next service to open, and the next one to close.
LEMMA OpeningIs ==
  ASSUME TypeOK, NEW k \in 0 .. Len(loaded), open = 1 .. k, open # DOMAIN loaded
  PROVE  k < Len(loaded) /\ Opening = k + 1
<1>1. PICK n \in Nat : n = Len(loaded) /\ DOMAIN loaded = 1 .. n
  BY DEF TypeOK, ServicesTypeOK
<1>2. k \in 0 .. n /\ k # n
  BY <1>1
<1>3. \A i : i \in DOMAIN loaded \ open <=> i \in (k + 1) .. n
  BY <1>1, <1>2
<1>4. DOMAIN loaded \ open = (k + 1) .. n
  BY <1>3
<1>5. k + 1 \in (k + 1) .. n /\ \A i \in (k + 1) .. n : k + 1 <= i
  BY <1>2
<1>6. \A i \in (k + 1) .. n : i <= k + 1 => i = k + 1
  BY <1>2
<1> QED BY <1>1, <1>2, <1>4, <1>5, <1>6 DEF Opening

\* The next service to close is the last one open.
LEMMA ClosingIs ==
  ASSUME NEW k \in Nat, open = 1 .. k, open # {}
  PROVE  k > 0 /\ Closing = k
BY DEF Closing

\* An open service finds those it needs open, as they were loaded before it.
LEMMA NeedsAreOpen == TypeOK /\ Ordered /\ Beginning => NeedsOpen
<1> SUFFICES ASSUME TypeOK, Ordered, Beginning PROVE NeedsOpen
  OBVIOUS
<1>1. PICK k \in 0 .. Len(loaded) : open = 1 .. k
  BY DEF Beginning
<1>2. DOMAIN loaded = 1 .. Len(loaded) /\ Len(loaded) \in Nat
  BY DEF TypeOK, ServicesTypeOK
<1> QED BY <1>1, <1>2 DEF Ordered, NeedsOpen

----------------------------------------------------------------------------
(* The invariant *)

\* What runs is not closed under it: the part of UsedAreOpen of the executors.
Used ==
  (\E e \in Exec : executor[e] \notin {"none", "closed"}) => open = DOMAIN loaded

\* The types of what is not of the services.
OwnTypeOK ==
  /\ broker \in {"new", "opening", "running", "closing", "services", "ended", "failed"}
  /\ is_opened \in BOOLEAN
  /\ ignored \in BOOLEAN
  /\ swallowed \in BOOLEAN
  /\ task \in {"none", "running", "cancelled", "ended"}
  /\ sync \in {"sync", "provider", "removing"}
  /\ drop \in SUBSET Exec
  /\ managed \in SUBSET Exec
  /\ executor \in [Exec -> {"none", "running", "closing", "closed", "ending", "stranded"}]
  /\ stops \in 0 .. 1

\* The types, those of the services apart.
LEMMA TypeParts == TypeOK <=> ServicesTypeOK /\ OwnTypeOK
BY DEF TypeOK, OwnTypeOK

\* Nothing is loaded, open or running at first.
LEMMA BrokerStarts == InitBroker => BrokerInv
<1> SUFFICES ASSUME InitBroker PROVE BrokerInv
  OBVIOUS
<1>1. todo \in Seq(Class)
  <2>1. PICK services \in Configured : todo \in {Base \o services, StandalonePaths(services)}
    BY DEF InitBroker, InitServices
  <2>2. services \in Seq(Class)
    BY ServicesAssumption
  <2>3. Base \o services \in Seq(Class) /\ StandalonePaths(services) \in Seq(Class)
    BY <2>2, StandaloneIsSeq
  <2> QED BY <2>1, <2>3
<1>2. ServicesTypeOK
  BY <1>1 DEF InitBroker, InitServices, ServicesTypeOK
<1>3. TypeOK
  <2>1. OwnTypeOK
    <3>1. is_opened \in BOOLEAN /\ ignored \in BOOLEAN /\ swallowed \in BOOLEAN
      BY DEF InitBroker
    <3>2. executor \in [Exec -> {"none"}]
      BY DEF InitBroker
    <3> QED BY <3>1, <3>2 DEF InitBroker, OwnTypeOK
  <2> QED BY <1>2, <2>1, TypeParts
<1>4. Ordered /\ Beginning /\ Phases
  BY DEF InitBroker, InitServices, Ordered, Beginning, Phases
<1>5. UsedAreOpen
  BY DEF InitBroker, InitServices, UsedAreOpen, NeedsOpen
<1> QED BY <1>3, <1>4, <1>5 DEF BrokerInv

\* A class is loaded at the end of the list, once what it needs is in it.
LEMMA LoadKeeps ==
  ASSUME ServicesTypeOK, Ordered, NextLoad
  PROVE  /\ {todo', deferred', again', loaded'} \subseteq Seq(Class)
         /\ retrying' \in {"no", "first", "aliased"}
         /\ loading' \in {"loading", "loaded", "raised", "stuck"}
         /\ open' = open
         /\ Ordered'
<1> USE DEF ServicesTypeOK
<1>1. CASE LoadService
  <2>1. Head(todo) \in Class /\ Tail(todo) \in Seq(Class)
    BY <1>1 DEF LoadService
  <2>2. retrying' = retrying /\ open' = open
    BY <1>1 DEF LoadService
  <2>3. CASE Defer(Head(todo))
    <3>1. Append(Tail(todo), Head(todo)) \in Seq(Class)
      BY <2>1
    <3>2. todo' \in Seq(Class) /\ loaded' = loaded /\ loading' = loading
      BY <2>1, <2>3, <3>1 DEF Defer
    <3>3. Append(deferred, Head(todo)) \in Seq(Class) /\ Append(again, Head(todo)) \in Seq(Class)
      BY <2>1
    <3>4. deferred' \in Seq(Class) /\ again' \in Seq(Class)
      BY <2>3, <3>3 DEF Defer
    <3>5. Ordered'
      BY <3>2 DEF Ordered
    <3> QED BY <2>2, <3>2, <3>4, <3>5
  <2>4. CASE Load(Head(todo))
    <3> DEFINE c == Head(todo)
    <3>1. /\ todo' = Tail(todo)
          /\ loaded' = Append(loaded, c)
          /\ deferred' = deferred /\ again' = again /\ loading' = loading
          /\ ~Missing(c)
      BY <2>4 DEF Load
    <3>2. loaded' \in Seq(Class)
      BY <2>1, <3>1
    <3>3. PICK n \in Nat : n = Len(loaded) /\ DOMAIN loaded = 1 .. n
      OBVIOUS
    <3>4. /\ DOMAIN loaded' = 1 .. (n + 1)
          /\ loaded'[n + 1] = c
          /\ \A i \in 1 .. n : loaded'[i] = loaded[i]
      BY <2>1, <3>1, <3>3
    <3>5. ASSUME NEW i \in DOMAIN loaded', NEW m \in Needs[loaded'[i]]
          PROVE  \E j \in 1 .. (i - 1) : NameOf[loaded'[j]] = m
      <4>1. CASE i = n + 1
        <5>1. m \in Names
          BY <3>1, <3>4, <3>5, <4>1 DEF Missing
        <5>2. PICK j \in 1 .. n : NameOf[loaded[j]] = m
          BY <3>3, <5>1 DEF Names
        <5> QED BY <3>4, <4>1, <5>2
      <4>2. CASE i \in 1 .. n
        <5>1. PICK j \in 1 .. (i - 1) : NameOf[loaded[j]] = m
          BY <3>3, <3>4, <3>5, <4>2 DEF Ordered
        <5>2. j \in 1 .. n
          BY <4>2, <3>3
        <5> QED BY <3>4, <5>1, <5>2
      <4> QED BY <3>4, <3>5, <4>1, <4>2
    <3>6. Ordered'
      BY <3>5 DEF Ordered
    <3> QED BY <2>1, <2>2, <3>1, <3>2, <3>6
  <2>5. CASE Raise(Head(todo))
    BY <2>2, <2>5 DEF Raise, Ordered
  <2> QED BY <1>1, <2>3, <2>4, <2>5 DEF LoadService
<1>2. CASE EndRound
  <2>1. loaded' = loaded /\ again' = again /\ open' = open
    BY <1>2 DEF EndRound
  <2>2. deferred' \in Seq(Class) /\ todo' \in Seq(Class)
    BY <1>2 DEF EndRound
  <2>3. /\ retrying' \in {"no", "first", "aliased"}
        /\ loading' \in {"loading", "loaded", "raised", "stuck"}
    BY <1>2 DEF EndRound
  <2>4. Ordered'
    BY <2>1 DEF Ordered
  <2> QED BY <2>1, <2>2, <2>3, <2>4
<1> QED BY <1>1, <1>2 DEF NextLoad

\* What every step keeps, the needs of the open services apart.
Kept == ServicesTypeOK /\ OwnTypeOK /\ Ordered /\ Beginning /\ Phases /\ Used

\* While the services load nothing is open.
LEMMA LoadServicesKeeps ==
  ASSUME Kept, LoadServices
  PROVE  Kept'
<1>1. /\ {todo', deferred', again', loaded'} \subseteq Seq(Class)
      /\ retrying' \in {"no", "first", "aliased"}
      /\ loading' \in {"loading", "loaded", "raised", "stuck"}
      /\ open' = open
  BY LoadKeeps DEF Kept, LoadServices
<1>2. Ordered'
  BY LoadKeeps DEF Kept, LoadServices
<1>3. open' = {}
  BY <1>1 DEF Kept, Phases, LoadServices
<1>4. ServicesTypeOK'
  BY <1>1, <1>3 DEF ServicesTypeOK
<1>5. Beginning'
  <2>1. Len(loaded') \in Nat
    BY <1>1
  <2>2. 0 \in 0 .. Len(loaded') /\ {} = 1 .. 0
    BY <2>1
  <2> QED BY <1>3, <2>2 DEF Beginning
<1>6. OwnTypeOK'
  BY DEF Kept, OwnTypeOK, signalVars, LoadServices
<1>7. Phases' /\ Used'
  BY <1>3 DEF Kept, Phases, Used, LoadServices
<1> QED BY <1>2, <1>4, <1>5, <1>6, <1>7 DEF Kept

\* The services open one after the other, in the order of the list.
LEMMA OpenServicesKeeps ==
  ASSUME Kept, OpenServices
  PROVE  Kept'
<1> USE DEF Kept
<1>1. PICK k \in 0 .. Len(loaded) : open = 1 .. k
  BY DEF Beginning
<1>2. Len(loaded) \in Nat /\ DOMAIN loaded = 1 .. Len(loaded) /\ loaded' = loaded
  BY DEF ServicesTypeOK, OpenServices, loadVars
<1>3. open' = open \/ (open # DOMAIN loaded /\ open' = open \cup {Opening})
  BY DEF OpenServices
<1>4. open' = 1 .. k \/ (k < Len(loaded) /\ open' = 1 .. (k + 1))
  <2>1. CASE open # DOMAIN loaded /\ open' = open \cup {Opening}
    <3>1. k < Len(loaded) /\ Opening = k + 1
      BY <1>1, <2>1, OpeningIs, TypeParts
    <3>2. 1 .. (k + 1) = (1 .. k) \cup {k + 1}
      BY <1>2
    <3> QED BY <1>1, <2>1, <3>1, <3>2
  <2> QED BY <1>1, <1>3, <2>1
<1>5. Beginning'
  BY <1>2, <1>4 DEF Beginning
<1>6. open' \subseteq DOMAIN loaded'
  BY <1>2, <1>4
<1>7. ServicesTypeOK' /\ Ordered'
  BY <1>6 DEF OpenServices, loadVars, ServicesTypeOK, Ordered
<1>8. OwnTypeOK'
  BY DEF OpenServices, OwnTypeOK, signalVars
<1>9. Phases' /\ Used'
  BY <1>2 DEF OpenServices, Phases, Used
<1> QED BY <1>5, <1>7, <1>8, <1>9

\* The services close in the reverse order.
LEMMA CloseServicesKeeps ==
  ASSUME Kept, CloseServices
  PROVE  Kept'
<1> USE DEF Kept
<1>1. PICK k \in 0 .. Len(loaded) : open = 1 .. k
  BY DEF Beginning
<1>2. Len(loaded) \in Nat /\ DOMAIN loaded = 1 .. Len(loaded) /\ loaded' = loaded
  BY DEF ServicesTypeOK, CloseServices, loadVars
<1>3. open' = open \/ (open # {} /\ open' = open \ {Closing})
  BY DEF CloseServices
<1>4. open' = 1 .. k \/ (k > 0 /\ open' = 1 .. (k - 1))
  <2>1. CASE open # {} /\ open' = open \ {Closing}
    <3>1. k > 0 /\ Closing = k
      BY <1>1, <1>2, <2>1, ClosingIs
    <3>2. 1 .. (k - 1) = (1 .. k) \ {k}
      BY <1>2
    <3> QED BY <1>1, <2>1, <3>1, <3>2
  <2> QED BY <1>1, <1>3, <2>1
<1>5. Beginning'
  BY <1>2, <1>4 DEF Beginning
<1>6. open' \subseteq DOMAIN loaded'
  BY <1>2, <1>4
<1>7. ServicesTypeOK' /\ Ordered'
  BY <1>6 DEF CloseServices, loadVars, ServicesTypeOK, Ordered
<1>8. OwnTypeOK'
  BY DEF CloseServices, OwnTypeOK, signalVars
<1>9. Phases' /\ Used'
  BY <1>2 DEF CloseServices, Phases, Used
<1> QED BY <1>5, <1>7, <1>8, <1>9

\* A step that leaves the services as they are.
LEMMA ServicesStay ==
  ASSUME ServicesTypeOK, Ordered, Beginning, UNCHANGED servicesVars
  PROVE  /\ ServicesTypeOK' /\ Ordered' /\ Beginning'
         /\ open' = open /\ loaded' = loaded
BY DEF servicesVars, loadVars, ServicesTypeOK, Ordered, Beginning

\* The synchronisations, and the signal that may cancel one.
LEMMA SyncKeeps ==
  ASSUME Kept, Sync \/ SyncFatal \/ ProviderDone \/ Stop \/ \E e \in Exec : Removed(e)
  PROVE  Kept'
<1> USE DEF Kept
<1>1. UNCHANGED servicesVars
  BY DEF Sync, SyncFatal, ProviderDone, Stop, Removed
<1>2. ServicesTypeOK' /\ Ordered' /\ Beginning' /\ open' = open /\ loaded' = loaded
  BY <1>1, ServicesStay
<1>3. broker' = broker
  BY DEF Sync, SyncFatal, ProviderDone, Stop, Removed
<1>4. CASE Sync
  <2>1. OwnTypeOK'
    BY <1>4 DEF OwnTypeOK, signalVars, Sync, Of
  <2>2. Phases' /\ Used'
    BY <1>2, <1>4 DEF Phases, Used, Sync, Syncing
  <2> QED BY <1>2, <2>1, <2>2
<1>5. CASE SyncFatal
  <2>1. OwnTypeOK'
    BY <1>5 DEF OwnTypeOK, signalVars, SyncFatal, Abandon
  <2>2. Phases' /\ Used'
    BY <1>2, <1>5 DEF Phases, Used, SyncFatal, Syncing
  <2> QED BY <1>2, <2>1, <2>2
<1>6. CASE ProviderDone
  <2>1. OwnTypeOK'
    BY <1>6 DEF OwnTypeOK, signalVars, ProviderDone, RemoveNext
  <2>2. Phases' /\ Used'
    BY <1>2, <1>6 DEF Phases, Used, ProviderDone, Syncing
  <2> QED BY <1>2, <2>1, <2>2
<1>7. CASE Stop
  <2>1. OwnTypeOK'
    <3>1. ignored' \in BOOLEAN /\ swallowed' \in BOOLEAN
      BY <1>7, Zenon DEF OwnTypeOK, Stop
    <3>2. /\ task' \in {"none", "running", "cancelled", "ended"}
          /\ executor' \in [Exec -> {"none", "running", "closing", "closed", "ending", "stranded"}]
          /\ stops' \in 0 .. 1
      BY <1>7 DEF OwnTypeOK, Stop, Abandon
    <3>3. UNCHANGED <<broker, is_opened, sync, drop, managed>>
      BY <1>7 DEF Stop
    <3> QED BY <3>1, <3>2, <3>3 DEF OwnTypeOK
  <2>2. CASE task = "running"
    <3>1. broker = "running"
      BY <1>7, <2>2 DEF Phases, Stop, OwnTypeOK
    <3>2. task' = "cancelled" \/ task' = task
      BY <1>7, <2>2 DEF Stop
    <3>3. executor' = executor \/ Abandon
      BY <1>7, <2>2 DEF Stop
    <3> QED BY <1>2, <1>3, <2>1, <2>2, <3>1, <3>2, <3>3 DEF Phases, Used, Abandon
  <2>3. CASE task # "running"
    <3>1. task' = task /\ executor' = executor
      BY <1>7, <2>3 DEF Stop, Syncing
    <3> QED BY <1>2, <1>3, <2>1, <2>3, <3>1 DEF Phases, Used
  <2> QED BY <1>2, <2>1, <2>2, <2>3
<1>8. CASE \E e \in Exec : Removed(e)
  <2>1. OwnTypeOK'
    BY <1>8 DEF OwnTypeOK, signalVars, Removed
  <2>2. Phases' /\ Used'
    BY <1>2, <1>8 DEF Phases, Used, Removed, Syncing
  <2> QED BY <1>2, <2>1, <2>2
<1> QED BY <1>4, <1>5, <1>6, <1>7, <1>8

\* The executors close, all at once, and before the services.
LEMMA ExecutorsKeep ==
  ASSUME Kept, \/ CloseExecutors \/ ExecutorFails \/ ExecutorsClosed
               \/ \E e \in Exec : ExecutorClosed(e) \/ RunEnds(e)
  PROVE  Kept'
<1> USE DEF Kept
<1>1. UNCHANGED servicesVars
  BY DEF CloseExecutors, ExecutorFails, ExecutorsClosed, ExecutorClosed, RunEnds
<1>2. ServicesTypeOK' /\ Ordered' /\ Beginning' /\ open' = open /\ loaded' = loaded
  BY <1>1, ServicesStay
<1>3. OwnTypeOK'
  BY DEF OwnTypeOK, signalVars, CloseExecutors, ExecutorFails, ExecutorsClosed, ExecutorClosed, RunEnds
<1>4. CASE CloseExecutors
  BY <1>2, <1>3, <1>4 DEF Phases, Used, CloseExecutors
<1>5. CASE ExecutorFails \/ ExecutorsClosed
  BY <1>2, <1>3, <1>5 DEF Phases, Used, ExecutorFails, ExecutorsClosed
<1>6. CASE \E e \in Exec : ExecutorClosed(e)
  <2>1. PICK e \in Exec : ExecutorClosed(e)
    BY <1>6
  <2> QED BY <1>2, <1>3, <2>1 DEF Phases, Used, ExecutorClosed, OwnTypeOK
<1>7. CASE \E e \in Exec : RunEnds(e)
  <2>1. PICK e \in Exec : RunEnds(e)
    BY <1>7
  <2> QED BY <1>2, <1>3, <2>1 DEF Phases, Used, RunEnds, OwnTypeOK
<1> QED BY <1>4, <1>5, <1>6, <1>7

\* One case per action of the broker.
LEMMA BrokerStays == Kept /\ [NextBroker]_brokerVars => Kept'
<1> SUFFICES ASSUME Kept, [NextBroker]_brokerVars PROVE Kept'
  OBVIOUS
<1>1. CASE UNCHANGED brokerVars
  <2>1. /\ UNCHANGED servicesVars
        /\ broker' = broker /\ is_opened' = is_opened /\ task' = task
        /\ sync' = sync /\ drop' = drop /\ executor' = executor
        /\ managed' = managed /\ stops' = stops /\ ignored' = ignored
        /\ swallowed' = swallowed
    BY <1>1 DEF brokerVars, runVars, signalVars
  <2>2. ServicesTypeOK' /\ Ordered' /\ Beginning' /\ open' = open /\ loaded' = loaded
    BY <2>1, ServicesStay DEF Kept
  <2>3. OwnTypeOK' /\ Phases' /\ Used'
    BY <2>1, <2>2 DEF Kept, OwnTypeOK, Phases, Used
  <2> QED BY <2>2, <2>3 DEF Kept
<1>2. CASE NextBroker
  BY <1>2, LoadServicesKeeps, OpenServicesKeeps, CloseServicesKeeps, SyncKeeps,
     ExecutorsKeep DEF NextBroker
<1> QED BY <1>1, <1>2

\* The conjuncts the proof of a step goes by are those of the invariant.
LEMMA KeptIsBrokerInv == Kept <=> BrokerInv
<1>1. Used /\ NeedsOpen <=> UsedAreOpen
  BY DEF Used, UsedAreOpen
<1> QED BY <1>1, NeedsAreOpen, TypeParts DEF Kept, BrokerInv

\* In every behaviour of the broker.
THEOREM BrokerInvariant == BrokerSpec => []BrokerInv
<1>1. InitBroker => Kept
  BY BrokerStarts, KeptIsBrokerInv
<1>2. BrokerSpec => []Kept
  BY <1>1, BrokerStays, PTL DEF BrokerSpec
<1> QED BY <1>2, KeptIsBrokerInv, PTL

\* The types of the broker and of its services.
THEOREM BrokerTypes == BrokerSpec => []TypeOK
<1>1. BrokerInv => TypeOK
  BY DEF BrokerInv
<1> QED BY <1>1, BrokerInvariant, PTL

\* What runs finds what it uses open, and an open service those it asked for, from
\* the load to the last close, whatever fails and wherever a signal arrives.
THEOREM UsedIsOpen == BrokerSpec => []UsedAreOpen
<1>1. BrokerInv => UsedAreOpen
  BY DEF BrokerInv
<1> QED BY <1>1, BrokerInvariant, PTL

(***************************************************************************)
(* An executor                                                             *)
(***************************************************************************)

\* The values of the variables.
ExecutorTypes ==
  /\ stage \in [Msg -> {"topic", "parked", "yielded", "scheduled", "resource", "delayed",
                        "queued", "executing", "publishing", "blocked", "done", "dropped"}]
  /\ gen \in [Queue -> {"none", "polling", "parked", "yielded", "closing", "closed"}]
  /\ how \in [Queue -> {"none", "stop", "cancel", "aclose"}]
  /\ polled \in [Queue -> Nat]
  /\ counted \subseteq Msg
  /\ entered \subseteq Msg
  /\ outputs \in [Queue -> {"open", "closed"}]
  /\ parkers \in [Queue -> SUBSET Msg]
  /\ slot \in [Queue -> {"none", "running", "stopped"}]
  /\ order \in [Queue -> Nat]
  /\ group \subseteq Queue
  /\ batch \in Seq(Queue)
  /\ run \in {"waiting", "processing", "submitting", "aclosing", "ended"}
  /\ putter \in Msg \cup {NoMsg}
  /\ queue \in Msg \cup {NoMsg}
  /\ holding \subseteq Msg
  /\ phase \in {"running", "scheduler", "workers", "consuming", "closed"}
  /\ closing \subseteq Queue
  /\ passed \in [Queue -> [Queue -> Nat]]

\* The queue q is in the sequence s, once at most; q is there before p.
Among(q, s) == \E i \in 1 .. Len(s) : s[i] = q
Distinct(s) == \A i, j \in 1 .. Len(s) : s[i] = s[j] => i = j
Ahead(q, p, s) == \E i, j \in 1 .. Len(s) : i < j /\ s[i] = q /\ s[j] = p

\* The batch, and what it is suspended at.
Batched ==
  /\ Distinct(batch)
  /\ \A q \in group : ~Among(q, batch)
  /\ run \in {"waiting", "ended"} => batch = <<>>
  /\ run \in {"submitting", "aclosing"} => batch # <<>>
  /\ run = "submitting" => gen[Head(batch)] = "yielded"
  /\ run = "aclosing" => gen[Head(batch)] = "closing" /\ how[Head(batch)] = "aclose"

\* The message that is submitted, those that are put, and the one that was.
Submitting ==
  /\ \A m \in Msg : stage[m] = "scheduled" => run = "submitting" /\ m = Current(Head(batch))
  /\ putter # NoMsg => stage[putter] \in {"scheduled", "delayed"}
  /\ queue # NoMsg => stage[queue] = "queued"

\* A message that is not polled is in its topic.
Polled ==
  \A q \in Queue : \A n \in 1 .. MaxMsg[q] : n > polled[q] => stage[<<q, n>>] = "topic"

\* Where the __anext__ task of a queue is, and why it ends.
Generator(q) ==
  /\ polled[q] <= MaxMsg[q]
  /\ gen[q] \in {"parked", "yielded"} => polled[q] > 0
  /\ gen[q] = "parked" => stage[Current(q)] = "parked"
  /\ gen[q] = "yielded" =>
       stage[Current(q)] = "yielded" \/ (run = "submitting" /\ Head(batch) = q)
  /\ gen[q] = "none" => slot[q] = "none" /\ q \notin group /\ ~Among(q, batch)
  /\ gen[q] \in {"polling", "parked"} => q \in group /\ slot[q] = "running" /\ Polling
  /\ gen[q] \in {"none", "polling", "parked", "yielded"} <=> how[q] = "none"
  /\ how[q] = "aclose" => slot[q] = "none"
  /\ gen[q] = "closing" /\ how[q] = "aclose" => run = "aclosing" /\ Head(batch) = q
  /\ slot[q] = "running" => Polling
  /\ slot[q] = "running" /\ phase = "running" =>
       (q \in group \/ Among(q, batch)) /\ how[q] \in {"none", "stop"}

\* Outputs are closed when no message counts any more.
Counted(q) ==
  outputs[q] = "closed" => gen[q] = "closed" /\ \A m \in counted : QueueOf(m) # q

InFlightCounts ==
  \A m \in InFlight :
    m \in counted \/ (how[QueueOf(m)] = "aclose" /\ m = Current(QueueOf(m)))

\* The queue has a message ready that is not submitted yet.
Ready(q) == gen[q] = "yielded" /\ stage[Current(q)] = "yielded"

\* What the scheduler has not processed of its batch.
Rest == IF run = "processing" \/ batch = <<>> THEN batch ELSE Tail(batch)

\* How many messages of q may have gone before the one of p, when s is what is left
\* of the batch.
Bound(q, p, s) ==
  IF Among(p, s) THEN IF Ahead(q, p, s) THEN 1 ELSE 2
                 ELSE IF Among(q, s) THEN 0 ELSE 1

Overtaken(p) ==
  /\ Ready(p) =>
       /\ p \in group \/ Among(p, Rest) \/ (~Polling /\ group = {})
       /\ \A q \in Queue : passed[p][q] <= Bound(q, p, Rest)
  /\ ~Ready(p) => \A q \in Queue : passed[p][q] = 0

QueueInv(q) == Generator(q) /\ Counted(q) /\ Overtaken(q)

ExecutorInv ==
  /\ ExecutorTypes /\ Batched /\ Submitting /\ Polled /\ InFlightCounts
  /\ \A q \in Queue : QueueInv(q)

----------------------------------------------------------------------------
(* Messages and batches *)

\* The messages and the queue of each.
LEMMA MessagesAre ==
  /\ \A m \in Msg : QueueOf(m) \in Queue /\ m # NoMsg
  /\ \A q \in Queue, n \in Nat : n > 0 /\ n <= MaxMsg[q] => <<q, n>> \in Msg
  /\ \A q, n : QueueOf(<<q, n>>) = q
<1>1. ASSUME NEW q \in Queue
      PROVE  MaxMsg[q] \in Nat
  BY ExecutorAssumption
<1>2. ASSUME NEW m \in Msg
      PROVE  QueueOf(m) \in Queue /\ m # NoMsg
  <2>1. PICK q \in Queue : m \in {q} \X (1 .. MaxMsg[q])
    BY DEF Msg
  <2>2. m[1] = q
    BY <2>1
  <2>3. m # <<>>
    BY <2>1
  <2> QED BY <2>2, <2>3 DEF QueueOf, NoMsg
<1>3. ASSUME NEW q \in Queue, NEW n \in Nat, n > 0, n <= MaxMsg[q]
      PROVE  <<q, n>> \in Msg
  <2>1. <<q, n>> \in {q} \X (1 .. MaxMsg[q])
    BY <1>1, <1>3
  <2> QED BY <2>1 DEF Msg
<1>4. \A q, n : QueueOf(<<q, n>>) = q
  BY DEF QueueOf
<1> QED BY <1>2, <1>3, <1>4

\* The current messages of two queues are not the same.
LEMMA CurrentIs ==
  /\ \A q : QueueOf(Current(q)) = q
  /\ \A q : polled'[q] = polled[q] => Current(q)' = Current(q)
  /\ ExecutorTypes => \A q \in Queue : Generator(q) /\ gen[q] \in {"parked", "yielded"} =>
       Current(q) \in Msg
<1>1. \A q : QueueOf(Current(q)) = q
  BY MessagesAre DEF Current
<1>2. \A q : polled'[q] = polled[q] => Current(q)' = Current(q)
  BY DEF Current
<1>3. ASSUME ExecutorTypes, NEW q \in Queue, Generator(q), gen[q] \in {"parked", "yielded"}
      PROVE  Current(q) \in Msg
  <2>1. polled[q] \in Nat /\ polled[q] > 0 /\ polled[q] <= MaxMsg[q]
    BY <1>3 DEF ExecutorTypes, Generator
  <2> QED BY <2>1, MessagesAre DEF Current
<1> QED BY <1>1, <1>2, <1>3

\* tasks_group.wait() returns each of the finished tasks once.
LEMMA BatchesAre ==
  ASSUME NEW D \in SUBSET Queue, NEW s \in Batches(D)
  PROVE  s \in Seq(Queue) /\ Distinct(s) /\ \A q \in Queue : Among(q, s) <=> q \in D
<1>1. IsFiniteSet(D) /\ Cardinality(D) \in Nat
  BY ExecutorAssumption, FS_Subset, FS_CardinalityType
<1>2. PICK n \in Nat : n = Cardinality(D)
  BY <1>1
<1>3. s \in [1 .. n -> D] /\ \A i, j \in 1 .. n : i # j => s[i] # s[j]
  BY <1>2 DEF Batches, SetToSeqs
<1>4. s \in Seq(Queue) /\ Len(s) = n
  <2>1. s \in [1 .. n -> Queue]
    BY <1>3
  <2> QED BY <2>1
<1>5. s \in Injection(1 .. n, D)
  BY <1>3 DEF Injection, IsInjective
<1>6. Cardinality(1 .. n) = n
  <2>1. Cardinality(1 .. n) = IF 1 > n THEN 0 ELSE n - 1 + 1
    BY FS_Interval
  <2> QED BY <2>1
<1>7. s \in Surjection(1 .. n, D)
  BY <1>1, <1>2, <1>5, <1>6, FS_Injection
<1>8. \A q \in D : \E i \in 1 .. n : s[i] = q
  BY <1>7 DEF Surjection
<1> QED BY <1>3, <1>4, <1>8 DEF Distinct, Among

\* The first of a batch is processed.
LEMMA TailOfBatch ==
  ASSUME NEW s \in Seq(Queue), s # <<>>, Distinct(s)
  PROVE  LET t == Tail(s) IN
         /\ Head(s) \in Queue /\ Among(Head(s), s)
         /\ t \in Seq(Queue) /\ Distinct(t) /\ ~Among(Head(s), t)
         /\ \A p : p # Head(s) => (Among(p, t) <=> Among(p, s))
         /\ \A p, q : p # Head(s) => Bound(q, p, s) <= Bound(q, p, t)
         /\ \A p : p # Head(s) => Bound(Head(s), p, s) + 1 <= Bound(Head(s), p, t)
<1>1. PICK n \in Nat : n = Len(s) /\ n > 0
  BY EmptySeq
<1>2. PICK t \in Seq(Queue) : t = Tail(s) /\ Len(t) = n - 1 /\ \A i \in 1 .. (n - 1) : t[i] = s[i + 1]
  <2>1. PICK t : t = Tail(s)
    OBVIOUS
  <2>2. t \in Seq(Queue) /\ Len(t) = Len(s) - 1 /\ \A i \in 1 .. Len(t) : t[i] = s[i + 1]
    BY <2>1, HeadTailProperties
  <2> QED BY <1>1, <2>1, <2>2
<1>3. Head(s) = s[1] /\ s[1] \in Queue
  BY <1>1
<1>4. Distinct(t)
  <2> SUFFICES ASSUME NEW i \in 1 .. (n - 1), NEW j \in 1 .. (n - 1), t[i] = t[j]
               PROVE  i = j
    BY <1>2 DEF Distinct
  <2>1. i + 1 \in 1 .. n /\ j + 1 \in 1 .. n /\ s[i + 1] = s[j + 1]
    BY <1>1, <1>2
  <2>2. i + 1 = j + 1
    BY <1>1, <2>1 DEF Distinct
  <2> QED BY <2>2
<1>5. ~Among(s[1], t)
  <2> SUFFICES ASSUME NEW i \in 1 .. (n - 1), t[i] = s[1] PROVE FALSE
    BY <1>2 DEF Among
  <2>1. i + 1 \in 1 .. n /\ 1 \in 1 .. n /\ s[i + 1] = s[1]
    BY <1>1, <1>2
  <2>2. i + 1 = 1
    BY <1>1, <2>1 DEF Distinct
  <2> QED BY <2>2
<1>6. Among(s[1], s)
  BY <1>1 DEF Among
<1>7. ASSUME NEW i \in 1 .. n, i # 1
      PROVE  i - 1 \in 1 .. (n - 1) /\ t[i - 1] = s[i]
  <2>1. i - 1 \in 1 .. (n - 1) /\ (i - 1) + 1 = i
    BY <1>7
  <2> QED BY <1>2, <2>1
<1>8. ASSUME NEW p, p # s[1]
      PROVE  Among(p, t) <=> Among(p, s)
  <2>1. ASSUME NEW i \in 1 .. n, s[i] = p
        PROVE  Among(p, t)
    BY <1>2, <1>7, <1>8, <2>1 DEF Among
  <2>2. ASSUME NEW i \in 1 .. (n - 1), t[i] = p
        PROVE  Among(p, s)
    <3>1. i + 1 \in 1 .. n /\ s[i + 1] = p
      BY <1>2, <2>2
    <3> QED BY <1>1, <3>1 DEF Among
  <2> QED BY <1>1, <1>2, <2>1, <2>2 DEF Among
<1>9. ASSUME NEW p, NEW q, Ahead(q, p, t)
      PROVE  Ahead(q, p, s)
  <2>1. PICK i \in 1 .. (n - 1), j \in 1 .. (n - 1) : i < j /\ t[i] = q /\ t[j] = p
    BY <1>2, <1>9 DEF Ahead
  <2>2. i + 1 \in 1 .. n /\ j + 1 \in 1 .. n /\ i + 1 < j + 1 /\ s[i + 1] = q /\ s[j + 1] = p
    BY <1>2, <2>1
  <2> QED BY <1>1, <2>2 DEF Ahead
<1>10. ASSUME NEW p, p # s[1], Among(p, s)
       PROVE  Ahead(s[1], p, s) /\ ~Ahead(s[1], p, t)
  <2>1. PICK j \in 1 .. n : s[j] = p
    BY <1>1, <1>10 DEF Among
  <2>2. 1 \in 1 .. n /\ 1 < j
    BY <1>1, <1>10, <2>1
  <2>3. Ahead(s[1], p, s)
    BY <1>1, <2>1, <2>2 DEF Ahead
  <2>4. ~Ahead(s[1], p, t)
    BY <1>5 DEF Among, Ahead
  <2> QED BY <2>3, <2>4
<1>11. ASSUME NEW q, Among(q, t)
       PROVE  Among(q, s)
  BY <1>5, <1>6, <1>8, <1>11
<1>12. \A p, q : p # s[1] => Bound(q, p, s) <= Bound(q, p, t)
  BY <1>8, <1>9, <1>11 DEF Bound
<1>13. \A p : p # s[1] => Bound(s[1], p, s) + 1 <= Bound(s[1], p, t)
  BY <1>5, <1>6, <1>8, <1>10 DEF Bound
<1> QED BY <1>2, <1>3, <1>4, <1>5, <1>6, <1>8, <1>12, <1>13

----------------------------------------------------------------------------
(* Steps that leave the generators and the scheduler as they are *)

\* The messages that are not submitted are where they were.
Early == {"topic", "parked", "yielded"}
EarlySame ==
  \A m \in Msg : stage[m] \in Early \/ stage'[m] \in Early => stage'[m] = stage[m]

\* What is in its topic stays there until it is polled.
LEMMA PolledKeeps ==
  ASSUME ExecutorInv, polled' = polled,
         \A m \in Msg : stage[m] = "topic" => stage'[m] = "topic"
  PROVE  Polled'
<1> SUFFICES ASSUME NEW q \in Queue, NEW n \in 1 .. MaxMsg[q], n > polled[q]
             PROVE  stage'[<<q, n>>] = "topic"
  BY DEF Polled
<1>1. n \in Nat /\ n > 0 /\ n <= MaxMsg[q]
  BY ExecutorAssumption
<1>2. <<q, n>> \in Msg
  BY <1>1, MessagesAre
<1> QED BY <1>2 DEF ExecutorInv, Polled

\* What was ready is ready, and what was not is not.
LEMMA SameReady ==
  ASSUME ExecutorInv, NEW p \in Queue, gen'[p] = gen[p], polled'[p] = polled[p],
         Current(p) \in Msg =>
           (stage'[Current(p)] = "yielded" <=> stage[Current(p)] = "yielded")
  PROVE  Ready(p)' <=> Ready(p)
<1>1. Current(p)' = Current(p)
  BY CurrentIs
<1>2. Ready(p)' <=> (gen'[p] = "yielded" /\ stage'[Current(p)'] = "yielded")
  BY DEF Ready
<1>3. gen[p] = "yielded" => Current(p) \in Msg
  BY CurrentIs DEF ExecutorInv, QueueInv
<1> HIDE DEF Current
<1> QED BY <1>1, <1>2, <1>3 DEF Ready

\* A step that leaves the generators, the scheduler and the messages that are not yet
\* submitted as they are keeps what is said of them.
LEMMA QuietKeeps ==
  ASSUME ExecutorInv, EarlySame,
         UNCHANGED <<gen, how, polled, outputs, slot, group, batch, run, passed>>,
         Polling' = Polling, phase' = "running" => phase = "running",
         counted' \subseteq counted
  PROVE  Batched' /\ Polled' /\ \A q \in Queue : QueueInv(q)'
<1>1. Batched' /\ Polled'
  <2>1. Batched'
    BY DEF ExecutorInv, Batched
  <2>2. \A m \in Msg : stage[m] = "topic" => stage'[m] = "topic"
    BY DEF EarlySame, Early
  <2> QED BY <2>1, <2>2, PolledKeeps
<1> SUFFICES ASSUME NEW q \in Queue PROVE QueueInv(q)'
  BY <1>1
<1>2. QueueInv(q)
  BY DEF ExecutorInv
<1>3. Generator(q)'
  <2>1. PICK m : m = Current(q) /\ m = Current(q)'
    BY CurrentIs
  <2>2. gen[q] \in {"parked", "yielded"} => m \in Msg
    BY <1>2, <2>1, CurrentIs DEF ExecutorInv, QueueInv
  <2>3. /\ gen[q] = "parked" => stage'[m] = "parked"
        /\ gen[q] = "yielded" =>
             stage'[m] = "yielded" \/ (run = "submitting" /\ Head(batch) = q)
    BY <1>2, <2>1, <2>2 DEF QueueInv, Generator, EarlySame, Early
  <2> HIDE DEF Current
  <2> QED BY <1>2, <2>1, <2>3 DEF QueueInv, Generator
<1>4. Counted(q)'
  BY <1>2 DEF QueueInv, Counted
<1>5. Ready(q)' <=> Ready(q)
  BY SameReady DEF EarlySame, Early
<1>6. Rest' = Rest
  BY DEF Rest
<1>7. Overtaken(q)'
  BY <1>2, <1>5, <1>6 DEF QueueInv, Overtaken
<1> QED BY <1>3, <1>4, <1>7 DEF QueueInv

\* The messages in flight count, as long as none leaves the count while it is.
LEMMA InFlightKeeps ==
  ASSUME ExecutorInv, UNCHANGED <<how, polled>>,
         \A m \in Msg : m \in InFlight' => m \in InFlight /\ (m \in counted => m \in counted')
  PROVE  InFlightCounts'
<1> SUFFICES ASSUME NEW m \in InFlight'
             PROVE  m \in counted' \/ (how'[QueueOf(m)] = "aclose" /\ m = Current(QueueOf(m))')
  BY DEF InFlightCounts
<1>1. m \in Msg
  BY DEF InFlight, At
<1>2. Current(QueueOf(m))' = Current(QueueOf(m))
  BY DEF Current
<1> QED BY <1>1, <1>2 DEF ExecutorInv, InFlightCounts

\* The tasks of the submits that wait for a resource, or that have it.
LEMMA DelayedKeeps ==
  ASSUME ExecutorInv,
         \/ \E m \in Msg : AcquireDelayed(m) \/ SubmitDelayed(m)
         \/ PutDone /\ stage[putter] # "scheduled"
  PROVE  ExecutorInv'
<1> USE DEF ExecutorInv
<1>1. CASE \E m \in Msg : AcquireDelayed(m)
  <2>1. PICK m \in Msg : AcquireDelayed(m)
    BY <1>1
  <2>2. /\ stage[m] = "resource" /\ stage' = [stage EXCEPT ![m] = "delayed"]
        /\ holding' = holding \cup {m} /\ Unpark(m)
        /\ UNCHANGED <<genVars, counted, schedVars, putter, queue, phase, closing>>
    BY <2>1 DEF AcquireDelayed, AttachResources
  <2>3. ExecutorTypes'
    <3>1. parkers' \in [Queue -> SUBSET Msg]
      BY <2>2 DEF Unpark, ExecutorTypes
    <3> QED BY <2>2, <3>1 DEF ExecutorTypes, genVars, schedVars
  <2>4. Batched' /\ Polled' /\ \A q \in Queue : QueueInv(q)'
    <3>1. EarlySame
      BY <2>2 DEF ExecutorTypes, EarlySame, Early
    <3> QED BY <2>2, <3>1, QuietKeeps DEF genVars, schedVars, Polling
  <2>5. Submitting'
    BY <2>2 DEF Submitting, ExecutorTypes, genVars, schedVars, Current
  <2>6. InFlightCounts'
    <3>1. \A x \in Msg : x \in InFlight' => x \in InFlight
      BY <2>2 DEF InFlight, At, ExecutorTypes
    <3> QED BY <2>2, <3>1, InFlightKeeps DEF genVars
  <2> QED BY <2>3, <2>4, <2>5, <2>6
<1>2. CASE \E m \in Msg : SubmitDelayed(m)
  <2>1. PICK m \in Msg : SubmitDelayed(m)
    BY <1>2
  <2>2. /\ stage[m] = "delayed" /\ putter = NoMsg /\ Put(m)
        /\ UNCHANGED <<genVars, counted, parkers, schedVars, holding, phase, closing>>
    BY <2>1 DEF SubmitDelayed
  <2>3. \/ queue = NoMsg /\ queue' = m /\ stage' = [stage EXCEPT ![m] = "queued"] /\ putter' = putter
        \/ putter' = m /\ queue' = queue /\ stage' = stage
    BY <2>2 DEF Put
  <2>4. ExecutorTypes'
    BY <2>2, <2>3 DEF ExecutorTypes, genVars, schedVars
  <2>5. Batched' /\ Polled' /\ \A q \in Queue : QueueInv(q)'
    <3>1. EarlySame
      <4>1. CASE stage' = stage
        BY <4>1 DEF EarlySame
      <4>2. CASE stage' = [stage EXCEPT ![m] = "queued"]
        BY <2>2, <4>2 DEF ExecutorTypes, EarlySame, Early
      <4> QED BY <2>3, <4>1, <4>2
    <3> QED BY <2>2, <3>1, QuietKeeps DEF genVars, schedVars, Polling
  <2>6. Submitting'
    BY <2>2, <2>3 DEF Submitting, ExecutorTypes, genVars, schedVars, Current
  <2>7. InFlightCounts'
    <3>1. \A x \in Msg : x \in InFlight' => x \in InFlight
      BY <2>2, <2>3 DEF InFlight, At, ExecutorTypes
    <3> QED BY <2>2, <3>1, InFlightKeeps DEF genVars
  <2> QED BY <2>4, <2>5, <2>6, <2>7
<1>3. CASE PutDone /\ stage[putter] # "scheduled"
  <2>1. /\ putter # NoMsg /\ queue = NoMsg /\ queue' = putter /\ putter' = NoMsg
        /\ stage' = [stage EXCEPT ![putter] = "queued"]
        /\ UNCHANGED <<gen, how, counted, slot, order, group, batch, run>>
        /\ UNCHANGED <<polled, entered, outputs, parkers, holding, phase, closing, passed>>
    BY <1>3 DEF PutDone
  <2>2. putter \in Msg /\ stage[putter] = "delayed"
    BY <1>3, <2>1 DEF Submitting, ExecutorTypes
  <2>3. ExecutorTypes'
    BY <2>1, <2>2 DEF ExecutorTypes
  <2>4. Batched' /\ Polled' /\ \A q \in Queue : QueueInv(q)'
    <3>1. EarlySame
      BY <2>1, <2>2 DEF ExecutorTypes, EarlySame, Early
    <3> QED BY <2>1, <3>1, QuietKeeps DEF Polling
  <2>5. Submitting'
    BY <2>1, <2>2 DEF Submitting, ExecutorTypes, Current
  <2>6. InFlightCounts'
    <3>1. \A x \in Msg : x \in InFlight' => x \in InFlight
      BY <2>1, <2>2 DEF InFlight, At, ExecutorTypes
    <3> QED BY <2>1, <3>1, InFlightKeeps
  <2> QED BY <2>3, <2>4, <2>5, <2>6
<1> QED BY <1>1, <1>2, <1>3

\* The workers and the tasks that publish.
LEMMA WorkersKeep ==
  ASSUME ExecutorInv,
         \/ Poll
         \/ \E m \in Msg : Executed(m) \/ ExecuteFails(m) \/ PublishBlocks(m) \/ Published(m)
  PROVE  ExecutorInv'
<1> USE DEF ExecutorInv
<1>1. CASE Poll
  <2>1. /\ queue # NoMsg /\ queue' = NoMsg /\ stage' = [stage EXCEPT ![queue] = "executing"]
        /\ UNCHANGED <<genVars, counted, parkers, schedVars, putter, holding, phase, closing>>
    BY <1>1 DEF Poll
  <2>2. queue \in Msg /\ stage[queue] = "queued"
    BY <2>1 DEF Submitting, ExecutorTypes
  <2>3. ExecutorTypes'
    BY <2>1, <2>2 DEF ExecutorTypes, genVars, schedVars
  <2>4. Batched' /\ Polled' /\ \A q \in Queue : QueueInv(q)'
    <3>1. EarlySame
      BY <2>1, <2>2 DEF ExecutorTypes, EarlySame, Early
    <3> QED BY <2>1, <3>1, QuietKeeps DEF genVars, schedVars, Polling
  <2>5. Submitting'
    BY <2>1, <2>2 DEF Submitting, ExecutorTypes, genVars, schedVars, Current
  <2>6. InFlightCounts'
    <3>1. \A x \in Msg : x \in InFlight' => x \in InFlight
      BY <2>1, <2>2 DEF InFlight, At, ExecutorTypes
    <3> QED BY <2>1, <3>1, InFlightKeeps DEF genVars
  <2> QED BY <2>3, <2>4, <2>5, <2>6
<1>2. ASSUME NEW m \in Msg, Executed(m) \/ ExecuteFails(m) \/ PublishBlocks(m) \/ Published(m)
      PROVE  ExecutorInv'
  <2>1. PICK s \in {"publishing", "blocked", "done"} :
          /\ stage[m] \in {"executing", "publishing", "blocked"}
          /\ stage' = [stage EXCEPT ![m] = s]
          /\ counted' = counted \/ (s = "done" /\ counted' = counted \ {m})
          /\ entered' \subseteq entered /\ holding' \subseteq holding
    BY <1>2 DEF Executed, ExecuteFails, PublishBlocks, Published, LeaveContext, genVars
  <2>2. UNCHANGED <<gen, how, polled, outputs, schedVars, putter, queue, phase, closing>>
    BY <1>2 DEF Executed, ExecuteFails, PublishBlocks, Published, genVars
  <2>3. ExecutorTypes'
    <3>1. parkers' \in [Queue -> SUBSET Msg]
      <4>1. CASE Executed(m) \/ ExecuteFails(m)
        BY <4>1 DEF Executed, ExecuteFails, ExecutorTypes
      <4>2. CASE PublishBlocks(m)
        BY <4>2 DEF PublishBlocks, ExecutorTypes
      <4>3. CASE Published(m)
        BY <4>3 DEF Published, Unpark, ExecutorTypes
      <4> QED BY <1>2, <4>1, <4>2, <4>3
    <3> QED BY <2>1, <2>2, <3>1 DEF ExecutorTypes, schedVars
  <2>4. Batched' /\ Polled' /\ \A q \in Queue : QueueInv(q)'
    <3>1. EarlySame
      BY <2>1 DEF ExecutorTypes, EarlySame, Early
    <3> QED BY <2>1, <2>2, <3>1, QuietKeeps DEF schedVars, Polling
  <2>5. Submitting'
    BY <2>1, <2>2 DEF Submitting, ExecutorTypes, schedVars, Current
  <2>6. InFlightCounts'
    <3>1. \A x \in Msg : x \in InFlight' => x \in InFlight /\ (x \in counted => x \in counted')
      BY <2>1 DEF InFlight, At, ExecutorTypes
    <3> QED BY <2>2, <3>1, InFlightKeeps
  <2> QED BY <2>3, <2>4, <2>5, <2>6
<1> QED BY <1>1, <1>2

\* The end of the close, and the end of a batch and of the scheduler.
LEMMA EndsKeep ==
  ASSUME ExecutorInv, CancelSubmits \/ CloseExecutor \/ EndBatch \/ EndRun
  PROVE  ExecutorInv'
<1> USE DEF ExecutorInv
<1>1. CASE CancelSubmits
  <2>1. /\ phase = "workers" /\ phase' = "consuming"
        /\ stage' = [m \in Msg |-> IF stage[m] \in {"resource", "delayed"}
                               THEN "dropped" ELSE stage[m]]
        /\ parkers' = [q \in Queue |-> parkers[q] \ At("resource")]
        /\ putter' = IF putter \in At("delayed") THEN NoMsg ELSE putter
        /\ UNCHANGED <<genVars, counted, schedVars, queue, holding, closing>>
    BY <1>1 DEF CancelSubmits
  <2>2. ExecutorTypes'
    <3>1. parkers' \in [Queue -> SUBSET Msg] /\ putter' \in Msg \cup {NoMsg}
      BY <2>1 DEF ExecutorTypes
    <3>2. \A m \in Msg : stage'[m] = stage[m] \/ stage'[m] = "dropped"
      BY <2>1
    <3> QED BY <2>1, <3>1, <3>2 DEF ExecutorTypes, genVars, schedVars
  <2>3. Batched' /\ Polled' /\ \A q \in Queue : QueueInv(q)'
    <3>1. EarlySame
      BY <2>1 DEF EarlySame, Early
    <3> QED BY <2>1, <3>1, QuietKeeps DEF genVars, schedVars, Polling
  <2>4. Submitting'
    <3>1. \A m \in Msg : stage'[m] = "scheduled" => stage[m] = "scheduled"
      BY <2>1
    <3>2. putter' # NoMsg => putter' = putter /\ putter \in Msg /\ stage[putter] = "scheduled"
      BY <2>1 DEF Submitting, ExecutorTypes, At
    <3>3. putter' # NoMsg => stage'[putter'] = "scheduled"
      BY <2>1, <3>2
    <3>4. queue' # NoMsg => stage'[queue'] = "queued"
      BY <2>1 DEF Submitting, ExecutorTypes
    <3> QED BY <2>1, <3>1, <3>3, <3>4 DEF Submitting, genVars, schedVars, Current
  <2>5. InFlightCounts'
    <3>1. \A x \in Msg : x \in InFlight' => x \in InFlight
      BY <2>1 DEF InFlight, At
    <3> QED BY <2>1, <3>1, InFlightKeeps DEF genVars
  <2> QED BY <2>2, <2>3, <2>4, <2>5
<1>2. CASE CloseExecutor
  <2>1. /\ phase = "consuming" /\ phase' = "closed"
        /\ UNCHANGED <<stage, genVars, counted, parkers, schedVars, putter, queue, holding,
                       closing>>
    BY <1>2 DEF CloseExecutor
  <2>2. ExecutorTypes' /\ Submitting'
    BY <2>1 DEF ExecutorTypes, Submitting, genVars, schedVars, Current
  <2>3. Batched' /\ Polled' /\ \A q \in Queue : QueueInv(q)'
    BY <2>1, QuietKeeps DEF genVars, schedVars, Polling, EarlySame
  <2>4. InFlightCounts'
    BY <2>1, InFlightKeeps DEF genVars, InFlight, At
  <2> QED BY <2>2, <2>3, <2>4
<1>3. CASE EndBatch \/ EndRun
  <2>1. /\ batch = <<>> /\ run \in {"waiting", "processing"} /\ run' \in {"waiting", "ended"}
        /\ UNCHANGED <<stage, genVars, counted, parkers, slot, order, group, batch, putter,
                       queue, holding, phase, closing, passed>>
    BY <1>3 DEF EndBatch, EndRun, Batched
  <2>2. ExecutorTypes' /\ Submitting' /\ Batched' /\ Polled'
    BY <2>1 DEF ExecutorTypes, Submitting, Batched, Polled, genVars, Current
  <2>3. InFlightCounts'
    BY <2>1, InFlightKeeps DEF genVars, InFlight, At
  <2>4. ASSUME NEW q \in Queue
        PROVE  QueueInv(q)'
    <3>1. Generator(q)' /\ Counted(q)'
      BY <2>1 DEF QueueInv, Generator, Counted, Current, genVars, Polling
    <3>2. Rest' = Rest /\ Polling' = Polling /\ (Ready(q)' <=> Ready(q))
      BY <2>1 DEF Rest, Polling, Ready, Current, genVars
    <3>3. Overtaken(q)'
      BY <2>1, <3>2 DEF QueueInv, Overtaken
    <3> QED BY <3>1, <3>3 DEF QueueInv
  <2> QED BY <2>2, <2>3, <2>4
<1> QED BY <1>1, <1>2, <1>3

----------------------------------------------------------------------------
(* The steps of one generator *)

\* A step of another queue leaves the generator of p as it is.
LEMMA OtherGenerators ==
  ASSUME ExecutorInv, NEW p \in Queue,
         gen'[p] = gen[p], how'[p] = how[p], polled'[p] = polled[p],
         outputs'[p] = outputs[p], slot'[p] = slot[p],
         \A m \in Msg : QueueOf(m) = p => stage'[m] = stage[m],
         \A m \in counted' : m \in counted \/ QueueOf(m) # p,
         p \in group' \/ Among(p, batch') <=> p \in group \/ Among(p, batch),
         gen[p] \in {"polling", "parked"} /\ p \in group => p \in group',
         \A r \in {"submitting", "aclosing"} :
           run = r /\ Head(batch) = p => run' = r /\ Head(batch') = p,
         phase' = phase
  PROVE  Generator(p)' /\ Counted(p)' /\ (Ready(p)' <=> Ready(p))
<1>1. QueueInv(p)
  BY DEF ExecutorInv
<1>2. PICK c : c = Current(p) /\ c = Current(p)'
  BY CurrentIs
<1>3. c \in Msg => stage'[c] = stage[c]
  BY <1>2, CurrentIs
<1>4. gen[p] \in {"parked", "yielded"} => c \in Msg
  BY <1>1, <1>2, CurrentIs DEF ExecutorInv, QueueInv
<1>5. Generator(p)'
  <2> HIDE DEF Current
  <2> QED BY <1>1, <1>2, <1>3, <1>4 DEF QueueInv, Generator, Polling
<1>6. Counted(p)'
  BY <1>1 DEF QueueInv, Counted
<1>7. Ready(p)' <=> Ready(p)
  BY <1>2, <1>3, SameReady
<1> QED BY <1>5, <1>6, <1>7

\* When the rest of the batch is the same too, nothing changes for p.
LEMMA OtherQueues ==
  ASSUME ExecutorInv, NEW p \in Queue,
         gen'[p] = gen[p], how'[p] = how[p], polled'[p] = polled[p],
         outputs'[p] = outputs[p], slot'[p] = slot[p],
         \A m \in Msg : QueueOf(m) = p => stage'[m] = stage[m],
         \A m \in counted' : m \in counted \/ QueueOf(m) # p,
         p \in group' <=> p \in group, Polling \/ group' = group,
         Among(p, batch') <=> Among(p, batch), Rest' = Rest,
         \A r \in {"submitting", "aclosing"} :
           run = r /\ Head(batch) = p => run' = r /\ Head(batch') = p,
         phase' = phase, passed' = passed
  PROVE  QueueInv(p)'
<1>1. Overtaken(p) /\ Polling' = Polling
  BY DEF ExecutorInv, QueueInv, Polling
<1>2. Generator(p)' /\ Counted(p)' /\ (Ready(p)' <=> Ready(p))
  BY OtherGenerators
<1>3. Overtaken(p)'
  BY <1>1, <1>2 DEF Overtaken
<1> QED BY <1>2, <1>3 DEF QueueInv

\* A step of the generator of q leaves the batch as it is, when the scheduler is
\* not suspended at the message of q or at its close.
LEMMA BatchedKeeps ==
  ASSUME ExecutorInv, NEW q \in Queue, batch' = batch, run' = run,
         \A p \in Queue : p # q => gen'[p] = gen[p] /\ how'[p] = how[p],
         run \in {"submitting", "aclosing"} => Head(batch) # q,
         \A p \in group' : p \in group \/ ~Among(p, batch)
  PROVE  Batched'
<1>1. Batched /\ batch \in Seq(Queue)
  BY DEF ExecutorInv, ExecutorTypes
<1>2. ASSUME run \in {"submitting", "aclosing"}
      PROVE  gen'[Head(batch)] = gen[Head(batch)] /\ how'[Head(batch)] = how[Head(batch)]
  <2>1. Head(batch) \in Queue
    BY <1>1, <1>2, TailOfBatch DEF Batched
  <2> QED BY <1>2, <2>1
<1>3. \A p \in group' : ~Among(p, batch')
  BY <1>1 DEF Batched
<1> QED BY <1>1, <1>2, <1>3 DEF Batched

\* A queue is added: its generator is polled in the group.
LEMMA AddQueueKeeps ==
  ASSUME ExecutorInv, NEW q \in Queue, AddQueue(q)
  PROVE  ExecutorInv'
<1> USE DEF ExecutorInv
<1>1. /\ phase = "running" /\ gen[q] = "none"
      /\ gen' = [gen EXCEPT ![q] = "polling"]
      /\ slot' = [slot EXCEPT ![q] = "running"]
      /\ group' = group \cup {q}
      /\ UNCHANGED <<stage, how, polled, counted, entered, outputs, parkers, order,
                     batch, run, putter, queue, holding, phase, closing, passed>>
  BY DEF AddQueue
<1>2. QueueInv(q) /\ ~Among(q, batch) /\ how[q] = "none" /\ Polling
  BY <1>1 DEF QueueInv, Generator, Polling
<1>3. ExecutorTypes'
  BY <1>1 DEF ExecutorTypes
<1>4. Batched'
  <2>1. \A p \in Queue : p # q => gen'[p] = gen[p] /\ how'[p] = how[p]
    BY <1>1 DEF ExecutorTypes
  <2>2. run \in {"submitting", "aclosing"} => Head(batch) # q
    BY <1>1 DEF Batched
  <2> QED BY <1>1, <1>2, <2>1, <2>2, BatchedKeeps
<1>5. Submitting' /\ Polled'
  BY <1>1 DEF Submitting, Polled, Current
<1>6. InFlightCounts'
  BY <1>1, InFlightKeeps DEF InFlight, At
<1>7. QueueInv(q)'
  <2>1. gen'[q] = "polling" /\ slot'[q] = "running" /\ how'[q] = "none" /\ q \in group'
    BY <1>1, <1>2 DEF ExecutorTypes
  <2>2. Generator(q)'
    BY <1>1, <1>2, <2>1 DEF QueueInv, Generator, Polling
  <2>3. Counted(q)'
    BY <1>1, <1>2 DEF QueueInv, Counted
  <2>4. ~Ready(q) /\ ~Ready(q)'
    BY <1>1, <2>1 DEF Ready
  <2>5. Overtaken(q)'
    BY <1>1, <1>2, <2>4 DEF QueueInv, Overtaken
  <2> QED BY <2>2, <2>3, <2>5 DEF QueueInv
<1>8. ASSUME NEW p \in Queue, p # q
      PROVE  QueueInv(p)'
  <2>1. gen'[p] = gen[p] /\ slot'[p] = slot[p] /\ (p \in group' <=> p \in group)
    BY <1>1, <1>8 DEF ExecutorTypes
  <2>2. Rest' = Rest
    BY <1>1 DEF Rest
  <2> QED BY <1>1, <1>2, <2>1, <2>2, OtherQueues
<1> QED BY <1>3, <1>4, <1>5, <1>6, <1>7, <1>8

\* A generator takes the next message of its topic, and parks it.
LEMMA PollMessageKeeps ==
  ASSUME ExecutorInv, NEW q \in Queue, PollMessage(q)
  PROVE  ExecutorInv'
<1> USE DEF ExecutorInv
<1>1. PICK m : m = <<q, polled[q] + 1>>
  OBVIOUS
<1>2. /\ gen[q] = "polling" /\ polled[q] < MaxMsg[q]
      /\ gen' = [gen EXCEPT ![q] = "parked"]
      /\ polled' = [polled EXCEPT ![q] = @ + 1]
      /\ stage' = [stage EXCEPT ![m] = "parked"]
      /\ entered' = entered \cup {m}
      /\ UNCHANGED <<how, counted, outputs, parkers, schedVars, putter, queue, holding, phase,
                     closing>>
  BY <1>1 DEF PollMessage
<1>3. polled[q] \in Nat /\ MaxMsg[q] \in Nat
  BY ExecutorAssumption DEF ExecutorTypes
<1>4. m \in Msg /\ QueueOf(m) = q
  BY <1>1, <1>2, <1>3, MessagesAre
<1>5. stage[m] = "topic"
  <2>1. polled[q] + 1 \in 1 .. MaxMsg[q] /\ polled[q] + 1 > polled[q]
    BY <1>2, <1>3
  <2> QED BY <1>1, <2>1 DEF Polled
<1>6. QueueInv(q) /\ how[q] = "none"
  BY <1>2 DEF QueueInv, Generator
<1>7. ExecutorTypes'
  BY <1>2, <1>3, <1>4 DEF ExecutorTypes, schedVars
<1>8. Batched'
  <2>1. \A p \in Queue : p # q => gen'[p] = gen[p] /\ how'[p] = how[p]
    BY <1>2 DEF ExecutorTypes
  <2>2. run \in {"submitting", "aclosing"} => Head(batch) # q
    BY <1>2 DEF Batched
  <2> QED BY <1>2, <2>1, <2>2, BatchedKeeps DEF schedVars
<1>9. Submitting'
  <2>1. \A x \in Msg : stage'[x] = "scheduled" => stage[x] = "scheduled" /\ x # m
    BY <1>2, <1>4 DEF ExecutorTypes
  <2>2. ASSUME run = "submitting"
        PROVE  Current(Head(batch))' = Current(Head(batch))
    <3>1. Head(batch) \in Queue /\ Head(batch) # q
      BY <1>2, <2>2, TailOfBatch DEF Batched, ExecutorTypes
    <3> QED BY <1>2, <3>1 DEF Current, ExecutorTypes, schedVars
  <2>3. /\ putter # NoMsg => stage'[putter] \in {"scheduled", "delayed"}
        /\ queue # NoMsg => stage'[queue] = "queued"
    BY <1>2, <1>4, <1>5 DEF Submitting, ExecutorTypes
  <2> HIDE DEF Current
  <2> QED BY <1>2, <2>1, <2>2, <2>3 DEF Submitting, schedVars
<1>10. Polled'
  <2> SUFFICES ASSUME NEW p \in Queue, NEW n \in 1 .. MaxMsg[p], n > polled'[p]
               PROVE  stage'[<<p, n>>] = "topic"
    BY DEF Polled
  <2>1. n \in Nat /\ n > 0 /\ n <= MaxMsg[p] /\ polled[p] \in Nat
    BY ExecutorAssumption DEF ExecutorTypes
  <2>2. polled'[p] = IF p = q THEN polled[q] + 1 ELSE polled[p]
    BY <1>2 DEF ExecutorTypes
  <2>3. n > polled[p] /\ <<p, n>> # m
    BY <1>1, <1>3, <2>1, <2>2
  <2>4. <<p, n>> \in Msg /\ stage[<<p, n>>] = "topic"
    BY <2>1, <2>3, MessagesAre DEF Polled
  <2> QED BY <1>2, <2>3, <2>4 DEF ExecutorTypes
<1>11. InFlightCounts'
  <2> SUFFICES ASSUME NEW x \in InFlight'
               PROVE  x \in counted' \/ (how'[QueueOf(x)] = "aclose" /\ x = Current(QueueOf(x))')
    BY DEF InFlightCounts
  <2>1. x \in Msg /\ x \in InFlight
    BY <1>2, <1>4 DEF InFlight, At, ExecutorTypes
  <2>2. x \in counted \/ (how[QueueOf(x)] = "aclose" /\ x = Current(QueueOf(x)))
    BY <2>1 DEF InFlightCounts
  <2>3. how[QueueOf(x)] = "aclose" => Current(QueueOf(x))' = Current(QueueOf(x))
    BY <1>2, <1>6, <2>1, MessagesAre DEF Current, ExecutorTypes
  <2> QED BY <1>2, <2>2, <2>3
<1>12. QueueInv(q)'
  <2>1. gen'[q] = "parked" /\ polled'[q] = polled[q] + 1 /\ Current(q)' = m /\ stage'[m] = "parked"
    BY <1>1, <1>2, <1>4 DEF ExecutorTypes, Current
  <2>2. Generator(q)'
    <3> HIDE DEF Current
    <3> QED BY <1>2, <1>3, <1>6, <2>1 DEF QueueInv, Generator, Polling, schedVars
  <2>3. Counted(q)'
    BY <1>2, <1>6 DEF QueueInv, Counted
  <2>4. ~Ready(q) /\ ~Ready(q)'
    BY <1>2, <2>1 DEF Ready
  <2>5. Overtaken(q)'
    BY <1>2, <1>6, <2>4 DEF QueueInv, Overtaken, schedVars
  <2> QED BY <2>2, <2>3, <2>5 DEF QueueInv
<1>13. ASSUME NEW p \in Queue, p # q
       PROVE  QueueInv(p)'
  <2>1. gen'[p] = gen[p] /\ polled'[p] = polled[p]
    BY <1>2, <1>13 DEF ExecutorTypes
  <2>2. \A x \in Msg : QueueOf(x) = p => stage'[x] = stage[x]
    BY <1>2, <1>4, <1>13 DEF ExecutorTypes
  <2>3. Rest' = Rest
    BY <1>2 DEF Rest, schedVars
  <2> QED BY <1>2, <2>1, <2>2, <2>3, OtherQueues DEF schedVars
<1> QED BY <1>7, <1>8, <1>9, <1>10, <1>11, <1>12, <1>13

\* A message that was parked is yielded, and counts.
LEMMA YieldMessageKeeps ==
  ASSUME ExecutorInv, NEW q \in Queue, YieldMessage(q)
  PROVE  ExecutorInv'
<1> USE DEF ExecutorInv
<1>1. PICK m : m = Current(q)
  OBVIOUS
<1>2. /\ gen[q] = "parked"
      /\ gen' = [gen EXCEPT ![q] = "yielded"]
      /\ stage' = [stage EXCEPT ![m] = "yielded"]
      /\ counted' = counted \cup {m}
      /\ UNCHANGED <<how, polled, entered, outputs, parkers, schedVars, putter, queue, holding,
                     phase, closing>>
  BY <1>1 DEF YieldMessage
<1>3. QueueInv(q) /\ how[q] = "none"
  BY <1>2 DEF QueueInv, Generator
<1>4. m \in Msg /\ QueueOf(m) = q /\ stage[m] = "parked"
  BY <1>1, <1>2, <1>3, CurrentIs DEF QueueInv, Generator
<1>5. ExecutorTypes'
  BY <1>2, <1>4 DEF ExecutorTypes, schedVars
<1>6. Batched'
  <2>1. \A p \in Queue : p # q => gen'[p] = gen[p] /\ how'[p] = how[p]
    BY <1>2 DEF ExecutorTypes
  <2>2. run \in {"submitting", "aclosing"} => Head(batch) # q
    BY <1>2 DEF Batched
  <2> QED BY <1>2, <2>1, <2>2, BatchedKeeps DEF schedVars
<1>7. Submitting'
  <2>1. \A x \in Msg : stage'[x] = "scheduled" => stage[x] = "scheduled"
    BY <1>2, <1>4 DEF ExecutorTypes
  <2>2. /\ putter # NoMsg => stage'[putter] \in {"scheduled", "delayed"}
        /\ queue # NoMsg => stage'[queue] = "queued"
    BY <1>2, <1>4 DEF Submitting, ExecutorTypes
  <2> QED BY <1>2, <2>1, <2>2 DEF Submitting, schedVars, Current
<1>8. Polled'
  BY <1>2, <1>4, PolledKeeps DEF ExecutorTypes
<1>9. InFlightCounts'
  <2> SUFFICES ASSUME NEW x \in InFlight'
               PROVE  x \in counted' \/ (how'[QueueOf(x)] = "aclose" /\ x = Current(QueueOf(x))')
    BY DEF InFlightCounts
  <2>1. x \in Msg /\ (x = m \/ x \in InFlight)
    BY <1>2, <1>4 DEF InFlight, At, ExecutorTypes
  <2>2. Current(QueueOf(x))' = Current(QueueOf(x))
    BY <1>2 DEF Current
  <2> QED BY <1>2, <2>1, <2>2 DEF InFlightCounts
<1>10. QueueInv(q)'
  <2>1. gen'[q] = "yielded" /\ Current(q)' = m /\ stage'[m] = "yielded"
    BY <1>1, <1>2, <1>4 DEF ExecutorTypes, Current
  <2>2. Generator(q)'
    <3> HIDE DEF Current
    <3> QED BY <1>2, <1>3, <2>1 DEF QueueInv, Generator, Polling, schedVars
  <2>3. outputs[q] # "closed"
    BY <1>2, <1>3 DEF QueueInv, Counted
  <2>4. Counted(q)'
    BY <1>2, <2>3 DEF Counted
  <2>5. ~Ready(q) /\ q \in group
    BY <1>2, <1>3 DEF QueueInv, Generator, Ready
  <2>6. \A p, s : Bound(p, q, s) \in Nat
    BY DEF Bound
  <2>7. \A p \in Queue : passed'[q][p] = 0
    BY <1>2, <1>3, <2>5 DEF QueueInv, Overtaken, schedVars
  <2>8. Overtaken(q)'
    <3>1. \A p \in Queue : passed'[q][p] <= Bound(p, q, Rest')
      BY <2>6, <2>7
    <3> HIDE DEF Bound
    <3> QED BY <1>2, <2>5, <2>7, <3>1 DEF Overtaken, schedVars
  <2> QED BY <2>2, <2>4, <2>8 DEF QueueInv
<1>11. ASSUME NEW p \in Queue, p # q
       PROVE  QueueInv(p)'
  <2>1. gen'[p] = gen[p]
    BY <1>2, <1>11 DEF ExecutorTypes
  <2>2. \A x \in Msg : QueueOf(x) = p => stage'[x] = stage[x]
    BY <1>2, <1>4, <1>11 DEF ExecutorTypes
  <2>3. Rest' = Rest
    BY <1>2 DEF Rest, schedVars
  <2> QED BY <1>2, <1>4, <1>11, <2>1, <2>2, <2>3, OtherQueues DEF schedVars
<1> QED BY <1>5, <1>6, <1>7, <1>8, <1>9, <1>10, <1>11

\* The topic of a queue ends, and its generator closes.
LEMMA TopicEndsKeeps ==
  ASSUME ExecutorInv, NEW q \in Queue, TopicEnds(q)
  PROVE  ExecutorInv'
<1> USE DEF ExecutorInv
<1>1. /\ gen[q] = "polling"
      /\ gen' = [gen EXCEPT ![q] = "closing"]
      /\ how' = [how EXCEPT ![q] = "stop"]
      /\ UNCHANGED <<stage, polled, counted, entered, outputs, parkers, schedVars, putter, queue,
                     holding, phase, closing>>
  BY DEF TopicEnds
<1>2. QueueInv(q) /\ how[q] = "none"
  BY <1>1 DEF QueueInv, Generator
<1>3. ExecutorTypes'
  BY <1>1 DEF ExecutorTypes, schedVars
<1>4. \A p \in Queue : p # q => gen'[p] = gen[p] /\ how'[p] = how[p]
  BY <1>1 DEF ExecutorTypes
<1>5. Batched'
  <2>1. run \in {"submitting", "aclosing"} => Head(batch) # q
    BY <1>1 DEF Batched
  <2> QED BY <1>1, <1>4, <2>1, BatchedKeeps DEF schedVars
<1>6. Submitting' /\ Polled'
  BY <1>1 DEF Submitting, Polled, Current, schedVars
<1>7. InFlightCounts'
  <2> SUFFICES ASSUME NEW x \in InFlight
               PROVE  x \in counted \/ (how'[QueueOf(x)] = "aclose" /\ x = Current(QueueOf(x)))
    BY <1>1 DEF InFlightCounts, InFlight, At, Current
  <2>1. x \in Msg /\ QueueOf(x) \in Queue
    BY MessagesAre DEF InFlight, At
  <2>2. x \in counted \/ (how[QueueOf(x)] = "aclose" /\ x = Current(QueueOf(x)))
    BY DEF InFlightCounts
  <2>3. how[QueueOf(x)] = "aclose" => how'[QueueOf(x)] = "aclose"
    BY <1>2, <1>4, <2>1
  <2> QED BY <2>2, <2>3
<1>8. QueueInv(q)'
  <2>1. gen'[q] = "closing" /\ how'[q] = "stop"
    BY <1>1 DEF ExecutorTypes
  <2>2. Generator(q)'
    BY <1>1, <1>2, <2>1 DEF QueueInv, Generator, Polling, schedVars
  <2>3. Counted(q)'
    BY <1>1, <1>2 DEF QueueInv, Counted
  <2>4. ~Ready(q) /\ ~Ready(q)'
    BY <1>1, <2>1 DEF Ready
  <2>5. Overtaken(q)'
    BY <1>1, <1>2, <2>4 DEF QueueInv, Overtaken, schedVars
  <2> QED BY <2>2, <2>3, <2>5 DEF QueueInv
<1>9. ASSUME NEW p \in Queue, p # q
      PROVE  QueueInv(p)'
  <2>1. Rest' = Rest
    BY <1>1 DEF Rest, schedVars
  <2> QED BY <1>1, <1>4, <1>9, <2>1, OtherQueues DEF schedVars
<1> QED BY <1>3, <1>5, <1>6, <1>7, <1>8, <1>9

\* Nothing of a queue that closes counts any more: its outputs are closed.
LEMMA FinishCloseKeeps ==
  ASSUME ExecutorInv, NEW q \in Queue, FinishClose(q)
  PROVE  ExecutorInv'
<1> USE DEF ExecutorInv
<1>1. /\ gen[q] = "closing" /\ CountedOf(q) = {}
      /\ gen' = [gen EXCEPT ![q] = "closed"]
      /\ outputs' = [outputs EXCEPT ![q] = "closed"]
      /\ \/ how[q] = "aclose" /\ run' = "processing" /\ batch' = Tail(batch)
         \/ how[q] # "aclose" /\ UNCHANGED <<run, batch>>
      /\ UNCHANGED <<stage, how, polled, counted, entered, parkers, slot, order, group, putter,
                     queue, holding, phase, closing, passed>>
  BY DEF FinishClose
<1>2. QueueInv(q) /\ how[q] # "none"
  BY <1>1 DEF QueueInv, Generator
<1>3. how[q] = "aclose" => run = "aclosing" /\ Head(batch) = q /\ batch # <<>> /\ slot[q] = "none"
  BY <1>1, <1>2 DEF QueueInv, Generator, Batched
<1>4. /\ batch' \in Seq(Queue) /\ Distinct(batch')
      /\ \A p \in Queue : Among(p, batch') => Among(p, batch)
      /\ \A p \in Queue : p # q => (Among(p, batch') <=> Among(p, batch))
  <2>1. CASE how[q] # "aclose"
    <3>1. batch' = batch /\ batch \in Seq(Queue) /\ Distinct(batch)
      BY <1>1, <2>1 DEF ExecutorTypes, Batched
    <3> QED BY <3>1
  <2>2. CASE how[q] = "aclose"
    <3>1. batch' = Tail(batch) /\ batch \in Seq(Queue) /\ Distinct(batch)
      BY <1>1, <2>2 DEF ExecutorTypes, Batched
    <3> QED BY <1>3, <2>2, <3>1, TailOfBatch
  <2> QED BY <2>1, <2>2
<1>5. Rest' = Rest
  BY <1>1, <1>3 DEF Rest
<1>6. ExecutorTypes'
  BY <1>1, <1>4 DEF ExecutorTypes
<1>7. \A p \in Queue : p # q => gen'[p] = gen[p] /\ outputs'[p] = outputs[p]
  BY <1>1 DEF ExecutorTypes
<1>8. Batched'
  <2>1. CASE how[q] # "aclose"
    <3>1. run \in {"submitting", "aclosing"} => Head(batch) # q
      BY <1>1, <2>1 DEF Batched
    <3> QED BY <1>1, <1>7, <2>1, <3>1, BatchedKeeps
  <2>2. CASE how[q] = "aclose"
    <3>1. \A p \in group : ~Among(p, batch')
      BY <1>4 DEF Batched, ExecutorTypes
    <3> QED BY <1>1, <1>4, <2>2, <3>1 DEF Batched
  <2> QED BY <2>1, <2>2
<1>9. Submitting'
  BY <1>1, <1>3 DEF Submitting, Current
<1>10. Polled' /\ InFlightCounts'
  BY <1>1, InFlightKeeps DEF Polled, InFlight, At
<1>11. QueueInv(q)'
  <2>1. gen'[q] = "closed" /\ outputs'[q] = "closed"
    BY <1>1 DEF ExecutorTypes
  <2>2. Generator(q)'
    BY <1>1, <1>2, <1>3, <2>1 DEF QueueInv, Generator, Polling
  <2>3. Counted(q)'
    BY <1>1, <2>1 DEF Counted, CountedOf
  <2>4. ~Ready(q) /\ ~Ready(q)'
    BY <1>1, <2>1 DEF Ready
  <2>5. Overtaken(q)'
    BY <1>1, <1>2, <2>4 DEF QueueInv, Overtaken
  <2> QED BY <2>2, <2>3, <2>5 DEF QueueInv
<1>12. ASSUME NEW p \in Queue, p # q
       PROVE  QueueInv(p)'
  <2>1. \A r \in {"submitting", "aclosing"} :
          run = r /\ Head(batch) = p => run' = r /\ Head(batch') = p
    BY <1>1, <1>3, <1>12
  <2> QED BY <1>1, <1>4, <1>5, <1>7, <1>12, <2>1, OtherQueues
<1> QED BY <1>6, <1>8, <1>9, <1>10, <1>11, <1>12

----------------------------------------------------------------------------
(* The steps of the scheduler *)

\* A ready queue that is in the group is in the batch that the wait returns.
LEMMA WaitTasksKeeps ==
  ASSUME ExecutorInv, WaitTasks
  PROVE  ExecutorInv'
<1> USE DEF ExecutorInv
<1>1. PICK D \in SUBSET Queue : D = {q \in Queue : Finished(q)}
  OBVIOUS
<1>2. /\ run = "waiting" /\ D # {} /\ batch' \in Batches(D)
      /\ group' = IF Polling THEN group \ D ELSE {}
      /\ run' = "processing"
      /\ UNCHANGED <<stage, genVars, counted, parkers, slot, order, putter, queue, holding,
                     phase, closing, passed>>
  BY <1>1 DEF WaitTasks
<1>3. /\ batch' \in Seq(Queue) /\ Distinct(batch')
      /\ \A q \in Queue : Among(q, batch') <=> q \in D
  BY <1>2, BatchesAre
<1>4. batch = <<>> /\ \A q : ~Among(q, batch)
  BY <1>2 DEF Batched, Among
<1>5. group # {} /\ \A q \in D : q \in group /\ gen[q] \notin {"polling", "parked"}
  BY <1>1, <1>2 DEF Finished, Pending
<1>6. ExecutorTypes'
  BY <1>2, <1>3 DEF ExecutorTypes, genVars
<1>7. Batched'
  <2>1. \A q \in group' : ~Among(q, batch')
    BY <1>2, <1>3 DEF ExecutorTypes
  <2> QED BY <1>2, <1>3, <2>1 DEF Batched
<1>8. Submitting' /\ Polled' /\ InFlightCounts'
  BY <1>2 DEF Submitting, Polled, InFlightCounts, InFlight, At, Current, genVars
<1>9. ASSUME NEW p \in Queue
      PROVE  QueueInv(p)'
  <2>1. Generator(p) /\ Overtaken(p)
    BY DEF QueueInv
  <2>2. gen[p] \in {"polling", "parked"} => p \in group'
    BY <1>2, <1>5, <2>1 DEF Generator
  <2>3. Polling => (p \in group' \/ Among(p, batch') <=> p \in group \/ Among(p, batch))
    BY <1>2, <1>3, <1>4, <1>5
  <2>4. gen[p] = "none" => p \notin group' /\ ~Among(p, batch')
    BY <1>2, <1>3, <1>5, <2>1 DEF Generator
  <2>5. Generator(p)'
    <3>1. Polling' = Polling /\ (phase = "running" => Polling)
      BY <1>2 DEF Polling
    <3>2. gen[p] = "yielded" => stage[Current(p)] = "yielded"
      BY <1>2, <2>1 DEF Generator
    <3>3. ~(gen[p] = "closing" /\ how[p] = "aclose")
      BY <1>2, <2>1 DEF Generator
    <3>4. Current(p)' = Current(p)
      BY <1>2 DEF Current, genVars
    <3> HIDE DEF Current
    <3> QED BY <1>2, <2>1, <2>2, <2>3, <2>4, <3>1, <3>2, <3>3, <3>4 DEF Generator, genVars
  <2>6. Counted(p)'
    BY <1>2 DEF QueueInv, Counted, genVars
  <2>7. Ready(p)' <=> Ready(p)
    BY <1>2 DEF Ready, Current, genVars
  <2>8. Rest = <<>> /\ Rest' = batch'
    BY <1>2, <1>4 DEF Rest
  <2>9. Overtaken(p)'
    <3>1. CASE Ready(p)
      <4>1. p \in group
        BY <1>4, <1>5, <2>1, <2>8, <3>1 DEF Overtaken
      <4>2. Among(p, batch')
        BY <1>1, <1>3, <3>1, <4>1 DEF Finished, Pending, Ready
      <4>3. ASSUME NEW q \in Queue
            PROVE  passed'[p][q] <= Bound(q, p, batch')
        <5>1. passed[p][q] \in Nat /\ passed[p][q] <= Bound(q, p, batch)
          BY <1>4, <2>1, <2>8, <3>1 DEF Overtaken, ExecutorTypes
        <5>2. Bound(q, p, batch) = 1 /\ Bound(q, p, batch') \in {1, 2}
          BY <1>4, <4>2 DEF Bound
        <5> HIDE DEF Bound
        <5> QED BY <1>2, <5>1, <5>2
      <4> QED BY <2>7, <2>8, <3>1, <4>2, <4>3 DEF Overtaken
    <3>2. CASE ~Ready(p)
      BY <1>2, <2>1, <2>7, <3>2 DEF Overtaken
    <3> QED BY <3>1, <3>2
  <2> QED BY <2>5, <2>6, <2>9 DEF QueueInv
<1> QED BY <1>6, <1>7, <1>8, <1>9

\* The head of the batch is a generator that ended: it is polled no more.
LEMMA ProcessEndedKeeps ==
  ASSUME ExecutorInv, ProcessEnded
  PROVE  ExecutorInv'
<1> USE DEF ExecutorInv
<1>1. PICK q : q = Head(batch)
  OBVIOUS
<1>2. /\ run = "processing" /\ batch # <<>> /\ gen[q] = "closed"
      /\ batch' = Tail(batch)
      /\ \/ how[q] = "stop" /\ slot' = [slot EXCEPT ![q] = "none"]
         \/ how[q] # "stop" /\ slot' = slot
      /\ UNCHANGED <<stage, genVars, counted, parkers, order, group, run, putter, queue, holding,
                     phase, closing, passed>>
  BY <1>1 DEF ProcessEnded
<1>3. batch \in Seq(Queue) /\ Distinct(batch)
  BY DEF ExecutorTypes, Batched
<1>4. /\ q \in Queue /\ batch' \in Seq(Queue) /\ Distinct(batch')
      /\ \A p : p # q => (Among(p, batch') <=> Among(p, batch))
      /\ ~Among(q, batch')
      /\ \A p, r : p # q => Bound(r, p, batch) <= Bound(r, p, batch')
  BY <1>1, <1>2, <1>3, TailOfBatch
<1>5. ExecutorTypes'
  BY <1>2, <1>4 DEF ExecutorTypes, genVars
<1>6. Batched'
  <2>1. \A p \in group : ~Among(p, batch')
    BY <1>4 DEF Batched
  <2> QED BY <1>2, <1>4, <2>1 DEF Batched, genVars
<1>7. Submitting' /\ Polled' /\ InFlightCounts'
  BY <1>2 DEF Submitting, Polled, InFlightCounts, InFlight, At, Current, genVars
<1>8. Rest = batch /\ Rest' = batch'
  BY <1>2 DEF Rest
<1>9. QueueInv(q)'
  <2>1. QueueInv(q)
    BY <1>4
  <2>2. slot'[q] = "running" => slot[q] = "running" /\ how[q] # "stop"
    BY <1>2, <1>4 DEF ExecutorTypes
  <2>3. Generator(q)'
    BY <1>2, <1>4, <2>1, <2>2 DEF QueueInv, Generator, Polling, genVars, ExecutorTypes
  <2>4. Counted(q)'
    BY <1>2, <2>1 DEF QueueInv, Counted, genVars
  <2>5. ~Ready(q) /\ ~Ready(q)'
    BY <1>2 DEF Ready, genVars
  <2>6. Overtaken(q)'
    BY <1>2, <2>1, <2>5 DEF QueueInv, Overtaken
  <2> QED BY <2>3, <2>4, <2>6 DEF QueueInv
<1>10. ASSUME NEW p \in Queue, p # q
       PROVE  QueueInv(p)'
  <2>1. slot'[p] = slot[p]
    BY <1>2, <1>4, <1>10 DEF ExecutorTypes
  <2>2. Generator(p)' /\ Counted(p)' /\ (Ready(p)' <=> Ready(p))
    BY <1>2, <1>4, <1>10, <2>1, OtherGenerators DEF genVars
  <2>3. Overtaken(p)'
    <3>1. CASE Ready(p)
      <4>1. Overtaken(p) /\ Polling' = Polling
        BY <1>2 DEF QueueInv, Polling
      <4>2. ASSUME NEW r \in Queue
            PROVE  passed'[p][r] <= Bound(r, p, batch')
        <5>1. passed[p][r] \in Nat /\ passed[p][r] <= Bound(r, p, batch)
          BY <1>8, <3>1, <4>1 DEF Overtaken, ExecutorTypes
        <5>2. Bound(r, p, batch) \in Nat /\ Bound(r, p, batch') \in Nat
          BY DEF Bound
        <5> HIDE DEF Bound
        <5> QED BY <1>2, <1>4, <1>10, <5>1, <5>2
      <4> QED BY <1>2, <1>4, <1>8, <1>10, <2>2, <3>1, <4>1, <4>2 DEF Overtaken
    <3>2. CASE ~Ready(p)
      BY <1>2, <2>2, <3>2 DEF QueueInv, Overtaken
    <3> QED BY <3>1, <3>2
  <2> QED BY <2>2, <2>3 DEF QueueInv
<1> QED BY <1>5, <1>6, <1>7, <1>9, <1>10

\* The first of the batch is submitted before each queue that is ready: those after it in
\* the batch will not be overtaken by it again in this one.
LEMMA ProcessMessageKeeps ==
  ASSUME ExecutorInv, ProcessMessage
  PROVE  ExecutorInv'
<1> USE DEF ExecutorInv
<1>1. PICK q : q = Head(batch)
  OBVIOUS
<1>2. PICK m : m = Current(q)
  OBVIOUS
<1>3. /\ run = "processing" /\ batch # <<>> /\ gen[q] = "yielded"
      /\ stage' = [stage EXCEPT ![m] = "scheduled"]
      /\ run' = "submitting"
      /\ UNCHANGED <<genVars, counted, parkers, slot, order, group, batch, putter, queue,
                     holding, phase, closing>>
  BY <1>1, <1>2 DEF ProcessMessage
<1>4. passed' = [p \in Queue |->
                   IF p # q /\ Ready(p) THEN [passed[p] EXCEPT ![q] = @ + 1]
                                        ELSE [r \in Queue |-> 0]]
  BY <1>1 DEF ProcessMessage, Ready
<1>5. batch \in Seq(Queue) /\ Distinct(batch)
  BY DEF ExecutorTypes, Batched
<1>6. PICK rest : rest = Tail(batch)
  OBVIOUS
<1>7. /\ q \in Queue /\ ~Among(q, rest)
      /\ \A p : p # q => (Among(p, rest) <=> Among(p, batch))
      /\ \A p, r : p # q => Bound(r, p, batch) <= Bound(r, p, rest)
      /\ \A p : p # q => Bound(q, p, batch) + 1 <= Bound(q, p, rest)
  BY <1>1, <1>3, <1>5, <1>6, TailOfBatch
<1>8. QueueInv(q)
  BY <1>7
<1>9. m \in Msg /\ QueueOf(m) = q /\ stage[m] = "yielded" /\ \A x \in Msg : stage[x] # "scheduled"
  BY <1>2, <1>3, <1>7, <1>8, CurrentIs DEF QueueInv, Generator, Submitting
<1>10. ExecutorTypes'
  <2>1. stage' \in [Msg -> {"topic", "parked", "yielded", "scheduled", "resource", "delayed",
                        "queued", "executing", "publishing", "blocked", "done", "dropped"}]
    BY <1>3, <1>9 DEF ExecutorTypes
  <2>2. passed' \in [Queue -> [Queue -> Nat]]
    BY <1>4, <1>7 DEF ExecutorTypes
  <2> QED BY <1>3, <2>1, <2>2 DEF ExecutorTypes, genVars
<1>11. Batched'
  BY <1>1, <1>3 DEF Batched, genVars
<1>12. Submitting'
  <2>1. \A x \in Msg : stage'[x] = "scheduled" => x = m
    BY <1>3, <1>9 DEF ExecutorTypes
  <2>2. m = Current(Head(batch))'
    BY <1>1, <1>2, <1>3 DEF Current, genVars
  <2>3. /\ putter # NoMsg => stage'[putter] \in {"scheduled", "delayed"}
        /\ queue # NoMsg => stage'[queue] = "queued"
    BY <1>3, <1>9 DEF Submitting, ExecutorTypes
  <2> QED BY <1>3, <2>1, <2>2, <2>3 DEF Submitting
<1>13. Polled' /\ InFlightCounts'
  <2>1. \A x \in Msg : x \in InFlight' => x \in InFlight
    BY <1>3, <1>9 DEF InFlight, At, ExecutorTypes
  <2>2. \A x \in Msg : stage[x] = "topic" => stage'[x] = "topic"
    BY <1>3, <1>9 DEF ExecutorTypes
  <2> QED BY <1>3, <2>1, <2>2, InFlightKeeps, PolledKeeps DEF genVars
<1>14. Rest = batch /\ Rest' = rest
  BY <1>3, <1>6 DEF Rest
<1>15. QueueInv(q)'
  <2>1. Generator(q)'
    BY <1>1, <1>3, <1>8 DEF QueueInv, Generator, Polling, genVars
  <2>2. Counted(q)'
    BY <1>3, <1>8 DEF QueueInv, Counted, genVars
  <2>3. Current(q)' = m /\ stage'[m] = "scheduled"
    BY <1>2, <1>3, <1>9 DEF Current, genVars, ExecutorTypes
  <2>4. ~Ready(q)'
    <3> HIDE DEF Current
    <3> QED BY <2>3 DEF Ready
  <2>5. Overtaken(q)'
    BY <1>4, <1>7, <2>4 DEF Overtaken
  <2> QED BY <2>1, <2>2, <2>5 DEF QueueInv
<1>16. ASSUME NEW p \in Queue, p # q
       PROVE  QueueInv(p)'
  <2>1. \A x \in Msg : QueueOf(x) = p => stage'[x] = stage[x]
    BY <1>3, <1>9, <1>16 DEF ExecutorTypes
  <2>2. Generator(p)' /\ Counted(p)' /\ (Ready(p)' <=> Ready(p))
    BY <1>3, <1>16, <2>1, OtherGenerators DEF genVars
  <2>3. Overtaken(p)'
    <3>1. CASE Ready(p)
      <4>1. Overtaken(p) /\ Polling' = Polling
        BY <1>3 DEF QueueInv, Polling
      <4>2. ASSUME NEW r \in Queue
            PROVE  passed'[p][r] <= Bound(r, p, rest)
        <5>1. passed[p][r] \in Nat /\ passed[p][r] <= Bound(r, p, batch)
          BY <1>14, <3>1, <4>1 DEF Overtaken, ExecutorTypes
        <5>2. Bound(r, p, batch) \in Nat /\ Bound(r, p, rest) \in Nat
          BY DEF Bound
        <5>3. passed'[p][r] = IF r = q THEN passed[p][r] + 1 ELSE passed[p][r]
          BY <1>4, <1>16, <3>1 DEF ExecutorTypes
        <5> HIDE DEF Bound
        <5>4. CASE r = q
          <6>1. Bound(r, p, batch) + 1 <= Bound(r, p, rest)
            BY <1>7, <1>16, <5>4
          <6> QED BY <5>1, <5>2, <5>3, <5>4, <6>1
        <5>5. CASE r # q
          <6>1. Bound(r, p, batch) <= Bound(r, p, rest)
            BY <1>7, <1>16
          <6> QED BY <5>1, <5>2, <5>3, <5>5, <6>1
        <5> QED BY <5>4, <5>5
      <4> QED BY <1>3, <1>7, <1>14, <1>16, <2>2, <3>1, <4>1, <4>2 DEF Overtaken
    <3>2. CASE ~Ready(p)
      BY <1>4, <1>16, <2>2, <3>2 DEF Overtaken
    <3> QED BY <3>1, <3>2
  <2> QED BY <2>2, <2>3 DEF QueueInv
<1> QED BY <1>10, <1>11, <1>12, <1>13, <1>15, <1>16

\* The message of the scheduler is submitted: its queue is asked again, or closed.
LEMMA AfterYieldKeeps ==
  ASSUME ExecutorInv, run = "submitting", NEW q \in Queue, q = Head(batch),
         NEW m \in Msg, m = Current(q), stage[m] = "scheduled", NEW s \in {"resource", "queued"},
         stage' = [stage EXCEPT ![m] = s], AfterYield(q),
         UNCHANGED <<polled, entered, outputs, phase, closing, passed>>
  PROVE  /\ gen' \in [Queue -> {"none", "polling", "parked", "yielded", "closing", "closed"}]
         /\ how' \in [Queue -> {"none", "stop", "cancel", "aclose"}]
         /\ slot' \in [Queue -> {"none", "running", "stopped"}]
         /\ order' \in [Queue -> Nat] /\ counted' \subseteq Msg /\ group' \subseteq Queue
         /\ batch' \in Seq(Queue) /\ run' \in {"processing", "aclosing"}
         /\ Batched' /\ Polled' /\ InFlightCounts'
         /\ \A p \in Queue : QueueInv(p)'
<1> USE DEF ExecutorInv
<1>1. gen[q] = "yielded" /\ batch # <<>> /\ batch \in Seq(Queue) /\ Distinct(batch)
  BY DEF Batched, ExecutorTypes
<1>2. QueueInv(q) /\ how[q] = "none" /\ outputs[q] # "closed" /\ ~Ready(q) /\ QueueOf(m) = q
  <2>1. QueueInv(q)
    OBVIOUS
  <2>2. QueueOf(m) = q /\ ~Ready(q)
    BY CurrentIs DEF Ready
  <2> QED BY <1>1, <2>1, <2>2 DEF QueueInv, Generator, Counted, ExecutorTypes
<1>3. PICK rest : rest = Tail(batch)
  OBVIOUS
<1>4. /\ rest \in Seq(Queue) /\ Distinct(rest) /\ ~Among(q, rest)
      /\ \A p : p # q => (Among(p, rest) <=> Among(p, batch))
  BY <1>1, <1>3, TailOfBatch
<1>5. \A x \in Msg : stage'[x] = IF x = m THEN s ELSE stage[x]
  BY DEF ExecutorTypes
<1>6. Polled'
  BY <1>5, PolledKeeps
<1>7. Rest = rest
  BY <1>1, <1>3 DEF Rest
<1>8. Current(q)' = m
  BY DEF Current
<1>9. ASSUME NEW p \in Queue, p # q
      PROVE  \A x \in Msg : QueueOf(x) = p => stage'[x] = stage[x]
  BY <1>2, <1>5, <1>9
<1>10. CASE slot[q] = "running"
  <2>1. /\ gen' = [gen EXCEPT ![q] = "polling"]
        /\ order' = [order EXCEPT ![q] = @ + 1]
        /\ group' = group \cup {q}
        /\ batch' = rest
        /\ run' = "processing"
        /\ UNCHANGED <<how, slot, counted>>
    BY <1>3, <1>10 DEF AfterYield, Requeue
  <2>2. Polling /\ Polling' = Polling
    BY <1>2, <1>10 DEF QueueInv, Generator, Polling
  <2>3. /\ gen' \in [Queue -> {"none", "polling", "parked", "yielded", "closing", "closed"}]
        /\ order' \in [Queue -> Nat] /\ group' \subseteq Queue
    BY <2>1 DEF ExecutorTypes
  <2>4. how \in [Queue -> {"none", "stop", "cancel", "aclose"}] /\ counted \subseteq Msg
        /\ slot \in [Queue -> {"none", "running", "stopped"}]
    BY DEF ExecutorTypes
  <2>5. Batched'
    <3>1. \A p \in group' : ~Among(p, rest)
      BY <1>4, <2>1 DEF Batched
    <3> QED BY <1>4, <2>1, <3>1 DEF Batched
  <2>6. InFlightCounts'
    <3>1. \A x \in Msg : x \in InFlight' => x \in InFlight
      BY <1>5 DEF InFlight, At
    <3> QED BY <2>1, <3>1, InFlightKeeps
  <2>7. QueueInv(q)'
    <3>1. gen'[q] = "polling" /\ q \in group'
      BY <2>1 DEF ExecutorTypes
    <3>2. Generator(q)'
      BY <1>2, <1>10, <2>1, <2>2, <3>1 DEF QueueInv, Generator
    <3>3. Counted(q)'
      BY <1>2 DEF Counted
    <3>4. ~Ready(q)'
      BY <3>1 DEF Ready
    <3>5. Overtaken(q)'
      BY <1>2, <3>4 DEF QueueInv, Overtaken
    <3> QED BY <3>2, <3>3, <3>5 DEF QueueInv
  <2>8. ASSUME NEW p \in Queue, p # q
        PROVE  QueueInv(p)'
    <3>1. gen'[p] = gen[p] /\ (p \in group' <=> p \in group)
      BY <2>1, <2>8 DEF ExecutorTypes
    <3>2. Rest' = rest
      BY <2>1 DEF Rest
    <3> QED BY <1>4, <1>7, <1>9, <2>1, <2>2, <2>8, <3>1, <3>2, OtherQueues
  <2> QED BY <1>4, <1>6, <2>1, <2>3, <2>4, <2>5, <2>6, <2>7, <2>8
<1>11. CASE slot[q] # "running"
  <2>1. /\ slot' = [slot EXCEPT ![q] = "none"]
        /\ counted' = counted \ {m}
        /\ gen' = [gen EXCEPT ![q] = "closing"]
        /\ how' = [how EXCEPT ![q] = "aclose"]
        /\ run' = "aclosing"
        /\ UNCHANGED <<order, group, batch>>
    BY <1>11 DEF AfterYield, CloseGenerator
  <2>2. /\ gen' \in [Queue -> {"none", "polling", "parked", "yielded", "closing", "closed"}]
        /\ how' \in [Queue -> {"none", "stop", "cancel", "aclose"}]
        /\ slot' \in [Queue -> {"none", "running", "stopped"}]
        /\ counted' \subseteq Msg
    BY <2>1 DEF ExecutorTypes
  <2>3. order \in [Queue -> Nat] /\ group \subseteq Queue
    BY DEF ExecutorTypes
  <2>4. gen'[q] = "closing" /\ how'[q] = "aclose" /\ slot'[q] = "none"
    BY <2>1 DEF ExecutorTypes
  <2>5. Batched'
    BY <1>1, <2>1, <2>4 DEF Batched
  <2>6. InFlightCounts'
    <3> SUFFICES ASSUME NEW x \in InFlight'
                 PROVE  x \in counted' \/ (how'[QueueOf(x)] = "aclose" /\ x = Current(QueueOf(x))')
      BY DEF InFlightCounts
    <3>1. x \in Msg /\ x \in InFlight /\ QueueOf(x) \in Queue
      BY <1>5, MessagesAre DEF InFlight, At
    <3>2. CASE x = m
      BY <1>2, <1>8, <2>4, <3>2
    <3>3. CASE x # m
      <4>1. x \in counted \/ (how[QueueOf(x)] = "aclose" /\ x = Current(QueueOf(x)))
        BY <3>1 DEF InFlightCounts
      <4>2. how[QueueOf(x)] = "aclose" => how'[QueueOf(x)] = "aclose"
        BY <1>2, <2>1, <3>1 DEF ExecutorTypes
      <4>3. Current(QueueOf(x))' = Current(QueueOf(x))
        BY DEF Current
      <4> QED BY <2>1, <3>3, <4>1, <4>2, <4>3
    <3> QED BY <3>2, <3>3
  <2>7. QueueInv(q)'
    <3>1. Generator(q)'
      BY <1>2, <2>1, <2>4 DEF QueueInv, Generator
    <3>2. Counted(q)'
      BY <1>2 DEF Counted
    <3>3. ~Ready(q)'
      BY <2>4 DEF Ready
    <3>4. Overtaken(q)'
      BY <1>2, <3>3 DEF QueueInv, Overtaken
    <3> QED BY <3>1, <3>2, <3>4 DEF QueueInv
  <2>8. ASSUME NEW p \in Queue, p # q
        PROVE  QueueInv(p)'
    <3>1. gen'[p] = gen[p] /\ how'[p] = how[p] /\ slot'[p] = slot[p]
      BY <2>1, <2>8 DEF ExecutorTypes
    <3>2. Rest' = rest
      BY <1>1, <1>3, <2>1 DEF Rest
    <3> QED BY <1>7, <1>9, <2>1, <2>8, <3>1, <3>2, OtherQueues
  <2> QED BY <1>1, <1>6, <2>1, <2>2, <2>3, <2>5, <2>6, <2>7, <2>8
<1> QED BY <1>10, <1>11

\* Once it is submitted, no message is left to submit.
LEMMA SubmittedKeeps ==
  ASSUME ExecutorInv, run = "submitting", NEW q \in Queue, q = Head(batch),
         NEW m \in Msg, m = Current(q), stage[m] = "scheduled", NEW s \in {"resource", "queued"},
         stage' = [stage EXCEPT ![m] = s], AfterYield(q),
         UNCHANGED <<polled, entered, outputs, phase, closing, passed>>,
         putter' = NoMsg, queue' \in Msg \cup {NoMsg}, holding' \subseteq Msg,
         parkers' \in [Queue -> SUBSET Msg],
         queue' = queue \/ (queue' = m /\ s = "queued")
  PROVE  ExecutorInv'
<1>1. /\ gen' \in [Queue -> {"none", "polling", "parked", "yielded", "closing", "closed"}]
      /\ how' \in [Queue -> {"none", "stop", "cancel", "aclose"}]
      /\ slot' \in [Queue -> {"none", "running", "stopped"}]
      /\ order' \in [Queue -> Nat] /\ counted' \subseteq Msg /\ group' \subseteq Queue
      /\ batch' \in Seq(Queue) /\ run' \in {"processing", "aclosing"}
      /\ Batched' /\ Polled' /\ InFlightCounts'
      /\ \A p \in Queue : QueueInv(p)'
  BY AfterYieldKeeps
<1>2. stage' \in [Msg -> {"topic", "parked", "yielded", "scheduled", "resource", "delayed",
                        "queued", "executing", "publishing", "blocked", "done", "dropped"}]
  BY DEF ExecutorInv, ExecutorTypes
<1>3. ExecutorTypes'
  BY <1>1, <1>2 DEF ExecutorInv, ExecutorTypes
<1>4. Submitting'
  <2>1. \A x \in Msg : stage'[x] = IF x = m THEN s ELSE stage[x]
    BY DEF ExecutorInv, ExecutorTypes
  <2>2. \A x \in Msg : stage'[x] # "scheduled"
    BY <2>1 DEF ExecutorInv, Submitting
  <2>3. queue' # NoMsg => stage'[queue'] = "queued"
    BY <2>1 DEF ExecutorInv, ExecutorTypes, Submitting
  <2> QED BY <2>2, <2>3 DEF Submitting
<1> QED BY <1>1, <1>3, <1>4 DEF ExecutorInv

\* The message of the head of the batch is put, or waits for its resource.
LEMMA SubmitKeeps ==
  ASSUME ExecutorInv, Submit
  PROVE  ExecutorInv'
<1>1. PICK q : q = Head(batch)
  OBVIOUS
<1>2. PICK m : m = Current(q)
  OBVIOUS
<1>3. /\ run = "submitting" /\ stage[m] = "scheduled" /\ putter = NoMsg
      /\ UNCHANGED <<polled, entered, outputs, phase, closing, passed>>
  BY <1>1, <1>2 DEF Submit
<1>4. q \in Queue /\ m \in Msg
  <2>1. batch \in Seq(Queue) /\ batch # <<>> /\ gen[q] = "yielded"
    BY <1>1, <1>3 DEF ExecutorInv, Batched, ExecutorTypes
  <2>2. q \in Queue
    BY <1>1, <2>1
  <2> QED BY <1>2, <2>1, <2>2, CurrentIs DEF ExecutorInv, QueueInv
<1>5. CASE NeedsResource(m) /\ ~ResourceFree
  <2>1. /\ parkers' = [parkers EXCEPT ![q] = @ \cup {m}]
        /\ stage' = [stage EXCEPT ![m] = "resource"]
        /\ AfterYield(q)
        /\ UNCHANGED <<queue, putter, holding>>
    BY <1>1, <1>2, <1>5 DEF Submit
  <2>2. queue \in Msg \cup {NoMsg} /\ holding \subseteq Msg /\ parkers' \in [Queue -> SUBSET Msg]
    BY <1>4, <2>1 DEF ExecutorInv, ExecutorTypes
  <2> QED BY <1>1, <1>2, <1>3, <1>4, <2>1, <2>2, SubmittedKeeps
<1>6. CASE ~(NeedsResource(m) /\ ~ResourceFree)
  <2>1. /\ holding' \in {holding, holding \cup {m}}
        /\ parkers' = parkers
    BY <1>1, <1>2, <1>6 DEF Submit, AttachResources
  <2>2. holding' \subseteq Msg /\ parkers \in [Queue -> SUBSET Msg]
    BY <1>4, <2>1 DEF ExecutorInv, ExecutorTypes
  <2>3. CASE queue = NoMsg
    <3>1. queue' = m /\ stage' = [stage EXCEPT ![m] = "queued"] /\ putter' = putter
          /\ AfterYield(q)
      BY <1>1, <1>2, <1>6, <2>3 DEF Submit, Put
    <3> QED BY <1>1, <1>2, <1>3, <1>4, <2>1, <2>2, <3>1, SubmittedKeeps
  <2>4. CASE queue # NoMsg
    <3>1. putter' = m /\ UNCHANGED <<queue, stage, gen, how, counted, slot, order, group, batch, run>>
      BY <1>1, <1>2, <1>6, <2>4 DEF Submit, Put
    <3>2. ExecutorTypes'
      BY <1>3, <1>4, <2>1, <2>2, <3>1 DEF ExecutorInv, ExecutorTypes
    <3>3. Batched' /\ Polled' /\ \A p \in Queue : QueueInv(p)'
      BY <1>3, <3>1, QuietKeeps DEF Polling, EarlySame
    <3>4. Submitting'
      BY <1>3, <3>1 DEF ExecutorInv, Submitting, Current
    <3>5. InFlightCounts'
      BY <1>3, <3>1, InFlightKeeps DEF InFlight, At
    <3> QED BY <3>2, <3>3, <3>4, <3>5 DEF ExecutorInv
  <2> QED BY <2>3, <2>4
<1> QED BY <1>5, <1>6

\* The message that waited for a place was delayed, or it is the one of the scheduler.
LEMMA PutDoneKeeps ==
  ASSUME ExecutorInv, PutDone
  PROVE  ExecutorInv'
<1>1. CASE stage[putter] # "scheduled"
  BY <1>1, DelayedKeeps
<1>2. CASE stage[putter] = "scheduled"
  <2>1. PICK m : m = putter
    OBVIOUS
  <2>2. /\ m # NoMsg /\ queue' = m /\ putter' = NoMsg
        /\ AfterYield(QueueOf(m))
        /\ stage' = [stage EXCEPT ![m] = "queued"]
        /\ UNCHANGED <<polled, entered, outputs, parkers, holding, phase, closing, passed>>
    BY <1>2, <2>1 DEF PutDone
  <2>3. m \in Msg /\ run = "submitting" /\ m = Current(Head(batch)) /\ batch # <<>>
    BY <1>2, <2>1, <2>2 DEF ExecutorInv, ExecutorTypes, Submitting, Batched
  <2>4. QueueOf(m) = Head(batch) /\ QueueOf(m) \in Queue
    BY <2>3, CurrentIs, MessagesAre
  <2>5. holding \subseteq Msg /\ parkers \in [Queue -> SUBSET Msg]
    BY DEF ExecutorInv, ExecutorTypes
  <2> QED BY <1>2, <2>1, <2>2, <2>3, <2>4, <2>5, SubmittedKeeps
<1> QED BY <1>1, <1>2

----------------------------------------------------------------------------
(* The steps that cancel tasks *)

\* What the cancellation of the tasks of Q leaves to the slots, the group and the
\* phase: each queue that is still asked is in the group.
Cancelling(Q) ==
  /\ \A q \in Queue :
       /\ slot'[q] = "none" <=> slot[q] = "none"
       /\ slot'[q] = "running" => slot[q] = "running" /\ Polling'
       /\ gen[q] \in {"polling", "parked"} /\ q \notin Q => slot'[q] = "running"
       /\ slot'[q] = "running" /\ phase' = "running" => q \notin Q /\ phase = "running"
  /\ group' = group \/ (group' = {} /\ ~Polling')
  /\ Polling' => Polling

\* A task that is cancelled was pending; the message it had polled is dropped.
LEMMA CancelTasksIs ==
  ASSUME ExecutorInv, NEW Q \in SUBSET Queue, \A q \in Q : Pending(q), CancelTasks(Q)
  PROVE  /\ gen' \in [Queue -> {"none", "polling", "parked", "yielded", "closing", "closed"}]
         /\ how' \in [Queue -> {"none", "stop", "cancel", "aclose"}]
         /\ stage' \in [Msg -> {"topic", "parked", "yielded", "scheduled", "resource", "delayed",
                        "queued", "executing", "publishing", "blocked", "done", "dropped"}]
         /\ \A q \in Queue : q \notin Q => gen'[q] = gen[q] /\ how'[q] = how[q]
         /\ \A q \in Q :
              /\ gen[q] \notin {"none", "yielded", "closed"} /\ how[q] # "aclose"
              /\ gen'[q] \in {"closing", "closed"} /\ how'[q] = "cancel"
         /\ \A m \in Msg :
              stage'[m] = stage[m] \/ (QueueOf(m) \in Q /\ stage[m] = "parked" /\ stage'[m] = "dropped")
<1>1. /\ \A q \in Queue : gen'[q] = IF q \notin Q THEN gen[q]
                                    ELSE IF gen[q] = "closing" THEN "closed" ELSE "closing"
      /\ \A q \in Queue : how'[q] = IF q \in Q THEN "cancel" ELSE how[q]
      /\ \A m \in Msg : stage'[m] = IF stage[m] = "parked" /\ QueueOf(m) \in Q THEN "dropped"
                                    ELSE stage[m]
  BY DEF CancelTasks
<1>2. gen' \in [Queue -> {"none", "polling", "parked", "yielded", "closing", "closed"}]
  BY DEF CancelTasks, ExecutorInv, ExecutorTypes
<1>3. how' \in [Queue -> {"none", "stop", "cancel", "aclose"}]
  BY DEF CancelTasks, ExecutorInv, ExecutorTypes
<1>4. stage' \in [Msg -> {"topic", "parked", "yielded", "scheduled", "resource", "delayed",
                        "queued", "executing", "publishing", "blocked", "done", "dropped"}]
  BY DEF CancelTasks, ExecutorInv, ExecutorTypes
<1>5. ASSUME NEW q \in Q
      PROVE  gen[q] \notin {"none", "yielded", "closed"} /\ how[q] # "aclose"
  <2>1. Generator(q) /\ Pending(q)
    BY DEF ExecutorInv, QueueInv
  <2> QED BY <2>1 DEF Generator, Pending
<1> QED BY <1>1, <1>2, <1>3, <1>4, <1>5

\* The cancellation leaves no queue asked that is not in the group.
LEMMA CancelKeeps ==
  ASSUME ExecutorInv, NEW Q \in SUBSET Queue, \A q \in Q : Pending(q), CancelTasks(Q),
         UNCHANGED <<polled, counted, entered, outputs, parkers, order, batch, run, putter, queue,
                     holding, passed>>,
         slot' \in [Queue -> {"none", "running", "stopped"}],
         phase' \in {"running", "scheduler", "workers", "consuming", "closed"},
         closing' \subseteq Queue, Cancelling(Q)
  PROVE  ExecutorInv'
<1>1. /\ \A q \in Queue : q \notin Q => gen'[q] = gen[q] /\ how'[q] = how[q]
      /\ \A q \in Q :
           /\ gen[q] \notin {"none", "yielded", "closed"} /\ how[q] # "aclose"
           /\ gen'[q] \in {"closing", "closed"} /\ how'[q] = "cancel"
      /\ \A m \in Msg :
           stage'[m] = stage[m] \/ (QueueOf(m) \in Q /\ stage[m] = "parked" /\ stage'[m] = "dropped")
  BY CancelTasksIs
<1>2. ExecutorTypes'
  <2>1. /\ gen' \in [Queue -> {"none", "polling", "parked", "yielded", "closing", "closed"}]
        /\ how' \in [Queue -> {"none", "stop", "cancel", "aclose"}]
        /\ stage' \in [Msg -> {"topic", "parked", "yielded", "scheduled", "resource", "delayed",
                        "queued", "executing", "publishing", "blocked", "done", "dropped"}]
    BY CancelTasksIs
  <2>2. group' \subseteq Queue
    BY DEF Cancelling, ExecutorInv, ExecutorTypes
  <2> QED BY <2>1, <2>2 DEF ExecutorInv, ExecutorTypes
<1>3. Batched'
  <2>1. Batched /\ batch \in Seq(Queue)
    BY DEF ExecutorInv, ExecutorTypes
  <2>2. ASSUME run \in {"submitting", "aclosing"}
        PROVE  gen'[Head(batch)] = gen[Head(batch)] /\ how'[Head(batch)] = how[Head(batch)]
    <3>1. Head(batch) \in Queue
      BY <2>1, <2>2, TailOfBatch DEF Batched
    <3>2. Head(batch) \notin Q
      BY <1>1, <2>1, <2>2 DEF Batched
    <3> QED BY <1>1, <3>1, <3>2
  <2>3. \A q \in group' : q \in group
    BY DEF Cancelling
  <2> QED BY <2>1, <2>2, <2>3 DEF Batched
<1>4. Submitting'
  <2>1. \A m \in Msg : stage'[m] = "scheduled" => stage[m] = "scheduled"
    BY <1>1
  <2>2. /\ putter # NoMsg => stage'[putter] \in {"scheduled", "delayed"}
        /\ queue # NoMsg => stage'[queue] = "queued"
    BY <1>1 DEF ExecutorInv, ExecutorTypes, Submitting
  <2> QED BY <2>1, <2>2 DEF ExecutorInv, Submitting, Current
<1>5. Polled'
  BY <1>1, PolledKeeps
<1>6. InFlightCounts'
  <2> SUFFICES ASSUME NEW x \in InFlight'
               PROVE  x \in counted' \/ (how'[QueueOf(x)] = "aclose" /\ x = Current(QueueOf(x))')
    BY DEF InFlightCounts
  <2>1. x \in Msg /\ x \in InFlight /\ QueueOf(x) \in Queue
    BY <1>1, MessagesAre DEF InFlight, At
  <2>2. x \in counted \/ (how[QueueOf(x)] = "aclose" /\ x = Current(QueueOf(x)))
    BY <2>1 DEF ExecutorInv, InFlightCounts
  <2>3. how[QueueOf(x)] = "aclose" => how'[QueueOf(x)] = "aclose"
    BY <1>1, <2>1
  <2>4. Current(QueueOf(x))' = Current(QueueOf(x))
    BY DEF Current
  <2> QED BY <2>2, <2>3, <2>4
<1>7. ASSUME NEW p \in Queue
      PROVE  QueueInv(p)'
  <2>1. Generator(p) /\ Counted(p) /\ Overtaken(p)
    BY DEF ExecutorInv, QueueInv
  <2>2. PICK c : c = Current(p) /\ c = Current(p)'
    BY CurrentIs
  <2>3. /\ slot'[p] = "none" <=> slot[p] = "none"
        /\ slot'[p] = "running" => slot[p] = "running" /\ Polling'
        /\ gen[p] \in {"polling", "parked"} /\ p \notin Q => slot'[p] = "running"
        /\ slot'[p] = "running" /\ phase' = "running" => p \notin Q /\ phase = "running"
        /\ group' = group \/ (group' = {} /\ ~Polling')
        /\ Polling' => Polling
    BY DEF Cancelling
  <2>4. CASE p \in Q
    <3>1. gen'[p] \in {"closing", "closed"} /\ how'[p] = "cancel"
      BY <1>1, <2>4
    <3>2. Generator(p)'
      BY <2>1, <2>3, <2>4, <3>1 DEF Generator
    <3>3. Counted(p)'
      BY <1>1, <2>1, <2>4 DEF Counted
    <3>4. ~Ready(p) /\ ~Ready(p)'
      BY <1>1, <2>4, <3>1 DEF Ready
    <3>5. Overtaken(p)'
      BY <2>1, <3>4 DEF Overtaken
    <3> QED BY <3>2, <3>3, <3>5 DEF QueueInv
  <2>5. CASE p \notin Q
    <3>1. gen'[p] = gen[p] /\ how'[p] = how[p]
      BY <1>1, <2>5
    <3>2. c \in Msg => stage'[c] = stage[c]
      BY <1>1, <2>2, <2>5, CurrentIs
    <3>3. gen[p] \in {"parked", "yielded"} => c \in Msg
      BY <2>1, <2>2, CurrentIs DEF ExecutorInv
    <3>4. Generator(p)'
      <4>1. phase' = "running" => Polling'
        BY DEF Polling
      <4> HIDE DEF Current, Polling
      <4> QED BY <2>1, <2>2, <2>3, <2>5, <3>1, <3>2, <3>3, <4>1 DEF Generator
    <3>5. Counted(p)'
      BY <2>1, <3>1 DEF Counted
    <3>6. Ready(p)' <=> Ready(p)
      BY <2>2, <3>1, <3>2, SameReady
    <3>7. Rest' = Rest
      BY DEF Rest
    <3>8. Overtaken(p)'
      BY <2>1, <2>3, <3>6, <3>7 DEF Overtaken
    <3> QED BY <3>4, <3>5, <3>8 DEF QueueInv
  <2> QED BY <2>4, <2>5
<1> QED BY <1>2, <1>3, <1>4, <1>5, <1>6, <1>7 DEF ExecutorInv

\* A queue is removed, wherever the scheduler is at.
LEMMA RemoveQueueKeeps ==
  ASSUME ExecutorInv, NEW q \in Queue, RemoveQueue(q)
  PROVE  ExecutorInv'
<1>1. PICK Q \in SUBSET Queue : Q = {q} \cap {p \in Queue : Pending(p)}
  OBVIOUS
<1>2. /\ slot[q] = "running" /\ slot' = [slot EXCEPT ![q] = "stopped"]
      /\ CancelTasks(Q)
      /\ UNCHANGED <<polled, counted, entered, outputs, parkers, order, group, batch, run, putter,
                     queue, holding, phase, closing, passed>>
  BY <1>1 DEF RemoveQueue
<1>3. slot \in [Queue -> {"none", "running", "stopped"}] /\ closing \subseteq Queue
      /\ phase \in {"running", "scheduler", "workers", "consuming", "closed"}
  BY DEF ExecutorInv, ExecutorTypes
<1>4. slot' \in [Queue -> {"none", "running", "stopped"}]
      /\ \A p \in Queue : slot'[p] = IF p = q THEN "stopped" ELSE slot[p]
  BY <1>2, <1>3
<1>5. Cancelling(Q)
  <2>1. \A p \in Queue : Generator(p)
    BY DEF ExecutorInv, QueueInv
  <2>2. Polling' = Polling
    BY <1>2 DEF Polling
  <2>3. ASSUME NEW p \in Queue, gen[p] \in {"polling", "parked"}, p \notin Q
        PROVE  slot'[p] = "running"
    <3>1. p # q
      BY <1>1, <2>3 DEF Pending
    <3> QED BY <1>4, <2>1, <2>3, <3>1 DEF Generator
  <2>4. \A p \in Queue : slot[p] = "running" => Polling
    BY <2>1 DEF Generator
  <2> QED BY <1>1, <1>2, <1>4, <2>2, <2>3, <2>4 DEF Cancelling
<1>6. \A p \in Q : Pending(p)
  BY <1>1
<1> QED BY <1>2, <1>3, <1>4, <1>5, <1>6, CancelKeeps

\* The close of the executor cancels the tasks of the group.
LEMMA StartCloseKeeps ==
  ASSUME ExecutorInv, StartClose
  PROVE  ExecutorInv'
<1>1. PICK Q \in SUBSET Queue : Q = {q \in group : Pending(q)}
  BY DEF ExecutorInv, ExecutorTypes
<1>2. /\ phase = "running" /\ phase' = "scheduler" /\ closing' = Q
      /\ CancelTasks(Q)
      /\ UNCHANGED <<polled, counted, entered, outputs, parkers, schedVars, putter, queue,
                     holding>>
  BY <1>1 DEF StartClose
<1>3. slot \in [Queue -> {"none", "running", "stopped"}]
  BY DEF ExecutorInv, ExecutorTypes
<1>4. Cancelling(Q)
  <2>1. \A p \in Queue : gen[p] \in {"polling", "parked"} => p \in group
    BY DEF ExecutorInv, QueueInv, Generator
  <2>2. Polling /\ Polling'
    BY <1>2 DEF Polling
  <2> QED BY <1>1, <1>2, <2>1, <2>2 DEF Cancelling, Pending, schedVars
<1>5. \A p \in Q : Pending(p)
  BY <1>1
<1> QED BY <1>2, <1>3, <1>4, <1>5, CancelKeeps DEF schedVars

\* What was cancelled has closed: the scheduler is closed, its batch with it.
LEMMA CloseSchedulerKeeps ==
  ASSUME ExecutorInv, CloseScheduler
  PROVE  ExecutorInv'
<1>1. PICK Q \in SUBSET Queue : Q = {q \in Queue : slot[q] # "none" /\ Pending(q)}
  OBVIOUS
<1>2. /\ phase = "scheduler" /\ phase' = "workers"
      /\ group' = IF run = "waiting" THEN group ELSE {}
      /\ slot' = [q \in Queue |-> IF slot[q] = "none" THEN "none" ELSE "stopped"]
      /\ CancelTasks(Q)
      /\ UNCHANGED <<polled, counted, entered, outputs, parkers, order, batch, run, putter, queue,
                     holding, closing, passed>>
  BY <1>1 DEF CloseScheduler
<1>3. slot' \in [Queue -> {"none", "running", "stopped"}] /\ closing \subseteq Queue
  BY <1>2 DEF ExecutorInv, ExecutorTypes
<1>4. Cancelling(Q)
  <2>1. \A p \in Queue : gen[p] \in {"polling", "parked"} => slot[p] = "running"
    BY DEF ExecutorInv, QueueInv, Generator
  <2>2. ~Polling'
    BY <1>2 DEF Polling
  <2> QED BY <1>1, <1>2, <2>1, <2>2 DEF Cancelling, Pending
<1>5. \A p \in Q : Pending(p)
  BY <1>1
<1> QED BY <1>2, <1>3, <1>4, <1>5, CancelKeeps

----------------------------------------------------------------------------
(* The executor *)

\* The invariant holds at the start, and every step keeps it.
LEMMA ExecutorStarts == Init => ExecutorInv
<1> SUFFICES ASSUME Init PROVE ExecutorInv
  OBVIOUS
<1>1. ExecutorTypes
  BY ExecutorAssumption DEF Init, ExecutorTypes
<1>2. \A q : ~Among(q, batch)
  BY DEF Init, Among
<1>3. Batched
  BY DEF Init, Batched, Distinct
<1>4. Submitting /\ InFlightCounts
  BY DEF Init, Submitting, InFlightCounts, InFlight, At
<1>5. Polled
  <2> SUFFICES ASSUME NEW q \in Queue, NEW n \in 1 .. MaxMsg[q]
               PROVE  stage[<<q, n>>] = "topic"
    BY DEF Polled
  <2>1. n \in Nat /\ n > 0 /\ n <= MaxMsg[q]
    BY ExecutorAssumption
  <2>2. <<q, n>> \in Msg
    BY <2>1, MessagesAre
  <2> QED BY <2>2 DEF Init
<1>6. ASSUME NEW q \in Queue
      PROVE  QueueInv(q)
  <2>1. MaxMsg[q] \in Nat
    BY ExecutorAssumption
  <2>2. Generator(q)
    BY <1>2, <2>1 DEF Init, Generator
  <2> QED BY <2>2 DEF Init, QueueInv, Counted, Overtaken, Ready
<1> QED BY <1>1, <1>3, <1>4, <1>5, <1>6 DEF ExecutorInv

\* No step of the executor breaks the invariant.
LEMMA ExecutorStays == ExecutorInv /\ [Next]_vars => ExecutorInv'
<1> SUFFICES ASSUME ExecutorInv, [Next]_vars PROVE ExecutorInv'
  OBVIOUS
<1>1. ASSUME NEW q \in Queue, AddQueue(q)
      PROVE  ExecutorInv'
  BY <1>1, AddQueueKeeps
<1>2. ASSUME NEW q \in Queue, RemoveQueue(q)
      PROVE  ExecutorInv'
  BY <1>2, RemoveQueueKeeps
<1>3. ASSUME NEW q \in Queue, PollMessage(q)
      PROVE  ExecutorInv'
  BY <1>3, PollMessageKeeps
<1>4. ASSUME NEW q \in Queue, YieldMessage(q)
      PROVE  ExecutorInv'
  BY <1>4, YieldMessageKeeps
<1>5. ASSUME NEW q \in Queue, TopicEnds(q)
      PROVE  ExecutorInv'
  BY <1>5, TopicEndsKeeps
<1>6. ASSUME NEW q \in Queue, FinishClose(q)
      PROVE  ExecutorInv'
  BY <1>6, FinishCloseKeeps
<1>7. CASE WaitTasks
  BY <1>7, WaitTasksKeeps
<1>8. CASE EndBatch \/ EndRun \/ CancelSubmits \/ CloseExecutor
  BY <1>8, EndsKeep
<1>9. CASE ProcessEnded
  BY <1>9, ProcessEndedKeeps
<1>10. CASE ProcessMessage
  BY <1>10, ProcessMessageKeeps
<1>11. CASE Submit
  BY <1>11, SubmitKeeps
<1>12. CASE PutDone
  BY <1>12, PutDoneKeeps
<1>13. CASE Poll
  BY <1>13, WorkersKeep
<1>14. ASSUME NEW m \in Msg, AcquireDelayed(m) \/ SubmitDelayed(m)
       PROVE  ExecutorInv'
  BY <1>14, DelayedKeeps
<1>15. ASSUME NEW m \in Msg, Executed(m) \/ ExecuteFails(m) \/ PublishBlocks(m) \/ Published(m)
       PROVE  ExecutorInv'
  BY <1>15, WorkersKeep
<1>16. CASE StartClose
  BY <1>16, StartCloseKeeps
<1>17. CASE CloseScheduler
  BY <1>17, CloseSchedulerKeeps
<1>18. CASE UNCHANGED vars
  <2>1. UNCHANGED <<stage, gen, how, polled, entered, outputs, counted, parkers, slot, order, group,
                    batch, run, passed, putter, queue, holding, phase, closing>>
    BY <1>18 DEF vars, genVars, schedVars, submitVars
  <2>2. ExecutorTypes' /\ Submitting'
    BY <2>1 DEF ExecutorInv, ExecutorTypes, Submitting, Current
  <2>3. Batched' /\ Polled' /\ \A q \in Queue : QueueInv(q)'
    BY <2>1, QuietKeeps DEF EarlySame, Polling
  <2>4. InFlightCounts'
    BY <2>1, InFlightKeeps DEF InFlight, At
  <2> QED BY <2>2, <2>3, <2>4 DEF ExecutorInv
<1> QED BY <1>1, <1>2, <1>3, <1>4, <1>5, <1>6, <1>7, <1>8, <1>9, <1>10, <1>11, <1>12, <1>13, <1>14,
           <1>15, <1>16, <1>17, <1>18 DEF Next

\* The types of an executor and all that its steps keep hold in every behaviour.
THEOREM ExecutorInvariant == Spec => []ExecutorInv
BY ExecutorStarts, ExecutorStays, PTL DEF Spec

\* Scheduler: until the close, the task of each queue it serves is in the group or in the
\* batch, and not in both: what the batch has is not in the group (Batched), and a running
\* slot is in one of them (Generator).
THEOREM TaskPerQueue == Spec => []OneTaskPerQueue
<1>1. ExecutorInv => OneTaskPerQueue
  <2> SUFFICES ASSUME ExecutorInv, phase = "running", NEW q \in Queue, slot[q] = "running",
                      NEW P, P = {i \in DOMAIN batch : batch[i] = q}
               PROVE  Cardinality(P) + (IF q \in group THEN 1 ELSE 0) = 1
    BY DEF OneTaskPerQueue
  <2>1. (q \in group \/ Among(q, batch)) /\ ~(q \in group /\ Among(q, batch)) /\ Distinct(batch)
    BY DEF ExecutorInv, QueueInv, Generator, Batched
  <2>2. DOMAIN batch = 1 .. Len(batch)
    BY DEF ExecutorInv, ExecutorTypes
  <2>3. CASE q \in group
    <3>1. P = {}
      BY <2>1, <2>2, <2>3 DEF Among
    <3>2. Cardinality(P) = 0
      BY <3>1, FS_EmptySet
    <3> QED BY <2>3, <3>2
  <2>4. CASE q \notin group
    <3>1. PICK i \in 1 .. Len(batch) : batch[i] = q
      BY <2>1, <2>4 DEF Among
    <3>2. P = {i}
      BY <2>1, <2>2, <3>1 DEF Distinct
    <3>3. Cardinality(P) = 1
      BY <3>2, FS_Singleton
    <3> QED BY <2>4, <3>3
  <2> QED BY <2>3, <2>4
<1> QED BY <1>1, ExecutorInvariant, PTL

\* ExecutableQueue.close: a message in flight counts, or it is the one at whose yield the
\* generator was closed (InFlightCounts); the outputs close when none counts (Counted).
THEOREM OutputsOutlive == Spec => []OutputsOutliveCounted
<1>1. ExecutorInv => OutputsOutliveCounted
  <2> SUFFICES ASSUME ExecutorInv, NEW m \in InFlight, outputs[QueueOf(m)] = "closed"
               PROVE  how[QueueOf(m)] = "aclose" /\ m = Current(QueueOf(m))
    BY DEF OutputsOutliveCounted
  <2>1. QueueOf(m) \in Queue
    BY MessagesAre DEF InFlight, At
  <2>2. m \notin counted
    BY <2>1 DEF ExecutorInv, QueueInv, Counted
  <2> QED BY <2>2 DEF ExecutorInv, InFlightCounts
<1> QED BY <1>1, ExecutorInvariant, PTL

\* ExecutorWorker.run: a queue with a message ready is overtaken by the rest of the batch
\* under way and, in its own batch, by those before it, one message of each queue.
THEOREM OvertakingBound == Spec => []BoundedOvertaking
<1>1. ExecutorInv => BoundedOvertaking
  <2> SUFFICES ASSUME ExecutorInv, NEW p \in Queue, NEW q \in Queue
               PROVE  passed[p][q] <= 2
    BY DEF BoundedOvertaking
  <2>1. Overtaken(p) /\ passed[p][q] \in Nat
    BY DEF ExecutorInv, QueueInv, ExecutorTypes
  <2>2. Bound(q, p, Rest) \in {0, 1, 2}
    BY DEF Bound
  <2> HIDE DEF Bound
  <2> QED BY <2>1, <2>2 DEF Overtaken
<1> QED BY <1>1, ExecutorInvariant, PTL
=============================================================================
