------------------------------ MODULE Services ------------------------------
(***************************************************************************)
(* The services of a worker (worker/services/manager.py, the namespace of   *)
(* worker/services/__init__.py and standalone_config of worker/runner.py):  *)
(* how their classes are loaded in the order of the configuration, those    *)
(* that miss another one being deferred, how they are opened in the order   *)
(* they were loaded and closed in the reverse order.                        *)
(*                                                                          *)
(* A class is loaded when the services its Services interface names are in  *)
(* the namespace; configuration, hooks and resources manager always are.    *)
(***************************************************************************)
EXTENDS Integers, FiniteSets, SequencesExt

CONSTANTS
  Class,        \* the classes of services
  NameOf,       \* NameOf[c]: the name c is given in the namespace
  Needs,        \* Needs[c]: the names the interface of c asks for
  Base,         \* config.c.services_manager.base_services
  Configured,   \* the sequences config.c.services_manager.services may be
  ApiClient, Databases, StandaloneApiClient,  \* what standalone_config moves
  MaxTries      \* bound: the length of the list of deferred classes

ASSUME ServicesAssumption ==
  /\ NameOf \in [Class -> STRING]
  /\ Needs \in [Class -> SUBSET STRING]
  /\ Base \in Seq(Class)
  /\ \A s \in Configured : s \in Seq(Class)
  /\ {ApiClient, Databases, StandaloneApiClient} \subseteq Class
  /\ MaxTries \in Nat

VARIABLES
  todo,       \* what is left of the list the loop iterates over
  deferred,   \* defered_services
  again,      \* defered_again
  retrying,   \* the while loop: "no", "first", or "aliased" once both names
              \* are those of one list
  loading,    \* "loading", "loaded", "raised" (a class) or "stuck" (all)
  loaded,     \* loaded_services
  open        \* the indexes in loaded of the services that are open

loadVars == <<todo, deferred, again, retrying, loading, loaded>>
servicesVars == <<loadVars, open>>

----------------------------------------------------------------------------
\* list.remove
Without(s, c) == IF Contains(s, c) THEN RemoveFirst(s, c) ELSE s

\* standalone_config: the databases and its own client come first; what it
\* removes is removed together, or not at all after the first that is missing.
StandalonePaths(services) ==
  <<Databases, StandaloneApiClient>> \o Without(Base, ApiClient) \o
    (IF Contains(Base, ApiClient) THEN Without(services, Databases) ELSE services)

InitServices ==
  /\ \E services \in Configured :
       todo \in {Base \o services, StandalonePaths(services)}
  /\ deferred = <<>>
  /\ again = <<>>
  /\ retrying = "no"
  /\ loading = "loading"
  /\ loaded = <<>>
  /\ open = {}

----------------------------------------------------------------------------
(* ServicesManager.__init__ *)

Names == {NameOf[loaded[i]] : i \in DOMAIN loaded}

\* ServicesNamespace.cast
Missing(c) == ~(Needs[c] \subseteq Names)

\* A MissingServiceError: the class is appended to the list of the loop, which
\* is the one being iterated from the second round on.
Defer(c) ==
  /\ Missing(c)
  /\ todo' = IF retrying = "aliased" THEN Append(Tail(todo), c) ELSE Tail(todo)
  /\ IF retrying = "no"
       THEN deferred' = Append(deferred, c) /\ UNCHANGED again
       ELSE /\ again' = Append(again, c)
            /\ deferred' = IF retrying = "aliased" THEN again' ELSE deferred
  /\ UNCHANGED <<loaded, loading>>

Load(c) ==
  /\ NameOf[c] \notin Names
  /\ ~Missing(c)
  /\ todo' = Tail(todo)
  /\ loaded' = Append(loaded, c)
  /\ UNCHANGED <<deferred, again, loading>>

\* A name taken twice, a configuration that does not match the Options of the
\* class, or a constructor that raises.
Raise(c) ==
  /\ loading' = "raised"
  /\ UNCHANGED <<todo, deferred, again, loaded>>

\* _load_service
LoadService ==
  /\ loading = "loading" /\ todo # <<>>
  /\ Len(deferred) < MaxTries
  /\ LET c == Head(todo) IN
       \/ NameOf[c] \notin Names /\ Defer(c)
       \/ Load(c)
       \/ Raise(c)
  /\ UNCHANGED <<retrying, open>>

\* The end of the first loop, then of each round: the names of both lists are
\* compared, and the second one is not emptied.
EndRound ==
  /\ loading = "loading" /\ todo = <<>>
  /\ IF retrying # "no" /\ again = deferred
       THEN loading' = "stuck" /\ UNCHANGED <<todo, deferred, retrying>>
       ELSE LET next == IF retrying = "no" THEN deferred ELSE again IN
            /\ loading' = IF next = <<>> THEN "loaded" ELSE loading
            /\ deferred' = next
            /\ todo' = next
            /\ retrying' = IF retrying = "no" THEN "first" ELSE "aliased"
  /\ UNCHANGED <<again, loaded, open>>

NextLoad == LoadService \/ EndRound

----------------------------------------------------------------------------
(* ServicesManager.open and close *)

\* for service in self.loaded_services: await service.open()
Opening == CHOOSE i \in DOMAIN loaded \ open : \A j \in DOMAIN loaded \ open : i <= j

\* for service in reversed(self.loaded_services): await service.close()
Closing == CHOOSE i \in open : \A j \in open : i >= j

ServicesTypeOK ==
  /\ {todo, deferred, again, loaded} \subseteq Seq(Class)
  /\ retrying \in {"no", "first", "aliased"}
  /\ loading \in {"loading", "loaded", "raised", "stuck"}
  /\ open \subseteq DOMAIN loaded

\* A service is open only while those it asked for are: it opens after them
\* and closes before them (ServicesManager.open and close, which rest on the
\* order of _load_service).
NeedsOpen ==
  \A i \in open : \A n \in Needs[loaded[i]] :
    \E j \in open : NameOf[loaded[j]] = n
=============================================================================
