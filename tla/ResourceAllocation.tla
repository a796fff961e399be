------------------------- MODULE ResourceAllocation -------------------------
(***************************************************************************)
(* What the resources of a worker promise, without types, queues or         *)
(* conditions: each object of a pool is free, lent to one client, or        *)
(* resting, until its release time or for good; nothing is lent twice.      *)
(***************************************************************************)
CONSTANTS Client, Obj

VARIABLES
  pool,      \* the objects that may be lent
  lent,      \* lent[c]: the objects client c has
  resting    \* the objects given back that may not be lent (yet)

vars == <<pool, lent, resting>>

Lent == UNION {lent[c] : c \in Client}
Free == pool \ (Lent \cup resting)

Init ==
  /\ pool = {}
  /\ lent = [c \in Client |-> {}]
  /\ resting = {}

Enroll(o) ==
  /\ o \notin pool \cup Lent \cup resting
  /\ pool' = pool \cup {o}
  /\ UNCHANGED <<lent, resting>>

\* An object that rested for good is forgotten with it.
Withdraw(o) ==
  /\ o \in pool
  /\ pool' = pool \ {o}
  /\ resting' \in {resting, resting \ {o}}
  /\ UNCHANGED lent

Lend(c, O) ==
  /\ O \subseteq Free
  /\ lent' = [lent EXCEPT ![c] = @ \cup O]
  /\ UNCHANGED <<pool, resting>>

\* c gives back all it has; the objects R rest, those included that an
\* acquisition which failed had just taken.
Return(c, R) ==
  /\ R \subseteq lent[c] \cup Free
  /\ lent' = [lent EXCEPT ![c] = {}]
  /\ resting' = resting \cup R
  /\ UNCHANGED pool

\* An acquisition that failed half-way sends what it had taken to rest.
Withhold(O) ==
  /\ O \subseteq Free
  /\ resting' = resting \cup O
  /\ UNCHANGED <<pool, lent>>

Rested(o) ==
  /\ o \in resting
  /\ resting' = resting \ {o}
  /\ UNCHANGED <<pool, lent>>

Next ==
  \/ \E o \in Obj : Enroll(o) \/ Withdraw(o) \/ Rested(o)
  \/ \E c \in Client, O \in SUBSET Obj : Lend(c, O) \/ Return(c, O)
  \/ \E O \in SUBSET Obj : Withhold(O)

Spec == Init /\ [][Next]_vars
=============================================================================
