--------------------------- MODULE CursorsProofs ---------------------------
(***************************************************************************)
(* Proofs about Cursors, for any number of items, with or without cursors, *)
(* any runs that overlap, any bound on the partials and on the requests    *)
(* under way: a cursor covers only items whose context was left, a job is  *)
(* completed only when all of them were, and join is woken.                *)
(*                                                                         *)
(* The invariant describes the window of a run: the items before `after`   *)
(* were left, those between `after` and `next` were left or are pending,   *)
(* and what a run says in a cursor stays true wherever that cursor goes.   *)
(***************************************************************************)
EXTENDS Cursors, WellFoundedInduction, TLAPS

\* A run that has not begun has nothing in flight.
Unstarted == \A r \in Run : status[r] = "idle" => pending[r] = {} /\ kept[r] = {}

\* Where `after`, the items in flight and `next` stand.
Window ==
  \A r \in Run :
    /\ after[r] <= next[r]
    /\ pending[r] \cup kept[r] \subseteq 1 .. next[r]
    /\ \A p \in pending[r] : after[r] < p

\* The items a run went past were left, in that run or another, or are pending.
Passed ==
  \A r \in Run :
    /\ 1 .. next[r] \subseteq left \cup pending[r]
    /\ kept[r] \cup partials[r] \subseteq left

\* The event and the items done out of order, against what is in flight.
Events ==
  \A r \in Run :
    /\ is_done[r] => pending[r] = {}
    /\ pending[r] = {} => kept[r] = {}
    /\ status[r] = "joining" => next[r] = NumItems

\* What is said of the job is true, and stays so as more items are left.
Saved(u) ==
  /\ Covered(u.cursor) \subseteq left
  /\ u.completion = "success" => Item \subseteq left

AllSaved ==
  /\ \A r \in Run : Saved(stored[r])
  /\ \A u \in requests : Saved(u)
  /\ Saved(db)

IInv == /\ TypeOK /\ Unstarted /\ Window /\ Passed /\ Events /\ AllSaved
        /\ JoinWakes

----------------------------------------------------------------------------
(* The greatest element of a set of items *)

\* A nonempty bounded set of naturals has a greatest element.
LEMMA GreatestExists ==
  ASSUME NEW S \in SUBSET Nat, NEW b \in Nat, \A s \in S : s <= b, S # {}
  PROVE  \E x \in S : \A y \in S : x >= y
<1> DEFINE R == OpToRel(<, Nat)
           T == {b - s : s \in S}
<1>1. IsWellFoundedOn(R, Nat)
  BY NatLessThanWellFounded
<1>2. T # {} /\ \A t \in T : t \in Nat
  <2>1. \A s \in S : b - s \in Nat
    OBVIOUS
  <2> QED BY <2>1
<1>3. \A m, n \in Nat : m < n => <<m, n>> \in R
  BY DEF OpToRel
<1> HIDE DEF R
<1>4. PICK m \in T : \A n \in T : ~ (<<n, m>> \in R)
  <2> HIDE DEF T
  <2>1. T \subseteq Nat
    BY <1>2
  <2> QED BY <1>1, <1>2, <2>1, WFMin
<1>5. PICK x \in S : m = b - x
  BY <1>4
<1>6. ASSUME NEW y \in S PROVE x >= y
  <2>1. b - y \in T /\ b - y \in Nat /\ m \in Nat
    BY <1>2, <1>4
  <2>2. ~ (b - y < m)
    BY <1>3, <1>4, <2>1
  <2> QED BY <1>5, <2>2
<1> QED BY <1>6

\* Max gives it.
LEMMA MaxIs ==
  ASSUME NEW S \in SUBSET Item, S # {}
  PROVE  Max(S) \in S /\ \A y \in S : Max(S) >= y
<1>1. NumItems \in Nat /\ S \in SUBSET Nat /\ \A s \in S : s <= NumItems
  BY CursorsAssumption DEF Item
<1>2. \E x \in S : \A y \in S : x >= y
  BY <1>1, GreatestExists
<1> QED BY <1>2 DEF Max

\* as_dict gives partials of a previous run and items that are done.
LEMMA PartialsAreKnown ==
  ASSUME NEW m, NEW old, NEW done, NEW p \in PartialsOf(m, old, done)
  PROVE  p \subseteq old \cup done
BY DEF PartialsOf, FirstOf

----------------------------------------------------------------------------
(* The steps *)

\* The end of process_item, for the window of its run.
LEMMA CommitKeeps ==
  ASSUME IInv, NEW r \in Run, NEW P \in SUBSET Item, NEW K \in SUBSET Item,
         NEW n \in Item,
         P \cup K \subseteq 1 .. n, \A p \in P : after[r] < p, after[r] <= n,
         Commit(r, P, K)
  PROVE  /\ after' \in [Run -> 0 .. NumItems]
         /\ pending' = [pending EXCEPT ![r] = P]
         /\ kept' \in [Run -> SUBSET Item]
         /\ kept'[r] \subseteq K /\ \A s \in Run \ {r} : kept'[s] = kept[s]
         /\ \A s \in Run \ {r} : after'[s] = after[s]
         /\ after'[r] <= n
         /\ \A p \in P : after'[r] < p
         /\ is_done' \in [Run -> BOOLEAN]
         /\ \A s \in Run \ {r} : is_done'[s] = is_done[s]
         /\ is_done'[r] <=> P = {}
         /\ is_done'[r] => kept'[r] = {}
<1> DEFINE first == {i \in K : \A p \in P : i < p}
           cursors == first \cap HasCursor
<1>1. /\ pending' = [pending EXCEPT ![r] = P]
      /\ kept' = [kept EXCEPT ![r] = K \ first]
      /\ after' = [after EXCEPT ![r] = IF cursors = {} THEN @ ELSE Max(cursors)]
      /\ is_done' = [is_done EXCEPT ![r] = P \cup (K \ first) = {}]
  BY DEF Commit
<1>2. P = {} => first = K
  OBVIOUS
<1>3. cursors # {} => Max(cursors) \in K /\ \A p \in P : Max(cursors) < p
  BY MaxIs
<1>4. /\ after \in [Run -> 0 .. NumItems] /\ kept \in [Run -> SUBSET Item]
      /\ is_done \in [Run -> BOOLEAN] /\ pending \in [Run -> SUBSET Item]
  BY DEF IInv, TypeOK
<1>5. first \subseteq K
  OBVIOUS
<1> HIDE DEF first, cursors
<1>6. K \subseteq 0 .. NumItems
  BY CursorsAssumption DEF Item
<1>7. after'[r] = IF cursors = {} THEN after[r] ELSE Max(cursors)
  BY <1>1, <1>4
<1>8. after'[r] \in 0 .. NumItems /\ after'[r] <= n /\ \A p \in P : after'[r] < p
  <2>1. CASE cursors = {}
    BY <1>4, <1>7, <2>1
  <2>2. CASE cursors # {}
    <3>1. Max(cursors) \in K /\ \A p \in P : Max(cursors) < p
      BY <1>3, <2>2
    <3>2. \A k \in K : k <= n
      OBVIOUS
    <3> QED BY <1>6, <1>7, <2>2, <3>1, <3>2
  <2> QED BY <2>1, <2>2
<1>9. after' \in [Run -> 0 .. NumItems] /\ \A s \in Run \ {r} : after'[s] = after[s]
  BY <1>1, <1>4, <1>7, <1>8
<1>10. /\ kept' \in [Run -> SUBSET Item]
       /\ kept'[r] = K \ first /\ \A s \in Run \ {r} : kept'[s] = kept[s]
  BY <1>1, <1>4
<1>11. is_done' \in [Run -> BOOLEAN] /\ \A s \in Run \ {r} : is_done'[s] = is_done[s]
  BY <1>1, <1>4
<1>12. is_done'[r] <=> P \cup (K \ first) = {}
  BY <1>1, <1>4
<1>13. P = {} => K \ first = {}
  BY <1>2
<1> QED BY <1>1, <1>8, <1>9, <1>10, <1>11, <1>12, <1>13

\* What was true of the items left stays so.
LEMMA SavedStays ==
  ASSUME NEW u, Saved(u), left \subseteq left'
  PROVE  /\ Covered(u.cursor) \subseteq left'
         /\ u.completion = "success" => Item \subseteq left'
BY DEF Saved

\* The end of process_item keeps the window, and what it passed, once the items
\* that are no longer pending were left.
LEMMA CommitWindow ==
  ASSUME IInv, NEW r \in Run, NEW i \in Item, NEW P \in SUBSET Item,
         \/ i = next[r] + 1 /\ next' = [next EXCEPT ![r] = i]
         \/ next' = next /\ i <= next[r],
         P = pending[r] \ {i},
         Commit(r, P, kept[r] \cup {i}),
         left' \in SUBSET Item, left \cup {i} \subseteq left',
         partials' \in [Run -> SUBSET Item],
         \A s \in Run : partials'[s] \subseteq partials[s],
         UNCHANGED status, status[r] # "idle"
  PROVE  /\ after' \in [Run -> 0 .. NumItems] /\ pending' \in [Run -> SUBSET Item]
         /\ kept' \in [Run -> SUBSET Item] /\ is_done' \in [Run -> BOOLEAN]
         /\ next' \in [Run -> 0 .. NumItems]
         /\ Unstarted' /\ Window' /\ Passed' /\ Events' /\ JoinWakes'
<1> DEFINE n == next'[r]
<1>1. /\ next \in [Run -> 0 .. NumItems] /\ NumItems \in Nat /\ Item = 1 .. NumItems
      /\ pending \in [Run -> SUBSET Item] /\ kept \in [Run -> SUBSET Item]
      /\ after \in [Run -> 0 .. NumItems]
  BY CursorsAssumption DEF IInv, TypeOK, Item
<1>2. /\ n \in Item /\ next[r] <= n /\ i <= n
      /\ \A s \in Run \ {r} : next'[s] = next[s]
      /\ next' \in [Run -> 0 .. NumItems]
      /\ 1 .. n \subseteq (1 .. next[r]) \cup {i}
  BY <1>1
<1>3. /\ P \cup (kept[r] \cup {i}) \subseteq 1 .. n
      /\ \A p \in P : after[r] < p
      /\ after[r] <= n
  <2>1. /\ pending[r] \cup kept[r] \subseteq 1 .. next[r] /\ after[r] <= next[r]
        /\ \A p \in pending[r] : after[r] < p
    BY DEF IInv, Window
  <2> QED BY <1>1, <1>2, <2>1
<1> DEFINE K == kept[r] \cup {i}
<1>4. /\ after' \in [Run -> 0 .. NumItems]
      /\ pending' = [pending EXCEPT ![r] = P]
      /\ kept' \in [Run -> SUBSET Item]
      /\ kept'[r] \subseteq K /\ \A s \in Run \ {r} : kept'[s] = kept[s]
      /\ \A s \in Run \ {r} : after'[s] = after[s]
      /\ after'[r] <= n
      /\ \A p \in P : after'[r] < p
      /\ is_done' \in [Run -> BOOLEAN]
      /\ \A s \in Run \ {r} : is_done'[s] = is_done[s]
      /\ is_done'[r] <=> P = {}
      /\ is_done'[r] => kept'[r] = {}
  <2>1. K \in SUBSET Item
    BY <1>1
  <2>2. n \in Item /\ P \cup K \subseteq 1 .. n /\ after[r] <= n
    BY <1>2, <1>3 DEF K
  <2>3. Commit(r, P, K) /\ \A p \in P : after[r] < p
    BY <1>3 DEF K
  <2> HIDE DEF K, n
  <2>4. IInv /\ r \in Run /\ P \in SUBSET Item
    OBVIOUS
  <2>5. /\ after' \in [Run -> 0 .. NumItems]
        /\ after'[r] <= n
        /\ \A p \in P : after'[r] < p
        /\ \A s \in Run \ {r} : after'[s] = after[s]
    BY <2>1, <2>2, <2>3, <2>4, CommitKeeps
  <2>6. kept' \in [Run -> SUBSET Item] /\ kept'[r] \subseteq K
    BY <2>1, <2>2, <2>3, <2>4, CommitKeeps
  <2>7. is_done'[r] => kept'[r] = {}
    BY <2>1, <2>2, <2>3, <2>4, CommitKeeps
  <2>8. \A s \in Run \ {r} : kept'[s] = kept[s]
    BY <2>1, <2>2, <2>3, <2>4, CommitKeeps
  <2>9. /\ is_done' \in [Run -> BOOLEAN]
        /\ \A s \in Run \ {r} : is_done'[s] = is_done[s]
        /\ is_done'[r] <=> P = {}
    BY <2>1, <2>2, <2>3, <2>4, CommitKeeps
  <2>10. pending' = [pending EXCEPT ![r] = P]
    BY <2>1, <2>2, <2>3, <2>4, CommitKeeps
  <2> QED BY <2>5, <2>6, <2>7, <2>8, <2>9, <2>10
<1>5. pending' \in [Run -> SUBSET Item] /\ pending'[r] = P
      /\ \A s \in Run \ {r} : pending'[s] = pending[s]
  BY <1>1, <1>4
<1>6. Unstarted'
  BY <1>4, <1>5 DEF IInv, Unstarted
<1>7. Window'
  <2>1. /\ after'[r] <= next'[r] /\ pending'[r] \cup kept'[r] \subseteq 1 .. next'[r]
        /\ \A p \in pending'[r] : after'[r] < p
    BY <1>3, <1>4, <1>5
  <2>2. ASSUME NEW s \in Run \ {r}
        PROVE  /\ after'[s] <= next'[s] /\ pending'[s] \cup kept'[s] \subseteq 1 .. next'[s]
               /\ \A p \in pending'[s] : after'[s] < p
    BY <1>2, <1>4, <1>5 DEF IInv, Window
  <2> QED BY <2>1, <2>2 DEF Window
<1>8. Passed'
  <2>1. 1 .. next'[r] \subseteq left' \cup pending'[r]
    <3>1. 1 .. next[r] \subseteq left \cup pending[r]
      BY DEF IInv, Passed
    <3> QED BY <1>2, <1>5, <3>1
  <2>2. kept'[r] \subseteq left'
    <3>1. kept[r] \subseteq left
      BY DEF IInv, Passed
    <3> QED BY <1>4, <3>1
  <2>3. \A s \in Run : partials'[s] \subseteq left'
    BY DEF IInv, Passed
  <2>4. ASSUME NEW s \in Run \ {r}
        PROVE  1 .. next'[s] \subseteq left' \cup pending'[s] /\ kept'[s] \subseteq left'
    BY <1>2, <1>4, <1>5 DEF IInv, Passed
  <2> QED BY <2>1, <2>2, <2>3, <2>4 DEF Passed
<1>9. Events'
  <2>1. /\ is_done'[r] => pending'[r] = {}
        /\ pending'[r] = {} => kept'[r] = {}
    BY <1>4, <1>5
  <2>2. status[r] = "joining" => next'[r] = NumItems
    <3>1. status[r] = "joining" => next[r] = NumItems
      BY DEF IInv, Events
    <3> QED BY <1>1, <1>2, <3>1
  <2>3. ASSUME NEW s \in Run \ {r}
        PROVE  /\ is_done'[s] => pending'[s] = {}
               /\ pending'[s] = {} => kept'[s] = {}
               /\ status[s] = "joining" => next'[s] = NumItems
    BY <1>2, <1>4, <1>5 DEF IInv, Events
  <2> QED BY <2>1, <2>2, <2>3 DEF Events
<1>10. JoinWakes'
  BY <1>4, <1>5 DEF IInv, JoinWakes
<1> QED BY <1>2, <1>4, <1>5, <1>6, <1>7, <1>8, <1>9, <1>10

\* The steps that keep the items: what is left of the invariant is about the
\* state service and the worker manager.
LEMMA OthersKeep ==
  ASSUME IInv, UNCHANGED <<status, next, after, partials, pending, kept, is_done, left>>,
         stored' \in [Run -> Update], requests' \subseteq Update, db' \in Update,
         AllSaved'
  PROVE  IInv'
<1>1. TypeOK'
  BY DEF IInv, TypeOK
<1>2. Unstarted' /\ Window' /\ Passed' /\ Events' /\ JoinWakes'
  <2>1. Unstarted'
    BY DEF IInv, Unstarted
  <2>2. Window'
    BY DEF IInv, Window
  <2>3. Passed'
    BY DEF IInv, Passed
  <2>4. Events'
    BY DEF IInv, Events
  <2>5. JoinWakes'
    BY DEF IInv, JoinWakes
  <2> QED BY <2>1, <2>2, <2>3, <2>4, <2>5
<1> QED BY <1>1, <1>2 DEF IInv

\* The steps that change neither what is saved nor the items left.
LEMMA SavedKept ==
  ASSUME IInv, UNCHANGED <<stored, requests, db, left>>
  PROVE  AllSaved'
BY DEF IInv, AllSaved, Saved

\* The update that says nothing covers nothing.
LEMMA NoUpdateTypes ==
  NoUpdate \in Update /\ NoUpdate.cursor = NoCursor /\ NoUpdate.completion = "none"
  /\ Covered(NoCursor) = {}
BY CursorsAssumption DEF NoUpdate, NoCursor, Update, CursorType, Completion, Covered, Item

\* Nothing is started.
LEMMA InitIInv == Init => IInv
<1> SUFFICES ASSUME Init PROVE IInv
  OBVIOUS
<1>1. TypeOK
  BY NoUpdateTypes, CursorsAssumption DEF Init, TypeOK
<1>2. AllSaved
  BY NoUpdateTypes DEF Init, AllSaved, Saved
<1>3. Unstarted /\ Window /\ Passed /\ Events /\ JoinWakes
  BY DEF Init, Unstarted, Window, Passed, Events, JoinWakes
<1> QED BY <1>1, <1>2, <1>3 DEF IInv

\* A run starts at the stored cursor, which is sound.
LEMMA StartKeeps ==
  ASSUME IInv, NEW r \in Run, Start(r)
  PROVE  IInv'
<1>1. /\ db.cursor.after \in 0 .. NumItems /\ db.cursor.partials \in SUBSET Item
      /\ pending[r] = {} /\ kept[r] = {}
      /\ Covered(db.cursor) \subseteq left
  BY DEF IInv, TypeOK, Update, CursorType, Unstarted, AllSaved, Saved, Start
<1>2. 1 .. db.cursor.after \subseteq left /\ db.cursor.partials \subseteq left
  BY <1>1, CursorsAssumption DEF Covered, Item
<1>3. TypeOK'
  BY <1>1 DEF IInv, TypeOK, Start
<1>4. AllSaved'
  BY SavedKept DEF Start
<1>5. Unstarted' /\ Events' /\ JoinWakes'
  BY DEF IInv, TypeOK, Unstarted, Events, JoinWakes, Start
<1>6. Window'
  BY <1>1 DEF IInv, TypeOK, Window, Start
<1>7. Passed'
  BY <1>1, <1>2 DEF IInv, TypeOK, Passed, Start
<1> QED BY <1>3, <1>4, <1>5, <1>6, <1>7 DEF IInv

\* The next item enters the window of its run.
LEMMA YieldItemKeeps ==
  ASSUME IInv, NEW r \in Run, YieldItem(r)
  PROVE  IInv'
<1> DEFINE i == next[r] + 1
<1>1. /\ i \in Item /\ next[r] \in 0 .. NumItems /\ status[r] = "running"
      /\ next' = [next EXCEPT ![r] = i]
      /\ pending' = [pending EXCEPT ![r] = @ \cup {i}]
      /\ is_done' = [is_done EXCEPT ![r] = FALSE]
      /\ UNCHANGED <<status, after, partials, kept, stored, requests, db, left>>
      /\ NumItems \in Nat /\ Item = 1 .. NumItems
  BY CursorsAssumption DEF IInv, TypeOK, YieldItem, Item
<1>2. TypeOK'
  BY <1>1 DEF IInv, TypeOK
<1>3. AllSaved'
  BY <1>1, SavedKept
<1>4. Unstarted' /\ Events' /\ JoinWakes'
  BY <1>1 DEF IInv, TypeOK, Unstarted, Events, JoinWakes
<1>5. Window'
  BY <1>1 DEF IInv, TypeOK, Window
<1>6. Passed'
  BY <1>1 DEF IInv, TypeOK, Passed
<1> QED BY <1>2, <1>3, <1>4, <1>5, <1>6 DEF IInv

\* An item that an earlier run left goes past the window.
LEMMA SkipItemKeeps ==
  ASSUME IInv, NEW r \in Run, SkipItem(r)
  PROVE  IInv'
<1> DEFINE i == next[r] + 1
<1>1. /\ i \in Item /\ i \in partials[r] /\ status[r] = "running"
      /\ next' = [next EXCEPT ![r] = i]
      /\ partials' = [partials EXCEPT ![r] = @ \ {i}]
      /\ Commit(r, pending[r], kept[r] \cup {i})
      /\ UNCHANGED <<status, stored, requests, db, left>>
  BY DEF SkipItem
<1>2. pending[r] = pending[r] \ {i} /\ pending[r] \in SUBSET Item
  BY <1>1 DEF IInv, TypeOK, Window, Item
<1>3. left' \in SUBSET Item /\ left \cup {i} \subseteq left'
  BY <1>1 DEF IInv, TypeOK, Passed
<1>4. /\ partials' \in [Run -> SUBSET Item]
      /\ \A s \in Run : partials'[s] \subseteq partials[s]
  BY <1>1 DEF IInv, TypeOK
<1>5. Commit(r, pending[r] \ {i}, kept[r] \cup {i})
  BY <1>1, <1>2
<1>6. /\ after' \in [Run -> 0 .. NumItems] /\ pending' \in [Run -> SUBSET Item]
      /\ kept' \in [Run -> SUBSET Item] /\ is_done' \in [Run -> BOOLEAN]
      /\ next' \in [Run -> 0 .. NumItems]
      /\ Unstarted' /\ Window' /\ Passed' /\ Events' /\ JoinWakes'
  <2> HIDE DEF i
  <2>1. \/ i = next[r] + 1 /\ next' = [next EXCEPT ![r] = i]
        \/ next' = next /\ i <= next[r]
    BY <1>1 DEF i
  <2> QED BY <1>1, <1>2, <1>3, <1>4, <1>5, <2>1, CommitWindow
<1>7. TypeOK'
  BY <1>1, <1>3, <1>4, <1>6 DEF IInv, TypeOK
<1>8. AllSaved'
  BY <1>1, SavedKept
<1> QED BY <1>6, <1>7, <1>8 DEF IInv

\* An item is left: the commits and what is saved say no more than what was left.
LEMMA LeaveKeeps ==
  ASSUME IInv, NEW r \in Run, NEW i \in Item, Leave(r, i)
  PROVE  IInv'
<1>1. /\ i \in pending[r]
      /\ Commit(r, pending[r] \ {i}, kept[r] \cup {i})
      /\ left' = left \cup {i}
      /\ UNCHANGED <<status, next, partials, requests, db>>
  BY DEF Leave
<1>2. /\ next' = next /\ i <= next[r] /\ status[r] # "idle"
      /\ pending[r] \ {i} \in SUBSET Item
      /\ left' \in SUBSET Item /\ left \cup {i} \subseteq left'
      /\ partials' \in [Run -> SUBSET Item] /\ \A s \in Run : partials'[s] \subseteq partials[s]
  BY <1>1 DEF IInv, TypeOK, Window, Unstarted, Item
<1>3. /\ after' \in [Run -> 0 .. NumItems] /\ pending' \in [Run -> SUBSET Item]
      /\ kept' \in [Run -> SUBSET Item] /\ is_done' \in [Run -> BOOLEAN]
      /\ next' \in [Run -> 0 .. NumItems]
      /\ Unstarted' /\ Window' /\ Passed' /\ Events' /\ JoinWakes'
  BY <1>1, <1>2, CommitWindow
<1>4. PICK c \in CursorsOf(r)' :
        stored' = IF c = NoCursor THEN stored ELSE [stored EXCEPT ![r].cursor = c]
  BY DEF Leave
<1>5. c \in CursorType /\ Covered(c) \subseteq left'
  <2>1. PICK p \in PartialsOf(MaxPartials[r], partials'[r], kept'[r] \cap HasCursor) :
          c = [after |-> after'[r], partials |-> p]
    BY <1>4 DEF CursorsOf
  <2>2. p \subseteq partials'[r] \cup kept'[r]
    BY <2>1, PartialsAreKnown
  <2>3. partials'[r] \cup kept'[r] \subseteq left'
    BY <1>3 DEF Passed
  <2>4. 1 .. after'[r] \subseteq left'
    <3>1. /\ 1 .. next'[r] \subseteq left' \cup pending'[r]
          /\ after'[r] <= next'[r] /\ \A q \in pending'[r] : after'[r] < q
      BY <1>3 DEF Passed, Window
    <3>2. after'[r] \in 0 .. NumItems /\ next'[r] \in 0 .. NumItems
          /\ NumItems \in Nat
      BY <1>3, CursorsAssumption
    <3> QED BY <3>1, <3>2
  <2>5. after'[r] \in 0 .. NumItems /\ p \in SUBSET Item
    BY <1>2, <1>3, <2>2, <2>3
  <2>6. c \in CursorType
    BY <2>1, <2>5 DEF CursorType
  <2>7. \A j \in Item : j <= after'[r] => j \in 1 .. after'[r]
    BY <2>5, CursorsAssumption DEF Item
  <2>8. c.after = after'[r] /\ c.partials = p
    BY <2>1
  <2> QED BY <2>2, <2>3, <2>4, <2>6, <2>7, <2>8 DEF Covered
<1>6. stored' \in [Run -> Update]
  BY <1>4, <1>5 DEF IInv, TypeOK, Update
<1>7. TypeOK'
  BY <1>1, <1>2, <1>3, <1>6 DEF IInv, TypeOK
<1>8. AllSaved'
  <2>1. left \subseteq left' /\ requests' = requests /\ db' = db
    BY <1>1
  <2>2. ASSUME NEW s \in Run
        PROVE  /\ Covered(stored'[s].cursor) \subseteq left'
               /\ stored'[s].completion = "success" => Item \subseteq left'
    <3>1. /\ Covered(stored[s].cursor) \subseteq left'
          /\ stored[s].completion = "success" => Item \subseteq left'
      BY <2>1, SavedStays DEF IInv, AllSaved
    <3>2. /\ stored'[s].completion = stored[s].completion
          /\ stored'[s].cursor = stored[s].cursor \/ stored'[s].cursor = c
      BY <1>4, <1>5 DEF IInv, TypeOK, Update
    <3> QED BY <1>5, <3>1, <3>2
  <2>3. ASSUME NEW u \in requests \cup {db}
        PROVE  /\ Covered(u.cursor) \subseteq left'
               /\ u.completion = "success" => Item \subseteq left'
    BY <2>1, SavedStays DEF IInv, AllSaved
  <2> QED BY <2>1, <2>2, <2>3 DEF AllSaved, Saved
<1> QED BY <1>3, <1>7, <1>8 DEF IInv

\* The ends of a run.
LEMMA EndsKeep ==
  ASSUME IInv, NEW r \in Run,
         EndOfInventory(r) \/ Complete(r) \/ Fail(r) \/ Stop(r) \/ Crash(r)
  PROVE  IInv'
<1>1. CASE EndOfInventory(r)
  <2>1. TypeOK'
    BY <1>1 DEF IInv, TypeOK, EndOfInventory
  <2>2. AllSaved'
    BY <1>1, SavedKept DEF EndOfInventory
  <2>3. Unstarted' /\ Window' /\ Passed'
    BY <1>1 DEF IInv, TypeOK, Unstarted, Window, Passed, EndOfInventory
  <2>4. Events' /\ JoinWakes'
    BY <1>1 DEF IInv, TypeOK, Events, JoinWakes, EndOfInventory
  <2> QED BY <2>1, <2>2, <2>3, <2>4 DEF IInv
<1>2. CASE Complete(r)
  <2>1. /\ status' = [status EXCEPT ![r] = "ended"]
        /\ stored' = [stored EXCEPT ![r].completion = "success"]
        /\ UNCHANGED <<next, after, partials, pending, kept, is_done, requests, db, left>>
    BY <1>2 DEF Complete
  <2>2. TypeOK'
    BY <2>1 DEF IInv, TypeOK, Update, Completion
  <2>3. Unstarted' /\ Window' /\ Passed' /\ Events' /\ JoinWakes'
    BY <2>1 DEF IInv, TypeOK, Unstarted, Window, Passed, Events, JoinWakes
  <2>4. Item \subseteq left
    BY <1>2 DEF IInv, Passed, Events, Complete, Item
  <2>5. AllSaved'
    <3>1. \A s \in Run : stored'[s].cursor = stored[s].cursor
      BY <2>1 DEF IInv, TypeOK, Update
    <3> QED BY <2>1, <2>4, <3>1 DEF IInv, AllSaved, Saved
  <2> QED BY <2>2, <2>3, <2>5 DEF IInv
<1>3. CASE Fail(r)
  <2>1. /\ status' = [status EXCEPT ![r] = "ended"]
        /\ stored' = [stored EXCEPT ![r].completion = "error"]
        /\ UNCHANGED <<next, after, partials, pending, kept, is_done, requests, db, left>>
    BY <1>3 DEF Fail
  <2>2. TypeOK'
    BY <2>1 DEF IInv, TypeOK, Update, Completion
  <2>3. Unstarted' /\ Window' /\ Passed' /\ Events' /\ JoinWakes'
    BY <2>1 DEF IInv, TypeOK, Unstarted, Window, Passed, Events, JoinWakes
  <2>4. AllSaved'
    <3>1. \A s \in Run : /\ stored'[s].cursor = stored[s].cursor
                         /\ stored'[s].completion \in {stored[s].completion, "error"}
      BY <2>1 DEF IInv, TypeOK, Update
    <3> QED BY <2>1, <3>1 DEF IInv, AllSaved, Saved
  <2> QED BY <2>2, <2>3, <2>4 DEF IInv
<1>4. CASE Stop(r)
  <2>1. TypeOK'
    BY <1>4 DEF IInv, TypeOK, Stop
  <2>2. AllSaved'
    BY <1>4, SavedKept DEF Stop
  <2>3. Unstarted' /\ Window' /\ Passed' /\ Events' /\ JoinWakes'
    BY <1>4 DEF IInv, TypeOK, Unstarted, Window, Passed, Events, JoinWakes, Stop
  <2> QED BY <2>1, <2>2, <2>3 DEF IInv
<1>5. CASE Crash(r)
  <2>1. TypeOK'
    BY <1>5, NoUpdateTypes, CursorsAssumption DEF IInv, TypeOK, Crash
  <2>2. AllSaved'
    BY <1>5, NoUpdateTypes DEF IInv, TypeOK, AllSaved, Saved, Crash
  <2>3. Unstarted' /\ Events' /\ JoinWakes'
    BY <1>5 DEF IInv, TypeOK, Unstarted, Events, JoinWakes, Crash
  <2>4. Window' /\ Passed'
    BY <1>5 DEF IInv, TypeOK, Window, Passed, Crash
  <2> QED BY <2>1, <2>2, <2>3, <2>4 DEF IInv
<1> QED BY <1>1, <1>2, <1>3, <1>4, <1>5

\* The requests to the worker manager.
LEMMA RequestsKeep ==
  ASSUME IInv, (\E r \in Run : Flush(r)) \/ (\E u \in requests : Receive(u))
  PROVE  IInv'
<1>1. ASSUME NEW r \in Run, Flush(r)
      PROVE  IInv'
  <2>1. stored' \in [Run -> Update] /\ requests' \subseteq Update /\ db' \in Update
    BY <1>1, NoUpdateTypes DEF IInv, TypeOK, Flush
  <2>2. AllSaved'
    <3>1. \A s \in Run : stored'[s] \in {stored[s], NoUpdate}
      BY <1>1 DEF IInv, TypeOK, Flush
    <3>2. requests' = requests \cup {stored[r]} /\ UNCHANGED <<db, left>>
      BY <1>1 DEF Flush
    <3> QED BY <3>1, <3>2, NoUpdateTypes DEF IInv, AllSaved, Saved
  <2>3. UNCHANGED <<status, next, after, partials, pending, kept, is_done, left>>
    BY <1>1 DEF Flush, runVars
  <2> QED BY <2>1, <2>2, <2>3, OthersKeep
<1>2. ASSUME NEW u \in requests, Receive(u)
      PROVE  IInv'
  <2>1. /\ db'.cursor = IF u.cursor = NoCursor THEN db.cursor ELSE u.cursor
        /\ db'.completion = IF "error" \in {db.completion, u.completion} THEN "error"
                            ELSE IF u.completion = "none" THEN db.completion
                            ELSE u.completion
        /\ requests' = requests \ {u} /\ UNCHANGED <<stored, left>>
    BY <1>2 DEF Receive
  <2>2. stored' \in [Run -> Update] /\ requests' \subseteq Update /\ db' \in Update
    BY <1>2 DEF IInv, TypeOK, Receive, Update, Completion
  <2>3. AllSaved'
    BY <2>1 DEF IInv, AllSaved, Saved
  <2>4. UNCHANGED <<status, next, after, partials, pending, kept, is_done, left>>
    BY <1>2 DEF Receive, runVars
  <2> QED BY <2>2, <2>3, <2>4, OthersKeep
<1> QED BY <1>1, <1>2

\* Every step of a run, of the state service and of the worker manager.
LEMMA NextIInv == IInv /\ [Next]_vars => IInv'
<1> SUFFICES ASSUME IInv, [Next]_vars PROVE IInv'
  OBVIOUS
<1>1. CASE UNCHANGED vars
  <2>1. /\ UNCHANGED <<status, next, after, partials, pending, kept, is_done, left>>
        /\ UNCHANGED <<stored, requests, db>>
    BY <1>1 DEF vars, runVars
  <2>2. stored' \in [Run -> Update] /\ requests' \subseteq Update /\ db' \in Update
    BY <2>1 DEF IInv, TypeOK
  <2> QED BY <2>1, <2>2, SavedKept, OthersKeep
<1>2. CASE Next
  BY <1>2, StartKeeps, YieldItemKeeps, SkipItemKeeps, LeaveKeeps, EndsKeep, RequestsKeep
     DEF Next
<1> QED BY <1>1, <1>2

----------------------------------------------------------------------------
(* The theorems *)

\* The invariant holds in every behaviour.
THEOREM Invariant == Spec => []IInv
BY InitIInv, NextIInv, PTL DEF Spec

\* The variables keep their types.
THEOREM TypeCorrect == Spec => []TypeOK
<1>1. IInv => TypeOK
  BY DEF IInv
<1> QED BY Invariant, <1>1, PTL

\* Resuming from the cursor of the job loses no item still to be processed,
\* whatever crashed, was sent twice or arrived late (inventory.py:144-200).
THEOREM CursorIsSafe == Spec => []CursorCoversLeft
<1>1. IInv => CursorCoversLeft
  BY DEF IInv, AllSaved, Saved, CursorCoversLeft
<1> QED BY Invariant, <1>1, PTL

\* A completed job has left the context of every item (job.py:43-48).
THEOREM CompletedJob == Spec => []CompletedMeansAll
<1>1. IInv => CompletedMeansAll
  BY DEF IInv, AllSaved, Saved, CompletedMeansAll
<1> QED BY Invariant, <1>1, PTL

\* join never waits for an event nobody is left to set (inventory.py:244-272).
THEOREM JoinIsWoken == Spec => []JoinWakes
<1>1. IInv => JoinWakes
  BY DEF IInv
<1> QED BY Invariant, <1>1, PTL
=============================================================================
