------------------------- MODULE DeterministicWorkList -------------------------
(***************************************************************************)
(* DeterministicWorkList (runtime/worklist/deterministicworklist.cpp): a  *)
(* QMap from priority to a set of configurations, and largest_pri, the    *)
(* priority remove takes from.  The runtime (ArtemisRuntime) adds fresh   *)
(* configurations, removes one per iteration while the list is not empty, *)
(* and reprioritizes the ones it holds through new_priority.              *)
(***************************************************************************)
EXTENDS Integers, FiniteSets, FiniteSetsExt, TLC

CONSTANTS
    Confs,              \* configurations (each added once: a fresh object)
    Priorities,         \* the priorities the prioritizer hands out
    AllowNewPriority    \* whether the runtime reprioritizes held entries

VARIABLES
    queue,              \* queue: priority -> set of configurations (a QMap)
    largestPri,         \* largest_pri
    added               \* history: configurations added so far

vars == <<queue, largestPri, added>>

\* The priority -> set map with the key p bound to the set s.
Bind(q, p, s) == [k \in DOMAIN q \cup {p} |-> IF k = p THEN s ELSE q[k]]

\* The map without the key p (QMap::remove).
Unbind(q, p) == [k \in DOMAIN q \ {p} |-> q[k]]

\* DeterministicWorkList::empty.
Empty == DOMAIN queue = {}

\* DeterministicWorkList::contains.
Contains(e) == \E k \in DOMAIN queue : e \in queue[k]

\* Mutant of AddTo: largest_pri is raised only by a priority above it by
\* more than one.
AddToRaiseLate(q, lp, e, p) ==
    [queue |-> Bind(q, p, IF p \in DOMAIN q THEN q[p] \cup {e} ELSE {e}),
     largest |-> IF p > lp + 1 THEN p ELSE lp]

\* DeterministicWorkList::add on the map q: create the set of priority p
\* if there is none, insert e, and raise largest_pri to p.
AddTo(q, lp, e, p) ==
    [queue |-> Bind(q, p, IF p \in DOMAIN q THEN q[p] \cup {e} ELSE {e}),
     largest |-> IF p > lp THEN p ELSE lp]

\* Mutant of RemoveFrom: largest_pri recomputed from the smallest key.
RemoveFromFirstKey(q, lp, res) ==
    LET rest == q[lp] \ {res}
        q2 == IF rest = {} THEN Unbind(q, lp) ELSE [q EXCEPT ![lp] = rest]
    IN  [queue |-> q2,
         largest |-> IF rest # {} THEN lp
                     ELSE IF DOMAIN q2 = {} THEN 0 ELSE Min(DOMAIN q2)]

\* Mutant of RemoveFrom: largest_pri reset to -1 rather than 0 when the
\* map empties.
RemoveFromResetNegative(q, lp, res) ==
    LET rest == q[lp] \ {res}
        q2 == IF rest = {} THEN Unbind(q, lp) ELSE [q EXCEPT ![lp] = rest]
    IN  [queue |-> q2,
         largest |-> IF rest # {} THEN lp
                     ELSE IF DOMAIN q2 = {} THEN -1 ELSE Max(DOMAIN q2)]

\* DeterministicWorkList::remove once it has picked res from the set at
\* largest_pri: drop the set when it empties and move largest_pri to the
\* largest key left, 0 when none is.
RemoveFrom(q, lp, res) ==
    LET rest == q[lp] \ {res}
        q2 == IF rest = {} THEN Unbind(q, lp) ELSE [q EXCEPT ![lp] = rest]
    IN  [queue |-> q2,
         largest |-> IF rest # {} THEN lp
                     ELSE IF DOMAIN q2 = {} THEN 0 ELSE Max(DOMAIN q2)]

\* remove can pick an element: the set at largest_pri exists and is not
\* empty.  It is looked up without a check in a release build (Q_CHECK_PTR,
\* Q_ASSERT), and rand() % 0 traps: remove has no step otherwise.
CanRemove(q, lp) == lp \in DOMAIN q /\ q[lp] # {}

\* DeterministicWorkList::remove: take any element of the set at
\* largest_pri (rand() % size).
Remove ==
    /\ CanRemove(queue, largestPri)
    /\ \E res \in queue[largestPri] :
          LET r == RemoveFrom(queue, largestPri, res)
          IN  queue' = r.queue /\ largestPri' = r.largest
    /\ UNCHANGED added

\* DeterministicWorkList::new_priority on the map q: take e out of every
\* set (emptied sets are kept) and add it again with priority p.
NewPriorityOf(q, lp, e, p) ==
    AddTo([k \in DOMAIN q |-> q[k] \ {e}], lp, e, p)

Init ==
    /\ queue = <<>>
    /\ largestPri = 0
    /\ added = {}

\* ArtemisRuntime adds a newly generated configuration.
Add(e, p) ==
    /\ e \notin added
    /\ LET r == AddTo(queue, largestPri, e, p)
       IN  queue' = r.queue /\ largestPri' = r.largest
    /\ added' = added \cup {e}

\* ArtemisRuntime::preConcreteExecution removes the next configuration
\* when the list is not empty.
RuntimeRemove == ~Empty /\ Remove

\* The runtime reprioritizes a configuration the list holds.
NewPriority(e, p) ==
    /\ AllowNewPriority
    /\ Contains(e)
    /\ LET r == NewPriorityOf(queue, largestPri, e, p)
       IN  queue' = r.queue /\ largestPri' = r.largest
    /\ UNCHANGED added

\* The runtime stops once the list is empty.
Stopped == Empty /\ UNCHANGED vars

Next ==
    \/ \E e \in Confs, p \in Priorities : Add(e, p) \/ NewPriority(e, p)
    \/ RuntimeRemove
    \/ Stopped

Spec == Init /\ [][Next]_vars

\* Configurations are only compared for identity.
ConfSymmetry == Permutations(Confs)

-----------------------------------------------------------------------------
(* Properties.                                                             *)

TypeOK ==
    /\ DOMAIN queue \subseteq Priorities
    /\ \A k \in DOMAIN queue : queue[k] \subseteq Confs
    /\ largestPri \in Priorities \cup {0}
    /\ added \subseteq Confs

\* The work list as the abstract list sees it.
Pending == UNION {{<<e, k>> : e \in queue[k]} : k \in DOMAIN queue}

WL == INSTANCE WorkList WITH pending <- Pending

\* The work list implements WorkList: every add, remove and new_priority
\* is a step of the abstract list, so remove always hands back a
\* configuration of the highest priority held, whatever order of adds and
\* removes moved largest_pri.
WorkListRefinement == WL!Spec

\* Whenever empty() says there is work, the set at largest_pri exists and
\* holds a configuration: the Q_CHECK_PTR and Q_ASSERT of remove hold and
\* rand() % set->size() is defined.
RemoveFindsElement ==
    ~Empty => largestPri \in DOMAIN queue /\ queue[largestPri] # {}
=============================================================================
