------------------------------ MODULE WorkList ------------------------------
(***************************************************************************)
(* What a work list of executable configurations promises the runtime: it *)
(* holds configurations with priorities, remove hands back one of the     *)
(* highest priority, and new_priority moves a configuration to another    *)
(* priority.  Which of several equally high ones is removed is left open. *)
(***************************************************************************)
EXTENDS Integers, FiniteSets

CONSTANTS Confs, Priorities

VARIABLE pending    \* the set of <<configuration, priority>> held

Holds(e) == \E p \in Priorities : <<e, p>> \in pending

Init == pending = {}

Add(e, p) ==
    /\ ~Holds(e)
    /\ pending' = pending \cup {<<e, p>>}

Remove(e) ==
    /\ \E p \in Priorities :
          /\ <<e, p>> \in pending
          /\ \A x \in pending : x[2] <= p
          /\ pending' = pending \ {<<e, p>>}

NewPriority(e, p) ==
    /\ Holds(e)
    /\ pending' = {x \in pending : x[1] # e} \cup {<<e, p>>}

Next ==
    \E e \in Confs : \/ \E p \in Priorities : Add(e, p) \/ NewPriority(e, p)
                     \/ Remove(e)

Spec == Init /\ [][Next]_pending
=============================================================================
