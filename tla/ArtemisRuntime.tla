---------------------------- MODULE ArtemisRuntime ----------------------------
(***************************************************************************)
(* ArtemisRuntime (runtime/toplevel/artemisruntime.cpp): the iteration     *)
(* loop that drives the deterministic work list.  preConcreteExecution     *)
(* stops when the list is empty or the termination strategy says so, else *)
(* removes a configuration and has WebKit execute it; the callback         *)
(* postConcreteExecution reprioritizes the list, skips a page state it has *)
(* seen before and otherwise adds the configurations the input generator   *)
(* derives from the run, then calls preConcreteExecution again.            *)
(*                                                                         *)
(* The loop is one thread.  The foreach loops of a handler (new_priority   *)
(* on each held configuration, add of each new one) are single steps of a *)
(* phase that nothing else can interleave with, so that each step is one  *)
(* operation of the work list.  Configurations are compared by identity   *)
(* only: a name is reused once its object is out of the list and no       *)
(* longer the one being executed.                                          *)
(***************************************************************************)
EXTENDS Integers, FiniteSets

CONSTANTS
    Confs,              \* names for live configuration objects
    Priorities,         \* the priorities the prioritizer hands out
    Hashes,             \* page-state hashes a run can end in
    MaxNew,             \* bound on the configurations generated from one run
    DisableStateCheck   \* mOptions.disableStateCheck

NoConf == "noConf"
NoHash == "noHash"

VARIABLES
    queue,              \* the work list's map priority -> set of configurations
    largestPri,         \* the work list's largest_pri
    phase,              \* where the loop is
    current,            \* the configuration being executed
    hash,               \* result->getPageStateHash() of the last run
    visited,            \* mVisitedStates
    toReprioritize,     \* configurations reprioritize has still to visit
    toAdd               \* newConfigurations not yet added

vars == <<queue, largestPri, phase, current, hash, visited, toReprioritize, toAdd>>

DWL == INSTANCE DeterministicWorkList WITH added <- {}, AllowNewPriority <- TRUE

\* The configurations the work list holds.
Held == UNION {queue[k] : k \in DOMAIN queue}

\* Names the input generator can give new configuration objects.
FreeConfs == Confs \ (Held \cup {current})

Init ==
    /\ queue = <<>>
    /\ largestPri = 0
    /\ phase = "start"
    /\ current = NoConf
    /\ hash = NoHash
    /\ visited = {}
    /\ toReprioritize = {}
    /\ toAdd = {}

\* ArtemisRuntime::run: add the initial configuration (an empty input
\* sequence for the URL) with the prioritizer's priority.
Run ==
    /\ phase = "start"
    /\ \E c \in Confs, p \in Priorities :
          LET r == DWL!AddTo(queue, largestPri, c, p)
          IN  queue' = r.queue /\ largestPri' = r.largest
    /\ phase' = "pre"
    /\ UNCHANGED <<current, hash, visited, toReprioritize, toAdd>>

\* ArtemisRuntime::preConcreteExecution: stop when the list is empty or the
\* termination strategy (outside src/, any answer) says so; else remove the
\* next configuration and start its execution.  remove traps on an empty
\* set at largest_pri (rand() % 0).
PreConcreteExecution ==
    /\ phase = "pre"
    /\ \E shouldTerminate \in BOOLEAN :
          IF DWL!Empty \/ shouldTerminate
          THEN phase' = "done" /\ UNCHANGED <<queue, largestPri, current>>
          ELSE IF ~DWL!CanRemove(queue, largestPri)
          THEN phase' = "crashed" /\ UNCHANGED <<queue, largestPri, current>>
          ELSE \E res \in queue[largestPri] :
                  LET r == DWL!RemoveFrom(queue, largestPri, res)
                  IN  /\ queue' = r.queue /\ largestPri' = r.largest
                      /\ current' = res
                      /\ phase' = "executing"
    /\ UNCHANGED <<hash, visited, toReprioritize, toAdd>>

\* The sigExecutedSequence callback, postConcreteExecution, up to
\* reprioritize: the run ends in some page state; notifyAboutNewIteration
\* hands its trace to the concolic analysis (SearchDFS's ConcreteRun);
\* reprioritize visits every configuration the list holds.
PostConcreteExecution ==
    /\ phase = "executing"
    /\ \E h \in Hashes : hash' = h
    /\ toReprioritize' = Held
    /\ phase' = "reprioritize"
    /\ UNCHANGED <<queue, largestPri, current, visited, toAdd>>

\* reprioritize: new_priority of one held configuration with the
\* prioritizer's new priority.
Reprioritize ==
    /\ phase = "reprioritize"
    /\ \E e \in toReprioritize, p \in Priorities :
          /\ LET r == DWL!NewPriorityOf(queue, largestPri, e, p)
             IN  queue' = r.queue /\ largestPri' = r.largest
          /\ toReprioritize' = toReprioritize \ {e}
    /\ UNCHANGED <<phase, current, hash, visited, toAdd>>

\* Mutant of StateCheck: the new page state is not recorded in
\* mVisitedStates.
StateCheckNoInsert ==
    /\ phase = "reprioritize"
    /\ toReprioritize = {}
    /\ IF ~DisableStateCheck /\ hash \in visited
       THEN /\ phase' = "pre" /\ current' = NoConf
            /\ UNCHANGED <<visited, toAdd>>
       ELSE /\ visited' = visited
            /\ \E news \in SUBSET FreeConfs :
                  /\ Cardinality(news) <= MaxNew
                  /\ toAdd' = news
                  /\ phase' = IF news = {} THEN "pre" ELSE "adding"
                  /\ current' = IF news = {} THEN NoConf ELSE current
    /\ UNCHANGED <<queue, largestPri, hash, toReprioritize>>

\* The rest of postConcreteExecution after reprioritize: a page state seen
\* before ends the iteration; a new one is recorded and the input
\* generator derives up to MaxNew new configurations from the run.
StateCheck ==
    /\ phase = "reprioritize"
    /\ toReprioritize = {}
    /\ IF ~DisableStateCheck /\ hash \in visited
       THEN /\ phase' = "pre" /\ current' = NoConf
            /\ UNCHANGED <<visited, toAdd>>
       ELSE /\ visited' = IF DisableStateCheck THEN visited ELSE visited \cup {hash}
            /\ \E news \in SUBSET FreeConfs :
                  /\ Cardinality(news) <= MaxNew
                  /\ toAdd' = news
                  /\ phase' = IF news = {} THEN "pre" ELSE "adding"
                  /\ current' = IF news = {} THEN NoConf ELSE current
    /\ UNCHANGED <<queue, largestPri, hash, toReprioritize>>

\* The foreach of postConcreteExecution: add one new configuration with
\* the prioritizer's priority; after the last, preConcreteExecution.
AddConfiguration ==
    /\ phase = "adding"
    /\ \E e \in toAdd, p \in Priorities :
          /\ LET r == DWL!AddTo(queue, largestPri, e, p)
             IN  queue' = r.queue /\ largestPri' = r.largest
          /\ toAdd' = toAdd \ {e}
          /\ phase' = IF toAdd' = {} THEN "pre" ELSE "adding"
          /\ current' = IF toAdd' = {} THEN NoConf ELSE current
    /\ UNCHANGED <<hash, visited, toReprioritize>>

\* done() and the trap end the loop.
Stopped == phase \in {"done", "crashed"} /\ UNCHANGED vars

Next ==
    \/ Run
    \/ PreConcreteExecution
    \/ PostConcreteExecution
    \/ Reprioritize
    \/ StateCheck
    \/ AddConfiguration
    \/ Stopped

\* The event loop always delivers the next callback: every WebKit run is
\* assumed to finish.
Spec == Init /\ [][Next]_vars /\ WF_vars(Next)

-----------------------------------------------------------------------------
(* Properties.                                                             *)

TypeOK ==
    /\ DWL!TypeOK
    /\ phase \in {"start", "pre", "executing", "reprioritize", "adding",
                  "done", "crashed"}
    /\ current \in Confs \cup {NoConf}
    /\ hash \in Hashes \cup {NoHash}
    /\ visited \subseteq Hashes
    /\ toReprioritize \subseteq Held
    /\ toAdd \subseteq Confs \ Held

\* Driven by the runtime, every add, remove and new_priority of the list is
\* a step of the abstract WorkList: remove hands back a configuration of
\* the highest priority held.
WorkListRefinement == DWL!WorkListRefinement

\* The loop ends: with finitely many page states, the state check stops
\* the input generator once every state has been seen, and the list
\* drains (or remove traps on the stale empty set new_priority leaves).
LoopEnds == <>(phase \in {"done", "crashed"})
=============================================================================
