------------------------------ MODULE SearchSpec ------------------------------
(***************************************************************************)
(* What the search strategy promises the exploration loop, without the    *)
(* cursor, the stack or the visitor.  A pass hands out unexplored sides of *)
(* symbolic branches in depth-first order, false side first, each with the *)
(* path condition that leads to it; it never skips one within the depth    *)
(* limit, and reports the tree exhausted only when none is left after the *)
(* last node it handed out.  What a run that missed its target revealed   *)
(* may wait for the next pass: the comment on chooseNextTarget lists nodes *)
(* "explored accidentally by a later run" among those a pass can leave.   *)
(* The loop around the search (marks, runs, deepening) is the same as in  *)
(* SearchDFS.                                                              *)
(***************************************************************************)
EXTENDS TraceTree, FiniteSets

CONSTANTS Programs, MaxDepthLimit

VARIABLES
    prog,           \* the program under test
    tree,           \* the shared trace tree
    depthLimit,     \* the depth limit of the current pass
    phase,          \* where the exploration loop is
    cursor,         \* the last node handed out in this pass, or NoPosition
    pc,             \* the path condition handed out with it
    revealed        \* unexplored nodes other than the target that runs
                    \* filled in this pass

vars == <<prog, tree, depthLimit, phase, cursor, pc, revealed>>

\* Unexplored sides of symbolic branches less than `lim` symbolic branches
\* deep: what a pass with that limit must reach.
WithinLimit(t, lim) ==
    {s \in Slots(t) : t[Parent(s)] = "sym" /\ SymDepth(t, Parent(s)) < lim}

\* s comes after the cursor in depth-first order.
AfterCursor(s) == cursor = NoPosition \/ DfsBefore(cursor, s)

\* The sides the pass still owes: within the limit, after the cursor, and
\* not below a node a run revealed by accident.
Owed == {q \in WithinLimit(tree, depthLimit) :
            AfterCursor(q) /\ ~\E r \in revealed : IsPrefix(r, q)}

Init ==
    /\ prog \in Programs
    /\ tree \in {Merge(EmptyTree(prog), prog, leaf) : leaf \in Runs(prog)}
    /\ depthLimit \in 0..MaxDepthLimit
    /\ phase = "choose"
    /\ cursor = NoPosition
    /\ pc = <<>>
    /\ revealed = {}

\* chooseNextTarget returns an unexplored side of a symbolic branch after
\* the cursor, and no side within the limit lies between the two.
ChooseTarget ==
    /\ phase \in {"choose", "ran", "exhausted"}
    /\ \E s \in Slots(tree) :
          /\ tree[Parent(s)] = "sym"
          /\ AfterCursor(s)
          /\ ~\E q \in Owed : DfsBefore(q, s)
          /\ cursor' = s
          /\ pc' = PathPC(tree, s)
    /\ phase' = "target"
    /\ UNCHANGED <<prog, tree, depthLimit, revealed>>

\* chooseNextTarget returns false: the pass owes nothing.
ChooseExhausted ==
    /\ phase \in {"choose", "ran", "exhausted"}
    /\ Owed = {}
    /\ phase' = "exhausted"
    /\ UNCHANGED <<prog, tree, depthLimit, cursor, pc, revealed>>

\* The target is marked unsat or unsolvable.
MarkTarget ==
    /\ phase = "target"
    /\ \E m \in {"Unsat", "Unsolvable"} : tree' = [tree EXCEPT ![cursor] = m]
    /\ phase' = "choose"
    /\ pc' = <<>>
    /\ UNCHANGED <<prog, depthLimit, cursor, revealed>>

\* A concrete run, on any path of the program, merged into the tree.
Run ==
    /\ phase = "target"
    /\ \E leaf \in Runs(prog) :
          LET filled == FilledBy(tree, leaf)
          IN  /\ tree' = Merge(tree, prog, leaf)
              /\ revealed' = IF filled \in {NoPosition, cursor} THEN revealed
                             ELSE revealed \cup {filled}
    /\ phase' = "ran"
    /\ pc' = <<>>
    /\ UNCHANGED <<prog, depthLimit, cursor>>

\* The run missed the target, which is still unexplored.
MarkMissed ==
    /\ phase = "ran"
    /\ IsImmediatelyUnexplored(tree, cursor)
    /\ tree' = [tree EXCEPT ![cursor] = "Missed"]
    /\ phase' = "choose"
    /\ UNCHANGED <<prog, depthLimit, cursor, pc, revealed>>

\* A new pass with a deeper limit.
Deepen ==
    /\ phase = "exhausted"
    /\ depthLimit < MaxDepthLimit
    /\ depthLimit' = depthLimit + 1
    /\ cursor' = NoPosition
    /\ revealed' = {}
    /\ phase' = "choose"
    /\ UNCHANGED <<prog, tree, pc>>

Finish ==
    /\ phase = "exhausted"
    /\ depthLimit = MaxDepthLimit
    /\ phase' = "done"
    /\ UNCHANGED <<prog, tree, depthLimit, cursor, pc, revealed>>

Next ==
    \/ ChooseTarget \/ ChooseExhausted
    \/ MarkTarget \/ Run \/ MarkMissed
    \/ Deepen \/ Finish

Spec == Init /\ [][Next]_vars
=============================================================================
