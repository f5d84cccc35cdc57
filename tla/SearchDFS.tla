------------------------------ MODULE SearchDFS ------------------------------
(***************************************************************************)
(* DepthFirstSearch (concolic/search/searchdfs.cpp): the depth-bounded,    *)
(* resumable depth-first search that picks the next unexplored node of the *)
(* trace tree and the path condition leading to it, together with the      *)
(* exploration loop that drives it (spec section 5, outside src/): one     *)
(* call of chooseNextTarget, then either a mark-as-unsat/unsolvable or a   *)
(* concrete run whose trace is merged into the tree, possibly followed by  *)
(* markNodeMissed; on exhaustion the depth limit is raised and the search  *)
(* restarted, up to MaxDepthLimit.                                         *)
(*                                                                         *)
(* The whole traversal of one chooseNextTarget call is one step: the       *)
(* search is single-threaded and has no suspension point of its own.      *)
(***************************************************************************)
EXTENDS TraceTree, FiniteSets, TLC

CONSTANTS
    Programs,           \* the programs under test, each a function position -> kind
    InitialDepthLimit,  \* the depthLimit given to the constructor
    MaxDepthLimit,      \* the exploration loop stops deepening here
    RecallAfterExhausted \* whether the loop may call chooseNextTarget again
                         \* after it returned false, without a restart

VARIABLES
    prog,               \* the program under test (never changes)
    tree,               \* the shared trace tree
    depthLimit,         \* mDepthLimit
    currentDepth,       \* mCurrentDepth
    currentPC,          \* *mCurrentPC: a sequence of <<condition, outcome>>
    parentStack,        \* mParentStack: a sequence of SavedPosition records, top last
    isPreviousRun,      \* mIsPreviousRun
    previousParent,     \* mPreviousParent
    previousDirection,  \* mPreviousDirection
    foundTarget,        \* mFoundTarget
    phase,              \* where the exploration loop is
    returned,           \* history: targets returned since the last restart
    accidental          \* history: unexplored nodes other than the target
                        \* that runs filled since the last restart

vars == <<prog, tree, depthLimit, currentDepth, currentPC, parentStack,
          isPreviousRun, previousParent, previousDirection, foundTarget,
          phase, returned, accidental>>

-----------------------------------------------------------------------------
(* The visitor works on a cursor record holding the members it updates.    *)

Cursor == [depth |-> currentDepth, pc |-> currentPC, stack |-> parentStack,
           prevParent |-> previousParent, prevDir |-> previousDirection,
           found |-> foundTarget]

SavedPosition(node, c) == [node |-> node, depth |-> c.depth, condition |-> c.pc]

\* Mutant of NextAfterLeaf: the stack is used as a queue (oldest first).
NextAfterLeafFifo(c) ==
    LET saved == Head(c.stack)
    IN  [c EXCEPT !.stack = Tail(c.stack),
                  !.depth = saved.depth,
                  !.pc = IF tree[saved.node] = "sym"
                         THEN Append(saved.condition, <<saved.node, TRUE>>)
                         ELSE saved.condition,
                  !.prevParent = saved.node,
                  !.prevDir = TRUE]

\* DepthFirstSearch::nextAfterLeaf: pop the innermost saved branch, restore
\* depth and path condition from it, add its condition as true when it is
\* symbolic, and remember its true side as the current position.
NextAfterLeaf(c) ==
    LET saved == Last(c.stack)
    IN  [c EXCEPT !.stack = Front(c.stack),
                  !.depth = saved.depth,
                  !.pc = IF tree[saved.node] = "sym"
                         THEN Append(saved.condition, <<saved.node, TRUE>>)
                         ELSE saved.condition,
                  !.prevParent = saved.node,
                  !.prevDir = TRUE]

RECURSIVE Visit(_, _), ContinueFromLeaf(_),
          VisitConcreteBranch(_, _), VisitSymbolicBranch(_, _)

\* DepthFirstSearch::continueFromLeaf.
ContinueFromLeaf(c) ==
    IF c.stack = <<>>
    THEN [c EXCEPT !.found = FALSE]
    ELSE LET n == NextAfterLeaf(c) IN Visit(TrueChild(n.prevParent), n)

\* visit(TraceConcreteBranch*): a branch with one unexplored side is passed
\* through; one with both sides explored is saved and its false side taken,
\* without counting towards the depth.
VisitConcreteBranch(p, c) ==
    LET f == FalseChild(p)
        t == TrueChild(p)
    IN  IF IsImmediatelyUnexplored(tree, f) /\ IsImmediatelyUnexplored(tree, t)
        THEN Assert(FALSE, "both branches are unexplored during search")
        ELSE IF IsImmediatelyUnexplored(tree, f) THEN Visit(t, c)
        ELSE IF IsImmediatelyUnexplored(tree, t) THEN Visit(f, c)
        ELSE Visit(f, [c EXCEPT !.stack = Append(c.stack, SavedPosition(p, c)),
                                !.prevParent = p, !.prevDir = FALSE])

\* Mutant of VisitSymbolicBranch: off by one in the depth-limit test.
VisitSymbolicBranchOffByOne(p, c) ==
    IF c.depth <= depthLimit
    THEN Visit(FalseChild(p),
               [c EXCEPT !.stack = Append(c.stack, SavedPosition(p, c)),
                         !.depth = c.depth + 1,
                         !.prevParent = p, !.prevDir = FALSE,
                         !.pc = Append(c.pc, <<p, FALSE>>)])
    ELSE ContinueFromLeaf(c)

\* visit(TraceSymbolicBranch*): below the depth limit, save the branch, go
\* one level deeper and take the false side; at the limit it is a leaf.
VisitSymbolicBranch(p, c) ==
    IF c.depth < depthLimit
    THEN Visit(FalseChild(p),
               [c EXCEPT !.stack = Append(c.stack, SavedPosition(p, c)),
                         !.depth = c.depth + 1,
                         !.prevParent = p, !.prevDir = FALSE,
                         !.pc = Append(c.pc, <<p, FALSE>>)])
    ELSE ContinueFromLeaf(c)

\* The double dispatch of TraceNode::accept into the search's visit methods.
Visit(p, c) ==
    CASE tree[p] = "conc"    -> VisitConcreteBranch(p, c)
      [] tree[p] = "sym"     -> VisitSymbolicBranch(p, c)
      [] tree[p] \in Markers -> [c EXCEPT !.found = TRUE]
      [] tree[p] = "ann"     -> Visit(NextOf(p), c)
      [] tree[p] = "end"     -> ContinueFromLeaf(c)
      [] OTHER -> Assert(FALSE, "reached a node of unknown type (DFS)")

\* Mutant of SearchResult: a resumed search re-enters the node it stopped
\* at even when that node is still unexplored.
SearchResultNoSkip ==
    IF isPreviousRun
    THEN Visit(ChildAt(previousParent, previousDirection), Cursor)
    ELSE Visit(<<>>, Cursor)

\* The traversal of chooseNextTarget: from the root on a fresh search;
\* otherwise from the node where the last call stopped, which is skipped
\* (as a leaf) when it is still unexplored and searched when a run has
\* revealed it since.
SearchResult ==
    IF isPreviousRun
    THEN LET current == ChildAt(previousParent, previousDirection)
         IN  IF IsImmediatelyUnexplored(tree, current)
             THEN ContinueFromLeaf(Cursor)
             ELSE Visit(current, Cursor)
    ELSE Visit(<<>>, Cursor)

\* The node the search stopped at: the previousDirection child of
\* previousParent.
Target == ChildAt(previousParent, previousDirection)

\* DepthFirstSearch::overUnexploredNode.
OverUnexploredNode ==
    /\ Assert(isPreviousRun, "overUnexploredNode before any search")
    /\ IsImmediatelyUnexplored(tree, Target)

-----------------------------------------------------------------------------
(* Operations of DepthFirstSearch and the steps of the exploration loop.   *)

\* The first trace has been merged into an empty tree before the search is
\* constructed (the search assumes at least one trace in the tree).
\* mPreviousParent, mPreviousDirection and mFoundTarget are left
\* uninitialised by the constructor; they are read only after being set.
Init ==
    /\ prog \in Programs
    /\ tree \in {Merge(EmptyTree(prog), prog, leaf) : leaf \in Runs(prog)}
    /\ depthLimit = InitialDepthLimit
    /\ currentDepth = 0
    /\ currentPC = <<>>
    /\ parentStack = <<>>
    /\ isPreviousRun = FALSE
    /\ previousParent = NoPosition
    /\ previousDirection = FALSE
    /\ foundTarget = FALSE
    /\ phase = "choose"
    /\ returned = {}
    /\ accidental = {}

\* DepthFirstSearch::chooseNextTarget.
ChooseNextTarget ==
    /\ \/ phase \in {"choose", "ran"}
       \/ RecallAfterExhausted /\ phase = "exhausted"
          /\ previousParent # NoPosition   \* else it reads an unset pointer
    /\ LET r == SearchResult
       IN  /\ currentDepth' = r.depth
           /\ currentPC' = r.pc
           /\ parentStack' = r.stack
           /\ previousParent' = r.prevParent
           /\ previousDirection' = r.prevDir
           /\ foundTarget' = r.found
           /\ isPreviousRun' = TRUE
           /\ phase' = IF r.found THEN "target" ELSE "exhausted"
           /\ returned' = IF r.found
                          THEN returned \cup {ChildAt(r.prevParent, r.prevDir)}
                          ELSE returned
    /\ UNCHANGED <<prog, tree, depthLimit, accidental>>

\* markNodeUnsat / markNodeUnsolvable / markNodeMissed: replace the node the
\* search stopped at by a marker; asserted to still be unexplored.
MarkNode(marker) ==
    /\ Assert(isPreviousRun, "mark before any search")
    /\ Assert(IsImmediatelyUnexplored(tree, Target), "marked node is explored")
    /\ tree' = [tree EXCEPT ![Target] = marker]

\* The constraint for the target is unsatisfiable, or could not be
\* compiled or solved.
MarkNodeUnsat ==
    /\ phase = "target"
    /\ MarkNode("Unsat")
    /\ phase' = "choose"
    /\ UNCHANGED <<prog, depthLimit, currentDepth, currentPC, parentStack,
                   isPreviousRun, previousParent, previousDirection,
                   foundTarget, returned, accidental>>

MarkNodeUnsolvable ==
    /\ phase = "target"
    /\ MarkNode("Unsolvable")
    /\ phase' = "choose"
    /\ UNCHANGED <<prog, depthLimit, currentDepth, currentPC, parentStack,
                   isPreviousRun, previousParent, previousDirection,
                   foundTarget, returned, accidental>>

\* A concrete run with the solver's inputs: it may follow any path of the
\* program, reaching the target or not; its trace is merged into the tree
\* (ArtemisRuntime::notifyAboutNewIteration hands it to the analysis).
ConcreteRun ==
    /\ phase = "target"
    /\ \E leaf \in Runs(prog) :
          LET filled == FilledBy(tree, leaf)
              newTree == Merge(tree, prog, leaf)
          IN  /\ tree' = newTree
              /\ accidental' =
                    IF filled \notin {NoPosition, Target}
                    THEN accidental \cup {filled}
                    ELSE accidental
    /\ phase' = "ran"
    /\ UNCHANGED <<prog, depthLimit, currentDepth, currentPC, parentStack,
                   isPreviousRun, previousParent, previousDirection,
                   foundTarget, returned>>

\* The run did not reach the target: record it as missed.
MarkNodeMissed ==
    /\ phase = "ran"
    /\ OverUnexploredNode
    /\ MarkNode("Missed")
    /\ phase' = "choose"
    /\ UNCHANGED <<prog, depthLimit, currentDepth, currentPC, parentStack,
                   isPreviousRun, previousParent, previousDirection,
                   foundTarget, returned, accidental>>

\* setDepthLimit followed by restartSearch: iterative deepening after the
\* depth-bounded tree has been searched.
RestartSearch ==
    /\ phase = "exhausted"
    /\ depthLimit < MaxDepthLimit
    /\ depthLimit' = depthLimit + 1
    /\ isPreviousRun' = FALSE
    /\ parentStack' = <<>>
    /\ currentDepth' = 0
    /\ currentPC' = <<>>
    /\ phase' = "choose"
    /\ returned' = {}
    /\ accidental' = {}
    /\ UNCHANGED <<prog, tree, previousParent, previousDirection, foundTarget>>

\* The loop's external policy stops after the deepest search.
Finish ==
    /\ phase = "exhausted"
    /\ depthLimit = MaxDepthLimit
    /\ phase' = "done"
    /\ UNCHANGED <<prog, tree, depthLimit, currentDepth, currentPC,
                   parentStack, isPreviousRun, previousParent,
                   previousDirection, foundTarget, returned, accidental>>

Stopped == phase = "done" /\ UNCHANGED vars

Next ==
    \/ ChooseNextTarget
    \/ MarkNodeUnsat
    \/ MarkNodeUnsolvable
    \/ ConcreteRun
    \/ MarkNodeMissed
    \/ RestartSearch
    \/ Finish
    \/ Stopped

\* The loop calls the search again as long as it is not told to stop.
Spec == Init /\ [][Next]_vars /\ WF_vars(Next)

-----------------------------------------------------------------------------
(* Properties.                                                             *)

Positions == DOMAIN prog

TypeOK ==
    /\ tree \in [Positions -> Kinds \cup Markers \cup {NoNode}]
    /\ depthLimit \in InitialDepthLimit..MaxDepthLimit
    /\ currentDepth \in 0..depthLimit
    /\ parentStack \in Seq([node : Positions, depth : 0..depthLimit,
                            condition : Seq(Positions \X BOOLEAN)])
    /\ currentPC \in Seq(Positions \X BOOLEAN)
    /\ isPreviousRun \in BOOLEAN
    /\ previousParent \in Positions \cup {NoPosition}
    /\ previousDirection \in BOOLEAN
    /\ foundTarget \in BOOLEAN
    /\ phase \in {"choose", "target", "ran", "exhausted", "done"}
    /\ returned \subseteq Positions
    /\ accidental \subseteq Positions

\* The depth limit bounds the path condition: spec section 8 says no
\* returned path condition has more than depthLimit entries.
DepthLimitRespected ==
    phase = "target" => Len(currentPC) <= depthLimit

\* The exploration loop eventually finishes: every chooseNextTarget pass
\* ends in exhaustion, however runs and marks interleave with it.
Termination == <>(phase = "done")

\* getTargetPC: what the loop hands to the constraint writer with a target.
GetTargetPC == currentPC

\* The last target of the pass: the targets of a pass come in depth-first
\* order, so it is the one after all others.
LastReturned ==
    IF returned = {} THEN NoPosition
    ELSE CHOOSE r \in returned : \A q \in returned \ {r} : DfsBefore(q, r)

Abstract == INSTANCE SearchSpec
    WITH cursor <- LastReturned, revealed <- accidental,
         pc <- IF phase = "target" THEN GetTargetPC ELSE <<>>

\* DepthFirstSearch implements SearchSpec: every call of chooseNextTarget
\* hands out the next unexplored symbolic side in depth-first order with
\* its path condition, skips none within the depth limit, and reports
\* exhaustion only when none is left after the last target, however runs
\* and marks have changed the tree since the previous call.
SearchRefinement == Abstract!Spec
=============================================================================
