------------------------------ MODULE TraceTree ------------------------------
(***************************************************************************)
(* The execution-trace tree shared by the concolic search and the trace    *)
(* classifier (concolic/executiontree).  A node is named by its position:  *)
(* the sequence of child indices from the root, 0 for the false child of a *)
(* branch, 1 for its true child and 2 for the successor of an annotation.  *)
(*                                                                         *)
(* The program under test is a fixed function `prog` from positions to the *)
(* kind of node a concrete run meets there.  The tree explored so far maps *)
(* every position of `prog` to its kind once a run has revealed it, to an  *)
(* unexplored marker when it is a not yet revealed child of a revealed     *)
(* branch, and to NoNode below that.  Because a position never changes     *)
(* kind once revealed, the tree is append-only, which is what lets the     *)
(* search keep positions across runs.                                      *)
(***************************************************************************)
EXTENDS Integers, Sequences, SequencesExt

\* Node kinds a concrete run produces: symbolic and concrete branches,
\* annotations (transparent to the search) and end nodes.
Kinds == {"sym", "conc", "ann", "end"}
BranchKinds == {"sym", "conc"}

\* The TraceUnexplored family.  Plain is the marker the trace builder
\* leaves on the side a run did not take; the others are written by
\* DepthFirstSearch::markNodeUnsat/markNodeUnsolvable/markNodeMissed.
Markers == {"Plain", "Unsat", "Unsolvable", "Missed"}

NoNode == "none"

\* Stands for no position (a null TraceNode pointer).
NoPosition == <<-1>>

FalseChild(p) == Append(p, 0)
TrueChild(p)  == Append(p, 1)
NextOf(p)     == Append(p, 2)
ChildAt(p, direction) == IF direction THEN TrueChild(p) ELSE FalseChild(p)
Parent(p) == Front(p)

\* isImmediatelyUnexplored: the node is one of the TraceUnexplored markers.
IsImmediatelyUnexplored(tree, p) == tree[p] \in Markers

\* The tree before any run: the root is a single unexplored node.
EmptyTree(prog) == [p \in DOMAIN prog |-> IF p = <<>> THEN "Plain" ELSE NoNode]

\* The end positions of the program: each is one complete concrete run.
Runs(prog) == {p \in DOMAIN prog : prog[p] = "end"}

(***************************************************************************)
(* Merging the trace of the run ending at `leaf` into the tree (the trace  *)
(* builder and ConcolicAnalysis::addTrace, outside src/).  The run follows *)
(* explored nodes until it meets the first unexplored node on its path;    *)
(* that node is replaced by the rest of the run, and every branch of the   *)
(* rest gets a Plain marker on the side the run did not take.  A run that  *)
(* meets no unexplored node adds nothing.                                  *)
(***************************************************************************)
FilledBy(tree, leaf) ==
    LET onPath == {q \in Prefixes(leaf) : IsImmediatelyUnexplored(tree, q)}
    IN  IF onPath = {} THEN NoPosition
        ELSE CHOOSE q \in onPath : \A r \in onPath : Len(q) <= Len(r)

Merge(tree, prog, leaf) ==
    LET q == FilledBy(tree, leaf)
        newPath == {x \in Prefixes(leaf) : q # NoPosition /\ IsPrefix(q, x)}
    IN  [x \in DOMAIN tree |->
            IF x \in newPath THEN prog[x]
            ELSE IF x # <<>> /\ Parent(x) \in newPath
                    /\ prog[Parent(x)] \in BranchKinds THEN "Plain"
            ELSE tree[x]]

\* The unexplored nodes of the tree.
Slots(tree) == {p \in DOMAIN tree : IsImmediatelyUnexplored(tree, p)}

\* Number of symbolic branches strictly above position p: the search depth
\* at which p is visited.
SymDepth(tree, p) ==
    Cardinality({k \in 0..Len(p) - 1 : tree[SubSeq(p, 1, k)] = "sym"})

\* The path condition of position p: the outcome of every symbolic branch
\* on the way to p, in order, each condition named by its branch position.
PathPC(tree, p) ==
    LET step == [k \in 1..Len(p) |-> <<SubSeq(p, 1, k - 1), p[k] = 1>>]
    IN  SelectSeq(step, LAMBDA e : tree[e[1]] = "sym")

\* Depth-first order with the false child first: p comes strictly before q.
DfsBefore(p, q) ==
    \/ IsStrictPrefix(p, q)
    \/ \E k \in 1..Min({Len(p), Len(q)}) :
          /\ SubSeq(p, 1, k - 1) = SubSeq(q, 1, k - 1)
          /\ p[k] < q[k]
=============================================================================
