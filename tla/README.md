# TLA+ models of Artemis (concolic search, constraint writer, trace classification, work list)

Artemis tests JavaScript web applications. A WebKit-based runtime
(`runtime/toplevel/artemisruntime.cpp`) runs the page, fires events and
records each run as a trace of branches, annotations and an end node. The
concolic analysis merges these traces into one trace tree. A search strategy
(`concolic/search/searchdfs.cpp`) then walks that tree to pick the next
unexplored branch side. The path condition of that branch is compiled for a
solver (`concolic/solver/constraintwriter/cvc4.cpp`), and the solution drives
the next run. Before a trace is merged, the trace classifier
(`concolic/traceclassifier.cpp`) labels it as a success or failure by splicing
an end marker into it. The runtime's iteration loop takes event
configurations from a priority work list
(`runtime/worklist/deterministicworklist.cpp`).

## Inventory

| Part | Source | Module | Status |
|---|---|---|---|
| DFS search strategy | searchdfs.cpp/.h | SearchDFS (+ MCSearchDFS), refining SearchSpec | modelled |
| Trace tree, unexplored markers | executiontree/nodes | TraceTree | partly (the merge is modelled from the spec) |
| Path condition | searchdfs.cpp | SearchDFS | partly |
| Trace classifier | traceclassifier.cpp | TraceClassifier | modelled |
| Deterministic work list | deterministicworklist.cpp | DeterministicWorkList, refining WorkList; driven by ArtemisRuntime | modelled |
| Runtime loop | artemisruntime.cpp | ArtemisRuntime; its concolic side is SearchDFS's environment | partly |
| CVC4 constraint writer | cvc4.cpp, constraintwriter.h | CVC4ConstraintWriter (+ MCCVC4ConstraintWriter) | modelled (its base class from the spec) |
| Symbolic expression classes | JavaScriptCore/symbolic/expression | SymbolicExpr | partly (the classes the writer visits) |
| EasilyBoredSearch, KaluzaSolver, delayutil, descriptors | various | none | stub, declaration or timing only |

## Modules

**TraceTree.** The program under test is a fixed function `prog` from
positions (sequences of child indices: 0 false, 1 true, 2 the successor of an
annotation) to node kinds. The explored tree maps each position to its kind
once revealed, to an unexplored marker (`Plain`, `Unsat`, `Unsolvable`,
`Missed`), or to `NoNode`. `Merge` is how a run's trace enters the tree. The
trace builder and merger are not under src/, so `Merge` is modelled from the
spec. The module also holds analysis helpers: `PathPC`, `SymDepth` and
`DfsBefore`.

**SearchDFS.** The variables mirror the members of `DepthFirstSearch`:

| Code member | Variable |
|---|---|
| `mCurrentDepth` | `currentDepth` |
| `mCurrentPC` | `currentPC` |
| `mParentStack` of `SavedPosition` | `parentStack` |
| `mIsPreviousRun` | `isPreviousRun` |
| `mPreviousParent`, `mPreviousDirection` | `previousParent`, `previousDirection` |
| `mDepthLimit` | `depthLimit` |

One call of `chooseNextTarget` is one atomic step, `ChooseNextTarget`. Its
result comes from the mutually recursive `Visit`, `VisitConcreteBranch`,
`VisitSymbolicBranch`, `ContinueFromLeaf` and `NextAfterLeaf`, each a
translation of the visitor method with the same name. The other code
operations are actions of their own:

- `MarkNodeUnsat`, `MarkNodeUnsolvable` and `MarkNodeMissed`, with their
  asserts as `Assert`;
- `RestartSearch`, which is `setDepthLimit` followed by `restartSearch`.

The loop that drives the search is modelled as well, by two actions:

- `ConcreteRun`: the runtime executes any path of the program and merges the
  trace. The path may miss the target.
- `Finish`: the loop stops.

**SearchSpec.** What the search promises the exploration loop, with no
cursor, stack or visitor. The abstract `cursor` is the last node handed out in
the pass, and `Owed` is the set of unexplored symbolic sides that lie within
the limit and after the cursor. `ChooseTarget` hands out the first owed side
in DFS order, together with `PathPC` to it. `ChooseExhausted` requires
nothing to be owed. The loop actions (marks, runs, `Deepen`, `Finish`) are
the same as in SearchDFS. The variable `revealed` holds the unexplored nodes
that a run filled when they were not its target. Sides below them are not
owed in this pass. This is the code's own caveat on `chooseNextTarget`
(searchdfs.cpp:41): such nodes may remain unexplored until a restart. It
happens when a pass went through a concrete branch while one of its sides was
still unexplored. The branch is not pushed, so when a later run fills that
side, the search never comes back to it. SearchDFS instantiates SearchSpec
with `cursor <- LastReturned`, `revealed <- accidental` and `pc <-` the
current PC while a target is held.

**TraceClassifier.** `ClassifyFrom` is the classifier's visitor as one
recursive operator over the trace sequence. `SpliceAfter` is the splice of the
End marker. `Classify` is `classify()`.

**WorkList / DeterministicWorkList.** `WorkList` is the abstract contract: a
set of (configuration, priority) pairs; `remove` hands out an element of
maximal priority. `DeterministicWorkList` has the `QMap` of sets as a function
from priorities to sets, plus `largest_pri`. It is shown to implement
`WorkList` through the mapping `Pending` (`WL == INSTANCE WorkList WITH
pending <- Pending`). `AddTo`, `RemoveFrom` and `NewPriorityOf` are the
list's methods as functions of the map, so that the runtime can compose
them. `Add`, `RuntimeRemove` and `NewPriority` let any caller drive the list,
for the violation run.

**ArtemisRuntime.** The iteration loop of artemisruntime.cpp, with the work
list as `DWL == INSTANCE DeterministicWorkList`. Its state:

- `phase`: where the loop is;
- `current`: the configuration being executed;
- `hash`: the page-state hash the run ended in;
- `visited`: `mVisitedStates`;
- `toReprioritize` and `toAdd`: what the two `foreach` loops still have to do.

Its actions:

- `Run` is `run`: add the initial configuration.
- `PreConcreteExecution` stops when the list is empty or the termination
  strategy says so (the strategy is outside src/ and may answer either way).
  Otherwise it removes a configuration. A stale empty set at `largest_pri`
  is the trap of finding 3.
- `PostConcreteExecution` is the callback up to `reprioritize`.
- `Reprioritize` is one `new_priority`.
- `StateCheck` is the visited-state check. A new state is recorded and the
  input generator adds up to `MaxNew` new configurations.
- `AddConfiguration` is one `add` of the `foreach`.

The loop is single-threaded, and nothing interleaves with a phase. Splitting
the two `foreach` loops into steps therefore adds no behaviour. It makes
every step a single work-list operation, which is what the refinement check
needs. `reprioritize` and the prioritizer are not under src/. The model
gives each held configuration any new priority.

**SymbolicExpr.** The string and integer expression classes are records
whose field `k` names the class. The module also gives two references the
writer is checked against; neither is a translation of code:

- `Eval`: the meaning of an expression in the JavaScript run. It covers
  `charAt` past the end, the first occurrence for `replace`, and `ToNumber`
  for coercions. `ToNumber` trims only leading and trailing spaces, so a
  space between digits gives NaN.
- `RefSort`, `RefUses` and `RefOk`: a declarative sort system.

**CVC4ConstraintWriter.** The writer's members are one record `writer`:

| Code member | Field |
|---|---|
| `mTypemap` | `tm` |
| `mError` | `err` |
| `mNextTemporaryIdentifier` | `tmp` |
| the assertions written to `mOutput` | `doc` |
| `mExpressionBuffer` | `buf` |
| `mExpressionType` | `type` |
| `isCoerced` of the promise the visit was given | `coerced` |

`Visit(e, promise, st)` is `accept(this, promise)`. Each `visit` of
cvc4.cpp is an operator of the same name, with its early returns and its
error paths. Examples:

- the submatch visit goes on after a regex compile error;
- the regex filter passes the promise through;
- `StringCoercion` never hands on its promise.

The text written is abstracted to SMT-LIB terms. The `str.contains` and
`str.replace` functions that the document header defines are translated as
`HeaderContains` and `ReplaceHolds`. `SMTConstraintWriter` is not in the
repository. Its part is modelled from the spec:

- the members of the writer and its error flag;
- `recordAndEmitType`, `coercetype`, temporaries and `checkType`;
- the integer visits;
- asserting each condition equal to its outcome;
- `commit`.

The state machine writes one condition per step (`WriteCondition`), then
commits (`Commit`).

## Runs

| Run | Cfg | Expect | What it shows |
|---|---|---|---|
| dfs_safety | MCSearchDFS.cfg | pass | See below. |
| dfs_termination | MCSearchDFSLive.cfg | pass | Every pass reaches exhaustion, and deepening ends (`Termination`). |
| dfs_depth_limit | MCSearchDFSDepth.cfg | violation | A returned PC can have depthLimit+1 entries (`DepthLimitRespected`). |
| classifier | TraceClassifier.cfg | pass | `classify` equals the first-decisive-node reference, and only inserts one marker. |
| classifier_twice | TraceClassifierTwice.cfg | violation | A second classify is not caught and splices a second marker. |
| runtime | ArtemisRuntime.cfg | pass | Driven by the runtime loop (reprioritize every iteration, visited-state check, new configurations), the list refines WorkList (`WorkListRefinement`), and the loop always ends (`LoopEnds`). |
| worklist_reprioritize | DeterministicWorkListReprioritize.cfg | violation | `new_priority` leaves an empty set at `largest_pri`: `remove` traps. |
| writer_sorts | MCCVC4ConstraintWriter.cfg | pass | `commit()` succeeds exactly when the reference sort system accepts the path condition (`CommitAsReference`). |
| writer_sound | MCCVC4ConstraintWriterSound.cfg | pass | Every model of a committed document gives inputs that follow the path (`SoundDocument`). |
| writer_replace | MCCVC4ConstraintWriterReplace.cfg | violation | The header's `str.replace` admits results JavaScript's `replace` never gives. |
| writer_charat | MCCVC4ConstraintWriterCharAt.cfg | violation | `charAt`'s length assertion makes a feasible path unsatisfiable (`CompleteDocument`). |

dfs_safety checks `SearchRefinement`: over every tree reachable by runs,
marks and recalls, every step of SearchDFS is a step of SearchSpec. This
means the following hold:

- every target comes after the previous one in false-first DFS order;
- no owed side lies between two targets;
- the PC handed out is exactly the symbolic outcomes on the path to the
  target;
- exhaustion is reported only when nothing is owed.

The property replaces three invariants of the previous version (path
condition, order, coverage on exhaustion). The first version of SearchSpec
exempted only nodes revealed behind the cursor, and TLC refuted it. The
counterexample has a concrete root whose true side was unexplored in the
first tree. A run filled that side while the target sat on the false side.
The search then reported exhaustion without visiting the new side, even
though it lies after the cursor. The code comment allows this, and the
abstract spec now says so.

`LoopEnds` holds because the visited-state check stops input generation
once every page state has been seen. The mutant that forgets to insert the
hash makes the list refill forever. The loop may also end in the `remove`
trap of finding 3, which the runtime reaches in two iterations. A mutant of
`remove` that recomputes `largest_pri` from the smallest key is invisible to
the runtime run. `reprioritize` re-adds every held configuration before the
next `remove`, and that raises `largest_pri` again. The mutant for the
refinement is therefore one of `add`.

`CommitAsReference` covers:

- the early returns on an operand of the wrong sort, which leave a stale
  `mExpressionType`;
- unsupported operators;
- the submatch compile error after which the visit goes on;
- a type map shared by all conditions of a path, where the first sort wins;
- the coercion promise kept by a symbolic string under an integer coercion.

`SoundDocument` and `CompleteDocument` evaluate the document. Models give
each identifier of the type map a value of its sort. The property compares
the document against `Eval` of the path condition on the inputs the runtime
builds from the model: integers are written out as decimals. Documents with
uninterpreted terms (`str.in.re`, the conversions of `coercetype`) are
skipped.

### Findings

1. **Search depth (searchdfs.cpp:228).** `nextAfterLeaf` restores the depth
   from before the symbolic branch was counted, then adds its condition. The
   true side of each symbolic branch is therefore searched one level deeper,
   which contradicts the depth bound of spec §8. Trace: depth limit 1; the
   root is symbolic and its true child is symbolic; target `<<1,1>>` with a
   PC of two entries.
2. **Double classification (traceclassifier.cpp:59).** The spec calls a
   second classify fatal. The code stops at the decisive node and never
   reaches the spliced End, so it splices again.
3. **new_priority (deterministicworklist.cpp:93).** An emptied set is not
   removed and `largest_pri` is not recomputed. Afterwards `empty()` is false
   while nothing is held, and `remove()` fails `Q_ASSERT` and computes
   `rand() % 0`.
4. **str.replace (cvc4.cpp:55).** The header calls `(str.contains ?x ?s)`
   with the pattern first. The replace therefore asks whether the pattern
   contains the subject, and is the identity on longer subjects. Example:
   `x.replace("a"," ") == y` taken false has the model `x = "aa"`,
   `t0 = "aa"`, `y = " a"`. It satisfies the document, because `t0 = x`
   and `t0 != y`. Yet JavaScript gives `"aa".replace("a"," ") = " a" = y`,
   so the run takes the true branch.
   With the arguments swapped, it still replaces any occurrence where
   JavaScript replaces the first (`x = "aa"`, `t0 = "a "`).
5. **charAt (cvc4.cpp:172).** `(> (str.len s) pos)` is asserted on its own,
   whatever the outcome of the condition. `x.charAt(0) == ""` taken true holds
   for `x = ""`, yet its document is unsatisfiable. The solver says unsat, and
   the search marks a feasible branch `Unsat`.

## Bounds

- **Search.** `MCPrograms` is every program tree of height at most 3 over
  {sym, conc, ann} with at most four runs. This covers:
  - concrete branches with one or both sides explored;
  - annotation chains;
  - symbolic branches nested under both sides;
  - runs that miss their target and reveal nodes behind the cursor, or
    below a concrete branch the pass went through.

  dfs_safety uses depth limits 0..3. Limits 0..2 make the cut-off and the
  deepening happen. The last pass, at limit 3, has no branch of a height-3
  tree beyond the limit. It takes 420 thousand distinct states more than
  the run with limit 2, and about 75 seconds. Five runs per program would
  take more than seven minutes. The liveness and depth runs use limits 0..2,
  and the liveness run uses height 2 to keep the state graph small.
- **Classifier.** All traces of up to 6 nodes, covering every order of
  alert, DOM modification, page load, call and both branch sides, with
  decisive nodes before, between and after other kinds (about 270 thousand
  distinct states, 3 seconds).
- **Runtime and work list.** 4 configuration names, priorities 0..3, three
  page states and up to three new configurations per run (147 thousand
  distinct states, about 10 seconds). With these bounds:
  - every name can be in the list at once, each under its own priority;
  - a bucket empties while others stay behind it;
  - the list refills after a drain;
  - both the state check and the trap happen.
  Five names take two minutes and add no new shape of the list.
  A name is reused once its object has left the list and is no longer
  executed. The code compares configurations only by identity, so reuse
  stands for a fresh object.

- **Constraint writer.** Two inputs `x` and `y`. Each operation gets
  operands of every sort, including the wrong one. A path condition holds
  one or two conditions, so the type map is shared between them (1112 path
  conditions in writer_sorts). Solver strings are the strings over `a` and
  space of length at most 2, plus `"1"`; solver integers are 0 and 1.

  Every counterexample found needs only strings of length 2. writer_sound
  leaves out regex filters and `replace`. The filters are ignored on purpose
  (the comment at cvc4.cpp:197 and spec §9), and `replace` is unsound
  (finding 4). Submatch is uninterpreted.

## Fairness

`Termination` assumes weak fairness of the loop's next step. Nothing under
src/ calls the search. The loop around it, which calls `chooseNextTarget`
after every run until it returns false and then restarts with a larger limit
up to the maximum, is the concolic analysis of spec §5. The loop's actions
(`ConcreteRun`, `RestartSearch`, `Finish`) are modelled from that section.
Nothing in the search waits on an outside event.

`LoopEnds` assumes weak fairness of the runtime's next step. Each handler
calls the next one directly: `run` and `postConcreteExecution` end by calling
`preConcreteExecution`, and that one starts an execution whose callback is
`postConcreteExecution`. The assumption is that every WebKit execution
finishes. The termination strategy gets no fairness: it may never stop the
loop.

## Not modelled

- **Constraint writer, not modelled:** the meaning of regexes
  (`str.in.re`) and of the coercions `coercetype` writes, which are in the
  base class outside src/. Escaping of constants in the text is also left
  out, because the model abstracts the text to terms.
- **Composition of classifier and search.** Whether the spliced End hides
  branches from the DFS (traceclassifier.cpp:64) depends on two things
  outside src/: where the classifier is called (on the new trace or on the
  merged tree), and how the merge continues a later trace past a spliced End.
  SearchDFS models the search's own side of it: every End is a leaf.
- **Runtime loop, not modelled:** the early returns of
  `notifyAboutNewIteration` for non-concolic inputs (SearchDFS treats every
  run as concolic), `mLatestFormFields`, and the progress output. None of
  them changes control. `LoopEnds` is checked only with the state check on.
  With `disableStateCheck` set, only the termination strategy, which is
  outside src/, bounds the loop.
- **Not modelled at all:** boolean expressions, IntegerMaxMin and
  SymbolicObject (their visits are in the base class outside src/),
  EasilyBoredSearch (a stub), KaluzaSolver (an external process), delayutil
  (timing), and the event/target descriptors (data holders).
- **Where the model stops.** What is left of src/ that no definition
  translates is of three kinds:
  - declarations and includes;
  - logging and progress output;
  - queries that nothing in src/ calls: `DeterministicWorkList::size`
    and `all_zero_priority`.

  Everything else the components do depends on code outside src/: the
  trace builder and merger, the prioritizers, the input generator, the
  termination strategy, WebKit and the solver. The hazards without a
  property say, one by one, which part of that code they wait on.
