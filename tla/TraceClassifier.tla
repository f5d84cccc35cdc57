--------------------------- MODULE TraceClassifier ---------------------------
(***************************************************************************)
(* TraceClassifier (concolic/traceclassifier.cpp): one pass over the trace *)
(* of a single concrete run that labels it SUCCESS, FAILURE or UNKNOWN and *)
(* splices an end marker after the node that decided it.                   *)
(*                                                                         *)
(* A single trace is a chain: at every branch one side is the unexplored   *)
(* marker the trace builder leaves and the other side continues, so it is  *)
(* modelled as the sequence of the nodes the run passed, a branch recorded *)
(* with the side it took.  The trace builder ends it with End{Unknown}.    *)
(***************************************************************************)
EXTENDS Integers, Sequences, SequencesExt

CONSTANTS
    MaxLength,      \* bound on the number of nodes before the end node
    MaxClassify     \* bound on the calls of classify on the same trace

\* Annotation nodes: alert, DOM modification with and without indicator
\* words, page load and function call.
Annotations == {"alert", "domWords", "domNoWords", "pageLoad", "call"}
\* A branch of the run that took its true or its false side.
Branches == {"tookTrue", "tookFalse"}
\* TraceEndUnknown and the markers the classifier inserts.
Ends == {"endUnknown", "endFailure", "endSuccess"}

Results == {"SUCCESS", "FAILURE", "UNKNOWN"}
NoResult == "none"

\* The traces the trace builder hands over: nodes then End{Unknown}.
BuiltTraces ==
    {s \o <<"endUnknown">> : s \in BoundedSeq(Annotations \cup Branches, MaxLength)}

VARIABLES
    trace,          \* the trace being classified
    original,       \* history: the trace as the trace builder built it
    result,         \* mResult, as returned by the last classify
    calls           \* number of classify calls so far

vars == <<trace, original, result, calls>>

\* Insert the end marker `e` directly after position i: marker->next =
\* node->next; node->next = marker.
SpliceAfter(t, i, e) == InsertAt(t, i + 1, e)

(***************************************************************************)
(* The visitor, from position i on: the new trace and the result.  A      *)
(* branch passes to the side that is not unexplored, which in a chain is  *)
(* the next node; TraceEnd other than TraceEndUnknown is a fatal error.   *)
(***************************************************************************)
RECURSIVE ClassifyFrom(_, _)

\* Mutant of ClassifyFrom: a DOM modification is passed through whether or
\* not it introduced indicator words.
ClassifyFromIgnoreWords(t, i) ==
    CASE t[i] = "alert"      -> [trace |-> SpliceAfter(t, i, "endFailure"), result |-> "FAILURE"]
      [] t[i] = "pageLoad"   -> [trace |-> SpliceAfter(t, i, "endSuccess"), result |-> "SUCCESS"]
      [] t[i] \in {"domWords", "domNoWords", "call"} \cup Branches -> ClassifyFrom(t, i + 1)
      [] t[i] = "endUnknown" -> [trace |-> t, result |-> "UNKNOWN"]
      [] OTHER -> Assert(FALSE, "classifying a trace which has already been classified")

\* Mutant of ClassifyFrom: visit(TraceAlert*) splices the marker but
\* leaves mResult unset.
ClassifyFromAlertNoResult(t, i) ==
    CASE t[i] = "alert"      -> [trace |-> SpliceAfter(t, i, "endFailure"), result |-> NoResult]
      [] t[i] = "domWords"   -> [trace |-> SpliceAfter(t, i, "endFailure"), result |-> "FAILURE"]
      [] t[i] = "pageLoad"   -> [trace |-> SpliceAfter(t, i, "endSuccess"), result |-> "SUCCESS"]
      [] t[i] \in {"domNoWords", "call"} \cup Branches -> ClassifyFrom(t, i + 1)
      [] t[i] = "endUnknown" -> [trace |-> t, result |-> "UNKNOWN"]
      [] OTHER -> Assert(FALSE, "classifying a trace which has already been classified")

ClassifyFrom(t, i) ==
    CASE t[i] = "alert"      -> [trace |-> SpliceAfter(t, i, "endFailure"), result |-> "FAILURE"]
      [] t[i] = "domWords"   -> [trace |-> SpliceAfter(t, i, "endFailure"), result |-> "FAILURE"]
      [] t[i] = "pageLoad"   -> [trace |-> SpliceAfter(t, i, "endSuccess"), result |-> "SUCCESS"]
      [] t[i] \in {"domNoWords", "call"} \cup Branches -> ClassifyFrom(t, i + 1)
      [] t[i] = "endUnknown" -> [trace |-> t, result |-> "UNKNOWN"]
      [] OTHER -> Assert(FALSE, "classifying a trace which has already been classified")

\* TraceClassifier::classify.
Classify ==
    /\ calls < MaxClassify
    /\ LET r == ClassifyFrom(trace, 1)
       IN  /\ trace' = r.trace
           /\ result' = r.result
    /\ calls' = calls + 1
    /\ UNCHANGED original

Init ==
    /\ trace \in BuiltTraces
    /\ original = trace
    /\ result = NoResult
    /\ calls = 0

\* The caller is done with the trace once it has classified it.
Done == calls = MaxClassify /\ UNCHANGED vars

Next == Classify \/ Done

Spec == Init /\ [][Next]_vars

-----------------------------------------------------------------------------
(* Properties.                                                             *)

TypeOK ==
    /\ trace \in Seq(Annotations \cup Branches \cup Ends)
    /\ original \in BuiltTraces
    /\ result \in Results \cup {NoResult}
    /\ (result = NoResult) <=> (calls = 0)
    /\ calls \in 0..MaxClassify

\* Reference definition of the verdict: the first decisive node of the run
\* decides (alert or indicator words: failure, page load: success); a run
\* with none is unknown.
Decisive == {"alert", "domWords", "pageLoad"}
Verdict(k) == IF k = "pageLoad" THEN "SUCCESS" ELSE "FAILURE"
FirstDecisive(t) == SelectInSeq(t, LAMBDA k : k \in Decisive)
Reference(t) ==
    IF FirstDecisive(t) = 0 THEN "UNKNOWN" ELSE Verdict(t[FirstDecisive(t)])

\* After classify the result is the reference verdict of the run, and the
\* trace is the run's trace with exactly one marker of that verdict
\* inserted directly after the first decisive node, nothing removed
\* (insertion, never truncation); an unknown run's trace is untouched.
ClassifiedAsReference ==
    calls > 0 =>
        /\ result = Reference(original)
        /\ IF result = "UNKNOWN"
           THEN trace = original
           ELSE LET i == FirstDecisive(original)
                IN  trace = InsertAt(original, i + 1,
                                     IF result = "SUCCESS" THEN "endSuccess"
                                                           ELSE "endFailure")

\* A trace carries at most one classification marker: spec section 4.4
\* makes classifying a classified trace a fatal error.
ClassifiedOnce ==
    Len(SelectSeq(trace, LAMBDA k : k \in {"endFailure", "endSuccess"})) <= 1
=============================================================================
