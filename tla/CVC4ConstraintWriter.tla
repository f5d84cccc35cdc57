-------------------------- MODULE CVC4ConstraintWriter --------------------------
(***************************************************************************)
(* The constraint writer (concolic/solver/constraintwriter/cvc4.cpp and   *)
(* its base SMTConstraintWriter): a visitor that compiles the conditions   *)
(* of a path condition, one after the other, into an SMT-LIB document for  *)
(* CVC4, and a type map giving every identifier one sort.  commit()        *)
(* reports whether any visit recorded an error.                            *)
(*                                                                         *)
(* The writer's members are the fields of one record: tm (the type map),   *)
(* err (mError), tmp (mNextTemporaryIdentifier), doc (the assertions       *)
(* written so far), buf (mExpressionBuffer) and type (mExpressionType);    *)
(* coerced is the isCoerced flag of the CoercionPromise the current visit  *)
(* was given.  The text written is abstracted to terms: records whose      *)
(* field k names the SMT-LIB function.  SMTConstraintWriter is not in the  *)
(* repository; its part is modelled from the specification.               *)
(***************************************************************************)
EXTENDS SymbolicExpr, TLC

CONSTANTS
    PathConditions,     \* the path conditions handed to the writer
    CompilablePatterns, \* regexes CVC4RegexCompiler::compile accepts
    Temporaries         \* names of the temporaries, in allocation order

VARIABLES
    pc,         \* the path condition being written
    next,       \* index of the next condition to visit
    writer,     \* the writer's members
    committed,  \* whether commit() has been called
    result      \* what commit() returned

vars == <<pc, next, writer, committed, result>>

\* accept(visitor) without an argument visits with a NULL promise.
NoPromise == "none"

\* Terms of the SMT-LIB document.
Var(id) == [k |-> "var", id |-> id]
Str(v) == [k |-> "str", v |-> v]
Bool(b) == [k |-> "bool", v |-> b]
Fn(f, args) == [k |-> f, args |-> args]

EmptyWriter ==
    [tm |-> <<>>, err |-> FALSE, tmp |-> 0, doc |-> <<>>,
     buf |-> Str(<<>>), type |-> "STRING", coerced |-> FALSE]

\* SMTConstraintWriter::error: the flag commit() reports.
Error(st) == [st EXCEPT !.err = TRUE]

\* Mutant of RecordAndEmitType: a conflicting identifier is recorded with
\* the TYPEERROR sort instead of raising an error.
RecordAndEmitTypeMarkError(st, id, sort) ==
    IF id \in DOMAIN st.tm /\ st.tm[id] # sort
    THEN [st EXCEPT !.tm = (id :> "TYPEERROR") @@ @]
    ELSE [st EXCEPT !.tm = (id :> sort) @@ @]

\* SMTConstraintWriter::recordAndEmitType: an identifier keeps the first
\* sort it is recorded with; another sort is an error.
RecordAndEmitType(st, id, sort) ==
    IF id \in DOMAIN st.tm /\ st.tm[id] # sort THEN Error(st)
    ELSE [st EXCEPT !.tm = (id :> sort) @@ @]

CheckType(st, sort) == st.type = sort

\* SMTConstraintWriter::coercetype: a conversion term of the target sort.
Coercetype(st, from, to) ==
    IF from = to THEN st
    ELSE [st EXCEPT !.buf = Fn("coerce", <<to, st.buf>>), !.type = to]

Emit(st, term) == [st EXCEPT !.doc = Append(@, term)]

Result(st, buf, type) == [st EXCEPT !.buf = buf, !.type = type]

\* SMTConstraintWriter::emitAndReturnNewTemporary: declares the next
\* temporary; the caller reads its name as Temporaries[st.tmp].
NewTemporary(st, sort) ==
    IF st.tmp < Len(Temporaries)
    THEN [st EXCEPT !.tmp = @ + 1, !.tm = (Temporaries[st.tmp + 1] :> sort) @@ @]
    ELSE Assert(FALSE, "more temporaries than Temporaries names")

LastTemporary(st) == Var(Temporaries[st.tmp])

\* Mutant of StringTemplate: the != templates are taken one entry early in
\* the tables, so != is written as ==.
StringTemplateShifted(op, l, r) ==
    CASE op = "CONCAT" -> Fn("str.++", <<l, r>>)
      [] OTHER -> Fn("=", <<l, r>>)

\* The templates op[] / opclose[] of visit(StringBinaryOperation*).
StringTemplate(op, l, r) ==
    CASE op = "CONCAT" -> Fn("str.++", <<l, r>>)
      [] op \in {"STRING_EQ", "STRING_SEQ"} -> Fn("=", <<l, r>>)
      [] OTHER -> Fn("=", <<Fn("=", <<l, r>>), Bool(FALSE)>>)

OpGetType(op) == IF op = "CONCAT" THEN "STRING" ELSE "BOOL"

(***************************************************************************)
(* The visitor.  Visit(e, promise, st) is e->accept(this, promise) and     *)
(* returns the writer after the visit; only the visits of a symbolic     *)
(* string and of a regex filter touch the promise they are given.         *)
(***************************************************************************)
RECURSIVE Visit(_, _, _)

\* A visit of a string operand, then the check every unary string
\* operation makes before it writes anything.
VisitStringOperand(e, st) == Visit(e.src, NoPromise, st)

\* Mutant of VisitSymbolicString: the promise is ignored.
VisitSymbolicStringIgnorePromise(e, promise, st) ==
    Result(RecordAndEmitType(st, e.id, "STRING"), Var(e.id), "STRING")

\* A symbolic string under an integer promise is recorded as an integer
\* and the coercion is kept; otherwise it must be a string.
VisitSymbolicString(e, promise, st) ==
    IF promise = "INT"
    THEN [Result(RecordAndEmitType(st, e.id, "INT"), Var(e.id), "INT")
            EXCEPT !.coerced = TRUE]
    ELSE Result(RecordAndEmitType(st, e.id, "STRING"), Var(e.id), "STRING")

VisitStringBinaryOperation(e, st) ==
    IF e.op = "STRING_LT" THEN Error(st)
    ELSE LET lhs == Visit(e.l, NoPromise, st)
             rhs == Visit(e.r, NoPromise, lhs)
         IN  IF ~CheckType(lhs, "STRING") THEN Error(lhs)
             ELSE IF ~CheckType(rhs, "STRING") THEN Error(rhs)
             ELSE Result(rhs, StringTemplate(e.op, lhs.buf, rhs.buf),
                         OpGetType(e.op))

\* The promise created here is not passed to the operand, so it is never
\* kept and the value is always coerced.
VisitStringCoercion(e, st) ==
    LET c == Visit(e.src, NoPromise, st)
    IN  Coercetype(c, c.type, "STRING")

\* CVC4 needs the string to be longer than the position: the length is
\* asserted on its own, before the condition the character is part of.
VisitStringCharAt(e, st) ==
    LET s == VisitStringOperand(e, st)
    IN  IF ~CheckType(s, "STRING") THEN Error(s)
        ELSE Result(Emit(s, Fn(">", <<Fn("str.len", <<s.buf>>), Fn("int", <<e.pos>>)>>)),
                    Fn("str.at", <<s.buf, Fn("int", <<e.pos>>)>>), "STRING")

\* A filter replacing with "" is dropped whatever its pattern (the pattern
\* test ends in "|| true"): the operand's buffer and type flow up, and the
\* promise is passed through.  Any other regex replace is an error.
VisitStringRegexReplace(e, promise, st) ==
    IF e.rep = <<>> THEN Visit(e.src, promise, st) ELSE Error(st)

\* The result is a fresh temporary asserted to be the replace of the
\* operand, by the str.replace function the header defines.
VisitStringReplace(e, st) ==
    LET s == VisitStringOperand(e, st)
        t == NewTemporary(s, "STRING")
    IN  IF ~CheckType(s, "STRING") THEN Error(s)
        ELSE Result(Emit(t, Fn("str.replace", <<Str(e.pattern), Str(e.rep),
                                                  s.buf, LastTemporary(t)>>)),
                    LastTemporary(t), "STRING")

\* The operand is split into three temporaries; a regex the compiler
\* rejects records an error but the visit goes on and the type is BOOL.
VisitStringRegexSubmatch(e, st) ==
    LET s == VisitStringOperand(e, st)
        pre == NewTemporary(s, "STRING")
        match == NewTemporary(pre, "STRING")
        post == NewTemporary(match, "STRING")
        split == Emit(post, Fn("=", <<s.buf, Fn("str.++", <<LastTemporary(pre),
                            LastTemporary(match), LastTemporary(post)>>)>>))
    IN  IF ~CheckType(s, "STRING") THEN Error(s)
        ELSE IF e.pattern \in CompilablePatterns
        THEN Result(split, Fn("str.in.re", <<LastTemporary(match), e.pattern>>),
                    "BOOL")
        ELSE [Error(split) EXCEPT !.type = "BOOL"]

\* Not supported: an error whether or not the operand is a string.
VisitStringRegexSubmatchIndex(e, st) == Error(VisitStringOperand(e, st))

VisitStringLength(e, st) ==
    LET s == VisitStringOperand(e, st)
    IN  IF ~CheckType(s, "STRING") THEN Error(s)
        ELSE Result(s, Fn("str.len", <<s.buf>>), "INT")

\* SMTConstraintWriter::visit(IntegerCoercion*): the operand is visited
\* with a promise to make it an integer; coerce only if it was not kept.
VisitIntegerCoercion(e, st) ==
    LET c == Visit(e.src, "INT", [st EXCEPT !.coerced = FALSE])
    IN  IF c.coerced THEN c ELSE Coercetype(c, c.type, "INT")

VisitIntegerBinaryOperation(e, st) ==
    LET lhs == Visit(e.l, NoPromise, st)
        rhs == Visit(e.r, NoPromise, lhs)
    IN  IF ~CheckType(lhs, "INT") THEN Error(lhs)
        ELSE IF ~CheckType(rhs, "INT") THEN Error(rhs)
        ELSE Result(rhs, Fn("=", <<lhs.buf, rhs.buf>>), "BOOL")

\* CVC4ConstraintWriter::visit(ConstantString*): the constant, between
\* quotes, as a term of sort STRING.
VisitConstantString(e, st) == Result(st, Str(e.v), "STRING")

Visit(e, promise, st) ==
    LET r == CASE e.k = "SymbolicString" -> VisitSymbolicString(e, promise, st)
               [] e.k = "ConstantString" -> VisitConstantString(e, st)
               [] e.k = "ConstantInteger" -> Result(st, Fn("int", <<e.v>>), "INT")
               [] e.k = "StringBinaryOperation" -> VisitStringBinaryOperation(e, st)
               [] e.k = "StringCoercion" -> VisitStringCoercion(e, st)
               [] e.k = "StringCharAt" -> VisitStringCharAt(e, st)
               [] e.k = "StringRegexReplace" -> VisitStringRegexReplace(e, promise, st)
               [] e.k = "StringReplace" -> VisitStringReplace(e, st)
               [] e.k = "StringRegexSubmatch" -> VisitStringRegexSubmatch(e, st)
               [] e.k = "StringRegexSubmatchIndex" -> VisitStringRegexSubmatchIndex(e, st)
               [] e.k = "StringLength" -> VisitStringLength(e, st)
               [] e.k = "IntegerCoercion" -> VisitIntegerCoercion(e, st)
               [] e.k = "IntegerBinaryOperation" -> VisitIntegerBinaryOperation(e, st)
    IN  \* only the forwarding visits report on the caller's promise
        IF e.k \in {"SymbolicString", "StringRegexReplace"} THEN r
        ELSE [r EXCEPT !.coerced = FALSE]

\* SMTConstraintWriter: one condition of the path condition is compiled
\* and asserted equal to the outcome the run took.
VisitCondition(cond, st) ==
    LET s == Visit(cond[1], NoPromise, st)
    IN  IF ~CheckType(s, "BOOL") THEN Error(s)
        ELSE Emit(s, Fn("=", <<s.buf, Bool(cond[2])>>))

-----------------------------------------------------------------------------
Init ==
    /\ pc \in PathConditions
    /\ next = 1
    /\ writer = EmptyWriter
    /\ committed = FALSE
    /\ result = FALSE

WriteCondition ==
    /\ next <= Len(pc)
    /\ writer' = VisitCondition(pc[next], writer)
    /\ next' = next + 1
    /\ UNCHANGED <<pc, committed, result>>

\* commit(): the closing check-sat is written and the error flag reported.
Commit ==
    /\ next > Len(pc)
    /\ ~committed
    /\ committed' = TRUE
    /\ result' = ~writer.err
    /\ UNCHANGED <<pc, next, writer>>

Committed == committed /\ UNCHANGED vars

Next == WriteCondition \/ Commit \/ Committed

Spec == Init /\ [][Next]_vars

-----------------------------------------------------------------------------
(***************************************************************************)
(* Meaning of the document.  A model gives each identifier of the type map *)
(* a value of its sort; strings come from SolverStrings.  str.replace is   *)
(* the function the header of the document defines (preVisitPathConditions *)
(* Hook): its test calls str.contains with the pattern first.  str.in.re   *)
(* and the coercions of coercetype are left uninterpreted.                 *)
(***************************************************************************)
CONSTANT SolverStrings

SolverInts == {0, 1}

\* (str.contains in s) as the header defines it: in = a ++ s ++ b.
HeaderContains(in, s) ==
    \E i \in 0..Len(in) : \E j \in i..Len(in) : SubSeq(in, i + 1, j) = s

\* (str.replace x y s r) as the header defines it.
ReplaceHolds(x, y, s, r) ==
    IF HeaderContains(x, s)
    THEN \/ s = r /\ x = y
         \/ \E i \in 0..Len(s) - Len(x) :
               /\ SubSeq(s, i + 1, i + Len(x)) = x
               /\ r = SubSeq(s, 1, i) \o y \o SubSeq(s, i + Len(x) + 1, Len(s))
    ELSE s = r

RECURSIVE Interpreted(_)
Interpreted(t) ==
    CASE t.k \in {"var", "str", "bool", "int"} -> TRUE
      [] t.k \in {"str.in.re", "coerce"} -> FALSE
      [] OTHER -> \A i \in 1..Len(t.args) : Interpreted(t.args[i])

RECURSIVE EvalT(_, _)
EvalT(t, m) ==
    LET a(i) == EvalT(t.args[i], m)
    IN  CASE t.k = "var" -> m[t.id]
          [] t.k \in {"str", "bool"} -> t.v
          [] t.k = "int" -> t.args[1]
          [] t.k = "str.++" ->
                FoldLeft(LAMBDA x, y : x \o y, <<>>,
                         [i \in 1..Len(t.args) |-> a(i)])
          [] t.k = "=" -> a(1) = a(2)
          [] t.k = ">" -> a(1) > a(2)
          [] t.k = "str.len" -> Len(a(1))
          [] t.k = "str.at" ->
                IF a(2) < Len(a(1)) THEN <<a(1)[a(2) + 1]>> ELSE <<>>
          [] t.k = "str.replace" -> ReplaceHolds(a(1), a(2), a(3), a(4))

DocHolds(doc, m) == \A i \in 1..Len(doc) : EvalT(doc[i], m)

\* The models of a type map.
Models(tm) ==
    LET ints == {id \in DOMAIN tm : tm[id] = "INT"}
    IN  {f @@ g : f \in [ints -> SolverInts],
                  g \in [DOMAIN tm \ ints -> SolverStrings]}

\* The inputs the runtime builds from a model: integers are written out.
InputOf(m, tm) ==
    [id \in DOMAIN m \ ToSet(Temporaries) |->
        IF tm[id] = "INT" THEN Decimal(m[id]) ELSE m[id]]

-----------------------------------------------------------------------------
(* Properties.                                                             *)

TypeOK ==
    /\ next \in 1..Len(pc) + 1
    /\ writer.tm \in [DOMAIN writer.tm -> Sorts]
    /\ writer.type \in Sorts
    /\ writer.err \in BOOLEAN
    /\ writer.tmp \in 0..Len(Temporaries)
    /\ committed \in BOOLEAN /\ result \in BOOLEAN

\* commit() succeeds exactly when the path condition is well sorted by the
\* reference sort system: no unsupported operation, operands of the sort
\* each operation checks, boolean conditions, and every identifier at one
\* sort across all conditions, a coercion promise kept by a symbolic
\* string counting as an integer use.  It is about the early returns of
\* the visits, the errors that let a visit go on, and the type map the
\* conditions share.
CommitAsReference ==
    committed => result = RefCompiles(pc, CompilablePatterns)

\* Every model of a committed document drives the run down the path: the
\* inputs the runtime builds from it make every condition take its
\* recorded outcome.  It is about the templates, the coercion promise, the
\* length assertion of charAt, the dropped regex filters and the
\* str.replace definition; documents with uninterpreted terms are skipped.
SoundDocument ==
    (committed /\ result /\ \A i \in 1..Len(writer.doc) : Interpreted(writer.doc[i]))
        => \A m \in Models(writer.tm) :
              DocHolds(writer.doc, m) => PCHolds(pc, InputOf(m, writer.tm))

\* A committed document over string inputs only and without temporaries
\* has every input that follows the path as a model: an unsat answer means
\* the path is infeasible, as markNodeUnsat assumes.  It is about the
\* assertions a visit writes beside the condition (charAt).
CompleteDocument ==
    (/\ committed /\ result
     /\ writer.tmp = 0
     /\ \A id \in DOMAIN writer.tm : writer.tm[id] = "STRING"
     /\ \A i \in 1..Len(writer.doc) : Interpreted(writer.doc[i]))
        => \A in \in [DOMAIN writer.tm -> SolverStrings] :
              PCHolds(pc, in) => DocHolds(writer.doc, in)
=============================================================================
