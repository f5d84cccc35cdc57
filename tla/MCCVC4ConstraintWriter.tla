------------------------ MODULE MCCVC4ConstraintWriter ------------------------
(***************************************************************************)
(* Path conditions for checking the constraint writer.  Two inputs, x and  *)
(* y; conditions are built from the operations the visitor handles, with  *)
(* operands of the right and of the wrong sort, and a path condition has   *)
(* one or two conditions so that the type map is shared between them.     *)
(***************************************************************************)
EXTENDS CVC4ConstraintWriter

X == SymbolicString("x")
Y == SymbolicString("y")
A == ConstantString(<<"a">>)
Empty == ConstantString(<<>>)
Zero == ConstantInteger(0)
One == ConstantInteger(1)
XY == StringBinaryOperation("CONCAT", X, Y)

StrEq(l, r) == StringBinaryOperation("STRING_EQ", l, r)
IntEq(l, r) == IntegerBinaryOperation("INT_EQ", l, r)

\* Path conditions of one condition with either outcome, and of two where
\* the second is one of `probes` taken true.
PathConditionsOf(conds, probes) ==
    {<<<<c, b>>>> : c \in conds, b \in BOOLEAN}
    \cup {<<<<c, b>>, <<p, TRUE>>>> : c \in conds, b \in BOOLEAN, p \in probes}

\* Strings over "a" and space of length at most 2, and the digit 1.
MCSolverStrings ==
    {s \in BoundedSeq({"a", " "}, 2) : TRUE} \cup {<<"1">>}

MCTemporaries == <<"t0", "t1", "t2", "t3", "t4", "t5">>

MCCompilablePatterns == {"/a+/"}

(* Every operation, with operands of each sort. *)
StrOperands(e) ==
    {e, StringCoercion(e), StringCharAt(e, 0),
     StringRegexReplace(e, "/ /g", <<>>), StringRegexReplace(e, "/ /g", <<"a">>),
     StringReplace(e, <<"a">>, <<"b">>), StringCoercion(StringLength(e))}

SortOperands == StrOperands(X) \cup StrOperands(A) \cup {StringLength(Y), XY}

SortConditions ==
    {StringBinaryOperation(op, l, r) :
        op \in {"STRING_EQ", "STRING_NEQ", "STRING_LT", "STRING_SEQ"},
        l \in SortOperands, r \in {A, Y}}
    \cup {IntEq(i, Zero) :
            i \in {IntegerCoercion(X), IntegerCoercion(StringRegexReplace(X, "/ /g", <<>>)),
                   StringLength(X), IntegerCoercion(StringCoercion(X)),
                   IntegerCoercion(IntegerCoercion(X)), IntegerCoercion(XY), X}}
    \cup {StringRegexSubmatch(X, "/a+/"), StringRegexSubmatch(X, "/(/"),
          StringRegexSubmatchIndex(X, "/a+/"), XY}

SortProbes ==
    {StrEq(X, A), IntEq(IntegerCoercion(X), Zero), StringRegexSubmatch(Y, "/a+/")}

MCSortPathConditions == PathConditionsOf(SortConditions, SortProbes)

(* The operations whose document is interpreted, without regex filters and *)
(* replace.                                                                 *)
SoundOperands ==
    {X, Y, A, Empty, StringCoercion(X), StringCharAt(X, 0), StringCharAt(X, 1),
     StringBinaryOperation("CONCAT", X, A)}

SoundConditions ==
    {StringBinaryOperation(op, l, r) :
        op \in {"STRING_EQ", "STRING_NEQ", "STRING_SEQ", "STRING_SNEQ"},
        l \in SoundOperands, r \in {A, Empty, Y}}
    \cup {IntEq(i, c) : i \in {IntegerCoercion(X), StringLength(X), IntegerCoercion(Y)},
                        c \in {Zero, One}}

SoundProbes ==
    {StrEq(X, A), IntEq(IntegerCoercion(X), One), StrEq(StringCharAt(Y, 0), A)}

MCSoundPathConditions == PathConditionsOf(SoundConditions, SoundProbes)

(* Regex filters, replace and charAt, for the runs that look for models   *)
(* that miss the path and paths without a model.                          *)
MCRegexPathConditions ==
    PathConditionsOf({StrEq(StringRegexReplace(X, p, <<>>), r) :
                        p \in {"/ /g", "/a/g"}, r \in {A, Empty}}, {})

MCReplacePathConditions ==
    PathConditionsOf({StrEq(StringReplace(X, <<"a">>, <<" ">>), r) :
                        r \in {A, Empty, Y}}, {})

MCCharAtPathConditions ==
    PathConditionsOf({StrEq(StringCharAt(X, p), r) : p \in {0, 1}, r \in {A, Empty}}, {})
=============================================================================
