----------------------------- MODULE SymbolicExpr -----------------------------
(***************************************************************************)
(* The symbolic expressions of JavaScriptCore/symbolic/expression that    *)
(* the constraint writer compiles: immutable trees built by the engine     *)
(* while it runs the page.  An expression is a record whose field k names  *)
(* its class; the other fields are the class's members.  A string value   *)
(* is a sequence of one-character strings.                                 *)
(*                                                                         *)
(* The second half of the module gives the meaning the expressions have in *)
(* the JavaScript run (Eval) and a declarative sort system (RefSort,       *)
(* RefOk, RefUses); both are references the writer is checked against,     *)
(* not translations of code.                                               *)
(***************************************************************************)
EXTENDS Integers, Sequences, SequencesExt, FiniteSets

Sorts == {"INT", "STRING", "BOOL"}

\* Symbolic::StringBinaryOperation operators, in the order of the enum the
\* writer's template tables are indexed by; LT stands for the operators
\* without a template ("_").
StringOps == {"CONCAT", "STRING_EQ", "STRING_NEQ", "STRING_LT",
              "STRING_SEQ", "STRING_SNEQ"}

SymbolicString(id) == [k |-> "SymbolicString", id |-> id]
ConstantString(v) == [k |-> "ConstantString", v |-> v]
ConstantInteger(v) == [k |-> "ConstantInteger", v |-> v]
StringBinaryOperation(op, l, r) ==
    [k |-> "StringBinaryOperation", op |-> op, l |-> l, r |-> r]
IntegerBinaryOperation(op, l, r) ==
    [k |-> "IntegerBinaryOperation", op |-> op, l |-> l, r |-> r]
StringCoercion(e) == [k |-> "StringCoercion", src |-> e]
IntegerCoercion(e) == [k |-> "IntegerCoercion", src |-> e]
StringCharAt(e, pos) == [k |-> "StringCharAt", src |-> e, pos |-> pos]
StringRegexReplace(e, pattern, rep) ==
    [k |-> "StringRegexReplace", src |-> e, pattern |-> pattern, rep |-> rep]
StringReplace(e, pattern, rep) ==
    [k |-> "StringReplace", src |-> e, pattern |-> pattern, rep |-> rep]
StringRegexSubmatch(e, pattern) ==
    [k |-> "StringRegexSubmatch", src |-> e, pattern |-> pattern]
StringRegexSubmatchIndex(e, pattern) ==
    [k |-> "StringRegexSubmatchIndex", src |-> e, pattern |-> pattern]
StringLength(e) == [k |-> "StringLength", src |-> e]

Unary == {"StringCoercion", "IntegerCoercion", "StringCharAt",
          "StringRegexReplace", "StringReplace", "StringRegexSubmatch",
          "StringRegexSubmatchIndex", "StringLength"}
Binary == {"StringBinaryOperation", "IntegerBinaryOperation"}

-----------------------------------------------------------------------------
(* JavaScript meaning of an expression, for the input strings `in`.        *)

\* NaN.  The model's strings only hold the digits 0 and 1, so no number is
\* negative and -1 can stand for NaN.
NaN == -1

\* The characters the regex filter patterns of the model remove, each
\* pattern a global one-character class ("/ /g" removes every space).
RegexRemoves(pattern) == IF pattern = "/ /g" THEN " " ELSE "a"

\* ToNumber on a string: leading and trailing spaces are ignored, the
\* empty string is 0, a run of the digits 0 and 1 is its decimal value, the
\* rest (a space between digits included) NaN.
ToNumber(s) ==
    LET inner == {i \in 1..Len(s) : s[i] # " "}
        first == CHOOSE i \in inner : \A j \in inner : i <= j
        last  == CHOOSE i \in inner : \A j \in inner : j <= i
        t == IF inner = {} THEN <<>> ELSE SubSeq(s, first, last)
        digit(c) == IF c = "0" THEN 0 ELSE 1
        val[i \in 0..Len(t)] == IF i = 0 THEN 0 ELSE 10 * val[i - 1] + digit(t[i])
    IN  IF \A i \in 1..Len(t) : t[i] \in {"0", "1"} THEN val[Len(t)] ELSE NaN

\* The decimal string of 0 or 1: the input the runtime builds from an
\* integer in the solver's model.
Decimal(n) == IF n = 0 THEN <<"0">> ELSE <<"1">>

\* String.prototype.replace with a string pattern: the first occurrence.
ReplaceFirst(s, pattern, rep) ==
    LET at == {i \in 0..Len(s) - Len(pattern) :
                 SubSeq(s, i + 1, i + Len(pattern)) = pattern}
        i == Min(at)
    IN  IF at = {} THEN s
        ELSE SubSeq(s, 1, i) \o rep \o SubSeq(s, i + Len(pattern) + 1, Len(s))

RECURSIVE Eval(_, _)
Eval(e, in) ==
    CASE e.k = "SymbolicString" -> in[e.id]
      [] e.k = "ConstantString" -> e.v
      [] e.k = "ConstantInteger" -> e.v
      [] e.k = "StringBinaryOperation" ->
            LET l == Eval(e.l, in)  r == Eval(e.r, in)
            IN  CASE e.op = "CONCAT" -> l \o r
                  [] e.op \in {"STRING_EQ", "STRING_SEQ"} -> l = r
                  [] OTHER -> l # r
      [] e.k = "IntegerBinaryOperation" ->
            LET l == Eval(e.l, in)  r == Eval(e.r, in)
            IN  l # NaN /\ l = r
      [] e.k = "StringCoercion" -> Eval(e.src, in)
      [] e.k = "IntegerCoercion" -> ToNumber(Eval(e.src, in))
      [] e.k = "StringCharAt" ->
            LET s == Eval(e.src, in)
            IN  IF e.pos < Len(s) THEN <<s[e.pos + 1]>> ELSE <<>>
      [] e.k = "StringRegexReplace" ->
            SelectSeq(Eval(e.src, in), LAMBDA c : c # RegexRemoves(e.pattern))
      [] e.k = "StringReplace" -> ReplaceFirst(Eval(e.src, in), e.pattern, e.rep)
      [] e.k = "StringLength" -> Len(Eval(e.src, in))

\* The run with inputs `in` follows the path condition: every branch
\* condition evaluates to its recorded outcome.
PCHolds(pc, in) == \A j \in 1..Len(pc) : Eval(pc[j][1], in) = pc[j][2]

-----------------------------------------------------------------------------
(* Reference sort system.  `promised` says that the expression is the     *)
(* operand of an integer coercion, reached through regex filters only.     *)

RECURSIVE RefSort(_, _)
RefSort(e, promised) ==
    CASE e.k = "SymbolicString" -> IF promised THEN "INT" ELSE "STRING"
      [] e.k = "StringRegexReplace" -> RefSort(e.src, promised)
      [] e.k \in {"ConstantInteger", "IntegerCoercion", "StringLength"} -> "INT"
      [] e.k = "StringBinaryOperation" /\ e.op = "CONCAT" -> "STRING"
      [] e.k \in {"StringBinaryOperation", "IntegerBinaryOperation",
                  "StringRegexSubmatch"} -> "BOOL"
      [] OTHER -> "STRING"

Children(e) ==
    IF e.k \in Binary THEN <<e.l, e.r>>
    ELSE IF e.k \in Unary THEN <<e.src>> ELSE <<>>

\* The identifiers an expression uses and the sort each use asks for.
RECURSIVE RefUses(_, _)
RefUses(e, promised) ==
    CASE e.k = "SymbolicString" -> {<<e.id, RefSort(e, promised)>>}
      [] e.k = "StringRegexReplace" -> RefUses(e.src, promised)
      [] e.k = "IntegerCoercion" -> RefUses(e.src, TRUE)
      [] OTHER -> UNION {RefUses(c, FALSE) : c \in ToSet(Children(e))}

\* Each operation is supported and gets operands of the sort it needs.
RECURSIVE RefOk(_, _)
RefOk(e, compilable) ==
    /\ \A c \in ToSet(Children(e)) : RefOk(c, compilable)
    /\ CASE e.k = "StringBinaryOperation" ->
              e.op # "STRING_LT" /\ RefSort(e.l, FALSE) = "STRING"
                                 /\ RefSort(e.r, FALSE) = "STRING"
         [] e.k = "IntegerBinaryOperation" ->
              RefSort(e.l, FALSE) = "INT" /\ RefSort(e.r, FALSE) = "INT"
         [] e.k \in {"StringCharAt", "StringReplace", "StringLength"} ->
              RefSort(e.src, FALSE) = "STRING"
         [] e.k = "StringRegexSubmatch" ->
              RefSort(e.src, FALSE) = "STRING" /\ e.pattern \in compilable
         [] e.k = "StringRegexSubmatchIndex" -> FALSE
         [] e.k = "StringRegexReplace" -> e.rep = <<>>
         [] OTHER -> TRUE

\* A path condition is compilable when every condition is well sorted and
\* boolean, and each identifier is used at one sort only.
RefCompiles(pc, compilable) ==
    LET uses == UNION {RefUses(pc[j][1], FALSE) : j \in 1..Len(pc)}
    IN  /\ \A j \in 1..Len(pc) : RefOk(pc[j][1], compilable)
                                 /\ RefSort(pc[j][1], FALSE) = "BOOL"
        /\ \A u, w \in uses : u[1] = w[1] => u[2] = w[2]
=============================================================================
