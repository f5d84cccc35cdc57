----------------------------- MODULE MCSearchDFS -----------------------------
(***************************************************************************)
(* Model-checking instance of SearchDFS: the search is run against every   *)
(* program tree of a bounded height built from the four node kinds.        *)
(***************************************************************************)
EXTENDS SearchDFS

\* Prefix every position of tree t with direction d.
Shift(d, t) == [q \in {<<d>> \o x : x \in DOMAIN t} |-> t[Tail(q)]]

\* Join a root of kind k with the subtrees given for each child index.
Node(k, subs) ==
    LET dom == {<<>>} \cup UNION {DOMAIN Shift(d, subs[d]) : d \in DOMAIN subs}
    IN  [q \in dom |-> IF q = <<>> THEN k ELSE subs[q[1]][Tail(q)]]

\* Every program tree of height at most h whose inner nodes are of the
\* given kinds (an end node has height 0).
RECURSIVE Trees(_, _)
Trees(h, kinds) ==
    LET leaf == {[q \in {<<>>} |-> "end"]}
    IN  IF h = 0 THEN leaf
        ELSE LET sub == Trees(h - 1, kinds)
             IN  leaf
                 \cup (IF "ann" \in kinds
                       THEN {Node("ann", (2 :> s)) : s \in sub} ELSE {})
                 \cup {Node(k, (0 :> f) @@ (1 :> t)) :
                          k \in kinds \ {"ann"}, f \in sub, t \in sub}

\* Every program of height at most 3 with at most four complete runs.
MCPrograms == {t \in Trees(3, Kinds \ {"end"}) : Cardinality(Runs(t)) <= 4}

\* Every program of height at most 2, for the liveness check.
MCSmallPrograms == Trees(2, Kinds \ {"end"})
=============================================================================
