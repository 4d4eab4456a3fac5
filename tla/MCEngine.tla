------------------------------ MODULE MCEngine ------------------------------
(***************************************************************************)
(* Instances of Engine for TLC: three nodes, two predicates, two rule names   *)
(* and one caller.                                                          *)
(***************************************************************************)
EXTENDS Engine

MCToken == 1 .. 9
MCVar   == {-3, -2, -1}

reaches == 5
follows == 6

fact(x, y, pol) == [atom |-> [from |-> x, pred |-> reaches, to |-> y], pol |-> pol,
                    src |-> [rule |-> FALSE, name |-> 9]]

resolve(x, y, pol) == [atom |-> [from |-> x, pred |-> reaches, to |-> y], pol |-> pol]

pattern(x, p, y) == [from |-> x, pred |-> p, to |-> y]

\* ?x reaches ?y, ?y reaches ?z => ?x reaches ?z
transitive == [name |-> 7, if |-> <<pattern(-1, reaches, -2), pattern(-2, reaches, -3)>>,
               then |-> pattern(-1, reaches, -3)]

\* ?x reaches ?y => ?y follows ?x
inverse == [name |-> 8, if |-> <<pattern(-1, reaches, -2)>>, then |-> pattern(-2, follows, -1)]

\* ?x reaches ?y => ?x follows (nothing)
conclusionOpen == [name |-> 8, if |-> <<pattern(-1, reaches, -2)>>,
                   then |-> pattern(-1, follows, Empty)]

chain      == {fact(1, 2, "+"), fact(2, 3, "+")}
chainOrNot == chain \cup {fact(1, 3, "-")}

\* With the transitive rule, 1 and 2 reach themselves, and each of these facts
\* then supports itself through the others.
loop == {fact(1, 2, "+"), fact(2, 1, "+"), fact(2, 3, "+")}

\* A caller that names its source rule:7.
disguised == {[fact(1, 2, "+") EXCEPT !.src = [rule |-> TRUE, name |-> 7]]}

premiseFlips == {resolve(1, 2, "-"), resolve(1, 2, "+")}
flips        == premiseFlips \cup {resolve(1, 3, "-")}

one      == {transitive}
back     == {inverse}
open     == {conclusionOpen}
withOpen == one \cup open
none     == {}
=============================================================================
