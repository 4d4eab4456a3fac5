----------------------------- MODULE MCReaders -----------------------------
(* An instance of Readers for TLC: two nodes and facts that prove themselves. *)
EXTENDS Readers

MCToken == {1, 2, 5, 7, 9}
MCVar   == {-3, -2, -1}

reaches == 5

edge(x, y) == [from |-> x, pred |-> reaches, to |-> y]

there    == [atom |-> edge(1, 2), pol |-> "+", src |-> [rule |-> FALSE, name |-> 9]]
andBack  == [there EXCEPT !.atom = edge(2, 1)]
noCircle == [there EXCEPT !.atom = edge(1, 1), !.pol = "-"]

circle == {there, andBack, noCircle}
denial == {[atom |-> edge(1, 2), pol |-> "-"]}

pattern(x, y) == [from |-> x, pred |-> reaches, to |-> y]

\* ?x reaches ?y, ?y reaches ?z => ?x reaches ?z
transitive == {[name |-> 7, if |-> <<pattern(-1, -2), pattern(-2, -3)>>, then |-> pattern(-1, -3)]}

askedFor == {edge(1, 1), edge(1, 2)}
root     == {edge(1, 1)}
deep     == {3}
=============================================================================
