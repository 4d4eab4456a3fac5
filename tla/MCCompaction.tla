---------------------------- MODULE MCCompaction ----------------------------
(***************************************************************************)
(* An instance of Compaction for TLC: the names, facts and rules of MCEngine   *)
(* with rules whose order by name is not the order they are added in.         *)
(***************************************************************************)
EXTENDS Compaction

MCToken == 1 .. 9
MCVar   == {-3, -2, -1}

reaches == 5
follows == 6

fact(x, y, pol) == [atom |-> [from |-> x, pred |-> reaches, to |-> y], pol |-> pol,
                    src |-> [rule |-> FALSE, name |-> 9]]

resolve(x, y, pol) == [atom |-> [from |-> x, pred |-> reaches, to |-> y], pol |-> pol]

pattern(x, p, y) == [from |-> x, pred |-> p, to |-> y]

transitive == [name |-> 8, if |-> <<pattern(-1, reaches, -2), pattern(-2, reaches, -3)>>,
               then |-> pattern(-1, reaches, -3)]

inverse == [name |-> 7, if |-> <<pattern(-1, reaches, -2)>>, then |-> pattern(-2, follows, -1)]

facts       == {fact(1, 2, "+"), fact(2, 3, "+")}
resolved    == {resolve(1, 2, "-")}
ruleChoices == {transitive, inverse}

patterns     == [from : {Empty, 1}, pred : {reaches}, to : {Empty, -1}]
codecRules   == [name : {7}, if : UNION {[1 .. n -> patterns] : n \in 0 .. 2}, then : patterns]
codecBeliefs == [atom : [from : {Empty, 1}, pred : {reaches}, to : {Empty, 2}],
                 pol : Polarity, src : {Empty, 9}, time : {0, 3}]
=============================================================================
