----------------------------- MODULE MCRuleEval -----------------------------
(***************************************************************************)
(* Rules and edges for RuleEval: a chain with a shortcut, an edge whose        *)
(* predicate is a lone ?, and rules with a constant, a free, a repeated and a  *)
(* bound predicate.                                                         *)
(***************************************************************************)
EXTENDS Suggest

MCToken == 1 .. 6
MCVar   == {-3, -2, -1}
lone    == 5

x == -1
y == -2
z == -3

pattern(f, p, t) == [from |-> f, pred |-> p, to |-> t]

rule1(premise, then) == [name |-> 6, if |-> <<premise>>, then |-> then]
rule2(first, second, then) == [name |-> 6, if |-> <<first, second>>, then |-> then]

MCRules ==
  {rule2(pattern(-1, 4, -2), pattern(-2, 4, -3), pattern(-1, 4, -3)),    \* constant predicate
   rule2(pattern(-1, -2, -3), pattern(-3, -2, -1), pattern(-3, -2, -3)), \* predicate bound before
   rule2(pattern(-1, 4, -2), pattern(-1, -3, -2), pattern(-2, -3, 1)),   \* predicate free
   rule2(pattern(-1, 4, -3), pattern(-2, 4, -3), pattern(-3, 4, 1)),     \* many proofs of one atom
   rule2(pattern(-3, 4, -1), pattern(-3, -1, -2), pattern(-1, 4, -2)),   \* a node as predicate
   rule1(pattern(-1, lone, -2), pattern(-2, 4, -1)),                     \* lone ?
   rule1(pattern(-1, 4, -1), pattern(-2, 4, -1))}                        \* unbound conclusion

MCEdges == {pattern(1, 4, 2), pattern(2, 4, 1), pattern(1, 4, 3), pattern(2, 4, 3),
            pattern(3, 4, 3), pattern(1, lone, 2), pattern(1, 3, 2)}
=============================================================================
