------------------------------ MODULE Suggest ------------------------------
(***************************************************************************)
(* pkg/ilp: SuggestTransitive, which proposes a transitive rule for every     *)
(* predicate with enough chains of two edges among the facts of the graph.   *)
(***************************************************************************)
EXTENDS RuleEval

CONSTANTS
  X, Y, Z,          \* the variables ?x, ?y and ?z of a suggested rule
  TransitiveName    \* the name it gets, whatever its predicate

ASSUME SuggestAssumption ==
  {X, Y, Z} \subseteq Var /\ Cardinality({X, Y, Z}) = 3 /\ TransitiveName \in Token

Adjacent(p, a, es) == {e.to : e \in {d \in es : d.pred = p /\ d.from = a}}

\* Faulty: chains are told apart by their two ends.
ChainEnds(p, es) ==
  UNION {{<<e.from, c>> : c \in Adjacent(p, e.to, es)} : e \in {d \in es : d.pred = p}}

Chains(p, es) ==
  UNION {{<<e.from, e.to, c>> : c \in Adjacent(p, e.to, es)} : e \in {d \in es : d.pred = p}}

TransitiveRule(p) ==
  [name |-> TransitiveName,
   if   |-> <<[from |-> X, pred |-> p, to |-> Y], [from |-> Y, pred |-> p, to |-> Z]>>,
   then |-> [from |-> X, pred |-> p, to |-> Z]]

SuggestTransitive(es, minChains) ==
  {TransitiveRule(p) : p \in {q \in {e.pred : e \in es} :
                                Cardinality(Chains(q, es)) >= Max({minChains, 1})}}

-----------------------------------------------------------------------------
(***************************************************************************)
(* The chains counted are the derivations the suggested rule makes: a rule is *)
(* proposed exactly when adding it would apply it that often at once.         *)
(* Loops, edges walked twice and a name that is both node and predicate are   *)
(* among the facts.                                                         *)
(***************************************************************************)
SuggestionsApply ==
  pc = "start" =>
    \A p \in {e.pred : e \in edges} :
      \E made \in {Cardinality(Derivations(TransitiveRule(p), edges))} :
        \A minChains \in 0 .. 6 :
          TransitiveRule(p) \in SuggestTransitive(edges, minChains)
            <=> made > 0 /\ made >= minChains
=============================================================================
