------------------------------- MODULE Rules -------------------------------
(***************************************************************************)
(* pkg/rules and the data types of pkg/belief: atoms, patterns with         *)
(* variables, and what one rule derives from a set of edges.                *)
(*                                                                          *)
(* Every string of the program is an integer here, so that the string order *)
(* the code sorts by is <: the non-empty names are the positive integers of *)
(* Token, the empty string is Empty and a name that starts with ? is a       *)
(* negative integer of Var.                                                 *)
(***************************************************************************)
EXTENDS Integers, FiniteSets, Sequences

CONSTANTS
  Token,    \* the non-empty names: nodes, predicates, rule names, sources
  Var       \* the variables rules may use

ASSUME NamesAssumption == Token \subseteq Nat \ {0} /\ Var \subseteq Int \ Nat

Empty == 0
Term  == Token \cup Var \cup {Empty}

Atom        == [from : Token, pred : Token, to : Token]
AtomPattern == [from : Term, pred : Term, to : Term]
Rule        == [name : Token, if : Seq(AtomPattern) \ {<< >>}, then : AtomPattern]

IsVar(s) == s \in Var

VarsOf(p) == {s \in {p.from, p.pred, p.to} : IsVar(s)}

PremiseVars(r) == UNION {VarsOf(r.if[i]) : i \in DOMAIN r.if}

NamesIn(edges) == UNION {{e.from, e.pred, e.to} : e \in edges}

Ground(s, binds) == IF IsVar(s) THEN binds[s] ELSE s

Apply(p, binds) == [from |-> Ground(p.from, binds),
                    pred |-> Ground(p.pred, binds),
                    to   |-> Ground(p.to, binds)]

(***************************************************************************)
(* The bindings that turn every premise into an edge: what unification      *)
(* accumulates along a path of the depth-first search.  A conclusion with a  *)
(* variable no premise binds is never derived.                              *)
(***************************************************************************)
Matches(r, edges) ==
  {binds \in [PremiseVars(r) -> NamesIn(edges)] :
     /\ VarsOf(r.then) \subseteq PremiseVars(r)
     /\ \A i \in DOMAIN r.if : Apply(r.if[i], binds) \in edges}

Derivation(r, binds) == [then |-> Apply(r.then, binds),
                         prem |-> [i \in DOMAIN r.if |-> Apply(r.if[i], binds)]]

Derivations(r, edges) == {Derivation(r, binds) : binds \in Matches(r, edges)}

(***************************************************************************)
(* The orders the code sorts by: atoms by from, predicate, to; premise lists *)
(* of one rule position by position; derivations by conclusion first.       *)
(***************************************************************************)
AtomLess(a, b) ==
  \/ a.from < b.from
  \/ a.from = b.from /\ a.pred < b.pred
  \/ a.from = b.from /\ a.pred = b.pred /\ a.to < b.to

PremisesLess(p, q) ==
  \E k \in DOMAIN p : /\ AtomLess(p[k], q[k])
                      /\ \A j \in 1 .. k - 1 : p[j] = q[j]

DerivationLess(d, e) ==
  \/ AtomLess(d.then, e.then)
  \/ d.then = e.then /\ PremisesLess(d.prem, e.prem)

(***************************************************************************)
(* EvaluateRuleDerivationsIndexed: the search walks the edges in order and   *)
(* stops at max results, so it returns the first max derivations in the      *)
(* order of their premises, whether or not they are already known.          *)
(***************************************************************************)
EvaluateRule(r, edges, max) ==
  LET all == Derivations(r, edges)
  IN  {d \in all : Cardinality({e \in all : PremisesLess(e.prem, d.prem)}) < max}
=============================================================================
