------------------------------ MODULE RuleEval ------------------------------
(***************************************************************************)
(* pkg/rules: the depth-first search behind EvaluateRule,                    *)
(* EvaluateRuleDerivations and EvaluateRuleDerivationsIndexed, one candidate   *)
(* edge per step.  The three differ in the candidates they try and in whether *)
(* they drop what they have seen.                                           *)
(***************************************************************************)
EXTENDS Rules, Ascending, SequencesExt

CONSTANTS
  Question,     \* the name that is a lone ?, which is no variable
  SearchRules,  \* the rules evaluated
  SearchEdges,  \* the edges they are evaluated on
  MaxResults    \* bound: the largest max

ASSUME SearchAssumption ==
  /\ Question \in Token /\ SearchRules \subseteq Rule /\ SearchEdges \subseteq Atom
  /\ IsFiniteSet(SearchEdges) /\ MaxResults \in Nat \ {0}

VARIABLES
  kind,   \* plain, derivations or indexed
  rule, edges, max,
  path,   \* one frame per premise being matched: the bindings so far and the candidates left
  out,    \* the derivations found, sorted when the search is over
  pc

vars == <<kind, rule, edges, max, path, out, pc>>

-----------------------------------------------------------------------------
\* The bindings that make p equal to v: one, or none.
Unify(p, v, b) ==
  CASE IsVar(p) /\ p \notin DOMAIN b             -> {[w \in DOMAIN b \cup {p} |-> IF w = p THEN v ELSE b[w]]}
    [] IsVar(p) /\ p \in DOMAIN b /\ b[p] = v    -> {b}
    [] IsVar(p) /\ p \in DOMAIN b /\ b[p] # v    -> {}
    [] ~IsVar(p) /\ p = v                        -> {b}
    [] ~IsVar(p) /\ p # v                        -> {}

MatchAtom(p, e, b) ==
  UNION {UNION {Unify(p.to, e.to, d) : d \in Unify(p.pred, e.pred, c)} : c \in Unify(p.from, e.from, b)}

\* Faulty: edges are sorted by target first.
ByTarget(es) == SetSorted(es, LAMBDA d, e : d.to < e.to \/ (d.to = e.to /\ AtomLess(d, e)))

\* The edges as edgesToView and BuildPredicateIndex sort them.
EdgesInOrder(es) == SetSorted(es, AtomLess)

Bucket(pred) == EdgesInOrder({e \in edges : e.pred = pred})

\* Faulty: a bound variable is looked up by its name.
CandidatesUnbound(p, b) ==
  IF p.pred \in Var \cup {Question} /\ p.pred \notin DOMAIN b THEN EdgesInOrder(edges) ELSE Bucket(p.pred)

\* The index takes every name that starts with ? for a variable.
CandidatesFor(p, b) ==
  CASE p.pred \in DOMAIN b                                       -> Bucket(b[p.pred])
    [] p.pred \notin DOMAIN b /\ p.pred \in Var \cup {Question}  -> EdgesInOrder(edges)
    [] p.pred \notin DOMAIN b /\ p.pred \notin Var \cup {Question} -> Bucket(p.pred)

Frame(b, i) ==
  [binds |-> b,
   cands |-> IF kind = "indexed" THEN CandidatesFor(rule.if[i], b) ELSE EdgesInOrder(edges)]

NoBinds == [v \in {} |-> Empty]

-----------------------------------------------------------------------------
Init ==
  /\ kind \in {"plain", "derivations", "indexed"}
  /\ rule \in SearchRules /\ edges \in SUBSET SearchEdges /\ max \in 1 .. MaxResults
  /\ path = << >> /\ out = << >> /\ pc = "start"

Start == /\ pc = "start" /\ pc' = "search"
         /\ path' = <<Frame(NoBinds, 1)>>
         /\ UNCHANGED <<kind, rule, edges, max, out>>

Full == Len(out) >= max

Top == Last(path)
Advanced == Front(path) \o <<[Top EXCEPT !.cands = Tail(@)]>>

\* All premises are matched: apply the bindings and keep what is new.
Emit(b) ==
  LET d == Derivation(rule, b)
  IN  out' = IF VarsOf(rule.then) \subseteq DOMAIN b /\ (kind = "plain" \/ ~Contains(out, d))
               THEN Append(out, d) ELSE out

TryNext ==
  /\ pc = "search" /\ ~Full /\ path # << >> /\ Top.cands # << >>
  /\ LET i == Len(path)
         found == MatchAtom(rule.if[i], Head(Top.cands), Top.binds)
     IN  \/ found = {} /\ path' = Advanced /\ UNCHANGED out
         \/ \E b \in found :
              \/ i = Len(rule.if) /\ Emit(b) /\ path' = Advanced
              \/ i < Len(rule.if) /\ path' = Append(Advanced, Frame(b, i + 1)) /\ UNCHANGED out
  /\ UNCHANGED <<kind, rule, edges, max, pc>>

Backtrack ==
  /\ pc = "search" /\ ~Full /\ path # << >> /\ Top.cands = << >>
  /\ path' = Front(path)
  /\ UNCHANGED <<kind, rule, edges, max, out, pc>>

\* Faulty: by premises, the order they are found in.
ByPremises(d, e) == PremisesLess(d.prem, e.prem)

\* EvaluateRule keeps no premises to tell ties apart by.
ResultLess(d, e) == IF kind = "plain" THEN AtomLess(d.then, e.then) ELSE DerivationLess(d, e)

Finish ==
  /\ pc = "search" /\ (Full \/ path = << >>)
  /\ out' = Sorted(out, ResultLess)
  /\ path' = << >> /\ pc' = "done"
  /\ UNCHANGED <<kind, rule, edges, max>>

Done == pc = "done" /\ UNCHANGED vars

Next == Start \/ TryNext \/ Backtrack \/ Finish \/ Done

Spec == Init /\ [][Next]_vars

-----------------------------------------------------------------------------
(***************************************************************************)
(* The three searches find the same derivations: the first max in the order   *)
(* of their premises, which is what Engine takes them to find.  An index that *)
(* looks in the wrong bucket, a variable bound twice or a limit off by one     *)
(* would show here.                                                         *)
(***************************************************************************)
SearchIsReference ==
  pc = "done" => ToSet(out) = EvaluateRule(rule, edges, max) /\ IsInjective(out)

(***************************************************************************)
(* The search finds derivations in the order of their premises, and so those  *)
(* that max cuts off are the last ones, known or new.                        *)
(***************************************************************************)
FoundInOrder ==
  pc = "search" => \A i, j \in DOMAIN out : i < j => PremisesLess(out[i].prem, out[j].prem)

(***************************************************************************)
(* The order of the result does not depend on the search.                    *)
(***************************************************************************)
ResultSorted ==
  pc = "done" /\ kind # "plain" =>
    \A i, j \in DOMAIN out : i < j => DerivationLess(out[i], out[j])
=============================================================================
