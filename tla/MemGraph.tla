------------------------------ MODULE MemGraph ------------------------------
(***************************************************************************)
(* pkg/kg/memgraph.go: the edges twice, by their first and by their last      *)
(* node, and their number; every listing is sorted.                          *)
(***************************************************************************)
EXTENDS Rules, Ascending, SequencesExt

VARIABLES
  out,    \* out[from][pred]: the nodes the edges lead to
  in,     \* in[to][pred]: the nodes they come from
  facts

memGraph == <<out, in, facts>>

GraphInit == out = << >> /\ in = << >> /\ facts = 0

Inner(m, x)     == IF x \in DOMAIN m THEN m[x] ELSE << >>
Nodes(m, x, p)  == IF p \in DOMAIN Inner(m, x) THEN m[x][p] ELSE {}
With(m, x, p, y) ==
  [u \in DOMAIN m \cup {x} |->
     [q \in DOMAIN Inner(m, u) \cup {r \in {p} : u = x} |->
        Nodes(m, u, q) \cup {z \in {y} : u = x /\ q = p}]]

\* Faulty: an edge is known if its nodes are joined at all.
Joined(a) == a.to \in UNION {Nodes(out, a.from, p) : p \in DOMAIN Inner(out, a.from)}

Known(a) == a.to \in Nodes(out, a.from, a.pred)

AddFact(a) ==
  /\ out' = With(out, a.from, a.pred, a.to)
  /\ IF Known(a)
       THEN UNCHANGED <<in, facts>>
       ELSE in' = With(in, a.to, a.pred, a.from) /\ facts' = facts + 1

Edge(x, p, y) == [from |-> x, pred |-> p, to |-> y]

EdgesOfOut(x, p) == {Edge(x, p, y) : y \in Nodes(out, x, p)}

EdgesFrom(x) ==
  SetSorted(UNION {EdgesOfOut(x, p) : p \in DOMAIN Inner(out, x)},
            LAMBDA d, e : d.pred < e.pred \/ (d.pred = e.pred /\ d.to < e.to))

EdgesTo(y) ==
  SetSorted(UNION {{Edge(x, p, y) : x \in Nodes(in, y, p)} : p \in DOMAIN Inner(in, y)},
            LAMBDA d, e : d.pred < e.pred \/ (d.pred = e.pred /\ d.from < e.from))

AllEdges == UNION {UNION {EdgesOfOut(x, p) : p \in DOMAIN out[x]} : x \in DOMAIN out}

EdgesAll == SetSorted(AllEdges, AtomLess)

EdgesByPredicate(p) ==
  SetSorted(UNION {EdgesOfOut(x, p) : x \in DOMAIN out},
            LAMBDA d, e : d.from < e.from \/ (d.from = e.from /\ d.to < e.to))

Predicates == UNION {DOMAIN out[x] : x \in DOMAIN out}

CountIncoming(y, p) == Cardinality(Nodes(in, y, p))

\* The facts with the first name and the predicate of a, a itself among them.
RelatedEdges(a) == Filtered(EdgesFrom(a.from), LAMBDA e : e.pred = a.pred)

-----------------------------------------------------------------------------
(***************************************************************************)
(* The edges are the same whichever way they are listed, whatever was added    *)
(* in whichever order and how often: by first node, by predicate and by last   *)
(* node, counted and one by one; and the listings agree in their order.       *)
(***************************************************************************)
ListingsAgree ==
  LET all == EdgesAll  froms == InOrder(DOMAIN out)
  IN  /\ Len(all) = facts
      /\ all = FlattenSeq([i \in DOMAIN froms |-> EdgesFrom(froms[i])])
      /\ \A p \in Predicates : EdgesByPredicate(p) = Filtered(all, LAMBDA e : e.pred = p)
      /\ UNION {Range(EdgesTo(y)) : y \in DOMAIN in} = AllEdges
      /\ \A e \in AllEdges :
           /\ CountIncoming(e.to, e.pred) = Cardinality({d \in AllEdges : d.to = e.to /\ d.pred = e.pred})
           /\ RelatedEdges(e) = Filtered(EdgesByPredicate(e.pred), LAMBDA d : d.from = e.from)
=============================================================================
