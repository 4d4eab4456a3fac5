--------------------------- MODULE RuleEvalProofs ---------------------------
(***************************************************************************)
(* RuleEval and Suggest: the depth-first searches return what Engine takes    *)
(* them to return, for all rules, edges and limits, and a suggested rule      *)
(* applies as often as chains were counted.                                 *)
(***************************************************************************)
EXTENDS Suggest, AscendingProofs, SequenceTheorems

-----------------------------------------------------------------------------
(* Where a search is.                                                       *)

\* The variables the first i premises bind.
VarsTo(r, i) == UNION {VarsOf(r.if[j]) : j \in 1 .. i}

\* Bindings of the variables of D.
Binding(D, U) == [D -> U]

\* The edges between these names.
EdgesOver(U) == [from : U, pred : U, to : U]

\* What a match that binds all goes on to say of the variables b has bound.
Continues(m, b) == \A v \in DOMAIN b : v \in DOMAIN m /\ m[v] = b[v]

Bindings(r, es) == UNION {Binding(VarsTo(r, i), NamesIn(es)) : i \in 0 .. Len(r.if)}

Frames(r, es) == [binds : Bindings(r, es), cands : Seq(es)]

Climbs(s) == \A k, n \in DOMAIN s : k < n => AtomLess(s[k], s[n])

\* A frame binds what the premises before its own bind, to edges.
FrameFor(r, es, f, i) ==
  /\ f.binds \in Binding(VarsTo(r, i - 1), NamesIn(es))
  /\ \A j \in 1 .. i - 1 : Apply(r.if[j], f.binds) \in es
  /\ Climbs(f.cands)

\* The edge that these bindings took for the i-th premise is before those left.
Passed(r, f, i, b) ==
  /\ Continues(b, f.binds)
  /\ \A n \in DOMAIN f.cands : AtomLess(Apply(r.if[i], b), f.cands[n])

PathFor(r, es, w) ==
  /\ w \in Seq(Frames(r, es)) /\ Len(w) <= Len(r.if)
  /\ \A i \in DOMAIN w : FrameFor(r, es, w[i], i)
  /\ \A i, k \in DOMAIN w : i < k => Passed(r, w[i], i, w[k].binds)

\* The search will still come to the match m.
Ahead(r, w, m) ==
  \E i \in DOMAIN w : Continues(m, w[i].binds) /\ Apply(r.if[i], m) \in Range(w[i].cands)

SearchType ==
  /\ kind \in {"plain", "derivations", "indexed"} /\ rule \in SearchRules
  /\ edges \in SUBSET SearchEdges /\ max \in Nat \ {0} /\ pc \in {"start", "search", "done"}
  /\ pc = "start" => path = << >> /\ out = << >>

OutFor(r, es, n, s) ==
  /\ s \in Seq(Derivations(r, es)) /\ Len(s) <= n
  /\ \A i, j \in DOMAIN s : i < j => PremisesLess(s[i].prem, s[j].prem)

\* A match is ahead, behind all that was found, or it has been found.
AllOnTheWay(r, es, w, s) ==
  \A m \in Matches(r, es) :
    /\ Ahead(r, w, m) \/ Derivation(r, m) \in Range(s)
    /\ Ahead(r, w, m) => \A i \in DOMAIN s : PremisesLess(s[i].prem, Derivation(r, m).prem)

SearchOK ==
  /\ SearchType
  /\ pc = "search" => /\ PathFor(rule, edges, path) /\ OutFor(rule, edges, max, out)
                      /\ AllOnTheWay(rule, edges, path, out)
  /\ SearchIsReference /\ ResultSorted

-----------------------------------------------------------------------------
(* Matching one premise.                                                    *)

\* A pattern whose variables are bound is the same for all that goes on so.
LEMMA GroundStays ==
  ASSUME NEW b, NEW m, Continues(m, b), NEW p, VarsOf(p) \subseteq DOMAIN b
  PROVE  Apply(p, m) = Apply(p, b)
<1>1. \A s \in {p.from, p.pred, p.to} : Ground(s, m) = Ground(s, b)
  BY DEF Continues, VarsOf, Ground
<1> QED
  BY <1>1 DEF Apply

VarIn(s) == {v \in {s} : IsVar(v)}

LEMMA UnifyIs ==
  ASSUME NEW U, NEW D, NEW b \in Binding(D, U), NEW p, NEW v \in U, NEW c
  PROVE  c \in Unify(p, v, b)
           <=> c \in Binding(D \cup VarIn(p), U) /\ Continues(c, b) /\ Ground(p, c) = v
<1> USE DEF Binding
<1> DEFINE E == D \cup VarIn(p)
<1>1. CASE IsVar(p) /\ p \notin D
  <2> DEFINE new == [w \in D \cup {p} |-> IF w = p THEN v ELSE b[w]]
  <2>1. Unify(p, v, b) = {new} /\ E = D \cup {p}
    BY <1>1 DEF Unify, VarIn
  <2>2. new \in [D \cup {p} -> U] /\ Continues(new, b) /\ Ground(p, new) = v
    BY <1>1 DEF Continues, Ground
  <2>3. ASSUME c \in [D \cup {p} -> U], Continues(c, b), Ground(p, c) = v
        PROVE  c = new
    <3>1. \A w \in D \cup {p} : c[w] = new[w]
      BY <1>1, <2>3 DEF Continues, Ground
    <3> HIDE DEF new
    <3>2. new \in [D \cup {p} -> U]
      BY <2>2
    <3> QED
      BY <2>3, <3>1, <3>2
  <2> HIDE DEF new
  <2> QED
    BY <2>1, <2>2, <2>3
<1>2. CASE IsVar(p) /\ p \in D
  <2>1. E = D /\ (c \in Unify(p, v, b) <=> c = b /\ b[p] = v)
    <3>1. b[p] = v => Unify(p, v, b) = {b}
      BY <1>2 DEF Unify
    <3>2. b[p] # v => Unify(p, v, b) = {}
      BY <1>2 DEF Unify
    <3> QED
      BY <1>2, <3>1, <3>2 DEF VarIn
  <2>2. c \in [D -> U] /\ Continues(c, b) => c = b
    BY DEF Continues
  <2>3. Continues(b, b) /\ Ground(p, b) = b[p]
    BY <1>2 DEF Continues, Ground
  <2> QED
    BY <2>1, <2>2, <2>3
<1>3. CASE ~IsVar(p)
  <2>1. E = D /\ (c \in Unify(p, v, b) <=> c = b /\ p = v)
    <3>1. p = v => Unify(p, v, b) = {b}
      BY <1>3 DEF Unify
    <3>2. p # v => Unify(p, v, b) = {}
      BY <1>3 DEF Unify
    <3> QED
      BY <1>3, <3>1, <3>2 DEF VarIn
  <2>2. c \in [D -> U] /\ Continues(c, b) => c = b
    BY DEF Continues
  <2>3. Continues(b, b) /\ Ground(p, c) = p
    BY <1>3 DEF Continues, Ground
  <2> QED
    BY <2>1, <2>2, <2>3
<1> QED
  BY <1>1, <1>2, <1>3

\* With these bindings the pattern is this edge.
Makes(p, c, e) == Apply(p, c) = e

(***************************************************************************)
(* What matchAtom returns: the bindings that go on from b and make the edge    *)
(* of the pattern.                                                          *)
(***************************************************************************)
LEMMA MatchIs ==
  ASSUME NEW U, NEW D, NEW b \in Binding(D, U), NEW p, NEW e \in EdgesOver(U),
         NEW c
  PROVE  c \in MatchAtom(p, e, b)
           <=> c \in Binding(D \cup VarsOf(p), U) /\ Continues(c, b) /\ Makes(p, c, e)
<1> DEFINE D1 == D \cup VarIn(p.from)
           D2 == D1 \cup VarIn(p.pred)
           D3 == D2 \cup VarIn(p.to)
<1>0. e.from \in U /\ e.pred \in U /\ e.to \in U /\ e = [from |-> e.from, pred |-> e.pred, to |-> e.to]
  BY DEF EdgesOver
<1>1. D3 = D \cup VarsOf(p)
  BY DEF VarsOf, VarIn
<1>a. D1 = D \cup VarIn(p.from) /\ D2 = D1 \cup VarIn(p.pred) /\ D3 = D2 \cup VarIn(p.to)
  OBVIOUS
<1> HIDE DEF D3, D2, D1
<1>2. ASSUME NEW d
      PROVE  d \in Unify(p.from, e.from, b)
               <=> d \in Binding(D1, U) /\ Continues(d, b) /\ Ground(p.from, d) = e.from
  BY <1>0, <1>a, UnifyIs
<1>3. ASSUME NEW x \in Binding(D1, U), NEW d
      PROVE  d \in Unify(p.pred, e.pred, x)
               <=> d \in Binding(D2, U) /\ Continues(d, x) /\ Ground(p.pred, d) = e.pred
  BY <1>0, <1>a, UnifyIs
<1>4. ASSUME NEW x \in Binding(D2, U), NEW d
      PROVE  d \in Unify(p.to, e.to, x)
               <=> d \in Binding(D3, U) /\ Continues(d, x) /\ Ground(p.to, d) = e.to
  <2>1. D3 = D2 \cup VarIn(p.to) /\ e.to \in U
    BY <1>0, <1>a
  <2> QED
    BY <2>1, UnifyIs
<1>5. Apply(p, c) = e <=> /\ Ground(p.from, c) = e.from /\ Ground(p.pred, c) = e.pred
                           /\ Ground(p.to, c) = e.to
  BY <1>0 DEF Apply
<1>6. c \in MatchAtom(p, e, b)
        <=> \E x \in Unify(p.from, e.from, b) : \E y \in Unify(p.pred, e.pred, x) :
              c \in Unify(p.to, e.to, y)
  BY DEF MatchAtom
<1>7. ASSUME c \in MatchAtom(p, e, b)
      PROVE  c \in Binding(D3, U) /\ Continues(c, b) /\ Apply(p, c) = e
  <2>1. PICK x \in Unify(p.from, e.from, b) : \E y \in Unify(p.pred, e.pred, x) :
                                                c \in Unify(p.to, e.to, y)
    BY <1>6, <1>7
  <2>2. PICK y \in Unify(p.pred, e.pred, x) : c \in Unify(p.to, e.to, y)
    BY <2>1
  <2>3. x \in Binding(D1, U) /\ Continues(x, b) /\ Ground(p.from, x) = e.from
    BY <1>2
  <2>4. y \in Binding(D2, U) /\ Continues(y, x) /\ Ground(p.pred, y) = e.pred
    BY <1>3, <2>3
  <2>5. c \in Binding(D3, U) /\ Continues(c, y) /\ Ground(p.to, c) = e.to
    BY <1>4, <2>2, <2>4
  <2>6. Continues(c, x) /\ Continues(c, b)
    BY <2>3, <2>4, <2>5 DEF Continues
  <2>7. Ground(p.from, c) = Ground(p.from, x)
    BY <2>3, <2>6 DEF D1, VarIn, Ground, Continues, Binding
  <2>8. Ground(p.pred, c) = Ground(p.pred, y)
    BY <2>4, <2>5 DEF D2, VarIn, Ground, Continues, Binding
  <2> QED
    BY <1>5, <2>3, <2>4, <2>5, <2>6, <2>7, <2>8
<1>8. ASSUME c \in Binding(D3, U), Continues(c, b), Apply(p, c) = e
      PROVE  c \in MatchAtom(p, e, b)
  <2> DEFINE x == [v \in D1 |-> c[v]]
             y == [v \in D2 |-> c[v]]
  <2>1. D1 \subseteq D2 /\ D2 \subseteq D3
    BY DEF D2, D3
  <2>2. x \in Binding(D1, U) /\ y \in Binding(D2, U)
    BY <1>8, <2>1 DEF Binding
  <2>3. Continues(x, b) /\ Continues(y, x) /\ Continues(c, y)
    <3>1. D \subseteq D1
      BY DEF D1
    <3> QED
      BY <1>8, <2>1, <3>1 DEF Continues, Binding
  <2>4. Ground(p.from, x) = Ground(p.from, c) /\ Ground(p.pred, y) = Ground(p.pred, c)
    BY DEF Ground, VarIn, D1, D2
  <2>5. /\ Ground(p.from, c) = e.from /\ Ground(p.pred, c) = e.pred /\ Ground(p.to, c) = e.to
    BY <1>5, <1>8
  <2> HIDE DEF x, y
  <2>6. x \in Unify(p.from, e.from, b)
    BY <1>2, <2>2, <2>3, <2>4, <2>5
  <2>7. y \in Unify(p.pred, e.pred, x)
    BY <1>3, <2>2, <2>3, <2>4, <2>5
  <2>8. c \in Unify(p.to, e.to, y)
    BY <1>4, <1>8, <2>2, <2>3, <2>5
  <2> QED
    BY <1>6, <2>6, <2>7, <2>8
<1> QED
  BY <1>1, <1>7, <1>8 DEF Makes

\* Two matches of a pattern say the same of its variables.
LEMMA MatchTells ==
  ASSUME NEW p, NEW c, NEW m, Apply(p, c) = Apply(p, m)
  PROVE  \A v \in VarsOf(p) : c[v] = m[v]
<1>1. /\ Ground(p.from, c) = Ground(p.from, m) /\ Ground(p.pred, c) = Ground(p.pred, m)
      /\ Ground(p.to, c) = Ground(p.to, m)
  BY DEF Apply
<1> QED
  BY <1>1 DEF VarsOf, Ground

\* A match of the whole rule is found at each of its premises, and only it.
LEMMA MatchFinds ==
  ASSUME NEW U, NEW D, NEW b \in Binding(D, U), NEW p, NEW e \in EdgesOver(U),
         NEW m, Continues(m, b), Apply(p, m) = e, \A v \in VarsOf(p) : v \in DOMAIN m /\ m[v] \in U
  PROVE  /\ MatchAtom(p, e, b) # {}
         /\ \A c \in MatchAtom(p, e, b) : Continues(m, c)
<1> DEFINE c == [v \in D \cup VarsOf(p) |-> m[v]]
<1>1. c \in Binding(D \cup VarsOf(p), U) /\ Continues(c, b)
  BY DEF Continues, Binding
<1>2. Continues(m, c)
  BY DEF Continues, Binding
<1>3. Apply(p, c) = e
  <2>1. VarsOf(p) \subseteq DOMAIN c
    OBVIOUS
  <2> HIDE DEF c
  <2> QED
    BY <1>2, <2>1, GroundStays
<1> HIDE DEF c
<1>4. c \in MatchAtom(p, e, b)
  BY <1>1, <1>3, MatchIs DEF Makes
<1>5. ASSUME NEW d \in MatchAtom(p, e, b) PROVE Continues(m, d)
  <2>1. d \in Binding(D \cup VarsOf(p), U) /\ Continues(d, b) /\ Apply(p, d) = e
    BY MatchIs DEF Makes
  <2>2. \A v \in VarsOf(p) : d[v] = m[v]
    BY <2>1, MatchTells
  <2>3. \A v \in D : v \in DOMAIN m /\ d[v] = m[v]
    BY <2>1 DEF Continues, Binding
  <2> QED
    BY <2>1, <2>2, <2>3 DEF Continues, Binding
<1> QED
  BY <1>4, <1>5
-----------------------------------------------------------------------------
(* The orders.                                                              *)

\* What edges, and the conclusions of rules, are made of.
Fields == [from : Int, pred : Int, to : Int]

LEMMA FieldsAre ==
  ASSUME NEW a \in Fields
  PROVE  /\ a.from \in Int /\ a.pred \in Int /\ a.to \in Int
         /\ \A b \in Fields : a.from = b.from /\ a.pred = b.pred /\ a.to = b.to => a = b
BY DEF Fields

LEMMA AtomsOrdered ==
  ASSUME NEW a \in Fields, NEW b \in Fields
  PROVE  ~AtomLess(a, a) /\ (a = b \/ AtomLess(a, b) \/ AtomLess(b, a))
<1>1. /\ a.from \in Int /\ a.pred \in Int /\ a.to \in Int
      /\ b.from \in Int /\ b.pred \in Int /\ b.to \in Int
  BY FieldsAre
<1>2. a.from = b.from /\ a.pred = b.pred /\ a.to = b.to => a = b
  BY FieldsAre
<1> QED
  BY <1>1, <1>2 DEF AtomLess

LEMMA AtomsChain ==
  ASSUME NEW a \in Fields, NEW b \in Fields, NEW c \in Fields, AtomLess(a, b), AtomLess(b, c)
  PROVE  AtomLess(a, c)
<1>1. /\ a.from \in Int /\ a.pred \in Int /\ a.to \in Int
      /\ b.from \in Int /\ b.pred \in Int /\ b.to \in Int
      /\ c.from \in Int /\ c.pred \in Int /\ c.to \in Int
  BY FieldsAre
<1> QED
  BY <1>1 DEF AtomLess

\* Lists of premises of one rule.
LEMMA PremisesOrdered ==
  ASSUME NEW n \in Nat, NEW p \in [1 .. n -> Fields], NEW q \in [1 .. n -> Fields]
  PROVE  ~PremisesLess(p, p) /\ (p = q \/ PremisesLess(p, q) \/ PremisesLess(q, p))
<1>1. ~PremisesLess(p, p)
  BY AtomsOrdered DEF PremisesLess
<1>2. ASSUME p # q PROVE PremisesLess(p, q) \/ PremisesLess(q, p)
  <2> DEFINE D == {k \in 1 .. n : p[k] # q[k]}
  <2>1. D \in SUBSET Nat /\ D # {}
    BY <1>2
  <2>2. PICK k \in D : \A i \in D : k <= i
    BY <2>1, LeastNumber
  <2>3. \A j \in 1 .. k - 1 : p[j] = q[j]
    BY <2>2
  <2>4. AtomLess(p[k], q[k]) \/ AtomLess(q[k], p[k])
    BY <2>2, AtomsOrdered
  <2> QED
    BY <2>2, <2>3, <2>4 DEF PremisesLess
<1> QED
  BY <1>1, <1>2

LEMMA PremisesChain ==
  ASSUME NEW n \in Nat, NEW p \in [1 .. n -> Fields], NEW q \in [1 .. n -> Fields],
         NEW s \in [1 .. n -> Fields], PremisesLess(p, q), PremisesLess(q, s)
  PROVE  PremisesLess(p, s)
<1>1. PICK k \in 1 .. n : AtomLess(p[k], q[k]) /\ \A j \in 1 .. k - 1 : p[j] = q[j]
  BY DEF PremisesLess
<1>2. PICK l \in 1 .. n : AtomLess(q[l], s[l]) /\ \A j \in 1 .. l - 1 : q[j] = s[j]
  BY DEF PremisesLess
<1>3. CASE k < l
  <2>1. AtomLess(p[k], s[k]) /\ \A j \in 1 .. k - 1 : p[j] = s[j]
    BY <1>1, <1>2, <1>3
  <2> QED
    BY <2>1 DEF PremisesLess
<1>4. CASE k = l
  <2>1. AtomLess(p[k], s[k]) /\ \A j \in 1 .. k - 1 : p[j] = s[j]
    BY <1>1, <1>2, <1>4, AtomsChain
  <2> QED
    BY <2>1 DEF PremisesLess
<1>5. CASE l < k
  <2>1. AtomLess(p[l], s[l]) /\ \A j \in 1 .. l - 1 : p[j] = s[j]
    BY <1>1, <1>2, <1>5
  <2> QED
    BY <2>1 DEF PremisesLess
<1> QED
  BY <1>3, <1>4, <1>5

\* The derivations of a rule with n premises.
Results(n) == [then : Fields, prem : [1 .. n -> Fields]]

LEMMA ResultsOrdered ==
  ASSUME NEW n \in Nat, NEW d \in Results(n), NEW e \in Results(n)
  PROVE  ~DerivationLess(d, d) /\ (d = e \/ DerivationLess(d, e) \/ DerivationLess(e, d))
<1>1. /\ d.then \in Fields /\ d.prem \in [1 .. n -> Fields]
      /\ e.then \in Fields /\ e.prem \in [1 .. n -> Fields]
      /\ d.then = e.then /\ d.prem = e.prem => d = e
  BY DEF Results
<1>2. ~AtomLess(d.then, d.then)
      /\ (d.then = e.then \/ AtomLess(d.then, e.then) \/ AtomLess(e.then, d.then))
  BY <1>1, AtomsOrdered
<1>3. ~PremisesLess(d.prem, d.prem)
      /\ (d.prem = e.prem \/ PremisesLess(d.prem, e.prem) \/ PremisesLess(e.prem, d.prem))
  BY <1>1, PremisesOrdered
<1> QED
  BY <1>1, <1>2, <1>3 DEF DerivationLess

LEMMA ResultsChain ==
  ASSUME NEW n \in Nat, NEW d \in Results(n), NEW e \in Results(n), NEW f \in Results(n),
         DerivationLess(d, e), DerivationLess(e, f)
  PROVE  DerivationLess(d, f)
<1>1. /\ d.then \in Fields /\ d.prem \in [1 .. n -> Fields]
      /\ e.then \in Fields /\ e.prem \in [1 .. n -> Fields]
      /\ f.then \in Fields /\ f.prem \in [1 .. n -> Fields]
  BY DEF Results
<1>2. AtomLess(d.then, e.then) /\ AtomLess(e.then, f.then) => AtomLess(d.then, f.then)
  BY <1>1, AtomsChain
<1>3. PremisesLess(d.prem, e.prem) /\ PremisesLess(e.prem, f.prem) => PremisesLess(d.prem, f.prem)
  BY <1>1, PremisesChain
<1> QED
  BY <1>2, <1>3 DEF DerivationLess

LEMMA AtomFields == Atom \subseteq Fields /\ AtomPattern \subseteq Fields /\ Token \subseteq Int
<1>1. Token \subseteq Int /\ Term \subseteq Int
  BY NamesAssumption DEF Term, Empty
<1> QED
  BY <1>1 DEF Atom, AtomPattern, Fields

\* The edges in order: each of them, once, upwards.
LEMMA EdgesInOrderIs ==
  ASSUME NEW es \in SUBSET Atom, IsFiniteSet(es)
  PROVE  EdgesInOrder(es) \in Seq(es) /\ Range(EdgesInOrder(es)) = es /\ Climbs(EdgesInOrder(es))
<1> DEFINE R == OrderOn(es, AtomLess)
           s == RankedBy(R, es)
<1>1. \A a, b \in es : <<a, b>> \in R <=> AtomLess(a, b)
  BY DEF OrderOn
<1>2. es \subseteq Fields
  BY AtomFields
<1>3. EdgesInOrder(es) = s
  BY DEF EdgesInOrder, SetSorted
<1> HIDE DEF R
<1>4. Orders(R, es)
  <2>1. \A a \in es : <<a, a>> \notin R
    BY <1>1, <1>2, AtomsOrdered
  <2>2. \A a, b \in es : a = b \/ <<a, b>> \in R \/ <<b, a>> \in R
    BY <1>1, <1>2, AtomsOrdered
  <2>3. ASSUME NEW a \in es, NEW b \in es, NEW c \in es, <<a, b>> \in R, <<b, c>> \in R
        PROVE  <<a, c>> \in R
    <3>1. AtomLess(a, b) /\ AtomLess(b, c) /\ a \in Fields /\ b \in Fields /\ c \in Fields
      BY <1>1, <1>2, <2>3
    <3>2. AtomLess(a, c)
      BY <3>1, AtomsChain
    <3> QED
      BY <1>1, <3>2
  <2> QED
    BY <2>1, <2>2, <2>3 DEF Orders
<1>5. /\ Cardinality(es) \in Nat /\ s \in Seq(es) /\ DOMAIN s = 1 .. Cardinality(es)
      /\ \A m, n \in 1 .. Cardinality(es) : m < n => <<s[m], s[n]>> \in R
      /\ \A x \in es : \E n \in 1 .. Cardinality(es) : s[n] = x
  BY <1>4, RankedIs
<1> HIDE DEF s
<1>6. Range(s) = es
  BY <1>5 DEF Range
<1>7. Climbs(s)
  <2>1. \A n \in DOMAIN s : s[n] \in es
    BY <1>5
  <2> QED
    BY <1>1, <1>5, <2>1 DEF Climbs
<1> QED
  BY <1>3, <1>5, <1>6, <1>7
-----------------------------------------------------------------------------
(* A rule, the names of edges, and the matches.                              *)

LEMMA RuleFields ==
  ASSUME NEW r \in Rule
  PROVE  /\ Len(r.if) \in Nat \ {0} /\ DOMAIN r.if = 1 .. Len(r.if) /\ r.then \in AtomPattern
         /\ \A i \in 1 .. Len(r.if) : r.if[i] \in AtomPattern
         /\ PremiseVars(r) = VarsTo(r, Len(r.if))
<1>1. r.if \in Seq(AtomPattern) /\ r.if # << >> /\ r.then \in AtomPattern
  BY DEF Rule
<1>2. Len(r.if) \in Nat \ {0} /\ DOMAIN r.if = 1 .. Len(r.if)
  BY <1>1
<1> QED
  BY <1>1, <1>2 DEF PremiseVars, VarsTo

LEMMA VarsToIs ==
  ASSUME NEW r
  PROVE  /\ VarsTo(r, 0) = {}
         /\ \A i \in Nat : VarsTo(r, i) \subseteq Var
         /\ \A i \in Nat \ {0} : VarsTo(r, i) = VarsTo(r, i - 1) \cup VarsOf(r.if[i])
         /\ \A i \in Nat : \A j \in 1 .. i : VarsOf(r.if[j]) \subseteq VarsTo(r, i)
<1>1. VarsTo(r, 0) = {}
  BY DEF VarsTo
<1>2. \A i \in Nat : VarsTo(r, i) \subseteq Var
  BY DEF VarsTo, VarsOf, IsVar
<1>3. ASSUME NEW i \in Nat \ {0}
      PROVE  VarsTo(r, i) = VarsTo(r, i - 1) \cup VarsOf(r.if[i])
  <2>1. 1 .. i = (1 .. i - 1) \cup {i}
    OBVIOUS
  <2> QED
    BY <2>1, Zenon DEF VarsTo
<1>4. \A i \in Nat : \A j \in 1 .. i : VarsOf(r.if[j]) \subseteq VarsTo(r, i)
  BY Zenon DEF VarsTo
<1> QED
  BY <1>1, <1>2, <1>3, <1>4

LEMMA EdgeNames ==
  ASSUME NEW es \in SUBSET Atom
  PROVE  /\ NamesIn(es) \subseteq Token
         /\ \A e \in es : e \in EdgesOver(NamesIn(es))
<1>1. ASSUME NEW e \in es
      PROVE  /\ e = [from |-> e.from, pred |-> e.pred, to |-> e.to]
             /\ e.from \in Token /\ e.pred \in Token /\ e.to \in Token
  BY DEF Atom
<1> QED
  BY <1>1 DEF NamesIn, EdgesOver

LEMMA MatchFacts ==
  ASSUME NEW r \in Rule, NEW es \in SUBSET Atom, NEW m \in Matches(r, es)
  PROVE  /\ m \in Binding(PremiseVars(r), NamesIn(es))
         /\ VarsOf(r.then) \subseteq PremiseVars(r)
         /\ \A i \in 1 .. Len(r.if) : Apply(r.if[i], m) \in es
         /\ Derivation(r, m).prem = [i \in 1 .. Len(r.if) |-> Apply(r.if[i], m)]
         /\ Derivation(r, m) \in Results(Len(r.if))
<1>1. DOMAIN r.if = 1 .. Len(r.if) /\ r.then \in AtomPattern
  BY RuleFields
<1>2. /\ m \in Binding(PremiseVars(r), NamesIn(es)) /\ VarsOf(r.then) \subseteq PremiseVars(r)
      /\ \A i \in 1 .. Len(r.if) : Apply(r.if[i], m) \in es
  BY <1>1 DEF Matches, Binding
<1>3. Derivation(r, m) = [then |-> Apply(r.then, m),
                          prem |-> [i \in 1 .. Len(r.if) |-> Apply(r.if[i], m)]]
  BY <1>1 DEF Derivation
<1>4. [i \in 1 .. Len(r.if) |-> Apply(r.if[i], m)] \in [1 .. Len(r.if) -> Fields]
  BY <1>2, AtomFields
<1>5. Apply(r.then, m) \in Fields
  <2>1. /\ \A v \in PremiseVars(r) : m[v] \in Int
        /\ r.then.from \in Int /\ r.then.pred \in Int /\ r.then.to \in Int
    <3>1. \A v \in PremiseVars(r) : m[v] \in NamesIn(es)
      BY <1>2 DEF Binding
    <3> QED
      BY <1>1, <3>1, EdgeNames, AtomFields, FieldsAre
  <2>2. \A s \in {r.then.from, r.then.pred, r.then.to} : Ground(s, m) \in Int
    BY <1>2, <2>1 DEF Ground, VarsOf
  <2> QED
    BY <2>2 DEF Apply, Fields
<1> QED
  BY <1>2, <1>3, <1>4, <1>5 DEF Results

\* Its premises tell a match.
LEMMA MatchOnce ==
  ASSUME NEW r \in Rule, NEW es \in SUBSET Atom, NEW m \in Matches(r, es), NEW c \in Matches(r, es),
         Derivation(r, m).prem = Derivation(r, c).prem
  PROVE  m = c
<1>1. \A i \in 1 .. Len(r.if) : Apply(r.if[i], m) = Apply(r.if[i], c)
  <2>1. /\ Derivation(r, m).prem = [i \in 1 .. Len(r.if) |-> Apply(r.if[i], m)]
        /\ Derivation(r, c).prem = [i \in 1 .. Len(r.if) |-> Apply(r.if[i], c)]
    BY MatchFacts
  <2> DEFINE f == [i \in 1 .. Len(r.if) |-> Apply(r.if[i], m)]
             g == [i \in 1 .. Len(r.if) |-> Apply(r.if[i], c)]
  <2>2. f = g
    BY <2>1
  <2>3. \A i \in 1 .. Len(r.if) : f[i] = Apply(r.if[i], m) /\ g[i] = Apply(r.if[i], c)
    OBVIOUS
  <2> HIDE DEF f, g
  <2> QED
    BY <2>2, <2>3
<1>2. \A i \in 1 .. Len(r.if) : \A v \in VarsOf(r.if[i]) : m[v] = c[v]
  BY <1>1, MatchTells
<1>3. \A v \in PremiseVars(r) : m[v] = c[v]
  BY <1>2, RuleFields DEF VarsTo
<1>4. m \in [PremiseVars(r) -> NamesIn(es)] /\ c \in [PremiseVars(r) -> NamesIn(es)]
  BY DEF Matches
<1> QED
  BY <1>3, <1>4

(***************************************************************************)
(* A rule has finitely many derivations: a match is known by the edges it      *)
(* takes for the premises.                                                  *)
(***************************************************************************)
LEMMA DerivationsFinite ==
  ASSUME NEW r \in Rule, NEW es \in SUBSET Atom, IsFiniteSet(es)
  PROVE  /\ IsFiniteSet(Derivations(r, es)) /\ IsFiniteSet(Matches(r, es))
         /\ Cardinality(Derivations(r, es)) = Cardinality(Matches(r, es))
<1> DEFINE n == Len(r.if)
           taken == [m \in Matches(r, es) |-> {<<i, Apply(r.if[i], m)>> : i \in 1 .. n}]
           made == [m \in Matches(r, es) |-> Derivation(r, m)]
<1>1. IsFiniteSet(SUBSET ((1 .. n) \X es))
  <2>1. IsFiniteSet(1 .. n)
    BY RuleFields, FS_Interval
  <2>2. IsFiniteSet((1 .. n) \X es)
    BY <2>1, FS_Product, Zenon
  <2> QED
    BY <2>2, FS_SUBSET, Zenon
<1>2. taken \in Injection(Matches(r, es), SUBSET ((1 .. n) \X es))
  <2>1. taken \in [Matches(r, es) -> SUBSET ((1 .. n) \X es)]
    <3>1. ASSUME NEW m \in Matches(r, es)
          PROVE  {<<i, Apply(r.if[i], m)>> : i \in 1 .. n} \in SUBSET ((1 .. n) \X es)
      <4>1. \A i \in 1 .. n : Apply(r.if[i], m) \in es
        BY MatchFacts
      <4> QED
        BY <4>1
    <3> QED
      BY <3>1
  <2>2. ASSUME NEW m \in Matches(r, es), NEW c \in Matches(r, es), taken[m] = taken[c]
        PROVE  m = c
    <3>1. \A i \in 1 .. n : Apply(r.if[i], m) = Apply(r.if[i], c)
      <4> TAKE i \in 1 .. n
      <4>1. <<i, Apply(r.if[i], m)>> \in taken[c]
        BY <2>2
      <4> QED
        BY <4>1
    <3>2. [i \in 1 .. n |-> Apply(r.if[i], m)] = [i \in 1 .. n |-> Apply(r.if[i], c)]
      BY <3>1
    <3>3. Derivation(r, m).prem = Derivation(r, c).prem
      <4>1. Derivation(r, m).prem = [i \in 1 .. n |-> Apply(r.if[i], m)]
        BY MatchFacts, Zenon
      <4>2. Derivation(r, c).prem = [i \in 1 .. n |-> Apply(r.if[i], c)]
        BY MatchFacts, Zenon
      <4> QED
        BY <3>2, <4>1, <4>2
    <3> QED
      BY <3>3, MatchOnce
  <2> HIDE DEF taken
  <2> QED
    BY <2>1, <2>2 DEF Injection, IsInjective
<1>3. IsFiniteSet(Matches(r, es))
  BY <1>1, <1>2, FS_Injection
<1>4. made \in Surjection(Matches(r, es), Derivations(r, es))
  BY DEF Surjection, Derivations
<1>5. made \in Injection(Matches(r, es), Derivations(r, es))
  <2>1. made \in [Matches(r, es) -> Derivations(r, es)]
    BY DEF Derivations
  <2>2. \A m, c \in Matches(r, es) : made[m] = made[c] => m = c
    BY MatchOnce
  <2> HIDE DEF made
  <2> QED
    BY <2>1, <2>2 DEF Injection, IsInjective
<1> HIDE DEF made
<1>6. ExistsBijection(Matches(r, es), Derivations(r, es))
  BY <1>4, <1>5 DEF ExistsBijection, Bijection
<1> QED
  BY <1>3, <1>6, FS_Bijection
-----------------------------------------------------------------------------
(* The path of a search.                                                    *)

(***************************************************************************)
(* The candidates of a premise: edges in order, and all that can match what    *)
(* is bound so far, with an index or without.                                *)
(***************************************************************************)
LEMMA FrameIs ==
  ASSUME edges \in SUBSET Atom, IsFiniteSet(edges), rule \in Rule,
         NEW i \in 1 .. Len(rule.if), NEW b \in Binding(VarsTo(rule, i - 1), NamesIn(edges))
  PROVE  /\ Frame(b, i).binds = b /\ Frame(b, i).cands \in Seq(edges) /\ Climbs(Frame(b, i).cands)
         /\ Frame(b, i) \in Frames(rule, edges)
         /\ \A m : Continues(m, b) /\ Apply(rule.if[i], m) \in edges
              => Apply(rule.if[i], m) \in Range(Frame(b, i).cands)
<1> DEFINE p == rule.if[i]
           cs == IF kind = "indexed" THEN CandidatesFor(p, b) ELSE EdgesInOrder(edges)
           with(s) == {e \in edges : e.pred = s}
<1>1. Frame(b, i) = [binds |-> b, cands |-> cs]
  BY DEF Frame
<1>2. EdgesInOrder(edges) \in Seq(edges) /\ Range(EdgesInOrder(edges)) = edges
      /\ Climbs(EdgesInOrder(edges))
  BY EdgesInOrderIs
<1>3. ASSUME NEW s
      PROVE  Bucket(s) \in Seq(edges) /\ Range(Bucket(s)) = with(s) /\ Climbs(Bucket(s))
  <2>1. with(s) \in SUBSET Atom /\ with(s) \subseteq edges /\ IsFiniteSet(with(s))
    <3>1. with(s) \in SUBSET edges
      OBVIOUS
    <3> HIDE DEF with
    <3> QED
      BY <3>1, FS_Subset
  <2>2. Bucket(s) = EdgesInOrder(with(s))
    BY DEF Bucket
  <2> HIDE DEF with
  <2>3. Bucket(s) \in Seq(with(s)) /\ Range(Bucket(s)) = with(s) /\ Climbs(Bucket(s))
    BY <2>1, <2>2, EdgesInOrderIs
  <2> QED
    BY <2>1, <2>3
<1>4. DOMAIN b \subseteq Var
  <2>1. DOMAIN b = VarsTo(rule, i - 1) /\ i - 1 \in Nat
    BY DEF Binding
  <2> QED
    BY <2>1, VarsToIs
<1>5. \/ cs = EdgesInOrder(edges)
      \/ p.pred \in DOMAIN b /\ cs = Bucket(b[p.pred])
      \/ p.pred \notin Var /\ cs = Bucket(p.pred)
  BY DEF CandidatesFor
<1>6. ASSUME NEW m, Continues(m, b), Apply(p, m) \in edges
      PROVE  Apply(p, m) \in Range(cs)
  <2>1. Apply(p, m).pred = Ground(p.pred, m)
    BY DEF Apply
  <2>2. CASE cs = EdgesInOrder(edges)
    BY <1>2, <1>6, <2>2
  <2>3. CASE p.pred \in DOMAIN b /\ cs = Bucket(b[p.pred])
    <3>1. Ground(p.pred, m) = b[p.pred]
      BY <1>4, <1>6, <2>3 DEF Ground, IsVar, Continues
    <3>2. Apply(p, m) \in with(b[p.pred])
      BY <1>6, <2>1, <3>1
    <3> HIDE DEF with, cs, p
    <3> QED
      BY <1>3, <2>3, <3>2
  <2>4. CASE p.pred \notin Var /\ cs = Bucket(p.pred)
    <3>1. Ground(p.pred, m) = p.pred
      BY <2>4 DEF Ground, IsVar
    <3>2. Apply(p, m) \in with(p.pred)
      BY <1>6, <2>1, <3>1
    <3> HIDE DEF with, cs, p
    <3> QED
      BY <1>3, <2>4, <3>2
  <2> QED
    BY <1>5, <2>2, <2>3, <2>4
<1> HIDE DEF p, cs, with
<1>7. cs \in Seq(edges) /\ Climbs(cs)
  BY <1>2, <1>3, <1>5
<1>8. b \in Bindings(rule, edges)
  <2>1. i - 1 \in 0 .. Len(rule.if)
    BY RuleFields
  <2> QED
    BY <2>1 DEF Bindings
<1> QED
  BY <1>1, <1>6, <1>7, <1>8 DEF Frames, p

\* The first candidate, and those that are left.
LEMMA TailIs ==
  ASSUME NEW es, NEW s \in Seq(es), s # << >>, Climbs(s)
  PROVE  /\ Tail(s) \in Seq(es) /\ Climbs(Tail(s))
         /\ Head(s) \in es /\ Head(s) \in Range(s) /\ Range(Tail(s)) \subseteq Range(s)
         /\ \A x \in Range(s) : x = Head(s) \/ x \in Range(Tail(s))
         /\ \A k \in DOMAIN Tail(s) : AtomLess(Head(s), Tail(s)[k])
<1> DEFINE t == Tail(s)
           n == Len(s)
<1>1. /\ n \in Nat \ {0} /\ DOMAIN s = 1 .. n /\ Head(s) = s[1] /\ s[1] \in es
      /\ t \in Seq(es) /\ DOMAIN t = 1 .. n - 1 /\ \A k \in 1 .. n - 1 : t[k] = s[k + 1]
  <2>1. t \in Seq(es) /\ Len(t) = n - 1 /\ \A k \in 1 .. Len(t) : t[k] = s[k + 1]
    BY HeadTailProperties, Zenon
  <2> QED
    BY <2>1
<1> HIDE DEF t, n
<1>2. Climbs(t)
  <2> SUFFICES ASSUME NEW k \in 1 .. n - 1, NEW l \in 1 .. n - 1, k < l
               PROVE  AtomLess(t[k], t[l])
    BY <1>1 DEF Climbs
  <2>1. k + 1 \in 1 .. n /\ l + 1 \in 1 .. n /\ k + 1 < l + 1
    BY <1>1
  <2> QED
    BY <1>1, <2>1 DEF Climbs
<1>3. \A k \in DOMAIN t : AtomLess(s[1], t[k])
  <2> TAKE k \in DOMAIN t
  <2>1. k + 1 \in 1 .. n /\ 1 \in 1 .. n /\ 1 < k + 1 /\ t[k] = s[k + 1]
    BY <1>1
  <2> QED
    BY <1>1, <2>1 DEF Climbs
<1>4. Range(t) \subseteq Range(s)
  <2> SUFFICES ASSUME NEW k \in DOMAIN t PROVE t[k] \in Range(s)
    BY DEF Range
  <2>1. k + 1 \in 1 .. n /\ t[k] = s[k + 1]
    BY <1>1
  <2> QED
    BY <1>1, <2>1 DEF Range
<1>5. ASSUME NEW x \in Range(s) PROVE x = s[1] \/ x \in Range(t)
  <2>1. PICK k \in 1 .. n : s[k] = x
    BY <1>1 DEF Range
  <2>2. k = 1 \/ (k - 1 \in 1 .. n - 1 /\ t[k - 1] = s[k])
    <3>1. k # 1 => k - 1 \in 1 .. n - 1 /\ (k - 1) + 1 = k
      BY <1>1
    <3> QED
      BY <1>1, <3>1
  <2> QED
    BY <1>1, <2>1, <2>2 DEF Range
<1>6. s[1] \in Range(s)
  BY <1>1 DEF Range
<1> QED
  BY <1>1, <1>2, <1>3, <1>4, <1>5, <1>6 DEF t

LEMMA FrontIs ==
  ASSUME NEW S, NEW w \in Seq(S), w # << >>
  PROVE  /\ Front(w) \in Seq(S) /\ Len(Front(w)) = Len(w) - 1
         /\ \A i \in 1 .. Len(w) - 1 : Front(w)[i] = w[i]
<1> DEFINE n == Len(w)
           a == SubSeq(w, 1, n - 1)
<1>1. n \in Nat \ {0} /\ \A i \in 1 .. n - 1 : w[i] \in S
  OBVIOUS
<1>2. Front(w) = a
  BY DEF Front
<1> HIDE DEF n
<1>3. /\ a \in Seq(S) /\ Len(a) = IF 1 <= n - 1 THEN (n - 1) - 1 + 1 ELSE 0
      /\ \A i \in 1 .. (n - 1) - 1 + 1 : a[i] = w[1 + i - 1]
  BY <1>1, SubSeqProperties
<1> HIDE DEF a
<1>4. Len(a) = n - 1
  BY <1>1, <1>3
<1>5. \A i \in 1 .. n - 1 : a[i] = w[i]
  <2> TAKE i \in 1 .. n - 1
  <2>1. i \in 1 .. (n - 1) - 1 + 1 /\ 1 + i - 1 = i
    BY <1>1
  <2> QED
    BY <1>3, <2>1
<1> QED
  BY <1>2, <1>3, <1>4, <1>5 DEF n

LEMMA LastReplaced ==
  ASSUME NEW S, NEW w \in Seq(S), w # << >>, NEW f \in S
  PROVE  /\ Front(w) \o <<f>> \in Seq(S) /\ Len(Front(w) \o <<f>>) = Len(w)
         /\ \A i \in 1 .. Len(w) - 1 : (Front(w) \o <<f>>)[i] = w[i]
         /\ (Front(w) \o <<f>>)[Len(w)] = f
<1> DEFINE n == Len(w)
           a == Front(w)
<1>1. n \in Nat \ {0}
  OBVIOUS
<1>2. a \in Seq(S) /\ Len(a) = n - 1 /\ \A i \in 1 .. n - 1 : a[i] = w[i]
  BY FrontIs
<1> HIDE DEF a, n
<1>3. <<f>> \in Seq(S) /\ Len(<<f>>) = 1 /\ <<f>>[1] = f
  OBVIOUS
<1>4. a \o <<f>> \in Seq(S) /\ Len(a \o <<f>>) = n
      /\ \A i \in 1 .. n : (a \o <<f>>)[i] = IF i <= n - 1 THEN a[i] ELSE f
  BY <1>1, <1>2, <1>3
<1> QED
  BY <1>1, <1>2, <1>4 DEF a, n

\* The path with the first candidate of its last frame taken.
Moved(w) == Front(w) \o <<[Last(w) EXCEPT !.cands = Tail(@)]>>

LEMMA PathFacts ==
  ASSUME NEW r \in Rule, NEW es \in SUBSET Atom, NEW w, PathFor(r, es, w)
  PROVE  /\ w \in Seq(Frames(r, es)) /\ Len(w) \in Nat /\ Len(w) <= Len(r.if) /\ DOMAIN w = 1 .. Len(w)
         /\ w # << >> => Len(w) \in Nat \ {0}
         /\ \A i \in 1 .. Len(w) :
              /\ w[i] \in Frames(r, es) /\ w[i].cands \in Seq(es) /\ Climbs(w[i].cands)
              /\ w[i].binds \in Binding(VarsTo(r, i - 1), NamesIn(es))
              /\ DOMAIN w[i].binds = VarsTo(r, i - 1)
              /\ \A j \in 1 .. i - 1 : Apply(r.if[j], w[i].binds) \in es
         /\ \A i, k \in 1 .. Len(w) : i < k => Passed(r, w[i], i, w[k].binds)
<1>1. /\ w \in Seq(Frames(r, es)) /\ Len(w) \in Nat /\ Len(w) <= Len(r.if) /\ DOMAIN w = 1 .. Len(w)
      /\ w # << >> => Len(w) \in Nat \ {0}
      /\ \A i \in 1 .. Len(w) : w[i] \in Frames(r, es) /\ FrameFor(r, es, w[i], i)
      /\ \A i, k \in 1 .. Len(w) : i < k => Passed(r, w[i], i, w[k].binds)
  BY DEF PathFor
<1>2. ASSUME NEW i \in 1 .. Len(w)
      PROVE  /\ w[i] \in Frames(r, es) /\ w[i].cands \in Seq(es) /\ Climbs(w[i].cands)
             /\ w[i].binds \in Binding(VarsTo(r, i - 1), NamesIn(es))
             /\ DOMAIN w[i].binds = VarsTo(r, i - 1)
             /\ \A j \in 1 .. i - 1 : Apply(r.if[j], w[i].binds) \in es
  <2>1. w[i] \in Frames(r, es) /\ FrameFor(r, es, w[i], i)
    BY <1>1
  <2>2. w[i].cands \in Seq(es)
    BY <2>1 DEF Frames
  <2>3. /\ Climbs(w[i].cands) /\ w[i].binds \in Binding(VarsTo(r, i - 1), NamesIn(es))
        /\ \A j \in 1 .. i - 1 : Apply(r.if[j], w[i].binds) \in es
    BY <2>1 DEF FrameFor
  <2> QED
    BY <2>1, <2>2, <2>3 DEF Binding
<1> QED
  BY <1>1, <1>2

LEMMA PathLength ==
  ASSUME NEW r, NEW es, NEW w, PathFor(r, es, w)
  PROVE  /\ Len(w) \in Nat /\ Len(w) <= Len(r.if) /\ DOMAIN w = 1 .. Len(w)
         /\ w # << >> => Len(w) \in 1 .. Len(w)
BY DEF PathFor

LEMMA MovedIs ==
  ASSUME NEW r \in Rule, NEW es \in SUBSET Atom, NEW w, PathFor(r, es, w), w # << >>,
         w[Len(w)].cands # << >>
  PROVE  /\ Moved(w) \in Seq(Frames(r, es)) /\ Len(Moved(w)) = Len(w) /\ DOMAIN Moved(w) = 1 .. Len(w)
         /\ \A i \in 1 .. Len(w) : Moved(w)[i].binds = w[i].binds
         /\ \A i \in 1 .. Len(w) : i # Len(w) => Moved(w)[i] = w[i]
         /\ Moved(w)[Len(w)].cands = Tail(w[Len(w)].cands)
<1> DEFINE n == Len(w)
           f == [w[n] EXCEPT !.cands = Tail(@)]
<1>1. w \in Seq(Frames(r, es)) /\ n \in 1 .. n
  BY PathFacts
<1>2. w[n] \in Frames(r, es) /\ w[n].cands \in Seq(es) /\ Climbs(w[n].cands)
  BY <1>1, PathFacts
<1>3. Tail(w[n].cands) \in Seq(es)
  BY <1>2, TailIs
<1>4. f \in Frames(r, es) /\ f.binds = w[n].binds /\ f.cands = Tail(w[n].cands)
  BY <1>2, <1>3 DEF Frames
<1>5. Moved(w) = Front(w) \o <<f>>
  BY DEF Moved, Last
<1> HIDE DEF f
<1>6. /\ Moved(w) \in Seq(Frames(r, es)) /\ Len(Moved(w)) = Len(w)
      /\ \A i \in 1 .. Len(w) - 1 : Moved(w)[i] = w[i]
      /\ Moved(w)[Len(w)] = f
  BY <1>1, <1>4, <1>5, LastReplaced
<1>7. \A i \in 1 .. Len(w) : i # Len(w) => i \in 1 .. Len(w) - 1
  BY <1>1
<1>8. DOMAIN Moved(w) = 1 .. Len(w)
  BY <1>6
<1> HIDE DEF n
<1> QED
  BY <1>4, <1>6, <1>7, <1>8 DEF n

LEMMA MovedPath ==
  ASSUME NEW r \in Rule, NEW es \in SUBSET Atom, NEW w, PathFor(r, es, w), w # << >>,
         w[Len(w)].cands # << >>
  PROVE  PathFor(r, es, Moved(w))
<1> DEFINE u == Moved(w)
           n == Len(w)
<1>1. /\ u \in Seq(Frames(r, es)) /\ Len(u) = n /\ DOMAIN u = 1 .. n
      /\ \A i \in 1 .. n : u[i].binds = w[i].binds
      /\ \A i \in 1 .. n : i # n => u[i] = w[i]
      /\ u[n].cands = Tail(w[n].cands)
  BY MovedIs
<1>2. n \in Nat \ {0} /\ n <= Len(r.if)
  BY PathFacts
<1> HIDE DEF u
<1>3. ASSUME NEW i \in 1 .. n PROVE FrameFor(r, es, u[i], i)
  <2>1. /\ w[i].binds \in Binding(VarsTo(r, i - 1), NamesIn(es))
        /\ \A j \in 1 .. i - 1 : Apply(r.if[j], w[i].binds) \in es
        /\ Climbs(w[i].cands) /\ w[i].cands \in Seq(es)
    BY PathFacts
  <2>2. Climbs(u[i].cands)
    <3>1. CASE i = n
      BY <1>1, <2>1, <3>1, TailIs
    <3>2. CASE i # n
      BY <1>1, <2>1, <3>2
    <3> QED
      BY <3>1, <3>2
  <2> QED
    BY <1>1, <2>1, <2>2 DEF FrameFor
<1>4. ASSUME NEW i \in 1 .. n, NEW k \in 1 .. n, i < k PROVE Passed(r, u[i], i, u[k].binds)
  <2>1. Passed(r, w[i], i, w[k].binds)
    BY <1>4, PathFacts
  <2>2. i # n
    BY <1>2, <1>4
  <2> QED
    BY <1>1, <2>1, <2>2
<1> HIDE DEF n
<1> QED
  BY <1>1, <1>2, <1>3, <1>4 DEF PathFor, u

(***************************************************************************)
(* A binding that the first candidate gives goes on from the path, makes      *)
(* edges of the premises so far, and is past what every frame has tried.      *)
(***************************************************************************)
LEMMA FoundIs ==
  ASSUME NEW r \in Rule, NEW es \in SUBSET Atom, NEW w, PathFor(r, es, w), w # << >>,
         w[Len(w)].cands # << >>,
         NEW c \in MatchAtom(r.if[Len(w)], Head(w[Len(w)].cands), w[Len(w)].binds)
  PROVE  /\ c \in Binding(VarsTo(r, Len(w)), NamesIn(es)) /\ Continues(c, w[Len(w)].binds)
         /\ Apply(r.if[Len(w)], c) = Head(w[Len(w)].cands)
         /\ \A j \in 1 .. Len(w) : Apply(r.if[j], c) \in es
         /\ \A i \in 1 .. Len(w) : Passed(r, Moved(w)[i], i, c)
<1> DEFINE n == Len(w)
           b == w[n].binds
           e == Head(w[n].cands)
           p == r.if[n]
           U == NamesIn(es)
<1>1. n \in Nat \ {0} /\ n <= Len(r.if)
  BY PathFacts
<1>2. /\ b \in Binding(VarsTo(r, n - 1), U) /\ DOMAIN b = VarsTo(r, n - 1)
      /\ \A j \in 1 .. n - 1 : Apply(r.if[j], b) \in es
      /\ w[n].cands \in Seq(es) /\ Climbs(w[n].cands)
  BY <1>1, PathFacts, SMTT(60)
<1>3. e \in es /\ \A k \in DOMAIN Tail(w[n].cands) : AtomLess(e, Tail(w[n].cands)[k])
  BY <1>2, TailIs
<1>4. e \in EdgesOver(U)
  BY <1>3, EdgeNames
<1>5. c \in MatchAtom(p, e, b)
  OBVIOUS
<1>6. VarsTo(r, n) = VarsTo(r, n - 1) \cup VarsOf(p)
  BY <1>1, VarsToIs
<1> HIDE DEF b, e, p, U
<1>7. c \in Binding(VarsTo(r, n), U) /\ Continues(c, b) /\ Apply(p, c) = e
  <2>1. /\ c \in Binding(VarsTo(r, n - 1) \cup VarsOf(p), U) /\ Continues(c, b)
        /\ Apply(p, c) = e
    <3>1. b \in Binding(VarsTo(r, n - 1), U) /\ e \in EdgesOver(U)
      BY <1>2, <1>4
    <3>2. c \in Binding(VarsTo(r, n - 1) \cup VarsOf(p), U) /\ Continues(c, b)
      BY <1>5, <3>1, MatchIs
    <3>3. Makes(p, c, e)
      BY <1>5, <3>1, MatchIs
    <3> QED
      BY <3>2, <3>3 DEF Makes
  <2> QED
    BY <1>6, <2>1
<1>8. \A j \in 1 .. n - 1 : VarsOf(r.if[j]) \subseteq DOMAIN b
  BY <1>1, <1>2, VarsToIs
<1>9. \A j \in 1 .. n - 1 : Apply(r.if[j], c) = Apply(r.if[j], b)
  BY <1>7, <1>8, GroundStays
<1>10. \A j \in 1 .. n : Apply(r.if[j], c) \in es
  <2> TAKE j \in 1 .. n
  <2>1. CASE j = n
    BY <1>3, <1>7, <2>1 DEF p
  <2>2. CASE j \in 1 .. n - 1
    BY <1>2, <1>9, <2>2
  <2> QED
    BY <1>1, <2>1, <2>2
<1>11. ASSUME NEW i \in 1 .. n PROVE Passed(r, Moved(w)[i], i, c)
  <2>1. CASE i = n
    <3>1. Moved(w)[n].binds = b /\ Moved(w)[n].cands = Tail(w[n].cands)
      <4>1. n \in 1 .. n /\ w[n].cands # << >>
        BY <1>1
      <4> QED
        BY <4>1, MovedIs DEF b
    <3> QED
      BY <1>3, <1>7, <2>1, <3>1 DEF Passed, p
  <2>2. CASE i \in 1 .. n - 1
    <3>1. i < n /\ i # n /\ n \in 1 .. n
      BY <1>1, <2>2
    <3>2. Moved(w)[i] = w[i]
      BY <3>1, MovedIs
    <3>3. Passed(r, w[i], i, b)
      BY <3>1, PathFacts DEF b
    <3>4. Continues(c, w[i].binds)
      BY <1>7, <3>3 DEF Passed, Continues
    <3> QED
      BY <1>9, <2>2, <3>2, <3>3, <3>4 DEF Passed
  <2> QED
    BY <1>1, <2>1, <2>2
<1> QED
  BY <1>7, <1>10, <1>11 DEF b, e, p, U
-----------------------------------------------------------------------------
(* What a step of the search leaves ahead.                                   *)

\* The match takes the first candidate of the last frame.
Takes(r, w, m) ==
  /\ Continues(m, w[Len(w)].binds)
  /\ Apply(r.if[Len(w)], m) = Head(w[Len(w)].cands)

LEMMA AheadMoved ==
  ASSUME NEW r \in Rule, NEW es \in SUBSET Atom, NEW w, PathFor(r, es, w), w # << >>,
         w[Len(w)].cands # << >>, NEW m
  PROVE  Ahead(r, w, m) <=> Ahead(r, Moved(w), m) \/ Takes(r, w, m)
<1> DEFINE u == Moved(w)
           n == Len(w)
           cs == w[n].cands
<1>1. /\ Len(u) = n /\ DOMAIN u = 1 .. n /\ DOMAIN w = 1 .. n /\ n \in 1 .. n
      /\ \A i \in 1 .. n : u[i].binds = w[i].binds
      /\ \A i \in 1 .. n : i # n => u[i] = w[i]
      /\ u[n].cands = Tail(cs)
  <2>1. DOMAIN w = 1 .. n /\ n \in 1 .. n
    BY PathLength
  <2> QED
    BY <2>1, MovedIs, ZenonT(60)
<1>2. cs \in Seq(es) /\ Climbs(cs) /\ cs # << >>
  BY <1>1, PathFacts
<1>3. Head(cs) \in Range(cs) /\ Range(Tail(cs)) \subseteq Range(cs)
      /\ \A x \in Range(cs) : x = Head(cs) \/ x \in Range(Tail(cs))
  BY <1>2, TailIs
<1>4. Takes(r, w, m) <=> Continues(m, w[n].binds) /\ Apply(r.if[n], m) = Head(cs)
  BY DEF Takes
<1> HIDE DEF u, n, cs
<1>5. ASSUME NEW i \in 1 .. n
      PROVE  Apply(r.if[i], m) \in Range(w[i].cands)
               <=> \/ Apply(r.if[i], m) \in Range(u[i].cands)
                   \/ i = n /\ Apply(r.if[i], m) = Head(cs)
  <2>1. CASE i = n
    BY <1>1, <1>3, <2>1 DEF cs
  <2>2. CASE i # n
    BY <1>1, <2>2
  <2> QED
    BY <2>1, <2>2
<1>6. Ahead(r, w, m) <=> \E i \in 1 .. n : Continues(m, w[i].binds) /\ Apply(r.if[i], m) \in Range(w[i].cands)
  BY <1>1 DEF Ahead
<1>7. Ahead(r, u, m) <=> \E i \in 1 .. n : Continues(m, w[i].binds) /\ Apply(r.if[i], m) \in Range(u[i].cands)
  BY <1>1 DEF Ahead
<1> QED
  BY <1>1, <1>4, <1>5, <1>6, <1>7 DEF u

LEMMA TakenFound ==
  ASSUME NEW r \in Rule, NEW es \in SUBSET Atom, NEW w, PathFor(r, es, w), w # << >>,
         w[Len(w)].cands # << >>, NEW m \in Matches(r, es), Takes(r, w, m)
  PROVE  /\ MatchAtom(r.if[Len(w)], Head(w[Len(w)].cands), w[Len(w)].binds) # {}
         /\ \A c \in MatchAtom(r.if[Len(w)], Head(w[Len(w)].cands), w[Len(w)].binds) : Continues(m, c)
<1> DEFINE n == Len(w)
           b == w[n].binds
           e == Head(w[n].cands)
           p == r.if[n]
           U == NamesIn(es)
           D == VarsTo(r, n - 1)
<1>1. n \in Nat \ {0} /\ n <= Len(r.if)
  BY PathFacts
<1>2. b \in Binding(D, U) /\ w[n].cands \in Seq(es) /\ Climbs(w[n].cands)
  <2>1. n \in 1 .. Len(w)
    BY <1>1
  <2> QED
    BY <2>1, PathFacts
<1>3. e \in EdgesOver(U)
  <2>1. e \in es
    BY <1>2, TailIs
  <2> QED
    BY <2>1, EdgeNames
<1>4. Continues(m, b) /\ Apply(p, m) = e
  BY DEF Takes
<1>5. \A v \in VarsOf(p) : v \in DOMAIN m /\ m[v] \in U
  <2>1. m \in [PremiseVars(r) -> U]
    BY MatchFacts DEF Binding
  <2>2. VarsOf(p) \subseteq PremiseVars(r)
    BY <1>1, RuleFields, VarsToIs
  <2> QED
    BY <2>1, <2>2
<1> HIDE DEF n, b, e, p, U, D
<1>6. MatchAtom(p, e, b) # {} /\ \A c \in MatchAtom(p, e, b) : Continues(m, c)
  BY <1>2, <1>3, <1>4, <1>5, MatchFinds
<1> QED
  BY <1>6 DEF n, b, e, p

(***************************************************************************)
(* What is ahead of a path comes, in the order of premises, behind a match     *)
(* the path is past.                                                        *)
(***************************************************************************)
LEMMA AheadIsLater ==
  ASSUME NEW r \in Rule, NEW es \in SUBSET Atom, NEW w, PathFor(r, es, w),
         NEW c \in Matches(r, es), \A i \in 1 .. Len(w) : Passed(r, w[i], i, c),
         NEW m \in Matches(r, es), Ahead(r, w, m)
  PROVE  PremisesLess(Derivation(r, c).prem, Derivation(r, m).prem)
<1> DEFINE n == Len(r.if)
           f == [i \in 1 .. n |-> Apply(r.if[i], c)]
           g == [i \in 1 .. n |-> Apply(r.if[i], m)]
<1>1. /\ Derivation(r, c).prem = f /\ Derivation(r, m).prem = g
      /\ DOMAIN f = 1 .. n /\ \A i \in 1 .. n : f[i] = Apply(r.if[i], c) /\ g[i] = Apply(r.if[i], m)
  BY MatchFacts
<1> HIDE DEF f, g
<1>2. /\ DOMAIN w = 1 .. Len(w) /\ Len(w) \in Nat /\ Len(w) <= n /\ n \in Nat
      /\ \A i \in 1 .. Len(w) : DOMAIN w[i].binds = VarsTo(r, i - 1)
  <2>1. /\ DOMAIN w = 1 .. Len(w) /\ Len(w) \in Nat /\ Len(w) <= n
        /\ \A i \in 1 .. Len(w) : DOMAIN w[i].binds = VarsTo(r, i - 1)
    <3>1. DOMAIN w = 1 .. Len(w) /\ Len(w) \in Nat /\ Len(w) <= n
      BY PathLength
    <3>2. \A i \in 1 .. Len(w) : DOMAIN w[i].binds = VarsTo(r, i - 1)
      BY PathFacts, ZenonT(60)
    <3> QED
      BY <3>1, <3>2
  <2>2. n \in Nat
    BY RuleFields
  <2> QED
    BY <2>1, <2>2
<1>3. PICK i \in 1 .. Len(w) : Continues(m, w[i].binds) /\ Apply(r.if[i], m) \in Range(w[i].cands)
  BY <1>2 DEF Ahead
<1>4. Passed(r, w[i], i, c)
  OBVIOUS
<1>5. AtomLess(f[i], g[i])
  <2>1. PICK k \in DOMAIN w[i].cands : w[i].cands[k] = Apply(r.if[i], m)
    BY <1>3 DEF Range
  <2>2. AtomLess(Apply(r.if[i], c), Apply(r.if[i], m))
    BY <1>4, <2>1 DEF Passed
  <2> QED
    BY <1>1, <1>2, <2>2
<1>6. ASSUME NEW j \in 1 .. i - 1 PROVE f[j] = g[j]
  <2>1. VarsOf(r.if[j]) \subseteq DOMAIN w[i].binds
    BY <1>2, VarsToIs
  <2>2. Apply(r.if[j], c) = Apply(r.if[j], w[i].binds)
    BY <1>4, <2>1, GroundStays DEF Passed
  <2>3. Apply(r.if[j], m) = Apply(r.if[j], w[i].binds)
    BY <1>3, <2>1, GroundStays
  <2> QED
    BY <1>1, <1>2, <2>2, <2>3
<1> QED
  BY <1>1, <1>2, <1>5, <1>6 DEF PremisesLess

\* The first candidate does not match: nothing is lost.
LEMMA TriedStep ==
  ASSUME NEW r \in Rule, NEW es \in SUBSET Atom, NEW w, PathFor(r, es, w), w # << >>,
         w[Len(w)].cands # << >>, NEW s, AllOnTheWay(r, es, w, s),
         MatchAtom(r.if[Len(w)], Head(w[Len(w)].cands), w[Len(w)].binds) = {}
  PROVE  AllOnTheWay(r, es, Moved(w), s)
<1>1. ASSUME NEW m \in Matches(r, es) PROVE Ahead(r, w, m) <=> Ahead(r, Moved(w), m)
  BY AheadMoved, TakenFound
<1> QED
  BY <1>1 DEF AllOnTheWay

\* The last frame has no candidates left.
LEMMA BackStep ==
  ASSUME NEW r \in Rule, NEW es \in SUBSET Atom, NEW w, PathFor(r, es, w), w # << >>,
         w[Len(w)].cands = << >>, NEW s, AllOnTheWay(r, es, w, s)
  PROVE  PathFor(r, es, Front(w)) /\ AllOnTheWay(r, es, Front(w), s)
<1> DEFINE u == Front(w)
           n == Len(w)
<1>1. /\ w \in Seq(Frames(r, es)) /\ n \in Nat \ {0} /\ n <= Len(r.if) /\ DOMAIN w = 1 .. n
      /\ w[n] \in Frames(r, es)
      /\ \A i \in 1 .. n : FrameFor(r, es, w[i], i)
      /\ \A i, k \in 1 .. n : i < k => Passed(r, w[i], i, w[k].binds)
  <2>1. /\ w \in Seq(Frames(r, es)) /\ n \in Nat \ {0} /\ n <= Len(r.if) /\ DOMAIN w = 1 .. n
    BY PathFacts
  <2>2. w[n] \in Frames(r, es)
    BY <2>1, PathFacts
  <2> QED
    BY <2>1, <2>2 DEF PathFor
<1>2. u \in Seq(Frames(r, es)) /\ Len(u) = n - 1 /\ \A i \in 1 .. n - 1 : u[i] = w[i]
  BY <1>1, FrontIs
<1> HIDE DEF u, n
<1>3. DOMAIN u = 1 .. n - 1 /\ n - 1 <= Len(r.if)
  BY <1>1, <1>2, RuleFields
<1>4. PathFor(r, es, u)
  BY <1>1, <1>2, <1>3 DEF PathFor
<1>5. ASSUME NEW m PROVE Ahead(r, u, m) <=> Ahead(r, w, m)
  <2>1. Range(w[n].cands) = {}
    BY DEF Range, n
  <2>2. \A i \in 1 .. n : i # n => i \in 1 .. n - 1
    BY <1>1
  <2>3. \A i \in 1 .. n - 1 : i \in 1 .. n
    BY <1>1
  <2> QED
    BY <1>1, <1>2, <1>3, <2>1, <2>2, <2>3 DEF Ahead
<1> QED
  BY <1>4, <1>5 DEF AllOnTheWay, u
\* The first candidate matches, and the next premise is to be matched.
LEMMA PushStep ==
  ASSUME NEW r \in Rule, NEW es \in SUBSET Atom, NEW w, PathFor(r, es, w), w # << >>,
         w[Len(w)].cands # << >>, NEW s, AllOnTheWay(r, es, w, s), Len(w) < Len(r.if),
         NEW c \in MatchAtom(r.if[Len(w)], Head(w[Len(w)].cands), w[Len(w)].binds),
         NEW f \in Frames(r, es), f.binds = c, Climbs(f.cands),
         \A m : Continues(m, c) /\ Apply(r.if[Len(w) + 1], m) \in es
           => Apply(r.if[Len(w) + 1], m) \in Range(f.cands)
  PROVE  PathFor(r, es, Append(Moved(w), f)) /\ AllOnTheWay(r, es, Append(Moved(w), f), s)
<1> DEFINE n == Len(w)
           v == Moved(w)
           u == Append(v, f)
<1>1. n \in Nat \ {0} /\ n + 1 <= Len(r.if) /\ Len(r.if) \in Nat
  BY PathFacts, RuleFields
<1>2. v \in Seq(Frames(r, es)) /\ Len(v) = n /\ DOMAIN v = 1 .. n
  BY MovedIs
<1>3. PathFor(r, es, v)
  BY MovedPath
<1>4. /\ c \in Binding(VarsTo(r, n), NamesIn(es)) /\ Continues(c, w[n].binds)
      /\ Apply(r.if[n], c) = Head(w[n].cands)
      /\ \A j \in 1 .. n : Apply(r.if[j], c) \in es
      /\ \A i \in 1 .. n : Passed(r, v[i], i, c)
  BY FoundIs
<1>5. \A m \in Matches(r, es) : Takes(r, w, m) => Continues(m, c)
  BY TakenFound
<1>6. \A m : Ahead(r, w, m) <=> Ahead(r, v, m) \/ Takes(r, w, m)
  BY AheadMoved
<1>7. \A m : Takes(r, w, m) <=> Continues(m, w[n].binds) /\ Apply(r.if[n], m) = Head(w[n].cands)
  BY DEF Takes
<1>8. \A m : Continues(m, c) /\ Apply(r.if[n + 1], m) \in es
           => Apply(r.if[n + 1], m) \in Range(f.cands)
  OBVIOUS
<1> HIDE DEF v
<1>9. /\ u \in Seq(Frames(r, es)) /\ Len(u) = n + 1 /\ DOMAIN u = 1 .. n + 1 /\ u[n + 1] = f
      /\ \A i \in 1 .. n : u[i] = v[i]
  BY <1>1, <1>2
<1> HIDE DEF u, n
<1>10. \A i \in 1 .. n + 1 : i = n + 1 \/ i \in 1 .. n
  BY <1>1
<1>11. ASSUME NEW i \in 1 .. n + 1 PROVE FrameFor(r, es, u[i], i)
  <2>1. CASE i \in 1 .. n
    BY <1>2, <1>3, <1>9, <2>1 DEF PathFor
  <2>2. CASE i = n + 1
    <3>1. (n + 1) - 1 = n
      BY <1>1
    <3> QED
      BY <1>4, <1>9, <2>2, <3>1 DEF FrameFor
  <2> QED
    BY <1>10, <2>1, <2>2
<1>12. ASSUME NEW i \in 1 .. n + 1, NEW k \in 1 .. n + 1, i < k
       PROVE  Passed(r, u[i], i, u[k].binds)
  <2>1. CASE k \in 1 .. n
    <3>1. i \in 1 .. n
      BY <1>1, <1>12, <2>1
    <3> QED
      BY <1>2, <1>3, <1>9, <1>12, <2>1, <3>1 DEF PathFor
  <2>2. CASE k = n + 1
    <3>1. i \in 1 .. n
      BY <1>1, <1>12, <2>2
    <3> QED
      BY <1>4, <1>9, <2>2, <3>1
  <2> QED
    BY <1>10, <2>1, <2>2
<1>13. PathFor(r, es, u)
  BY <1>1, <1>9, <1>11, <1>12 DEF PathFor
<1>14. ASSUME NEW m \in Matches(r, es) PROVE Ahead(r, u, m) <=> Ahead(r, w, m)
  <2>1. Apply(r.if[n + 1], m) \in es
    <3>1. n + 1 \in 1 .. Len(r.if)
      BY <1>1
    <3> QED
      BY <3>1, MatchFacts
  <2>2. Continues(m, c) => Takes(r, w, m)
    <3>1. VarsOf(r.if[n]) \subseteq DOMAIN c
      BY <1>1, <1>4, VarsToIs DEF Binding
    <3>2. ASSUME Continues(m, c)
          PROVE  Continues(m, w[n].binds) /\ Apply(r.if[n], m) = Head(w[n].cands)
      <4>1. Apply(r.if[n], m) = Apply(r.if[n], c)
        BY <3>1, <3>2, GroundStays
      <4>2. Continues(m, w[n].binds)
        BY <1>4, <3>2 DEF Continues
      <4> QED
        BY <1>4, <4>1, <4>2
    <3> QED
      BY <1>7, <3>2
  <2>3. Ahead(r, u, m)
          <=> Ahead(r, v, m) \/ (Continues(m, c) /\ Apply(r.if[n + 1], m) \in Range(f.cands))
    <3>1. Ahead(r, u, m) <=> \E i \in 1 .. n + 1 : Continues(m, u[i].binds)
                                                   /\ Apply(r.if[i], m) \in Range(u[i].cands)
      BY <1>9 DEF Ahead
    <3>2. Ahead(r, v, m) <=> \E i \in 1 .. n : Continues(m, u[i].binds)
                                               /\ Apply(r.if[i], m) \in Range(u[i].cands)
      BY <1>2, <1>9 DEF Ahead
    <3>3. n + 1 \in 1 .. n + 1 /\ \A i \in 1 .. n : i \in 1 .. n + 1
      BY <1>1
    <3> QED
      BY <1>9, <1>10, <3>1, <3>2, <3>3
  <2> QED
    BY <1>5, <1>6, <1>8, <2>1, <2>2, <2>3
<1>15. AllOnTheWay(r, es, u, s)
  BY <1>14 DEF AllOnTheWay
<1> QED
  BY <1>13, <1>15 DEF u, v, n

\* The last premise is matched.
LEMMA LastIsMatch ==
  ASSUME NEW r \in Rule, NEW es \in SUBSET Atom, NEW w, PathFor(r, es, w), w # << >>,
         w[Len(w)].cands # << >>, Len(w) = Len(r.if),
         NEW c \in MatchAtom(r.if[Len(w)], Head(w[Len(w)].cands), w[Len(w)].binds)
  PROVE  /\ DOMAIN c = PremiseVars(r)
         /\ VarsOf(r.then) \subseteq PremiseVars(r) => c \in Matches(r, es)
<1>1. /\ c \in Binding(VarsTo(r, Len(w)), NamesIn(es))
      /\ \A j \in 1 .. Len(w) : Apply(r.if[j], c) \in es
  BY FoundIs
<1>2. DOMAIN r.if = 1 .. Len(w) /\ VarsTo(r, Len(w)) = PremiseVars(r)
  BY RuleFields
<1> QED
  BY <1>1, <1>2 DEF Binding, Matches

LEMMA EmitStep ==
  ASSUME NEW r \in Rule, NEW es \in SUBSET Atom, NEW w, PathFor(r, es, w), w # << >>,
         w[Len(w)].cands # << >>, Len(w) = Len(r.if),
         NEW c \in MatchAtom(r.if[Len(w)], Head(w[Len(w)].cands), w[Len(w)].binds),
         VarsOf(r.then) \subseteq PremiseVars(r),
         NEW n \in Nat, NEW s, OutFor(r, es, n, s), Len(s) < n, AllOnTheWay(r, es, w, s)
  PROVE  /\ \A i \in DOMAIN s : s[i] # Derivation(r, c)
         /\ OutFor(r, es, n, Append(s, Derivation(r, c)))
         /\ AllOnTheWay(r, es, Moved(w), Append(s, Derivation(r, c)))
<1> DEFINE d == Derivation(r, c)
           t == Append(s, d)
           l == Len(s)
           v == Moved(w)
<1>1. c \in Matches(r, es) /\ DOMAIN c = PremiseVars(r)
  BY LastIsMatch
<1>2. Takes(r, w, c) /\ \A i \in 1 .. Len(v) : Passed(r, v[i], i, c)
  <2>1. Continues(c, w[Len(w)].binds) /\ Apply(r.if[Len(w)], c) = Head(w[Len(w)].cands)
    BY FoundIs, ZenonT(60)
  <2>2. Takes(r, w, c)
    BY <2>1 DEF Takes
  <2>3. \A i \in 1 .. Len(w) : Passed(r, Moved(w)[i], i, c)
    BY FoundIs, ZenonT(60)
  <2>4. Len(v) = Len(w)
    BY MovedIs
  <2> QED
    BY <2>2, <2>3, <2>4
<1>3. Ahead(r, w, c)
  BY <1>2, AheadMoved
<1>4. \A i \in DOMAIN s : PremisesLess(s[i].prem, d.prem)
  BY <1>1, <1>3 DEF AllOnTheWay
<1>5. d \in Derivations(r, es)
  BY <1>1 DEF Derivations
<1>6. ~PremisesLess(d.prem, d.prem)
  <2>1. Len(r.if) \in Nat /\ d \in Results(Len(r.if))
    BY <1>1, MatchFacts, RuleFields
  <2>2. d.prem \in [1 .. Len(r.if) -> Fields]
    BY <2>1 DEF Results
  <2> QED
    BY <2>1, <2>2, PremisesOrdered
<1>7. \A i \in DOMAIN s : s[i] # d
  BY <1>4, <1>6
<1>8. PathFor(r, es, v)
  BY MovedPath
<1>9. \A m : Ahead(r, w, m) <=> Ahead(r, v, m) \/ Takes(r, w, m)
  BY AheadMoved
<1>10. ASSUME NEW m \in Matches(r, es), Takes(r, w, m) PROVE m = c
  <2>1. Continues(m, c)
    BY <1>10, TakenFound
  <2>2. m \in [PremiseVars(r) -> NamesIn(es)] /\ c \in [PremiseVars(r) -> NamesIn(es)]
    BY <1>1 DEF Matches
  <2> QED
    BY <2>1, <2>2 DEF Continues
<1>11. /\ s \in Seq(Derivations(r, es)) /\ l \in Nat /\ DOMAIN s = 1 .. l
       /\ \A i, j \in DOMAIN s : i < j => PremisesLess(s[i].prem, s[j].prem)
  BY DEF OutFor
<1>12. ASSUME NEW m \in Matches(r, es), Ahead(r, v, m)
       PROVE  PremisesLess(d.prem, Derivation(r, m).prem)
  <2> HIDE DEF v
  <2> QED
    BY <1>1, <1>2, <1>8, <1>12, AheadIsLater
<1> HIDE DEF d, v, l
<1>13. /\ t \in Seq(Derivations(r, es)) /\ Len(t) = l + 1 /\ DOMAIN t = 1 .. l + 1 /\ t[l + 1] = d
       /\ \A i \in 1 .. l : t[i] = s[i]
  BY <1>5, <1>11 DEF l
<1> HIDE DEF t
<1>14. \A i \in 1 .. l + 1 : i = l + 1 \/ i \in 1 .. l
  BY <1>11
<1>15. OutFor(r, es, n, t)
  <2>1. Len(t) <= n
    BY <1>11, <1>13 DEF l
  <2>2. ASSUME NEW i \in 1 .. l + 1, NEW j \in 1 .. l + 1, i < j
        PROVE  PremisesLess(t[i].prem, t[j].prem)
    <3>1. i \in 1 .. l
      BY <1>11, <2>2
    <3>2. CASE j = l + 1
      BY <1>4, <1>11, <1>13, <3>1, <3>2
    <3>3. CASE j \in 1 .. l
      BY <1>11, <1>13, <2>2, <3>1, <3>3
    <3> QED
      BY <1>14, <3>2, <3>3
  <2> QED
    BY <1>13, <2>1, <2>2 DEF OutFor
<1>16. AllOnTheWay(r, es, v, t)
  <2> SUFFICES ASSUME NEW m \in Matches(r, es)
               PROVE  /\ Ahead(r, v, m) \/ Derivation(r, m) \in Range(t)
                      /\ Ahead(r, v, m) => \A i \in DOMAIN t :
                                             PremisesLess(t[i].prem, Derivation(r, m).prem)
    BY DEF AllOnTheWay
  <2>1. Range(s) \subseteq Range(t) /\ d \in Range(t)
    <3>1. \A i \in 1 .. l : i \in 1 .. l + 1
      BY <1>11
    <3>2. l + 1 \in 1 .. l + 1
      BY <1>11
    <3> QED
      BY <1>11, <1>13, <3>1, <3>2 DEF Range
  <2>2. /\ Ahead(r, w, m) \/ Derivation(r, m) \in Range(s)
        /\ Ahead(r, w, m) => \A i \in DOMAIN s : PremisesLess(s[i].prem, Derivation(r, m).prem)
    BY DEF AllOnTheWay
  <2>3. Takes(r, w, m) => Derivation(r, m) = d
    BY <1>10 DEF d
  <2>4. Ahead(r, v, m) \/ Derivation(r, m) \in Range(t)
    BY <1>9, <2>1, <2>2, <2>3
  <2>5. ASSUME Ahead(r, v, m), NEW i \in DOMAIN t
        PROVE  PremisesLess(t[i].prem, Derivation(r, m).prem)
    <3>1. CASE i = l + 1
      BY <1>12, <1>13, <2>5, <3>1
    <3>2. CASE i \in 1 .. l
      BY <1>9, <1>11, <1>13, <2>2, <2>5, <3>2
    <3> QED
      BY <1>13, <1>14, <2>5, <3>1, <3>2
  <2> QED
    BY <2>4, <2>5
<1> QED
  BY <1>7, <1>15, <1>16 DEF d, t, v
\* Nothing is bound yet.
LEMMA StartStep ==
  ASSUME NEW r \in Rule, NEW es \in SUBSET Atom, NEW n \in Nat,
         NEW f \in Frames(r, es), f.binds = NoBinds, Climbs(f.cands),
         \A m : Continues(m, NoBinds) /\ Apply(r.if[1], m) \in es
           => Apply(r.if[1], m) \in Range(f.cands)
  PROVE  PathFor(r, es, <<f>>) /\ OutFor(r, es, n, << >>) /\ AllOnTheWay(r, es, <<f>>, << >>)
<1> DEFINE w == <<f>>
<1>1. w \in Seq(Frames(r, es)) /\ Len(w) = 1 /\ DOMAIN w = {1} /\ w[1] = f
  OBVIOUS
<1>2. Len(r.if) \in Nat \ {0}
  BY RuleFields
<1>3. FrameFor(r, es, w[1], 1)
  <2>1. NoBinds \in Binding(VarsTo(r, 1 - 1), NamesIn(es))
    BY VarsToIs DEF NoBinds, Binding
  <2>2. 1 .. 1 - 1 = {}
    OBVIOUS
  <2> QED
    BY <1>1, <2>1, <2>2 DEF FrameFor
<1> HIDE DEF w
<1>4. PathFor(r, es, w)
  BY <1>1, <1>2, <1>3 DEF PathFor
<1>5. OutFor(r, es, n, << >>)
  BY DEF OutFor
<1>6. ASSUME NEW m \in Matches(r, es) PROVE Ahead(r, w, m)
  <2>1. Continues(m, NoBinds)
    BY DEF Continues, NoBinds
  <2>2. Apply(r.if[1], m) \in es
    <3>1. 1 \in 1 .. Len(r.if)
      BY <1>2
    <3> QED
      BY <3>1, MatchFacts
  <2> QED
    BY <1>1, <2>1, <2>2 DEF Ahead
<1>7. AllOnTheWay(r, es, w, << >>)
  BY <1>6 DEF AllOnTheWay
<1> QED
  BY <1>4, <1>5, <1>7 DEF w

LEMMA DerivationFacts ==
  ASSUME NEW r \in Rule, NEW es \in SUBSET Atom
  PROVE  Len(r.if) \in Nat /\ Derivations(r, es) \subseteq Results(Len(r.if))
<1>1. Len(r.if) \in Nat
  BY RuleFields
<1>2. \A m \in Matches(r, es) : Derivation(r, m) \in Results(Len(r.if))
  BY MatchFacts
<1> QED
  BY <1>1, <1>2 DEF Derivations

(***************************************************************************)
(* At the end the search has found the first n derivations: all before one    *)
(* that was found were found, and if one was not, then n are before it.        *)
(***************************************************************************)
LEMMA FoundAreFirst ==
  ASSUME NEW r \in Rule, NEW es \in SUBSET Atom, IsFiniteSet(es), NEW n \in Nat \ {0},
         NEW w, NEW s, OutFor(r, es, n, s), AllOnTheWay(r, es, w, s),
         Len(s) >= n \/ w = << >>
  PROVE  Range(s) = EvaluateRule(r, es, n) /\ IsInjective(s)
<1> DEFINE all == Derivations(r, es)
           before(d) == {e \in all : PremisesLess(e.prem, d.prem)}
           l == Len(s)
<1>1. /\ s \in Seq(all) /\ l \in Nat /\ l <= n /\ DOMAIN s = 1 .. l
      /\ \A i, j \in 1 .. l : i < j => PremisesLess(s[i].prem, s[j].prem)
      /\ \A i \in 1 .. l : s[i] \in all
  <2>1. /\ s \in Seq(all) /\ l <= n
        /\ \A i, j \in DOMAIN s : i < j => PremisesLess(s[i].prem, s[j].prem)
    BY DEF OutFor
  <2> QED
    BY <2>1
<1>2. \A d \in all : d.prem \in [1 .. Len(r.if) -> Fields] /\ Len(r.if) \in Nat
  BY DerivationFacts DEF Results
<1>3. IsFiniteSet(all)
  BY DerivationsFinite
<1>4. \A d \in all : ~PremisesLess(d.prem, d.prem)
  BY <1>2, PremisesOrdered
<1>5. ASSUME NEW d \in all, NEW e \in all, PremisesLess(d.prem, e.prem), PremisesLess(e.prem, d.prem)
      PROVE  FALSE
  <2>1. PremisesLess(d.prem, d.prem)
    BY <1>2, <1>5, PremisesChain
  <2> QED
    BY <1>4, <2>1
<1>6. ASSUME NEW d \in all, d \notin Range(s)
      PROVE  w # << >> /\ \A i \in 1 .. l : PremisesLess(s[i].prem, d.prem)
  <2>1. PICK m \in Matches(r, es) : d = Derivation(r, m)
    BY DEF Derivations
  <2>2. Ahead(r, w, m)
    BY <1>6, <2>1 DEF AllOnTheWay
  <2>3. w # << >>
    BY <2>2 DEF Ahead
  <2> QED
    BY <1>1, <2>1, <2>2, <2>3 DEF AllOnTheWay
<1> HIDE DEF all, l
<1>7. ASSUME NEW i \in 1 .. l, NEW j \in 1 .. l, s[i] = s[j] PROVE i = j
  <2>1. ~(i < j) /\ ~(j < i)
    BY <1>1, <1>4, <1>7
  <2> QED
    BY <1>1, <2>1
<1>8. IsInjective(s)
  BY <1>1, <1>7 DEF IsInjective
<1>9. Range(s) \subseteq all
  BY <1>1 DEF Range
<1>10. IsFiniteSet(Range(s)) /\ Cardinality(Range(s)) = l
  <2>1. s \in Bijection(1 .. l, Range(s))
    BY <1>1, <1>8 DEF Bijection, Injection, Surjection, Range
  <2>2. ExistsBijection(1 .. l, Range(s))
    BY <2>1 DEF ExistsBijection
  <2>3. Cardinality(Range(s)) = l
    BY <1>1, <2>2, FS_CountingElements
  <2> QED
    BY <1>3, <1>9, <2>3, FS_Subset
<1>11. ASSUME NEW d \in all
       PROVE  IsFiniteSet(before(d)) /\ Cardinality(before(d)) \in Nat
  <2>1. before(d) \in SUBSET all
    OBVIOUS
  <2> HIDE DEF before
  <2> QED
    BY <1>3, <2>1, FS_Subset, FS_CardinalityType
<1>12. ASSUME NEW d \in Range(s) PROVE Cardinality(before(d)) < n
  <2>1. before(d) \in SUBSET (Range(s) \ {d})
    <3> SUFFICES ASSUME NEW e \in all, PremisesLess(e.prem, d.prem) PROVE e \in Range(s) \ {d}
      OBVIOUS
    <3>1. PICK i \in 1 .. l : d = s[i]
      BY <1>1 DEF Range
    <3>2. e \in Range(s)
      BY <1>1, <1>5, <1>6, <3>1
    <3>3. e # d
      BY <1>4, <1>9
    <3> QED
      BY <3>2, <3>3
  <2>2. IsFiniteSet(Range(s) \ {d}) /\ Cardinality(Range(s) \ {d}) = l - 1
    BY <1>10, FS_RemoveElement
  <2> HIDE DEF before
  <2>3. Cardinality(before(d)) <= l - 1
    BY <2>1, <2>2, FS_Subset
  <2> QED
    BY <1>1, <1>9, <1>11, <2>3
<1>13. ASSUME NEW d \in all, d \notin Range(s) PROVE ~(Cardinality(before(d)) < n)
  <2>1. l = n
    <3>1. l >= n \/ w = << >>
      BY DEF l
    <3>2. w # << >>
      BY <1>6, <1>13
    <3>3. l \in Nat /\ l <= n
      BY <1>1
    <3> QED
      BY <3>1, <3>2, <3>3
  <2>2. Range(s) \in SUBSET before(d)
    BY <1>1, <1>6, <1>13 DEF Range
  <2> HIDE DEF before
  <2>3. Cardinality(Range(s)) <= Cardinality(before(d))
    BY <1>11, <2>2, FS_Subset
  <2> QED
    BY <1>10, <1>11, <2>1, <2>3
<1>14. EvaluateRule(r, es, n) = {d \in all : Cardinality(before(d)) < n}
  BY DEF EvaluateRule, all
<1> HIDE DEF before
<1>15. Range(s) = EvaluateRule(r, es, n)
  BY <1>9, <1>12, <1>13, <1>14
<1> QED
  BY <1>8, <1>15
\* Sorting the result loses nothing and leaves no ties.
LEMMA SortedResult ==
  ASSUME NEW n \in Nat, NEW T \in SUBSET Results(n), NEW s \in Seq(T), IsInjective(s)
  PROVE  LET t == Sorted(s, ResultLess)
         IN  /\ t \in Seq(T) /\ Range(t) = Range(s) /\ IsInjective(t)
             /\ kind # "plain" => \A i, j \in DOMAIN t : i < j => DerivationLess(t[i], t[j])
<1> DEFINE R == OrderOn(Range(s), ResultLess)
           t == ListBy(R, s)
<1>1. Sorted(s, ResultLess) = t
  BY DEF Sorted, Range
<1>2. Range(s) \subseteq T /\ DOMAIN s = 1 .. Len(s) /\ Len(s) \in Nat
  BY DEF Range
<1>3. \A d, e \in Range(s) : <<d, e>> \in R <=> ResultLess(d, e)
  BY DEF OrderOn
<1> HIDE DEF R
<1>4. \A d \in Range(s) : d \in Results(n) /\ d.then \in Fields
  BY <1>2 DEF Results
<1>5. CASE kind = "plain"
  <2>1. \A d, e \in Range(s) : <<d, e>> \in R <=> AtomLess(d.then, e.then)
    BY <1>3, <1>5 DEF ResultLess
  <2>2. \A d \in Range(s) : <<d, d>> \notin R
    BY <1>4, <2>1, AtomsOrdered
  <2>3. ASSUME NEW d \in Range(s), NEW e \in Range(s), NEW f \in Range(s)
        PROVE  /\ <<d, e>> \in R /\ <<e, f>> \in R => <<d, f>> \in R
               /\ <<d, e>> \notin R /\ <<e, f>> \notin R => <<d, f>> \notin R
    <3>1. d.then \in Fields /\ e.then \in Fields /\ f.then \in Fields
      BY <1>4
    <3>2. /\ AtomLess(d.then, e.then) /\ AtomLess(e.then, f.then) => AtomLess(d.then, f.then)
          /\ AtomLess(d.then, f.then) /\ AtomLess(f.then, e.then) => AtomLess(d.then, e.then)
      BY <3>1, AtomsChain
    <3>3. e.then = f.then \/ AtomLess(e.then, f.then) \/ AtomLess(f.then, e.then)
      BY <3>1, AtomsOrdered
    <3> QED
      BY <2>1, <3>2, <3>3
  <2>4. OrdersMostly(R, Range(s))
    BY <2>2, <2>3 DEF OrdersMostly
  <2>5. t \in Seq(T) /\ Range(t) = Range(s) /\ DOMAIN t = DOMAIN s
        /\ \A i, j \in DOMAIN s : t[i] = t[j] => i = j
    BY <2>4, ListByIs DEF IsInjective
  <2> QED
    BY <1>1, <1>5, <2>5 DEF IsInjective
<1>6. CASE kind # "plain"
  <2>1. \A d, e \in Range(s) : <<d, e>> \in R <=> DerivationLess(d, e)
    BY <1>3, <1>6 DEF ResultLess
  <2>2. \A d \in Range(s) : <<d, d>> \notin R
    BY <1>4, <2>1, ResultsOrdered
  <2>3. ASSUME NEW d \in Range(s), NEW e \in Range(s), NEW f \in Range(s)
        PROVE  /\ <<d, e>> \in R /\ <<e, f>> \in R => <<d, f>> \in R
               /\ <<d, e>> \notin R /\ <<e, f>> \notin R => <<d, f>> \notin R
    <3>1. d \in Results(n) /\ e \in Results(n) /\ f \in Results(n)
      BY <1>4
    <3>2. /\ DerivationLess(d, e) /\ DerivationLess(e, f) => DerivationLess(d, f)
          /\ DerivationLess(d, f) /\ DerivationLess(f, e) => DerivationLess(d, e)
      BY <3>1, ResultsChain
    <3>3. e = f \/ DerivationLess(e, f) \/ DerivationLess(f, e)
      BY <3>1, ResultsOrdered
    <3> QED
      BY <2>1, <3>2, <3>3
  <2>4. OrdersMostly(R, Range(s))
    BY <2>2, <2>3 DEF OrdersMostly
  <2>5. /\ t \in Seq(T) /\ Range(t) = Range(s) /\ DOMAIN t = DOMAIN s
        /\ \A i, j \in DOMAIN s : i < j => <<t[j], t[i]>> \notin R
    BY <2>4, ListByIs
  <2>6. \A i, j \in DOMAIN s : t[i] = t[j] => i = j
    BY <2>4, ListByIs DEF IsInjective
  <2>7. ASSUME NEW i \in DOMAIN t, NEW j \in DOMAIN t, i < j PROVE DerivationLess(t[i], t[j])
    <3>1. t[i] \in Range(s) /\ t[j] \in Range(s)
      BY <2>5 DEF Range
    <3>2. t[i] # t[j]
      BY <1>2, <2>5, <2>6, <2>7
    <3>3. ~DerivationLess(t[j], t[i])
      BY <2>1, <2>5, <2>7, <3>1
    <3> QED
      BY <1>4, <3>1, <3>2, <3>3, ResultsOrdered
  <2> HIDE DEF t
  <2> QED
    BY <1>1, <2>5, <2>6, <2>7 DEF IsInjective
<1> QED
  BY <1>5, <1>6

-----------------------------------------------------------------------------
(* The searches.                                                            *)

LEMMA SearchTyped ==
  ASSUME SearchType
  PROVE  rule \in Rule /\ edges \in SUBSET Atom /\ IsFiniteSet(edges) /\ max \in Nat \ {0}
<1>1. edges \in SUBSET SearchEdges /\ rule \in SearchRules /\ max \in Nat \ {0}
  BY DEF SearchType
<1>2. IsFiniteSet(edges)
  BY <1>1, SearchAssumption, FS_Subset
<1> QED
  BY <1>1, <1>2, SearchAssumption

LEMMA InitSearchOK == Init => SearchOK
<1>1. Init => SearchType
  BY SearchAssumption DEF Init, SearchType
<1> QED
  BY <1>1 DEF Init, SearchOK, SearchIsReference, ResultSorted

LEMMA StartOK == SearchOK /\ Start => SearchOK'
<1> SUFFICES ASSUME SearchOK, Start PROVE SearchOK'
  OBVIOUS
<1>1. SearchType /\ out = << >>
  BY DEF SearchOK, SearchType, Start
<1>2. rule \in Rule /\ edges \in SUBSET Atom /\ IsFiniteSet(edges) /\ max \in Nat \ {0}
  BY <1>1, SearchTyped
<1> DEFINE f == Frame(NoBinds, 1)
<1>3. 1 \in 1 .. Len(rule.if) /\ NoBinds \in Binding(VarsTo(rule, 1 - 1), NamesIn(edges))
  <2>1. 1 \in 1 .. Len(rule.if)
    BY <1>2, RuleFields
  <2> QED
    BY <2>1, VarsToIs DEF NoBinds, Binding
<1>4. /\ f.binds = NoBinds /\ Climbs(f.cands) /\ f \in Frames(rule, edges)
      /\ \A m : Continues(m, NoBinds) /\ Apply(rule.if[1], m) \in edges
           => Apply(rule.if[1], m) \in Range(f.cands)
  BY <1>2, <1>3, FrameIs
<1>5. path' = <<f>> /\ out' = << >> /\ pc' = "search" /\ UNCHANGED <<kind, rule, edges, max>>
  BY <1>1 DEF Start
<1> HIDE DEF f
<1>6. PathFor(rule, edges, <<f>>) /\ OutFor(rule, edges, max, << >>)
      /\ AllOnTheWay(rule, edges, <<f>>, << >>)
  BY <1>2, <1>4, StartStep
<1>7. SearchType'
  BY <1>1, <1>5 DEF SearchType
<1>8. SearchIsReference' /\ ResultSorted'
  BY <1>5 DEF SearchIsReference, ResultSorted
<1>9. PathFor(rule, edges, path)' /\ OutFor(rule, edges, max, out)' /\ AllOnTheWay(rule, edges, path, out)'
  BY <1>5, <1>6
<1> QED
  BY <1>7, <1>8, <1>9 DEF SearchOK

LEMMA TryNextOK == SearchOK /\ TryNext => SearchOK'
<1> SUFFICES ASSUME SearchOK, TryNext PROVE SearchOK'
  OBVIOUS
<1> DEFINE n == Len(path)
           found == MatchAtom(rule.if[n], Head(path[n].cands), path[n].binds)
<1>1. SearchType /\ PathFor(rule, edges, path) /\ OutFor(rule, edges, max, out)
      /\ AllOnTheWay(rule, edges, path, out)
  BY DEF SearchOK, TryNext
<1>2. rule \in Rule /\ edges \in SUBSET Atom /\ IsFiniteSet(edges) /\ max \in Nat \ {0}
  BY <1>1, SearchTyped
<1>3. /\ path # << >> /\ path[n].cands # << >> /\ Len(out) < max
      /\ n \in Nat \ {0} /\ n <= Len(rule.if) /\ Len(rule.if) \in Nat
  <2>1. path # << >> /\ path[n].cands # << >> /\ ~(Len(out) >= max)
    BY DEF TryNext, Top, Last, Full
  <2>2. n \in Nat \ {0} /\ n <= Len(rule.if) /\ Len(rule.if) \in Nat
    BY <1>1, <1>2, <2>1, PathFacts, RuleFields
  <2>3. Len(out) \in Nat
    BY <1>1 DEF OutFor
  <2> QED
    BY <1>2, <2>1, <2>2, <2>3
<1>4. Advanced = Moved(path)
  BY DEF Advanced, Moved, Top
<1>5. pc = "search" /\ pc' = "search" /\ UNCHANGED <<kind, rule, edges, max>>
  BY DEF TryNext
<1>6. \/ found = {} /\ path' = Moved(path) /\ out' = out
      \/ \E b \in found : n = Len(rule.if) /\ Emit(b) /\ path' = Moved(path)
      \/ \E b \in found : /\ n < Len(rule.if) /\ out' = out
                          /\ path' = Append(Moved(path), Frame(b, n + 1))
  BY <1>4 DEF TryNext, Top, Last
<1>7. PathFor(rule, edges, Moved(path))
  BY <1>1, <1>2, <1>3, MovedPath
<1>8. PathFor(rule, edges, path') /\ OutFor(rule, edges, max, out')
      /\ AllOnTheWay(rule, edges, path', out')
  <2>1. CASE found = {} /\ path' = Moved(path) /\ out' = out
    <3>1. AllOnTheWay(rule, edges, Moved(path), out)
      BY <1>1, <1>2, <1>3, <2>1, TriedStep
    <3> QED
      BY <1>1, <1>7, <2>1, <3>1
  <2>2. ASSUME NEW b \in found, n = Len(rule.if), Emit(b), path' = Moved(path)
        PROVE  PathFor(rule, edges, path') /\ OutFor(rule, edges, max, out')
               /\ AllOnTheWay(rule, edges, path', out')
    <3> DEFINE d == Derivation(rule, b)
    <3>1. /\ DOMAIN b = PremiseVars(rule)
          /\ VarsOf(rule.then) \subseteq PremiseVars(rule) => b \in Matches(rule, edges)
      BY <1>1, <1>2, <1>3, <2>2, LastIsMatch
    <3>2. CASE VarsOf(rule.then) \subseteq PremiseVars(rule)
      <4>1. /\ \A i \in DOMAIN out : out[i] # d
            /\ OutFor(rule, edges, max, Append(out, d))
            /\ AllOnTheWay(rule, edges, Moved(path), Append(out, d))
        BY <1>1, <1>2, <1>3, <2>2, <3>2, EmitStep
      <4>2. ~Contains(out, d)
        <5>1. DOMAIN out = 1 .. Len(out)
          BY <1>1 DEF OutFor
        <5> QED
          BY <4>1, <5>1 DEF Contains
      <4>3. out' = Append(out, d)
        BY <2>2, <3>1, <3>2, <4>2 DEF Emit
      <4> QED
        BY <1>7, <2>2, <4>1, <4>3
    <3>3. CASE ~(VarsOf(rule.then) \subseteq PremiseVars(rule))
      <4>1. out' = out
        BY <2>2, <3>1, <3>3 DEF Emit
      <4>2. Matches(rule, edges) = {}
        BY <3>3 DEF Matches
      <4>3. AllOnTheWay(rule, edges, Moved(path), out)
        BY <4>2 DEF AllOnTheWay
      <4> QED
        BY <1>1, <1>7, <2>2, <4>1, <4>3
    <3> QED
      BY <3>2, <3>3
  <2>3. ASSUME NEW b \in found, n < Len(rule.if), out' = out,
               path' = Append(Moved(path), Frame(b, n + 1))
        PROVE  PathFor(rule, edges, path') /\ OutFor(rule, edges, max, out')
               /\ AllOnTheWay(rule, edges, path', out')
    <3> DEFINE f == Frame(b, n + 1)
    <3>1. b \in Binding(VarsTo(rule, n), NamesIn(edges))
      BY <1>1, <1>2, <1>3, FoundIs
    <3>2. n + 1 \in 1 .. Len(rule.if) /\ (n + 1) - 1 = n
      BY <1>3, <2>3
    <3>3. /\ f.binds = b /\ Climbs(f.cands) /\ f \in Frames(rule, edges)
          /\ \A m : Continues(m, b) /\ Apply(rule.if[n + 1], m) \in edges
               => Apply(rule.if[n + 1], m) \in Range(f.cands)
      <4>1. b \in Binding(VarsTo(rule, (n + 1) - 1), NamesIn(edges))
        BY <3>1, <3>2
      <4> HIDE DEF n
      <4> QED
        BY <1>2, <3>2, <4>1, FrameIs
    <3> HIDE DEF f
    <3>4. PathFor(rule, edges, Append(Moved(path), f))
          /\ AllOnTheWay(rule, edges, Append(Moved(path), f), out)
      BY <1>1, <1>2, <1>3, <2>3, <3>3, PushStep
    <3> QED
      BY <1>1, <2>3, <3>4 DEF f
  <2> QED
    BY <1>6, <2>1, <2>2, <2>3
<1>9. SearchType'
  BY <1>1, <1>5 DEF SearchType
<1>10. SearchIsReference' /\ ResultSorted'
  BY <1>5 DEF SearchIsReference, ResultSorted
<1>11. PathFor(rule, edges, path)' /\ OutFor(rule, edges, max, out)'
       /\ AllOnTheWay(rule, edges, path, out)'
  BY <1>5, <1>8
<1> QED
  BY <1>9, <1>10, <1>11 DEF SearchOK

LEMMA BacktrackOK == SearchOK /\ Backtrack => SearchOK'
<1> SUFFICES ASSUME SearchOK, Backtrack PROVE SearchOK'
  OBVIOUS
<1>1. SearchType /\ PathFor(rule, edges, path) /\ OutFor(rule, edges, max, out)
      /\ AllOnTheWay(rule, edges, path, out)
  BY DEF SearchOK, Backtrack
<1>2. rule \in Rule /\ edges \in SUBSET Atom
  BY <1>1, SearchTyped
<1>3. path # << >> /\ path[Len(path)].cands = << >> /\ path' = Front(path) /\ pc' = "search"
      /\ UNCHANGED <<kind, rule, edges, max, out>>
  BY DEF Backtrack, Top, Last
<1>4. PathFor(rule, edges, Front(path)) /\ AllOnTheWay(rule, edges, Front(path), out)
  BY <1>1, <1>2, <1>3, BackStep
<1>5. SearchType'
  BY <1>1, <1>3 DEF SearchType
<1>6. SearchIsReference' /\ ResultSorted'
  BY <1>3 DEF SearchIsReference, ResultSorted
<1>7. PathFor(rule, edges, path)' /\ OutFor(rule, edges, max, out)'
      /\ AllOnTheWay(rule, edges, path, out)'
  BY <1>1, <1>3, <1>4
<1> QED
  BY <1>5, <1>6, <1>7 DEF SearchOK

LEMMA FinishOK == SearchOK /\ Finish => SearchOK'
<1> SUFFICES ASSUME SearchOK, Finish PROVE SearchOK'
  OBVIOUS
<1>1. SearchType /\ OutFor(rule, edges, max, out) /\ AllOnTheWay(rule, edges, path, out)
  BY DEF SearchOK, Finish
<1>2. rule \in Rule /\ edges \in SUBSET Atom /\ IsFiniteSet(edges) /\ max \in Nat \ {0}
  BY <1>1, SearchTyped
<1>3. /\ Len(out) >= max \/ path = << >>
      /\ out' = Sorted(out, ResultLess) /\ pc' = "done" /\ UNCHANGED <<kind, rule, edges, max>>
  BY DEF Finish, Full
<1>4. Range(out) = EvaluateRule(rule, edges, max) /\ IsInjective(out)
  BY <1>1, <1>2, <1>3, FoundAreFirst
<1>5. out \in Seq(Derivations(rule, edges))
  BY <1>1 DEF OutFor
<1>6. Len(rule.if) \in Nat /\ Derivations(rule, edges) \in SUBSET Results(Len(rule.if))
  BY <1>2, DerivationFacts
<1>7. /\ Range(out') = Range(out) /\ IsInjective(out')
      /\ kind # "plain" => \A i, j \in DOMAIN out' : i < j => DerivationLess(out'[i], out'[j])
  BY <1>3, <1>4, <1>5, <1>6, SortedResult
<1>8. SearchType'
  BY <1>1, <1>3 DEF SearchType
<1>9. ToSet(out') = Range(out')
  BY DEF ToSet, Range
<1>10. SearchIsReference'
  BY <1>3, <1>4, <1>7, <1>9 DEF SearchIsReference
<1>11. ResultSorted'
  BY <1>3, <1>7 DEF ResultSorted
<1> QED
  BY <1>3, <1>8, <1>10, <1>11 DEF SearchOK

LEMMA SearchStep == SearchOK /\ [Next]_vars => SearchOK'
<1> SUFFICES ASSUME SearchOK, [Next]_vars PROVE SearchOK'
  OBVIOUS
<1>1. CASE Start
  BY <1>1, StartOK
<1>2. CASE TryNext
  BY <1>2, TryNextOK
<1>3. CASE Backtrack
  BY <1>3, BacktrackOK
<1>4. CASE Finish
  BY <1>4, FinishOK
<1>5. CASE UNCHANGED vars
  <2>1. SearchType' /\ SearchIsReference' /\ ResultSorted'
    BY <1>5 DEF SearchOK, SearchType, SearchIsReference, ResultSorted, vars
  <2>2. pc = "search" => /\ PathFor(rule, edges, path)' /\ OutFor(rule, edges, max, out)'
                         /\ AllOnTheWay(rule, edges, path, out)'
    BY <1>5 DEF SearchOK, vars
  <2> QED
    BY <1>5, <2>1, <2>2 DEF SearchOK, vars
<1> QED
  BY <1>1, <1>2, <1>3, <1>4, <1>5 DEF Next, Done

(***************************************************************************)
(* EvaluateRule, EvaluateRuleDerivations and EvaluateRuleDerivationsIndexed    *)
(* return the same derivations, each once: the first max in the order of their *)
(* premises, for every rule, all edges and every limit.                      *)
(***************************************************************************)
THEOREM SearchesAgree == Spec => []SearchIsReference
<1>1. SearchOK => SearchIsReference
  BY DEF SearchOK
<1> QED
  BY <1>1, InitSearchOK, SearchStep, PTL DEF Spec

(***************************************************************************)
(* The searches come to the derivations in the order of their premises, so     *)
(* that what a limit cuts off depends on neither search nor map order.        *)
(***************************************************************************)
THEOREM SearchesGoInOrder == Spec => []FoundInOrder
<1>1. SearchOK => FoundInOrder
  BY DEF SearchOK, OutFor, FoundInOrder
<1> QED
  BY <1>1, InitSearchOK, SearchStep, PTL DEF Spec

(***************************************************************************)
(* The results with premises come in the one order of sort.Slice, no two of    *)
(* them equal.                                                              *)
(***************************************************************************)
THEOREM ResultsComeSorted == Spec => []ResultSorted
<1>1. SearchOK => ResultSorted
  BY DEF SearchOK
<1> QED
  BY <1>1, InitSearchOK, SearchStep, PTL DEF Spec
-----------------------------------------------------------------------------
(* Suggested rules.                                                         *)

LEMMA ThreeVariables ==
  X # Y /\ X # Z /\ Y # Z /\ X \in Var /\ Y \in Var /\ Z \in Var
<1>1. \A a, b : Cardinality({a, b}) # 3
  <2> SUFFICES ASSUME NEW a, NEW b PROVE Cardinality({a, b}) # 3
    OBVIOUS
  <2>1. IsFiniteSet({a}) /\ Cardinality({a}) = 1
    BY FS_Singleton
  <2>2. Cardinality({a} \cup {b}) = IF b \in {a} THEN Cardinality({a}) ELSE Cardinality({a}) + 1
    BY <2>1, FS_AddElement
  <2>3. {a, b} = {a} \cup {b}
    OBVIOUS
  <2> QED
    BY <2>1, <2>2, <2>3
<1>2. /\ X = Y => {X, Y, Z} = {X, Z}
      /\ X = Z => {X, Y, Z} = {X, Y}
      /\ Y = Z => {X, Y, Z} = {X, Y}
  OBVIOUS
<1> QED
  BY <1>1, <1>2, SuggestAssumption

LEMMA TransitiveIs ==
  ASSUME NEW p \in Token
  PROVE  /\ TransitiveRule(p) \in Rule
         /\ Len(TransitiveRule(p).if) = 2
         /\ PremiseVars(TransitiveRule(p)) = {X, Y, Z}
         /\ VarsOf(TransitiveRule(p).then) \subseteq {X, Y, Z}
         /\ \A m : /\ Apply(TransitiveRule(p).if[1], m) = [from |-> m[X], pred |-> p, to |-> m[Y]]
                   /\ Apply(TransitiveRule(p).if[2], m) = [from |-> m[Y], pred |-> p, to |-> m[Z]]
<1> DEFINE r == TransitiveRule(p)
           first == [from |-> X, pred |-> p, to |-> Y]
           second == [from |-> Y, pred |-> p, to |-> Z]
           then == [from |-> X, pred |-> p, to |-> Z]
<1>1. r = [name |-> TransitiveName, if |-> <<first, second>>, then |-> then]
  BY DEF TransitiveRule
<1>2. X \in Var /\ Y \in Var /\ Z \in Var /\ p \notin Var
  BY ThreeVariables, NamesAssumption
<1>3. first \in AtomPattern /\ second \in AtomPattern /\ then \in AtomPattern
  BY <1>2 DEF AtomPattern, Term
<1>4. VarsOf(first) = {X, Y} /\ VarsOf(second) = {Y, Z} /\ VarsOf(then) = {X, Z}
  BY <1>2 DEF VarsOf, IsVar
<1>5. \A m : /\ Apply(first, m) = [from |-> m[X], pred |-> p, to |-> m[Y]]
             /\ Apply(second, m) = [from |-> m[Y], pred |-> p, to |-> m[Z]]
  BY <1>2 DEF Apply, Ground, IsVar
<1> HIDE DEF first, second, then, r
<1>6. r.if = <<first, second>> /\ r.then = then /\ r \in Rule
  BY <1>1, <1>3, SuggestAssumption DEF Rule
<1>7. Len(r.if) = 2 /\ DOMAIN r.if = {1, 2} /\ r.if[1] = first /\ r.if[2] = second
  BY <1>6
<1>8. PremiseVars(r) = VarsOf(first) \cup VarsOf(second)
  BY <1>7 DEF PremiseVars
<1> QED
  BY <1>4, <1>5, <1>6, <1>7, <1>8 DEF r

(***************************************************************************)
(* The chains counted are the matches of the rule: first, middle and last node  *)
(* are what ?x, ?y and ?z are bound to.                                      *)
(***************************************************************************)
LEMMA ChainsAreDerivations ==
  ASSUME NEW es \in SUBSET Atom, IsFiniteSet(es), NEW p \in Token
  PROVE  /\ Cardinality(Chains(p, es)) \in Nat
         /\ Cardinality(Derivations(TransitiveRule(p), es)) = Cardinality(Chains(p, es))
<1> DEFINE r == TransitiveRule(p)
           edge(a, b) == [from |-> a, pred |-> p, to |-> b]
           ends == [m \in Matches(r, es) |-> <<m[X], m[Y], m[Z]>>]
<1>1. /\ r \in Rule /\ Len(r.if) = 2 /\ PremiseVars(r) = {X, Y, Z}
      /\ VarsOf(r.then) \subseteq {X, Y, Z}
      /\ \A m : Apply(r.if[1], m) = edge(m[X], m[Y]) /\ Apply(r.if[2], m) = edge(m[Y], m[Z])
  BY TransitiveIs
<1> HIDE DEF r
<1>2. \A m : m \in Matches(r, es)
        <=> /\ m \in [{X, Y, Z} -> NamesIn(es)]
            /\ edge(m[X], m[Y]) \in es /\ edge(m[Y], m[Z]) \in es
  <2>1. DOMAIN r.if = 1 .. 2
    BY <1>1, RuleFields
  <2> QED
    BY <1>1, <2>1 DEF Matches
<1>3. ASSUME NEW a, NEW b, NEW c
      PROVE  <<a, b, c>> \in Chains(p, es) <=> edge(a, b) \in es /\ edge(b, c) \in es
  <2>1. \A e \in es : e.pred = p => e = edge(e.from, e.to)
    BY DEF Atom
  <2>2. <<a, b, c>> \in Chains(p, es)
          <=> \E e \in es : \E f \in es : /\ e.pred = p /\ f.pred = p /\ f.from = e.to
                                          /\ a = e.from /\ b = e.to /\ c = f.to
    BY DEF Chains, Adjacent
  <2>3. \A x, y : edge(x, y).from = x /\ edge(x, y).pred = p /\ edge(x, y).to = y
    OBVIOUS
  <2> HIDE DEF edge
  <2> QED
    BY <2>1, <2>2, <2>3
<1>4. \A t \in Chains(p, es) : t = <<t[1], t[2], t[3]>>
  BY DEF Chains
<1>5. ends \in [Matches(r, es) -> Chains(p, es)]
  BY <1>2, <1>3
<1>6. ASSUME NEW m \in Matches(r, es), NEW n \in Matches(r, es), ends[m] = ends[n]
      PROVE  m = n
  <2>1. m[X] = n[X] /\ m[Y] = n[Y] /\ m[Z] = n[Z]
    BY <1>6
  <2>2. m \in [{X, Y, Z} -> NamesIn(es)] /\ n \in [{X, Y, Z} -> NamesIn(es)]
    BY <1>2
  <2> QED
    BY <2>1, <2>2
<1>7. ASSUME NEW t \in Chains(p, es) PROVE \E m \in Matches(r, es) : ends[m] = t
  <2> DEFINE m == [v \in {X, Y, Z} |-> IF v = X THEN t[1] ELSE IF v = Y THEN t[2] ELSE t[3]]
  <2>1. edge(t[1], t[2]) \in es /\ edge(t[2], t[3]) \in es
    BY <1>3, <1>4
  <2>2. t[1] \in NamesIn(es) /\ t[2] \in NamesIn(es) /\ t[3] \in NamesIn(es)
    <3>1. /\ edge(t[1], t[2]).from = t[1] /\ edge(t[1], t[2]).to = t[2]
          /\ edge(t[2], t[3]).to = t[3]
      OBVIOUS
    <3> HIDE DEF edge
    <3> QED
      BY <2>1, <3>1 DEF NamesIn
  <2>3. m[X] = t[1] /\ m[Y] = t[2] /\ m[Z] = t[3] /\ m \in [{X, Y, Z} -> NamesIn(es)]
    BY <2>2, ThreeVariables
  <2> HIDE DEF m
  <2>4. m \in Matches(r, es)
    BY <1>2, <2>1, <2>3
  <2> QED
    BY <1>4, <2>3, <2>4
<1> HIDE DEF ends
<1>8. ExistsBijection(Matches(r, es), Chains(p, es))
  <2>1. ends \in Injection(Matches(r, es), Chains(p, es))
    BY <1>5, <1>6 DEF Injection, IsInjective
  <2>2. ends \in Surjection(Matches(r, es), Chains(p, es))
    BY <1>5, <1>7 DEF Surjection
  <2> QED
    BY <2>1, <2>2 DEF Bijection, ExistsBijection
<1>9. /\ IsFiniteSet(Matches(r, es))
      /\ Cardinality(Derivations(r, es)) = Cardinality(Matches(r, es))
  BY <1>1, DerivationsFinite
<1>10. IsFiniteSet(Chains(p, es)) /\ Cardinality(Chains(p, es)) = Cardinality(Matches(r, es))
  BY <1>8, <1>9, FS_Bijection
<1> QED
  BY <1>9, <1>10, FS_CardinalityType DEF r

(***************************************************************************)
(* SuggestTransitive proposes a rule exactly when adding it would apply it as  *)
(* often as asked, at least once, for any facts.                             *)
(***************************************************************************)
THEOREM SuggestedRulesApply == Spec => []SuggestionsApply
<1>1. SearchOK => SuggestionsApply
  <2> SUFFICES ASSUME SearchOK, NEW p \in {e.pred : e \in edges}, NEW minChains \in 0 .. 6
               PROVE  TransitiveRule(p) \in SuggestTransitive(edges, minChains)
                        <=> /\ Cardinality(Derivations(TransitiveRule(p), edges)) > 0
                            /\ Cardinality(Derivations(TransitiveRule(p), edges)) >= minChains
    BY DEF SuggestionsApply
  <2> DEFINE made == Cardinality(Derivations(TransitiveRule(p), edges))
             least == Max({minChains, 1})
  <2>1. edges \in SUBSET Atom /\ IsFiniteSet(edges)
    BY SearchTyped DEF SearchOK
  <2>2. p \in Token
    BY <2>1 DEF Atom
  <2>3. made \in Nat /\ made = Cardinality(Chains(p, edges))
    BY <2>1, <2>2, ChainsAreDerivations
  <2>4. least = IF minChains >= 1 THEN minChains ELSE 1
    <3>1. \A x \in {minChains, 1} :
            (\A y \in {minChains, 1} : x >= y) <=> x = IF minChains >= 1 THEN minChains ELSE 1
      OBVIOUS
    <3> QED
      BY <3>1 DEF Max
  <2>5. \A q : TransitiveRule(q) = TransitiveRule(p) => q = p
    <3>1. \A q : TransitiveRule(q).then.pred = q
      BY DEF TransitiveRule
    <3> QED
      BY <3>1
  <2> HIDE DEF made, least
  <2>6. TransitiveRule(p) \in SuggestTransitive(edges, minChains)
          <=> Cardinality(Chains(p, edges)) >= least
    BY <2>5 DEF SuggestTransitive, least
  <2>7. made >= least <=> made > 0 /\ made >= minChains
    BY <2>3, <2>4
  <2> QED
    BY <2>3, <2>6, <2>7 DEF made
<1> QED
  BY <1>1, InitSearchOK, SearchStep, PTL DEF Spec
=============================================================================
