--------------------------- MODULE BulkLoadProofs ---------------------------
(***************************************************************************)
(* BulkLoad: the stores are the sets the engine takes them for, and what a    *)
(* load reports is what it has done, for all files, names and calls before;   *)
(* the stores' listings meet every edge and every belief once, in order.      *)
(***************************************************************************)
EXTENDS BulkLoad, AscendingProofs

-----------------------------------------------------------------------------
(* The lists of the belief store.                                           *)

LEMMA BeliefFields ==
  /\ \A b \in Belief : b.time \in Int /\ b.src \in Int
  /\ \A b, c \in Belief :
       b.atom = c.atom /\ b.pol = c.pol /\ b.src = c.src /\ b.time = c.time => b = c
<1>1. Name \subseteq Int
  BY NamesAssumption DEF Name, Empty
<1>2. \A b \in Belief : b.time \in Int /\ b.src \in Name
  BY DEF Belief
<1>3. ASSUME NEW b \in Belief, NEW c \in Belief,
             b.atom = c.atom, b.pol = c.pol, b.src = c.src, b.time = c.time
      PROVE  b = c
  <2>1. /\ b = [atom |-> b.atom, pol |-> b.pol, src |-> b.src, time |-> b.time]
        /\ c = [atom |-> c.atom, pol |-> c.pol, src |-> c.src, time |-> c.time]
    BY DEF Belief
  <2> QED
    BY <1>3, <2>1
<1> QED
  BY <1>1, <1>2, <1>3

LEMMA TimeAndSourceOrder ==
  ASSUME NEW S \in SUBSET Belief
  PROVE  OrdersMostly(OrderOn(S, BeliefLess), S)
<1> DEFINE R == OrderOn(S, BeliefLess)
<1>1. \A b, c \in S : <<b, c>> \in R <=> (b.time < c.time \/ (b.time = c.time /\ b.src < c.src))
  BY DEF OrderOn, BeliefLess
<1>2. \A b \in S : b.time \in Int /\ b.src \in Int
  BY BeliefFields
<1> HIDE DEF R
<1>3. \A b \in S : <<b, b>> \notin R
  BY <1>1, <1>2
<1>4. ASSUME NEW b \in S, NEW c \in S, NEW d \in S
      PROVE  /\ <<b, c>> \in R /\ <<c, d>> \in R => <<b, d>> \in R
             /\ <<b, c>> \notin R /\ <<c, d>> \notin R => <<b, d>> \notin R
  <2>1. /\ b.time \in Int /\ b.src \in Int /\ c.time \in Int /\ c.src \in Int
        /\ d.time \in Int /\ d.src \in Int
    BY <1>2
  <2> QED
    BY <1>1, <2>1
<1> QED
  BY <1>3, <1>4 DEF OrdersMostly, R

\* A belief put into a list is the only thing that comes to it.
LEMMA InsertedIs ==
  ASSUME NEW s \in Seq(Belief), NEW b \in Belief
  PROVE  /\ Inserted(s, b) \in Seq(Belief) /\ Len(Inserted(s, b)) = Len(s) + 1
         /\ Range(Inserted(s, b)) = Range(s) \cup {b}
<1> DEFINE t == Append(s, b)
           R == OrderOn({t[i] : i \in DOMAIN t}, BeliefLess)
<1>1. /\ t \in Seq(Belief) /\ Len(t) = Len(s) + 1 /\ DOMAIN t = 1 .. Len(s) + 1 /\ Len(s) \in Nat
      /\ DOMAIN s = 1 .. Len(s) /\ t[Len(s) + 1] = b /\ \A i \in 1 .. Len(s) : t[i] = s[i]
  OBVIOUS
<1> HIDE DEF t
<1>2. Range(t) = {t[i] : i \in DOMAIN t} /\ Range(t) \in SUBSET Belief
  <2>1. \A i \in DOMAIN t : t[i] \in Belief
    BY <1>1
  <2> QED
    BY <2>1 DEF Range
<1>3. Range(t) = Range(s) \cup {b}
  <2>1. DOMAIN t = DOMAIN s \cup {Len(s) + 1}
    BY <1>1
  <2> QED
    BY <1>1, <2>1 DEF Range
<1>4. OrdersMostly(R, Range(t))
  <2>1. OrdersMostly(OrderOn(Range(t), BeliefLess), Range(t))
    BY <1>2, TimeAndSourceOrder
  <2> QED
    BY <1>2, <2>1
<1>5. Inserted(s, b) = ListBy(R, t)
  BY DEF Inserted, Sorted, t
<1> HIDE DEF R
<1>6. /\ ListBy(R, t) \in Seq(Belief) /\ Len(ListBy(R, t)) = Len(t)
      /\ Range(ListBy(R, t)) = Range(t)
  BY <1>1, <1>4, ListByIs
<1> QED
  BY <1>1, <1>3, <1>5, <1>6

-----------------------------------------------------------------------------
(* The belief store as a set.                                               *)

ListsOK == beliefsByAtom \in [DOMAIN beliefsByAtom -> [Polarity -> Seq(Belief)]]

StoreOK ==
  /\ ListsOK
  /\ \A a \in DOMAIN beliefsByAtom : \A pol \in Polarity :
       \A b \in Range(beliefsByAtom[a][pol]) : b.atom = a /\ b.pol = pol
  /\ \A a \in DOMAIN resolutionByAtom : resolutionByAtom[a].atom = a
  /\ IsFiniteSet(Beliefs)

Stored == UNION {UNION {Range(beliefsByAtom[a][pol]) : pol \in Polarity} : a \in DOMAIN beliefsByAtom}

LEMMA RangeOfTwo ==
  ASSUME NEW S, NEW s \in Seq(S), NEW t \in Seq(S)
  PROVE  Range(s \o t) = Range(s) \cup Range(t)
<1>1. /\ Len(s) \in Nat /\ Len(t) \in Nat /\ DOMAIN s = 1 .. Len(s) /\ DOMAIN t = 1 .. Len(t)
      /\ DOMAIN (s \o t) = 1 .. Len(s) + Len(t)
      /\ \A i \in 1 .. Len(s) : (s \o t)[i] = s[i]
      /\ \A i \in 1 .. Len(s) + Len(t) : i > Len(s) => (s \o t)[i] = t[i - Len(s)]
  OBVIOUS
<1> DEFINE u == s \o t
<1> HIDE DEF u
<1>2. ASSUME NEW i \in DOMAIN u PROVE u[i] \in Range(s) \cup Range(t)
  <2>1. CASE i <= Len(s)
    <3>1. i \in DOMAIN s /\ u[i] = s[i]
      BY <1>1, <2>1 DEF u
    <3> QED
      BY <3>1 DEF Range
  <2>2. CASE ~(i <= Len(s))
    <3>1. i - Len(s) \in DOMAIN t /\ u[i] = t[i - Len(s)]
      BY <1>1, <2>2 DEF u
    <3> QED
      BY <3>1 DEF Range
  <2> QED
    BY <2>1, <2>2
<1>3. \A i \in DOMAIN s : i \in DOMAIN u /\ u[i] = s[i]
  BY <1>1 DEF u
<1>4. \A i \in DOMAIN t : i + Len(s) \in DOMAIN u /\ u[i + Len(s)] = t[i]
  BY <1>1 DEF u
<1>5. Range(u) = Range(s) \cup Range(t)
  BY <1>2, <1>3, <1>4 DEF Range
<1> QED
  BY <1>5 DEF u

LEMMA BeliefsAre == ListsOK => Beliefs = Stored
<1> SUFFICES ASSUME ListsOK PROVE Beliefs = Stored
  OBVIOUS
<1>1. ASSUME NEW a \in DOMAIN beliefsByAtom
      PROVE  Range(Snapshot(a)) = UNION {Range(beliefsByAtom[a][pol]) : pol \in Polarity}
  <2>1. beliefsByAtom[a]["-"] \in Seq(Belief) /\ beliefsByAtom[a]["+"] \in Seq(Belief)
    BY DEF Polarity, ListsOK
  <2>2. Snapshot(a) = beliefsByAtom[a]["-"] \o beliefsByAtom[a]["+"]
    BY DEF Snapshot, ByPolarity
  <2>3. Range(Snapshot(a)) = Range(beliefsByAtom[a]["-"]) \cup Range(beliefsByAtom[a]["+"])
    BY <2>1, <2>2, RangeOfTwo
  <2> QED
    BY <2>3 DEF Polarity
<1> QED
  BY <1>1 DEF Beliefs, Stored

LEMMA BeliefsAreNext == ListsOK' => (Beliefs = Stored)'
BY BeliefsAre, PTL

LEMMA DuplicateIsStored ==
  ASSUME StoreOK, NEW b \in Belief, b.pol \in Polarity
  PROVE  IsDuplicate(b) <=> b \in Beliefs
<1>1. Beliefs = Stored
  BY BeliefsAre DEF StoreOK
<1>2. ASSUME IsDuplicate(b) PROVE b \in Stored
  <2> DEFINE s == ByPolarity(b.atom)[b.pol]
  <2>1. PICK i \in DOMAIN s : s[i].src = b.src /\ s[i].time = b.time
    BY <1>2 DEF IsDuplicate
  <2>2. b.atom \in DOMAIN beliefsByAtom
    BY <2>1 DEF ByPolarity
  <2>3. s = beliefsByAtom[b.atom][b.pol] /\ s \in Seq(Belief)
    BY <2>2 DEF ByPolarity, StoreOK, ListsOK
  <2> HIDE DEF s
  <2>4. s[i] \in Range(s) /\ s[i] \in Belief
    BY <2>1, <2>3 DEF Range
  <2>5. s[i].atom = b.atom /\ s[i].pol = b.pol
    BY <2>2, <2>3, <2>4 DEF StoreOK
  <2>6. s[i] = b
    BY <2>1, <2>4, <2>5, BeliefFields
  <2> QED
    BY <2>2, <2>3, <2>4, <2>6 DEF Stored
<1>3. ASSUME b \in Stored PROVE IsDuplicate(b)
  <2>1. PICK a \in DOMAIN beliefsByAtom, pol \in Polarity : b \in Range(beliefsByAtom[a][pol])
    BY <1>3 DEF Stored
  <2>2. a = b.atom /\ pol = b.pol
    BY <2>1 DEF StoreOK
  <2>3. PICK i \in DOMAIN beliefsByAtom[a][pol] : beliefsByAtom[a][pol][i] = b
    BY <2>1 DEF Range
  <2> QED
    BY <2>1, <2>2, <2>3 DEF IsDuplicate, ByPolarity
<1> QED
  BY <1>1, <1>2, <1>3

\* Add puts the belief into the set and leaves all else as it was.
LEMMA AddStores ==
  ASSUME StoreOK, NEW b \in Belief, b.pol \in Polarity, Add(b)
  PROVE  StoreOK' /\ Beliefs' = Beliefs \cup {b} /\ UNCHANGED resolutionByAtom
<1>1. CASE IsDuplicate(b)
  <2>1. UNCHANGED <<beliefsByAtom, resolutionByAtom, count>>
    BY <1>1 DEF Add, store
  <2>2. Beliefs' = Beliefs
    BY <2>1 DEF Beliefs, Snapshot, ByPolarity
  <2>3. b \in Beliefs
    BY <1>1, DuplicateIsStored
  <2> QED
    BY <2>1, <2>2, <2>3 DEF StoreOK, ListsOK
<1>2. CASE ~IsDuplicate(b)
  <2> DEFINE m == beliefsByAtom
             list == Inserted(ByPolarity(b.atom)[b.pol], b)
  <2>1. /\ beliefsByAtom' = [a \in DOMAIN m \cup {b.atom} |->
                               IF a = b.atom THEN [ByPolarity(a) EXCEPT ![b.pol] = Inserted(@, b)]
                                             ELSE m[a]]
        /\ UNCHANGED resolutionByAtom
    BY <1>2 DEF Add
  <2>2. ListsOK /\ m \in [DOMAIN m -> [Polarity -> Seq(Belief)]]
    BY DEF StoreOK, ListsOK
  <2>3. ByPolarity(b.atom) \in [Polarity -> Seq(Belief)] /\ ByPolarity(b.atom)[b.pol] \in Seq(Belief)
    <3>1. << >> \in Seq(Belief)
      OBVIOUS
    <3> HIDE DEF m
    <3> QED
      BY <2>2, <3>1 DEF ByPolarity, m
  <2>4. list \in Seq(Belief) /\ Range(list) = Range(ByPolarity(b.atom)[b.pol]) \cup {b}
    BY <2>3, InsertedIs
  <2> HIDE DEF list
  <2>5. beliefsByAtom' = [a \in DOMAIN m \cup {b.atom} |->
                            IF a = b.atom THEN [ByPolarity(a) EXCEPT ![b.pol] = list] ELSE m[a]]
    BY <2>1 DEF list
  <2> DEFINE new == [ByPolarity(b.atom) EXCEPT ![b.pol] = list]
  <2>6. /\ new \in [Polarity -> Seq(Belief)] /\ new[b.pol] = list
        /\ \A pol \in Polarity \ {b.pol} : new[pol] = ByPolarity(b.atom)[pol]
    BY <2>3, <2>4
  <2> HIDE DEF new
  <2>7. /\ DOMAIN beliefsByAtom' = DOMAIN m \cup {b.atom}
        /\ beliefsByAtom'[b.atom] = new
        /\ \A a \in DOMAIN m \ {b.atom} : beliefsByAtom'[a] = m[a]
        /\ beliefsByAtom' = [a \in DOMAIN beliefsByAtom' |-> beliefsByAtom'[a]]
    <3> HIDE DEF m
    <3> QED
      BY <2>5 DEF new
  <2>8. ListsOK'
    <3>1. \A a \in DOMAIN beliefsByAtom' : beliefsByAtom'[a] \in [Polarity -> Seq(Belief)]
      <4> HIDE DEF m
      <4> QED
        BY <2>2, <2>6, <2>7
    <3> QED
      BY <2>7, <3>1 DEF ListsOK
  <2>9. \A pol \in Polarity : Range(new[pol])
           = Range(ByPolarity(b.atom)[pol]) \cup {c \in {b} : pol = b.pol}
    BY <2>4, <2>6
  <2>10. ASSUME NEW a \in DOMAIN m \cup {b.atom}, NEW pol \in Polarity
         PROVE  Range(beliefsByAtom'[a][pol])
                  = {c \in {b} : a = b.atom /\ pol = b.pol}
                      \cup (IF a \in DOMAIN m THEN Range(m[a][pol]) ELSE {})
    <3>1. CASE a = b.atom /\ a \in DOMAIN m
      BY <2>7, <2>9, <3>1 DEF ByPolarity
    <3>2. CASE a = b.atom /\ a \notin DOMAIN m
      <4>1. ByPolarity(b.atom)[pol] = << >>
        BY <3>2 DEF ByPolarity
      <4>2. Range(<< >>) = {}
        BY DEF Range
      <4> QED
        BY <2>7, <2>9, <3>2, <4>1, <4>2
    <3>3. CASE a # b.atom
      BY <2>7, <3>3
    <3> QED
      BY <3>1, <3>2, <3>3
  <2>11. Beliefs' = Beliefs \cup {b}
    <3>1. Beliefs' = Stored' /\ Beliefs = Stored
      BY <2>2, <2>8, BeliefsAre, BeliefsAreNext
    <3>2. \A c : c \in Stored' <=> \E a \in DOMAIN beliefsByAtom', pol \in Polarity :
                                     c \in Range(beliefsByAtom'[a][pol])
      BY DEF Stored
    <3>3. \A c : c \in Stored <=> \E a \in DOMAIN m, pol \in Polarity : c \in Range(m[a][pol])
      BY DEF Stored
    <3> HIDE DEF m
    <3>4. ASSUME NEW c \in Stored' PROVE c \in Stored \cup {b}
      BY <2>7, <2>10, <3>2, <3>3
    <3>5. ASSUME NEW c \in Stored PROVE c \in Stored'
      <4>1. PICK a \in DOMAIN m, pol \in Polarity : c \in Range(m[a][pol])
        BY <3>3
      <4> QED
        BY <2>7, <2>10, <3>2, <4>1
    <3>6. b \in Stored'
      <4>1. b \in Range(beliefsByAtom'[b.atom][b.pol])
        BY <2>10
      <4> QED
        BY <2>7, <3>2, <4>1
    <3> QED
      BY <3>1, <3>4, <3>5, <3>6
  <2>12. \A a \in DOMAIN beliefsByAtom' : \A pol \in Polarity :
           \A c \in Range(beliefsByAtom'[a][pol]) : c.atom = a /\ c.pol = pol
    <3> TAKE a \in DOMAIN beliefsByAtom'
    <3> TAKE pol \in Polarity
    <3>1. a \in DOMAIN m \cup {b.atom}
      BY <2>7
    <3>2. a \in DOMAIN m => \A c \in Range(m[a][pol]) : c.atom = a /\ c.pol = pol
      BY DEF StoreOK
    <3> QED
      BY <2>10, <3>1, <3>2
  <2>13. IsFiniteSet(Beliefs')
    BY <2>11, FS_AddElement DEF StoreOK
  <2>14. (\A a \in DOMAIN resolutionByAtom : resolutionByAtom[a].atom = a)'
    BY <2>1 DEF StoreOK
  <2> QED
    BY <2>1, <2>8, <2>11, <2>12, <2>13, <2>14 DEF StoreOK
<1> QED
  BY <1>1, <1>2

\* SetResolution leaves one resolution of the atom.
LEMMA SetResolutionStores ==
  ASSUME StoreOK, NEW r, SetResolution(r)
  PROVE  /\ StoreOK' /\ Beliefs' = Beliefs
         /\ DOMAIN resolutionByAtom \subseteq DOMAIN resolutionByAtom'
         /\ Range(resolutionByAtom)' = {s \in Range(resolutionByAtom) : s.atom # r.atom} \cup {r}
<1>1. /\ resolutionByAtom' = [a \in DOMAIN resolutionByAtom \cup {r.atom} |->
                                IF a = r.atom THEN r ELSE resolutionByAtom[a]]
      /\ UNCHANGED beliefsByAtom
      /\ \A a \in DOMAIN resolutionByAtom : resolutionByAtom[a].atom = a
  BY DEF SetResolution, StoreOK
<1>2. Beliefs' = Beliefs
  BY <1>1 DEF Beliefs, Snapshot, ByPolarity
<1>3. /\ DOMAIN resolutionByAtom' = DOMAIN resolutionByAtom \cup {r.atom}
      /\ \A a \in DOMAIN resolutionByAtom' :
           resolutionByAtom'[a] = IF a = r.atom THEN r ELSE resolutionByAtom[a]
  BY <1>1
<1>4. \A a \in DOMAIN resolutionByAtom' : resolutionByAtom'[a].atom = a
  BY <1>1, <1>3
<1>5. StoreOK'
  BY <1>1, <1>2, <1>4 DEF StoreOK, ListsOK
<1>6. Range(resolutionByAtom') = {s \in Range(resolutionByAtom) : s.atom # r.atom} \cup {r}
  <2>1. \A s : s \in Range(resolutionByAtom') <=> \E a \in DOMAIN resolutionByAtom' : resolutionByAtom'[a] = s
    BY DEF Range
  <2>2. \A s : s \in Range(resolutionByAtom) <=> \E a \in DOMAIN resolutionByAtom : resolutionByAtom[a] = s
    BY DEF Range
  <2>3. r \in Range(resolutionByAtom')
    BY <1>3, <2>1
  <2>4. ASSUME NEW s \in Range(resolutionByAtom), s.atom # r.atom
        PROVE  s \in Range(resolutionByAtom')
    <3>1. PICK a \in DOMAIN resolutionByAtom : resolutionByAtom[a] = s
      BY <2>2
    <3>2. a # r.atom /\ a \in DOMAIN resolutionByAtom'
      BY <1>1, <1>3, <2>4, <3>1
    <3> QED
      BY <1>3, <2>1, <3>1, <3>2
  <2>5. ASSUME NEW s \in Range(resolutionByAtom'), s # r
        PROVE  s \in Range(resolutionByAtom) /\ s.atom # r.atom
    <3>1. PICK a \in DOMAIN resolutionByAtom' : resolutionByAtom'[a] = s
      BY <2>1
    <3>2. a # r.atom /\ a \in DOMAIN resolutionByAtom /\ resolutionByAtom[a] = s
      BY <1>3, <2>5, <3>1
    <3> QED
      BY <1>1, <2>2, <3>2
  <2> QED
    BY <2>3, <2>4, <2>5
<1>7. Range(resolutionByAtom)' = Range(resolutionByAtom')
  BY DEF Range
<1> QED
  BY <1>2, <1>3, <1>5, <1>6, <1>7

-----------------------------------------------------------------------------
(* The graph as a set.                                                      *)

EdgesIn(m) == UNION {UNION {{Edge(x, p, y) : y \in Nodes(m, x, p)} : p \in DOMAIN m[x]} : x \in DOMAIN m}

LEMMA EdgesNow == AllEdges = EdgesIn(out) /\ AllEdges' = EdgesIn(out')
BY DEF AllEdges, EdgesIn, EdgesOfOut, Nodes, Inner

LEMMA EdgeIsIn ==
  \A m, x, p, y : Edge(x, p, y) \in EdgesIn(m) <=> y \in Nodes(m, x, p)
<1> TAKE m, x, p, y
<1>1. ASSUME Edge(x, p, y) \in EdgesIn(m) PROVE y \in Nodes(m, x, p)
  <2>1. PICK u \in DOMAIN m : \E q \in DOMAIN m[u] : \E z \in Nodes(m, u, q) :
               Edge(x, p, y) = Edge(u, q, z)
    BY <1>1 DEF EdgesIn
  <2> QED
    BY <2>1 DEF Edge
<1>2. ASSUME y \in Nodes(m, x, p) PROVE Edge(x, p, y) \in EdgesIn(m)
  <2>1. p \in DOMAIN Inner(m, x)
    BY <1>2 DEF Nodes
  <2>2. x \in DOMAIN m /\ p \in DOMAIN m[x]
    BY <2>1 DEF Inner
  <2> QED
    BY <1>2, <2>2 DEF EdgesIn
<1> QED
  BY <1>1, <1>2

LEMMA WithAdds ==
  \A m, x, p, y, u, q :
    Nodes(With(m, x, p, y), u, q) = Nodes(m, u, q) \cup {z \in {y} : u = x /\ q = p}
<1> TAKE m, x, p, y, u, q
<1> DEFINE w == With(m, x, p, y)
<1>1. /\ DOMAIN w = DOMAIN m \cup {x}
      /\ \A v \in DOMAIN m \cup {x} :
           w[v] = [r \in DOMAIN Inner(m, v) \cup {s \in {p} : v = x} |->
                     Nodes(m, v, r) \cup {z \in {y} : v = x /\ r = p}]
  BY DEF With
<1> HIDE DEF w
<1>2. CASE u \in DOMAIN w
  <2>1. Inner(w, u) = w[u]
    BY <1>2 DEF Inner
  <2>2. DOMAIN w[u] = DOMAIN Inner(m, u) \cup {s \in {p} : u = x}
    BY <1>1, <1>2, ZenonT(60)
  <2>3. CASE q \in DOMAIN w[u]
    <3>1. w[u][q] = Nodes(m, u, q) \cup {z \in {y} : u = x /\ q = p}
      <4>1. u \in DOMAIN m \cup {x} /\ q \in DOMAIN Inner(m, u) \cup {s \in {p} : u = x}
        BY <1>1, <1>2, <2>2, <2>3
      <4>2. w[u] = [r \in DOMAIN Inner(m, u) \cup {s \in {p} : u = x} |->
                      Nodes(m, u, r) \cup {z \in {y} : u = x /\ r = p}]
        BY <1>1, <4>1
      <4> QED
        BY <4>1, <4>2, Zenon
    <3> QED
      BY <2>1, <2>3, <3>1 DEF Nodes, w
  <2>4. CASE q \notin DOMAIN w[u]
    <3>1. ~(u = x /\ q = p) /\ q \notin DOMAIN Inner(m, u)
      BY <2>2, <2>4
    <3> QED
      BY <2>1, <2>4, <3>1 DEF Nodes, w
  <2> QED
    BY <2>3, <2>4
<1>3. CASE u \notin DOMAIN w
  <2>1. u # x /\ u \notin DOMAIN m
    BY <1>1, <1>3
  <2>2. Inner(w, u) = << >> /\ Inner(m, u) = << >>
    BY <1>3, <2>1 DEF Inner
  <2>3. DOMAIN << >> = {}
    OBVIOUS
  <2> QED
    BY <2>1, <2>2, <2>3 DEF Nodes, w
<1> QED
  BY <1>2, <1>3

LEMMA FactIsEdge ==
  ASSUME NEW a, a = Edge(a.from, a.pred, a.to), AddFact(a)
  PROVE  AllEdges' = AllEdges \cup {a}
<1>1. out' = With(out, a.from, a.pred, a.to)
  BY DEF AddFact
<1>2. \A x, p, y : y \in Nodes(out', x, p) <=> y \in Nodes(out, x, p) \/ Edge(x, p, y) = a
  <2> TAKE x, p, y
  <2>1. Nodes(out', x, p) = Nodes(out, x, p) \cup {z \in {a.to} : x = a.from /\ p = a.pred}
    BY <1>1, WithAdds
  <2>2. Edge(x, p, y) = a <=> x = a.from /\ p = a.pred /\ y = a.to
    BY DEF Edge
  <2> QED
    BY <2>1, <2>2
<1>3. \A m : \A e \in EdgesIn(m) : \E x, p, y : e = Edge(x, p, y)
  BY DEF EdgesIn
<1>4. \A e : e \in EdgesIn(out') <=> e \in EdgesIn(out) \/ e = a
  BY <1>2, <1>3, EdgeIsIn
<1> QED
  BY <1>4, EdgesNow

-----------------------------------------------------------------------------
(* The stores are sets.                                                     *)

LEMMA Ends ==
  ASSUME NEW l \in Nat, NEW S \in SUBSET (1 .. l), S # {}
  PROVE  /\ Min(S) \in S /\ Max(S) \in S
         /\ \A i \in S : Min(S) <= i /\ i <= Max(S)
<1>1. \E m \in S : \A i \in S : m <= i
  BY LeastNumber
<1>2. \E m \in S : \A i \in S : m >= i
  <2> DEFINE T == {l - i : i \in S}
  <2>1. T \in SUBSET Nat /\ T # {}
    <3>1. \A i \in S : l - i \in Nat
      OBVIOUS
    <3> QED
      BY <3>1
  <2>2. PICK n \in T : \A k \in T : n <= k
    BY <2>1, LeastNumber
  <2>3. PICK m \in S : n = l - m
    OBVIOUS
  <2>4. \A i \in S : l - m <= l - i
    BY <2>2, <2>3
  <2> QED
    BY <2>4
<1>3. Min(S) \in S /\ \A i \in S : Min(S) <= i
  BY <1>1 DEF Min
<1>4. Max(S) \in S /\ \A i \in S : Max(S) >= i
  BY <1>2 DEF Max
<1> QED
  BY <1>3, <1>4

\* What is left of a line: its fields from the first with something in it to
\* the last.
LEMMA LineIs ==
  ASSUME NEW rw \in Rows
  PROVE  LET S == Solid(rw.fields)
             t == LineTrimmed[rw]
             first == Min(S)
             last  == Max(S)
         IN  /\ rw.fields \in Seq(Name) /\ t \in Seq(Name)
             /\ S = {} => t = << >>
             /\ S # {} => /\ first \in S /\ last \in S /\ \A i \in S : first <= i /\ i <= last
                          /\ first \in Nat /\ last \in Nat /\ 1 <= first
                          /\ DOMAIN t = 1 .. last - first + 1
                          /\ \A i \in 1 .. last - first + 1 :
                               t[i] = IF i = last - first + 1 THEN Chopped[rw.fields[last]]
                                                              ELSE rw.fields[first + i - 1]
<1> DEFINE S == Solid(rw.fields)
           t == LineTrimmed[rw]
           first == Min(S)
           last  == Max(S)
           l == last - first + 1
<1>1. rw.fields \in Seq(Name) /\ Chopped \in [Name -> Name]
  BY RowAssumption DEF Row
<1>2. /\ Len(rw.fields) \in Nat /\ DOMAIN rw.fields = 1 .. Len(rw.fields)
      /\ \A i \in 1 .. Len(rw.fields) : rw.fields[i] \in Name
  BY <1>1
<1>3. S \in SUBSET (1 .. Len(rw.fields))
  BY <1>2 DEF Solid
<1>4. t = IF S = {} THEN << >>
          ELSE [i \in 1 .. l |-> IF i = l THEN Chopped[rw.fields[last]] ELSE rw.fields[first + i - 1]]
  BY DEF LineTrimmed
<1>5. S # {} => first \in S /\ last \in S /\ \A i \in S : first <= i /\ i <= last
  BY <1>2, <1>3, Ends
<1> HIDE DEF S, t, first, last
<1>6. ASSUME S # {}
      PROVE  first \in Nat /\ last \in Nat /\ 1 <= first /\ first <= last /\ last <= Len(rw.fields)
  <2>1. first \in S /\ last \in S /\ first <= last
    BY <1>5, <1>6
  <2>2. first \in 1 .. Len(rw.fields) /\ last \in 1 .. Len(rw.fields) /\ Len(rw.fields) \in Nat
    BY <1>2, <1>3, <2>1
  <2> QED
    BY <2>1, <2>2
<1>7. ASSUME S # {}
      PROVE  /\ DOMAIN t = 1 .. l /\ t \in Seq(Name)
             /\ \A i \in 1 .. l :
                  t[i] = IF i = l THEN Chopped[rw.fields[last]] ELSE rw.fields[first + i - 1]
  <2>1. l \in Nat /\ first \in Nat /\ last \in Nat /\ 1 <= first /\ first <= last /\ last <= Len(rw.fields)
    BY <1>6, <1>7
  <2>2. rw.fields[last] \in Name
    BY <1>2, <2>1
  <2>3. ASSUME NEW i \in 1 .. l
        PROVE  (IF i = l THEN Chopped[rw.fields[last]] ELSE rw.fields[first + i - 1]) \in Name
    <3>1. CASE i = l
      BY <1>1, <2>2, <3>1
    <3>2. CASE i # l
      <4>1. first + i - 1 \in 1 .. Len(rw.fields)
        BY <1>2, <2>1, <3>2
      <4> QED
        BY <1>2, <3>2, <4>1
    <3> QED
      BY <3>1, <3>2
  <2> HIDE DEF l
  <2>4. t \in [1 .. l -> Name]
    BY <1>4, <1>7, <2>3
  <2>5. t \in Seq(Name)
    BY <2>1, <2>4
  <2> QED
    BY <1>4, <1>7, <2>5
<1>8. S = {} => t = << >> /\ t \in Seq(Name)
  BY <1>4
<1>9. /\ rw.fields \in Seq(Name) /\ t \in Seq(Name)
      /\ S = {} => t = << >>
      /\ S # {} => /\ first \in S /\ last \in S /\ \A i \in S : first <= i /\ i <= last
                   /\ first \in Nat /\ last \in Nat /\ 1 <= first
                   /\ DOMAIN t = 1 .. l
                   /\ \A i \in 1 .. l :
                        t[i] = IF i = l THEN Chopped[rw.fields[last]] ELSE rw.fields[first + i - 1]
  <2> HIDE DEF l
  <2> QED
    BY <1>1, <1>5, <1>6, <1>7, <1>8
<1> QED
  BY <1>9, Zenon DEF S, t, first, last

LEMMA PartsAre ==
  ASSUME NEW rw \in Rows
  PROVE  Parts(rw) \in Seq(Name) /\ \A i : FieldAt(Parts(rw), i) \in Name
<1>1. Parts(rw) \in Seq(Name)
  BY LineIs DEF Parts
<1>2. \A i \in DOMAIN Parts(rw) : Parts(rw)[i] \in Name
  BY <1>1
<1> QED
  BY <1>1, <1>2 DEF FieldAt, Name

LEMMA RowsBelief ==
  ASSUME NEW rw \in Rows
  PROVE  BeliefOf(rw) \in Belief /\ BeliefOf(rw).pol \in Polarity
<1>1. Bare \in [Name -> Name] /\ FileSource \in Name
  BY RowAssumption
<1>2. \A name \in Name : Trimmed(name) \in Name
  BY <1>1 DEF Trimmed
<1>3. \A i : FieldAt(Parts(rw), i) \in Name
  BY PartsAre
<1> QED
  BY <1>1, <1>2, <1>3 DEF BeliefOf, BeliefIn, Belief, Polarity

LEMMA SameResolved ==
  ASSUME StoreOK
  PROVE  \A a : Sets!ResolvedFalse(a) <=> ResolvedFalse(a)
<1>1. \A r : r \in Range(resolutionByAtom) <=> \E a \in DOMAIN resolutionByAtom : resolutionByAtom[a] = r
  BY DEF Range
<1> QED
  BY <1>1 DEF Sets!ResolvedFalse, ResolvedFalse, StoreOK

\* What ingestNoLog does is one step of the sets.
LEMMA IngestLearns ==
  ASSUME StoreOK, NEW b \in Belief, b.pol \in Polarity, IngestNoLog(b)
  PROVE  Sets!SetsNext /\ StoreOK' /\ Beliefs' = Beliefs \cup {b} /\ UNCHANGED resolutionByAtom
<1>1. StoreOK' /\ Beliefs' = Beliefs \cup {b} /\ UNCHANGED resolutionByAtom
  BY AddStores DEF IngestNoLog
<1>2. b.atom = Edge(b.atom.from, b.atom.pred, b.atom.to)
  BY DEF Belief, Edge
<1>3. Sets!Projected(b) = IF b.pol = "+" /\ ~ResolvedFalse(b.atom) THEN {b.atom} ELSE {}
  BY SameResolved DEF Sets!Projected
<1>4. AllEdges' = AllEdges \cup Sets!Projected(b) /\ semantic' = semantic \cup Sets!Projected(b)
  <2>1. CASE b.pol = "+" /\ ~ResolvedFalse(b.atom)
    <3>1. AddFact(b.atom) /\ semantic' = semantic \cup {b.atom}
      BY <2>1 DEF IngestNoLog
    <3> QED
      BY <1>2, <1>3, <2>1, <3>1, FactIsEdge
  <2>2. CASE ~(b.pol = "+" /\ ~ResolvedFalse(b.atom))
    <3>1. UNCHANGED <<out, semantic>>
      BY <2>2 DEF IngestNoLog, memGraph
    <3> QED
      BY <1>3, <2>2, <3>1, EdgesNow
  <2> QED
    BY <2>1, <2>2
<1>5. Range(resolutionByAtom)' = Range(resolutionByAtom)
  BY <1>1 DEF Range
<1>6. Sets!Learn(b)
  BY <1>1, <1>4, <1>5 DEF Sets!Learn
<1>7. b \in Beliefs'
  BY <1>1
<1> QED
  BY <1>1, <1>6, <1>7 DEF Sets!SetsNext

LEMMA NothingStored ==
  ASSUME UNCHANGED <<store, memGraph, semantic>>
  PROVE  /\ UNCHANGED Sets!sets /\ StoreOK' = StoreOK
         /\ UNCHANGED <<beliefsByAtom, resolutionByAtom, count>> /\ Beliefs' = Beliefs
<1>1. UNCHANGED <<beliefsByAtom, resolutionByAtom, count, out, in, facts, semantic>>
  BY DEF store, memGraph
<1>2. Beliefs' = Beliefs /\ Range(resolutionByAtom)' = Range(resolutionByAtom)
  BY <1>1 DEF Beliefs, Snapshot, ByPolarity, Range
<1>3. AllEdges' = AllEdges
  BY <1>1, EdgesNow
<1> QED
  BY <1>1, <1>2, <1>3 DEF Sets!sets, StoreOK, ListsOK

LEMMA StoresStart == Init => StoreOK /\ Sets!SetsInit
<1> SUFFICES ASSUME Init PROVE StoreOK /\ Sets!SetsInit
  OBVIOUS
<1>1. /\ beliefsByAtom = << >> /\ resolutionByAtom = << >> /\ out = << >> /\ semantic = {}
  BY DEF Init, StoreInit, GraphInit
<1>2. DOMAIN << >> = {}
  OBVIOUS
<1>3. Beliefs = {}
  BY <1>1, <1>2 DEF Beliefs
<1>4. Range(resolutionByAtom) = {}
  BY <1>1, <1>2 DEF Range
<1>5. AllEdges = {}
  BY <1>1, <1>2, EdgesNow DEF EdgesIn
<1>6. ListsOK
  BY <1>1, <1>2 DEF ListsOK
<1> QED
  BY <1>1, <1>2, <1>3, <1>4, <1>5, <1>6, FS_EmptySet DEF StoreOK, Sets!SetsInit

\* What a step does to the stores.
LEMMA StepKinds ==
  ASSUME [Next]_vars
  PROVE  \/ \E r \in Resolved : SetResolution(r) /\ UNCHANGED <<memGraph, semantic>>
         \/ \E b \in Belief : b.pol \in Polarity /\ IngestNoLog(b)
         \/ UNCHANGED <<store, memGraph, semantic>>
<1>1. ASSUME NEW r \in Resolved, Resolve(r)
      PROVE  SetResolution(r) /\ UNCHANGED <<memGraph, semantic>>
  BY <1>1 DEF Resolve
<1>2. ASSUME NEW b \in Asserted, Ingest(b) \/ IngestNotLogged(b)
      PROVE  b \in Belief /\ b.pol \in Polarity /\ IngestNoLog(b)
  BY <1>2, RowAssumption DEF Ingest, IngestNotLogged, Valid
<1>3. ASSUME NEW b \in Concluded, Derive(b)
      PROVE  b \in Belief /\ b.pol \in Polarity /\ IngestNoLog(b)
  BY <1>3, RowAssumption DEF Derive, Valid
<1>4. ASSUME NEW rw \in Rows, IngestRow(rw)
      PROVE  \E b \in Belief : b.pol \in Polarity /\ IngestNoLog(b)
  <2>1. IngestNoLog(BeliefOf(rw))
    BY <1>4 DEF IngestRow
  <2>2. BeliefOf(rw) \in Belief /\ BeliefOf(rw).pol \in Polarity
    BY RowsBelief
  <2> HIDE DEF BeliefOf, IngestNoLog
  <2> QED
    BY <2>1, <2>2
<1>5. ASSUME NEW f, StartLoad(f) PROVE UNCHANGED <<store, memGraph, semantic>>
  BY <1>5 DEF StartLoad
<1>6. ASSUME NEW rw, SkipRow(rw) \/ FailedRead(rw) \/ RefusedRow(rw)
      PROVE  UNCHANGED <<store, memGraph, semantic>>
  BY <1>6 DEF SkipRow, FailedRead, RefusedRow
<1>7. EndOfInput \/ RulesApplied \/ Done \/ UNCHANGED vars => UNCHANGED <<store, memGraph, semantic>>
  BY DEF EndOfInput, RulesApplied, Done, vars
<1> HIDE DEF IngestNoLog
<1> QED
  BY <1>1, <1>2, <1>3, <1>4, <1>5, <1>6, <1>7 DEF Next, Loading, Applying

LEMMA StoresStep == StoreOK /\ [Next]_vars => StoreOK' /\ [Sets!SetsNext]_(Sets!sets)
<1> SUFFICES ASSUME StoreOK, [Next]_vars PROVE StoreOK' /\ [Sets!SetsNext]_(Sets!sets)
  OBVIOUS
<1>1. ASSUME NEW r \in Resolved, SetResolution(r), UNCHANGED <<memGraph, semantic>>
      PROVE  StoreOK' /\ Sets!SetsNext
  <2>1. /\ StoreOK' /\ Beliefs' = Beliefs
        /\ Range(resolutionByAtom)' = {s \in Range(resolutionByAtom) : s.atom # r.atom} \cup {r}
    BY <1>1, SetResolutionStores
  <2>2. AllEdges' = AllEdges
    BY <1>1, EdgesNow DEF memGraph
  <2>3. Sets!Settle(r) /\ r \in Range(resolutionByAtom)'
    BY <1>1, <2>1, <2>2 DEF Sets!Settle
  <2> QED
    BY <2>1, <2>3 DEF Sets!SetsNext
<1>2. ASSUME NEW b \in Belief, b.pol \in Polarity, IngestNoLog(b)
      PROVE  StoreOK' /\ Sets!SetsNext
  BY <1>2, IngestLearns
<1>3. CASE UNCHANGED <<store, memGraph, semantic>>
  BY <1>3, NothingStored
<1> HIDE DEF IngestNoLog, SetResolution
<1> QED
  BY <1>1, <1>2, <1>3, StepKinds

(***************************************************************************)
(* pkg/belief/store.go, pkg/kg/memgraph.go and the semantic index, filled     *)
(* through ingestNoLog: one set that beliefs are put into, one of resolutions,  *)
(* an atom each, and the projection of what comes in.                         *)
(***************************************************************************)
THEOREM StoresAreTheSets == Spec => StoresAreSets
<1>1. Spec => []StoreOK
  <2>1. Init => StoreOK
    BY StoresStart
  <2>2. StoreOK /\ [Next]_vars => StoreOK'
    BY StoresStep
  <2> QED
    BY <2>1, <2>2, PTL DEF Spec
<1>2. StoreOK /\ [Next]_vars => [Sets!SetsNext]_(Sets!sets)
  BY StoresStep
<1>3. Spec => [][Sets!SetsNext]_(Sets!sets)
  BY <1>1, <1>2, PTL DEF Spec
<1>4. Spec => Sets!SetsInit
  BY StoresStart, PTL DEF Spec
<1> QED
  BY <1>3, <1>4 DEF StoresAreSets, Sets!SetsSpec

-----------------------------------------------------------------------------
(* What a row says and what is read in it.                                   *)

LEMMA ReadAsSaid ==
  ASSUME NEW rw \in Rows, ~Misread(rw)
  PROVE  BeliefOf(rw) = Says(rw)
<1>1. /\ Bare \in [Name -> Name] /\ Bare[Empty] = Empty /\ Empty \in Name /\ Minus \in Name
      /\ Bare[Minus] = Minus /\ Chopped \in [Name -> Name]
      /\ \A name \in Name : Bare[Chopped[name]] = Bare[name]
  BY RowAssumption DEF Name
<1> DEFINE s == rw.fields
           t == Parts(rw)
<1>2. CASE format # "tsv"
  <2>1. t = s
    BY <1>2 DEF Parts
  <2>2. Trimmed(Minus) = Minus
    BY <1>1 DEF Trimmed
  <2>3. (FieldAt(s, 4) = Minus) <=> (Trimmed(FieldAt(s, 4)) = Minus)
    BY <2>1, <2>2 DEF Misread
  <2> QED
    BY <2>1, <2>3 DEF BeliefOf, Says, BeliefIn
<1>3. CASE format = "tsv"
  <2> DEFINE S == Solid(s)
             last == Max(S)
  <2>1. 1 \in S
    BY <1>3 DEF Misread
  <2>2. t = LineTrimmed[rw]
    BY <1>3 DEF Parts
  <2> HIDE DEF t
  <2>3. /\ s \in Seq(Name) /\ last \in S /\ last \in Nat /\ \A i \in S : i <= last
        /\ Min(S) \in S /\ \A i \in S : Min(S) <= i
        /\ Min(S) \in Nat /\ 1 <= Min(S)
        /\ DOMAIN t = 1 .. last - Min(S) + 1
        /\ \A i \in 1 .. last - Min(S) + 1 :
             t[i] = IF i = last - Min(S) + 1 THEN Chopped[s[last]] ELSE s[Min(S) + i - 1]
    BY <2>1, <2>2, LineIs
  <2> HIDE DEF last
  <2>4. Min(S) = 1
    BY <2>1, <2>3
  <2>5. /\ DOMAIN t = 1 .. last /\ 1 <= last
        /\ \A i \in 1 .. last : t[i] = IF i = last THEN Chopped[s[last]] ELSE s[i]
    <3>1. last - Min(S) + 1 = last /\ \A i \in Nat : Min(S) + i - 1 = i
      BY <2>3, <2>4
    <3> HIDE DEF S, s
    <3> QED
      BY <2>1, <2>3, <3>1
  <2>6. S \subseteq DOMAIN s /\ \A i \in DOMAIN s : i \in S <=> Bare[s[i]] # Empty
    BY DEF Solid
  <2> HIDE DEF S
  <2>7. /\ DOMAIN s = 1 .. Len(s) /\ Len(s) \in Nat /\ last \in DOMAIN s
        /\ \A i \in DOMAIN s : s[i] \in Name
    BY <2>3, <2>6
  <2> HIDE DEF s
  <2>8. ASSUME NEW i \in Nat, i >= 1 PROVE Bare[FieldAt(t, i)] = Bare[FieldAt(s, i)]
    <3>1. CASE i < last
      <4>1. t[i] = s[i] /\ i \in DOMAIN t /\ i \in DOMAIN s
        BY <2>3, <2>5, <2>7, <2>8, <3>1
      <4> QED
        BY <4>1 DEF FieldAt
    <3>2. CASE i = last
      <4>1. t[i] = Chopped[s[i]] /\ i \in DOMAIN t /\ i \in DOMAIN s /\ s[i] \in Name
        BY <2>3, <2>5, <2>7, <2>8, <3>2
      <4> QED
        BY <1>1, <4>1 DEF FieldAt
    <3>3. CASE i > last
      <4>1. i \notin DOMAIN t
        BY <2>3, <2>5, <3>3
      <4>2. i \in DOMAIN s => Bare[s[i]] = Empty
        BY <2>3, <2>6, <3>3
      <4> QED
        BY <1>1, <4>1, <4>2 DEF FieldAt
    <3> QED
      BY <2>3, <2>8, <3>1, <3>2, <3>3
  <2>9. \A name : Trimmed(name) = Bare[name]
    BY <1>3 DEF Trimmed
  <2>10. (FieldAt(t, 4) = Minus) <=> (Trimmed(FieldAt(s, 4)) = Minus)
    <3>1. ~(Trimmed(FieldAt(s, 4)) = Minus /\ FieldAt(t, 4) # Minus)
      BY DEF Misread, t, s
    <3>2. Bare[FieldAt(t, 4)] = Bare[FieldAt(s, 4)]
      BY <2>8
    <3> QED
      BY <1>1, <2>9, <3>1, <3>2
  <2>11. /\ Trimmed(FieldAt(t, 1)) = Trimmed(FieldAt(s, 1))
         /\ Trimmed(FieldAt(t, 2)) = Trimmed(FieldAt(s, 2))
         /\ Trimmed(FieldAt(t, 3)) = Trimmed(FieldAt(s, 3))
    BY <2>8, <2>9
  <2>12. BeliefIn(t, FieldAt(t, 4) = Minus) = BeliefIn(s, Trimmed(FieldAt(s, 4)) = Minus)
    BY <2>10, <2>11 DEF BeliefIn
  <2> QED
    BY <2>12 DEF BeliefOf, Says, t, s
<1> QED
  BY <1>2, <1>3

\* There is nothing in a row that is passed over.
LEMMA SkippedHasNothing ==
  ASSUME NEW rw \in Rows, Skipped(rw)
  PROVE  Solid(rw.fields) = {} \/ IsComment(rw)
<1>1. ASSUME format = "tsv", Parts(rw) = << >> PROVE Solid(rw.fields) = {}
  <2> SUFFICES ASSUME Solid(rw.fields) # {} PROVE FALSE
    OBVIOUS
  <2> DEFINE S == Solid(rw.fields)
             l == Max(S) - Min(S) + 1
  <2>1. LineTrimmed[rw] = << >>
    BY <1>1 DEF Parts
  <2>2. /\ Min(S) \in Nat /\ Max(S) \in Nat /\ Min(S) <= Max(S) /\ DOMAIN LineTrimmed[rw] = 1 .. l
    BY LineIs
  <2>3. DOMAIN << >> = {}
    OBVIOUS
  <2> HIDE DEF S
  <2>4. 1 \in 1 .. l
    BY <2>2
  <2> QED
    BY <2>1, <2>2, <2>3, <2>4
<1>2. ASSUME rw.fields = << >> PROVE Solid(rw.fields) = {}
  <2>1. DOMAIN << >> = {}
    OBVIOUS
  <2> QED
    BY <1>2, <2>1 DEF Solid
<1> QED
  BY <1>1, <1>2 DEF Skipped

-----------------------------------------------------------------------------
(* The rows of a file and what was counted of them.                          *)

RefusedFile == format = "json" /\ ~Decodes(input)
CutShort    == format = "tsv" /\ \E i \in DOMAIN input : input[i].bad \in {"cut", "dead"}
Dead        == format = "csv" /\ \E i \in DOMAIN input : input[i].bad = "dead"
ReadRows    == {i \in 1 .. at - 1 : ~Skipped(input[i])}

Counters == [total : Nat, ingested : Nat, contradictions : Nat, errors : Nat]

\* What did not come from the file.
Others == Asserted \cup Concluded

\* How a load ends.
Over == (RefusedFile /\ result.errors = 1) \/ CutShort \/ at = Len(input) + 1

PcOK ==
  /\ pc \in {"idle", "reading", "ended", "rules", "done"}
  /\ pc = "idle" => format = "none"
  /\ format = "none" => pc \in {"idle", "rules"}
  /\ pc = "ended" => CutShort
  /\ pc = "done" \/ (pc = "rules" /\ format # "none") => Over

LoadOK ==
  /\ PcOK
  /\ input \in Seq(Rows) /\ Len(input) <= MaxRows /\ at \in 1 .. Len(input) + 1
  /\ result \in Counters
  /\ format = "none" => result = NoResult /\ at = 1 /\ Beliefs \subseteq Others

\* The atoms of the contradictions that were found.
Found == told \cup counted \cup dropped

FoundOK ==
  \A b, c \in Beliefs :
    b.atom = c.atom /\ b.pol # c.pol /\ b.atom \notin DOMAIN resolutionByAtom => b.atom \in Found

TallyOK == IsFiniteSet(counted) /\ Cardinality(counted) <= result.contradictions

ReportedOK == FoundOK /\ TallyOK

Kept(rw) == \/ Solid(rw.fields) = {} \/ IsComment(rw) \/ Misread(rw)
            \/ Says(rw) \in Beliefs

StoredOK == result.errors = 0 => \A i \in 1 .. at - 1 : Kept(input[i])

CountedOK ==
  /\ Dead \/ RefusedFile \/ result.ingested + result.errors = Cardinality(ReadRows)
  /\ format = "csv" \/ RefusedFile \/ result.total = Cardinality(ReadRows)
  /\ Cardinality(Beliefs \ Others) <= result.ingested

BulkOK == StoreOK /\ LoadOK /\ ReportedOK /\ StoredOK /\ CountedOK

\* A row that was kept is kept.
LEMMA StaysKept ==
  ASSUME UNCHANGED <<format, input>>, Beliefs \subseteq Beliefs'
  PROVE  \A i : Kept(input[i]) => Kept(input[i])'
<1> HIDE DEF Beliefs
<1> QED
  BY DEF Kept, IsComment, Misread, Says, BeliefIn, Trimmed, Parts

LEMMA RowsMove ==
  ASSUME LoadOK, NEW rw \in Rows, Reads(rw), MoveOn(rw), UNCHANGED <<format, input>>
  PROVE  /\ at \in 1 .. Len(input) /\ Len(input) \in Nat /\ at \in Nat /\ rw = input[at]
         /\ at' \in 1 .. Len(input) + 1
         /\ at' = at + 1 \/ (at' = at /\ Dead /\ ReadFails(rw))
         /\ pc' \in {"reading", "ended"} /\ (pc' = "ended" => CutShort)
         /\ RefusedFile' = RefusedFile /\ CutShort' = CutShort /\ Dead' = Dead
         /\ Cardinality(ReadRows) \in Nat /\ Cardinality(ReadRows) <= at - 1
         /\ at' = at + 1 => Cardinality(ReadRows)' = Cardinality(ReadRows) + (IF Skipped(rw) THEN 0 ELSE 1)
         /\ at' = at => Cardinality(ReadRows)' = Cardinality(ReadRows)
<1>1. /\ at <= Len(input) /\ at \in 1 .. Len(input) + 1 /\ Len(input) \in Nat /\ rw = input[at]
      /\ pc = "reading" /\ DOMAIN input = 1 .. Len(input)
  BY DEF LoadOK, Reads, row
<1>2. at \in 1 .. Len(input) /\ at \in Nat /\ at \in DOMAIN input
  BY <1>1
<1>3. at' = at + 1 \/ (at' = at /\ Dead /\ ReadFails(rw))
  BY <1>1, <1>2 DEF MoveOn, Dead, ReadFails
<1>4. at' \in 1 .. Len(input) + 1
  BY <1>1, <1>2, <1>3
<1>5. pc' \in {"reading", "ended"} /\ (pc' = "ended" => CutShort)
  BY <1>1, <1>2 DEF MoveOn, CutShort
<1>6. RefusedFile' = RefusedFile /\ CutShort' = CutShort /\ Dead' = Dead /\ \A r : Skipped(r)' = Skipped(r)
  BY DEF RefusedFile, CutShort, Dead, Decodes, Skipped, IsComment, Parts
<1>7. ReadRows' = {i \in 1 .. at' - 1 : ~Skipped(input[i])}
  BY <1>6 DEF ReadRows, Skipped, IsComment, Parts
<1>8. IsFiniteSet(ReadRows) /\ Cardinality(ReadRows) \in Nat /\ Cardinality(ReadRows) <= at - 1
  <2>1. at - 1 \in Nat
    BY <1>2
  <2>2. IsFiniteSet(1 .. at - 1) /\ Cardinality(1 .. at - 1) = at - 1
    BY <2>1, FS_Interval
  <2>3. ReadRows \subseteq 1 .. at - 1
    BY DEF ReadRows
  <2>4. IsFiniteSet(ReadRows) /\ Cardinality(ReadRows) <= Cardinality(1 .. at - 1)
    BY <2>2, <2>3, FS_Subset
  <2> QED
    BY <2>2, <2>4, FS_CardinalityType
<1>9. ASSUME at' = at + 1
      PROVE  Cardinality(ReadRows') = Cardinality(ReadRows) + (IF Skipped(rw) THEN 0 ELSE 1)
  <2>1. 1 .. at' - 1 = (1 .. at - 1) \cup {at} /\ at \notin 1 .. at - 1
    BY <1>2, <1>9
  <2>2. CASE Skipped(rw)
    <3>1. ReadRows' = ReadRows
      BY <1>1, <1>7, <2>1, <2>2 DEF ReadRows
    <3> QED
      BY <1>8, <2>2, <3>1
  <2>3. CASE ~Skipped(rw)
    <3>1. ReadRows' = ReadRows \cup {at} /\ at \notin ReadRows
      BY <1>1, <1>7, <2>1, <2>3 DEF ReadRows
    <3>2. Cardinality(ReadRows \cup {at}) = Cardinality(ReadRows) + 1
      BY <1>8, <3>1, FS_AddElement
    <3> QED
      BY <2>3, <3>1, <3>2
  <2> QED
    BY <2>2, <2>3
<1>10. at' = at => ReadRows' = ReadRows
  BY <1>7 DEF ReadRows
<1>11. Cardinality(ReadRows)' = Cardinality(ReadRows')
  BY DEF Cardinality
<1> QED
  BY <1>1, <1>2, <1>3, <1>4, <1>5, <1>6, <1>8, <1>9, <1>10, <1>11

\* Every belief is in the list of its atom and polarity.
LEMMA BeliefIsListed ==
  ASSUME StoreOK, NEW c \in Beliefs
  PROVE  /\ c \in Belief /\ c.pol \in Polarity /\ c.atom \in DOMAIN beliefsByAtom
         /\ c \in Range(ByPolarity(c.atom)[c.pol]) /\ ByPolarity(c.atom)[c.pol] \in Seq(Belief)
<1>1. c \in Stored
  BY BeliefsAre DEF StoreOK
<1>2. PICK a \in DOMAIN beliefsByAtom : \E pol \in Polarity : c \in Range(beliefsByAtom[a][pol])
  BY <1>1 DEF Stored
<1>3. PICK pol \in Polarity : c \in Range(beliefsByAtom[a][pol])
  BY <1>2
<1>4. c.atom = a /\ c.pol = pol /\ beliefsByAtom[a][pol] \in Seq(Belief)
  BY <1>3 DEF StoreOK, ListsOK
<1>5. c \in Belief
  BY <1>3, <1>4 DEF Range
<1> QED
  BY <1>3, <1>4, <1>5 DEF ByPolarity

\* What contradicts a new belief is found, and is one belief or resolution.
LEMMA ContradictionIs ==
  ASSUME StoreOK, NEW b \in Belief, b.pol \in Polarity
  PROVE  /\ Cardinality(Contradiction(b)) \in Nat
         /\ Contradiction(b) # {} => Cardinality(Contradiction(b)) > 0
         /\ \E x : AtomsOf(Contradiction(b)) \subseteq {x}
         /\ \A c \in Beliefs :
              b \notin Beliefs /\ b.atom \notin DOMAIN resolutionByAtom /\ c.atom = b.atom /\ c.pol # b.pol
                => b.atom \in AtomsOf(Contradiction(b))
<1> DEFINE s == ByPolarity(b.atom)[Opposite(b.pol)]
<1>1. PICK held : Held(b) \subseteq {held}
  <2>1. CASE b.atom \in DOMAIN resolutionByAtom
    BY <2>1 DEF Held
  <2>2. CASE b.atom \notin DOMAIN resolutionByAtom
    <3>1. Held(b) = {s[i] : i \in (DOMAIN s) \cap {1}}
      BY <2>2 DEF Held
    <3>2. Held(b) \subseteq {s[1]}
      BY <3>1
    <3> HIDE DEF s
    <3> QED
      BY <3>2
  <2> QED
    BY <2>1, <2>2
<1>2. Contradiction(b) \subseteq {held}
  BY <1>1 DEF Contradiction
<1>3. IsFiniteSet(Contradiction(b)) /\ Cardinality(Contradiction(b)) \in Nat
  <2>1. IsFiniteSet({held})
    BY FS_Singleton
  <2> QED
    BY <1>2, <2>1, FS_Subset, FS_CardinalityType
<1>4. Contradiction(b) # {} => Cardinality(Contradiction(b)) > 0
  <2>1. Contradiction(b) # {} => Cardinality(Contradiction(b)) # 0
    BY <1>3, FS_EmptySet
  <2> QED
    BY <1>3, <2>1
<1>5. AtomsOf(Contradiction(b)) \subseteq {held.atom}
  BY <1>2 DEF AtomsOf
<1>6. ASSUME NEW c \in Beliefs, b \notin Beliefs, b.atom \notin DOMAIN resolutionByAtom,
             c.atom = b.atom, c.pol # b.pol
      PROVE  \E e \in Contradiction(b) : e.atom = b.atom
  <2>1. /\ c.pol \in Polarity /\ c \in Range(ByPolarity(c.atom)[c.pol])
        /\ ByPolarity(c.atom)[c.pol] \in Seq(Belief) /\ c.atom \in DOMAIN beliefsByAtom
    BY BeliefIsListed
  <2>2. c.pol = Opposite(b.pol)
    BY <1>6, <2>1 DEF Polarity, Opposite
  <2>3. s \in Seq(Belief) /\ c \in Range(s)
    BY <1>6, <2>1, <2>2
  <2> HIDE DEF s
  <2>4. 1 \in DOMAIN s /\ s[1] \in Range(s)
    <3>1. PICK i \in DOMAIN s : s[i] = c
      BY <2>3 DEF Range
    <3>2. 1 \in DOMAIN s
      BY <2>3, <3>1
    <3> QED
      BY <3>2 DEF Range
  <2>5. s = beliefsByAtom[b.atom][Opposite(b.pol)]
    BY <1>6, <2>1 DEF s, ByPolarity
  <2>6. s[1].atom = b.atom /\ s[1].pol = Opposite(b.pol)
    BY <1>6, <2>1, <2>2, <2>4, <2>5 DEF StoreOK
  <2>7. s[1] \in Held(b)
    BY <1>6, <2>4 DEF Held, s
  <2>8. s[1] \in Contradiction(b)
    <3>1. ~IsDuplicate(b)
      BY <1>6, DuplicateIsStored
    <3>2. s[1].pol # b.pol
      BY <1>6, <2>2, <2>6
    <3> QED
      BY <2>7, <3>1, <3>2 DEF Contradiction
  <2> QED
    BY <2>6, <2>8
<1> HIDE DEF Contradiction
<1> QED
  BY <1>3, <1>4, <1>5, <1>6 DEF AtomsOf

-----------------------------------------------------------------------------
(* What each step leaves of it.                                              *)

LEMMA LoadGoesOn ==
  ASSUME LoadOK, NEW rw \in Rows, Reads(rw), MoveOn(rw), UNCHANGED <<format, input>>,
         result' \in Counters
  PROVE  LoadOK'
<1>1. /\ at' \in 1 .. Len(input) + 1 /\ pc' \in {"reading", "ended"} /\ (pc' = "ended" => CutShort)
      /\ CutShort' = CutShort
  BY RowsMove
<1>2. input' \in Seq(Rows) /\ Len(input') <= MaxRows /\ at' \in 1 .. Len(input') + 1
  BY <1>1 DEF LoadOK
<1>3. format' # "none"
  BY DEF LoadOK, PcOK, Reads
<1>4. PcOK'
  BY <1>1, <1>3 DEF PcOK
<1> QED
  BY <1>2, <1>3, <1>4 DEF LoadOK, Counters

\* A row from which nothing was stored.
LEMMA PassedOver ==
  ASSUME BulkOK, NEW rw \in Rows, Reads(rw), MoveOn(rw), UNCHANGED <<store, memGraph, semantic>>,
         UNCHANGED <<format, input, reports>>, result' \in Counters,
         result'.contradictions = result.contradictions, result'.ingested = result.ingested,
         \/ result'.errors = result.errors /\ Skipped(rw) /\ at' = at + 1
         \/ result'.errors > 0
  PROVE  StoreOK' /\ LoadOK' /\ ReportedOK' /\ StoredOK' /\ (Cardinality(Beliefs \ Others) <= result.ingested)'
<1> USE DEF BulkOK
<1>1. StoreOK' /\ UNCHANGED resolutionByAtom /\ Beliefs' = Beliefs
  BY NothingStored
<1>2. LoadOK'
  BY LoadGoesOn
<1>3. ReportedOK'
  <2>1. Found' = Found /\ counted' = counted
    BY DEF Found, reports
  <2>2. Cardinality(counted)' = Cardinality(counted)
    BY <2>1 DEF Cardinality
  <2> HIDE DEF Beliefs, Found
  <2>3. FoundOK'
    BY <1>1, <2>1 DEF ReportedOK, FoundOK
  <2>4. TallyOK'
    BY <2>1, <2>2 DEF ReportedOK, TallyOK
  <2> QED
    BY <2>3, <2>4 DEF ReportedOK
<1>4. StoredOK'
  <2>1. CASE result'.errors = result.errors /\ Skipped(rw) /\ at' = at + 1
    <3>1. at \in Nat /\ rw = input[at]
      BY RowsMove
    <3>2. \A i \in 1 .. at' - 1 : i \in 1 .. at - 1 \/ i = at
      BY <2>1, <3>1
    <3>3. Kept(input[at])
      BY <2>1, <3>1, SkippedHasNothing DEF Kept
    <3>4. \A i : Kept(input[i]) => Kept(input[i])'
      BY <1>1, StaysKept
    <3>5. result.errors = 0 => \A i \in 1 .. at' - 1 : Kept(input[i])'
      BY <3>2, <3>3, <3>4 DEF StoredOK
    <3> QED
      BY <2>1, <3>5 DEF StoredOK
  <2>2. CASE result'.errors > 0
    BY <2>2 DEF StoredOK
  <2> QED
    BY <2>1, <2>2
<1>5. (Cardinality(Beliefs \ Others) <= result.ingested)'
  <2>1. Cardinality(Beliefs \ Others) <= result.ingested
    BY DEF CountedOK
  <2>2. Cardinality(Beliefs \ Others)' = Cardinality(Beliefs \ Others)
    BY <1>1 DEF Cardinality, Others
  <2> QED
    BY <2>1, <2>2
<1> QED
  BY <1>1, <1>2, <1>3, <1>4, <1>5

LEMMA SkipKeeps == ASSUME BulkOK, NEW rw \in Rows, SkipRow(rw) PROVE BulkOK'
<1> USE DEF BulkOK
<1>1. /\ Reads(rw) /\ Skipped(rw) /\ MoveOn(rw) /\ UNCHANGED <<store, memGraph, semantic>>
      /\ UNCHANGED <<format, input, reports>> /\ result' = result /\ result \in Counters
  BY DEF SkipRow, LoadOK
<1>2. at' = at + 1
  BY <1>1 DEF Skipped, IsComment, MoveOn
<1>3. /\ RefusedFile' = RefusedFile /\ Dead' = Dead /\ Cardinality(ReadRows) \in Nat
      /\ Cardinality(ReadRows)' = Cardinality(ReadRows)
  BY <1>1, <1>2, RowsMove
<1>4. /\ StoreOK' /\ LoadOK' /\ ReportedOK' /\ StoredOK'
      /\ (Cardinality(Beliefs \ Others) <= result.ingested)'
  BY <1>1, <1>2, PassedOver
<1>5. CountedOK'
  <2> HIDE DEF RefusedFile, Dead, ReadRows
  <2> QED
    BY <1>1, <1>3, <1>4 DEF CountedOK
<1> QED
  BY <1>4, <1>5

LEMMA FailKeeps == ASSUME BulkOK, NEW rw \in Rows, FailedRead(rw) PROVE BulkOK'
<1> USE DEF BulkOK
<1>1. /\ Reads(rw) /\ ~Skipped(rw) /\ ReadFails(rw) /\ MoveOn(rw)
      /\ UNCHANGED <<store, memGraph, semantic>> /\ UNCHANGED <<format, input, reports>>
      /\ result' = [result EXCEPT !.errors = IF @ > MaxRows THEN @ ELSE @ + 1]
      /\ result \in Counters /\ MaxRows \in Nat /\ format = "csv" /\ Len(input) <= MaxRows
  BY RowAssumption DEF FailedRead, LoadOK, ReadFails
<1>2. /\ result' \in Counters /\ result'.errors > 0
      /\ result'.contradictions = result.contradictions /\ result'.ingested = result.ingested
      /\ result'.errors = IF result.errors > MaxRows THEN result.errors ELSE result.errors + 1
      /\ result.errors \in Nat /\ result.ingested \in Nat
  BY <1>1 DEF Counters
<1>3. /\ at' = at + 1 \/ (at' = at /\ Dead /\ ReadFails(rw))
      /\ RefusedFile' = RefusedFile /\ Dead' = Dead /\ Cardinality(ReadRows) \in Nat
      /\ Cardinality(ReadRows) <= at - 1 /\ at \in 1 .. Len(input) /\ Len(input) \in Nat
      /\ at' = at + 1 => Cardinality(ReadRows)' = Cardinality(ReadRows) + (IF Skipped(rw) THEN 0 ELSE 1)
  BY <1>1, RowsMove
<1>4. /\ StoreOK' /\ LoadOK' /\ ReportedOK' /\ StoredOK'
      /\ (Cardinality(Beliefs \ Others) <= result.ingested)'
  BY <1>1, <1>2, PassedOver
<1>5. ASSUME ~Dead, ~RefusedFile
      PROVE  result'.ingested + result'.errors = Cardinality(ReadRows)'
  <2>1. result.ingested + result.errors = Cardinality(ReadRows)
    BY <1>5 DEF CountedOK
  <2>2. Cardinality(ReadRows)' = Cardinality(ReadRows) + 1
    BY <1>1, <1>3, <1>5
  <2> HIDE DEF ReadRows
  <2>3. result.errors <= MaxRows
    BY <1>1, <1>2, <1>3, <2>1
  <2> QED
    BY <1>1, <1>2, <2>1, <2>2, <2>3
<1>6. CountedOK'
  <2> HIDE DEF RefusedFile, Dead, ReadRows
  <2> QED
    BY <1>1, <1>3, <1>4, <1>5 DEF CountedOK
<1> QED
  BY <1>4, <1>6

LEMMA RefuseKeeps == ASSUME BulkOK, NEW rw \in Rows, RefusedRow(rw) PROVE BulkOK'
<1> USE DEF BulkOK
<1>1. /\ Reads(rw) /\ ~Skipped(rw) /\ ~ReadFails(rw) /\ MoveOn(rw)
      /\ UNCHANGED <<store, memGraph, semantic>> /\ UNCHANGED <<format, input, reports>>
      /\ result' = Refused /\ result \in Counters
  BY DEF RefusedRow, LoadOK
<1>2. /\ result' \in Counters /\ result'.errors > 0
      /\ result'.contradictions = result.contradictions /\ result'.ingested = result.ingested
      /\ result'.errors = result.errors + 1 /\ result'.total = result.total + 1
      /\ result.errors \in Nat /\ result.ingested \in Nat /\ result.total \in Nat
  <2>1. result.errors \in Nat /\ result.ingested \in Nat /\ result.total \in Nat
    BY <1>1 DEF Counters
  <2>2. result' = [result EXCEPT !.total = @ + 1, !.errors = @ + 1]
    BY <1>1 DEF Refused
  <2>3. result' \in Counters
    <3>1. DOMAIN result = {"total", "ingested", "contradictions", "errors"} /\ result.contradictions \in Nat
      BY <1>1 DEF Counters
    <3>2. result' = [total |-> result.total + 1, ingested |-> result.ingested,
                     contradictions |-> result.contradictions, errors |-> result.errors + 1]
      BY <1>1, <2>2 DEF Counters
    <3> QED
      BY <2>1, <3>1, <3>2 DEF Counters
  <2> QED
    BY <1>1, <2>1, <2>2, <2>3 DEF Counters
<1>3. /\ at' = at + 1 \/ (at' = at /\ Dead /\ ReadFails(rw))
      /\ RefusedFile' = RefusedFile /\ Dead' = Dead /\ Cardinality(ReadRows) \in Nat
      /\ at' = at + 1 => Cardinality(ReadRows)' = Cardinality(ReadRows) + (IF Skipped(rw) THEN 0 ELSE 1)
  BY <1>1, RowsMove
<1>4. /\ StoreOK' /\ LoadOK' /\ ReportedOK' /\ StoredOK'
      /\ (Cardinality(Beliefs \ Others) <= result.ingested)'
  BY <1>1, <1>2, PassedOver
<1>5. Cardinality(ReadRows)' = Cardinality(ReadRows) + 1
  BY <1>1, <1>3
<1>6. CountedOK'
  <2> HIDE DEF RefusedFile, Dead, ReadRows
  <2> QED
    BY <1>1, <1>2, <1>3, <1>4, <1>5 DEF CountedOK
<1> QED
  BY <1>4, <1>6

\* A contradiction that a belief brings is one that Contradiction finds.
LEMMA NewsFound ==
  ASSUME StoreOK, NEW b \in Belief, b.pol \in Polarity, FoundOK,
         Beliefs' = Beliefs \cup {b}, UNCHANGED resolutionByAtom,
         Found \cup AtomsOf(Contradiction(b)) \subseteq Found'
  PROVE  FoundOK'
<1>1. ASSUME NEW c \in Beliefs, b \notin Beliefs, c.atom = b.atom, c.pol # b.pol,
             b.atom \notin DOMAIN resolutionByAtom
      PROVE  b.atom \in Found'
  <2>1. b.atom \in AtomsOf(Contradiction(b))
    BY <1>1, ContradictionIs
  <2> HIDE DEF AtomsOf, Contradiction, Found
  <2> QED
    BY <2>1
<1> HIDE DEF Beliefs, Found, AtomsOf, Contradiction
<1>2. ASSUME NEW c \in Beliefs, NEW d \in Beliefs, c.atom = d.atom, c.pol # d.pol,
             c.atom \notin DOMAIN resolutionByAtom
      PROVE  c.atom \in Found'
  <2>1. c.atom \in Found
    BY <1>2 DEF FoundOK
  <2> QED
    BY <2>1
<1>3. \A c, d \in Beliefs \cup {b} :
        c.atom = d.atom /\ c.pol # d.pol /\ c.atom \notin DOMAIN resolutionByAtom
          => c.atom \in Found'
  <2> TAKE c, d \in Beliefs \cup {b}
  <2>1. CASE c \in Beliefs /\ d \in Beliefs
    BY <1>2, <2>1
  <2>2. CASE c \notin Beliefs
    <3>1. c = b
      BY <2>2
    <3> QED
      BY <1>1, <2>2, <3>1
  <2>3. CASE d \notin Beliefs
    <3>1. d = b
      BY <2>3
    <3> QED
      BY <1>1, <2>3, <3>1
  <2> QED
    BY <2>1, <2>2, <2>3
<1> QED
  BY <1>3 DEF FoundOK

\* The count of a load goes up with what it counts.
LEMMA TallyGrows ==
  ASSUME StoreOK, NEW b \in Belief, b.pol \in Polarity, TallyOK, result \in Counters,
         counted' = counted \cup AtomsOf(Contradiction(b)),
         result'.contradictions = result.contradictions + Cardinality(Contradiction(b))
  PROVE  TallyOK'
<1> DEFINE n == Cardinality(Contradiction(b))
           A == AtomsOf(Contradiction(b))
<1>1. /\ n \in Nat
      /\ Contradiction(b) # {} => n > 0
      /\ \E x : A \subseteq {x}
  BY ContradictionIs
<1>2. A # {} => n > 0
  <2>1. Contradiction(b) = {} => A = {}
    BY DEF AtomsOf
  <2> QED
    BY <1>1, <2>1
<1>3. PICK x : A \subseteq {x}
  BY <1>1
<1>4. /\ IsFiniteSet(counted) /\ Cardinality(counted) <= result.contradictions
      /\ Cardinality(counted) \in Nat /\ result.contradictions \in Nat
  BY FS_CardinalityType DEF TallyOK, Counters
<1>5. /\ IsFiniteSet(counted \cup {x})
      /\ \/ Cardinality(counted \cup {x}) = Cardinality(counted)
         \/ Cardinality(counted \cup {x}) = Cardinality(counted) + 1
  BY <1>4, FS_AddElement
<1> HIDE DEF n, A
<1>6. counted' = counted \/ (counted' = counted \cup {x} /\ A # {})
  <2>1. counted' = counted \cup A
    BY DEF A
  <2> QED
    BY <1>3, <2>1
<1>7. result'.contradictions = result.contradictions + n
  BY DEF n
<1>8. IsFiniteSet(counted') /\ Cardinality(counted') <= result'.contradictions
  <2>1. CASE counted' = counted
    <3>1. Cardinality(counted) <= result.contradictions + n
      BY <1>1, <1>4
    <3>2. Cardinality(counted) <= result'.contradictions
      BY <1>7, <3>1
    <3> QED
      BY <1>4, <2>1, <3>2, Zenon
  <2>2. CASE counted' = counted \cup {x} /\ A # {}
    <3>1. n >= 1
      BY <1>1, <1>2, <2>2
    <3> QED
      BY <1>1, <1>4, <1>5, <1>7, <2>2, <3>1
  <2> QED
    BY <1>6, <2>1, <2>2
<1>9. Cardinality(counted)' = Cardinality(counted') /\ IsFiniteSet(counted)' = IsFiniteSet(counted')
  BY DEF Cardinality, IsFiniteSet
<1> QED
  BY <1>8, <1>9 DEF TallyOK

LEMMA StoreKeeps == ASSUME BulkOK, NEW rw \in Rows, IngestRow(rw) PROVE BulkOK'
<1> USE DEF BulkOK
<1> DEFINE b == BeliefOf(rw)
           n == Cardinality(Contradiction(b))
<1>1. /\ Reads(rw) /\ ~Skipped(rw) /\ ~ReadFails(rw) /\ MoveOn(rw) /\ IngestNoLog(b)
      /\ UNCHANGED <<format, input, told, dropped>> /\ result \in Counters
      /\ counted' = counted \cup AtomsOf(Contradiction(b))
      /\ result' = [result EXCEPT !.total = @ + 1, !.ingested = @ + 1, !.contradictions = @ + n]
  BY DEF IngestRow, LoadOK
<1>2. b \in Belief /\ b.pol \in Polarity
  BY RowsBelief
<1>3. ~Misread(rw) => b = Says(rw)
  BY ReadAsSaid
<1> HIDE DEF b
<1>4. StoreOK' /\ Beliefs' = Beliefs \cup {b} /\ UNCHANGED resolutionByAtom
  BY <1>1, <1>2, IngestLearns
<1>5. n \in Nat
  BY <1>2, ContradictionIs
<1>6. result'.contradictions = result.contradictions + Cardinality(Contradiction(b))
  BY <1>1, <1>5 DEF Counters
<1> HIDE DEF n
<1>7. /\ result.errors \in Nat /\ result.ingested \in Nat /\ result.total \in Nat
      /\ result.contradictions \in Nat
      /\ result' = [total |-> result.total + 1, ingested |-> result.ingested + 1,
                    contradictions |-> result.contradictions + n, errors |-> result.errors]
  BY <1>1 DEF Counters
<1>8. LoadOK'
  <2>1. result' \in Counters
    BY <1>5, <1>7 DEF Counters
  <2> QED
    BY <1>1, <2>1, LoadGoesOn
<1>9. ReportedOK'
  <2>1. Found \cup AtomsOf(Contradiction(b)) \subseteq Found'
    <3> HIDE DEF AtomsOf, Contradiction
    <3> QED
      BY <1>1 DEF Found
  <2>2. FoundOK'
    BY <1>2, <1>4, <2>1, NewsFound DEF ReportedOK
  <2>3. TallyOK'
    BY <1>1, <1>2, <1>6, TallyGrows DEF ReportedOK
  <2> QED
    BY <2>2, <2>3 DEF ReportedOK
<1>10. /\ at' = at + 1 /\ at \in Nat /\ rw = input[at]
       /\ RefusedFile' = RefusedFile /\ Dead' = Dead /\ Cardinality(ReadRows) \in Nat
       /\ Cardinality(ReadRows)' = Cardinality(ReadRows) + 1
  BY <1>1, RowsMove
<1>11. StoredOK'
  <2>1. \A i \in 1 .. at' - 1 : i \in 1 .. at - 1 \/ i = at
    BY <1>10
  <2>2. result'.errors = result.errors
    BY <1>7
  <2>3. \A i : Kept(input[i]) => Kept(input[i])'
    BY <1>1, <1>4, StaysKept
  <2>4. ASSUME NEW i, i = at PROVE Kept(input[i])'
    <3>1. /\ Misread(input[i]) \/ Says(input[i]) \in Beliefs'
          /\ UNCHANGED <<format, input>>
      BY <1>1, <1>3, <1>4, <1>10, <2>4
    <3> HIDE DEF Beliefs
    <3> QED
      BY <3>1 DEF Kept, IsComment, Misread, Says, BeliefIn, Trimmed, Parts
  <2>5. result.errors = 0 => \A i \in 1 .. at' - 1 : Kept(input[i])'
    BY <2>1, <2>3, <2>4 DEF StoredOK
  <2> QED
    BY <2>2, <2>5 DEF StoredOK
<1>12. (Cardinality(Beliefs \ Others) <= result.ingested)'
  <2>1. IsFiniteSet(Beliefs)
    BY DEF StoreOK
  <2> DEFINE D == Beliefs \ Others
  <2>2. IsFiniteSet(D)
    BY <2>1, FS_Subset
  <2>3. Beliefs' \ Others \subseteq D \cup {b}
    BY <1>4
  <2> HIDE DEF D
  <2>4. /\ IsFiniteSet(D \cup {b}) /\ Cardinality(D) \in Nat
        /\ Cardinality(D \cup {b}) = Cardinality(D) \/ Cardinality(D \cup {b}) = Cardinality(D) + 1
    BY <2>2, FS_AddElement, FS_CardinalityType
  <2>5. /\ Cardinality(Beliefs' \ Others) <= Cardinality(D \cup {b})
        /\ Cardinality(Beliefs' \ Others) \in Nat
    <3>1. IsFiniteSet(Beliefs' \ Others)
      BY <2>3, <2>4, FS_Subset
    <3> QED
      BY <2>3, <2>4, <3>1, FS_Subset, FS_CardinalityType
  <2>6. Cardinality(D) <= result.ingested
    BY DEF D, CountedOK
  <2>7. Cardinality(Beliefs' \ Others) <= result.ingested + 1
    BY <1>7, <2>4, <2>5, <2>6
  <2>8. result'.ingested = result.ingested + 1
    BY <1>7
  <2> HIDE DEF Beliefs
  <2>9. Cardinality(Beliefs \ Others)' = Cardinality(Beliefs' \ Others)
    BY DEF Cardinality, Others
  <2> QED
    BY <2>7, <2>8, <2>9
<1>13. CountedOK'
  <2>1. /\ result'.ingested = result.ingested + 1 /\ result'.errors = result.errors
        /\ result'.total = result.total + 1
    BY <1>7
  <2> HIDE DEF RefusedFile, Dead, ReadRows
  <2> QED
    BY <1>1, <1>7, <1>10, <1>12, <2>1 DEF CountedOK
<1> QED
  BY <1>4, <1>8, <1>9, <1>11, <1>13

\* A step that reads nothing of a file and stores at most what is not from it.
LEMMA SameLoad ==
  ASSUME BulkOK, UNCHANGED load, StoreOK', PcOK', FoundOK', counted' = counted,
         Beliefs \subseteq Beliefs', Beliefs' \subseteq Beliefs \cup Others
  PROVE  BulkOK'
<1> USE DEF BulkOK
<1>1. UNCHANGED <<format, input, at, width, result>>
  BY DEF load
<1>2. LoadOK'
  <2>1. (format = "none" => result = NoResult /\ at = 1 /\ Beliefs \subseteq Others)'
    <3> HIDE DEF Beliefs
    <3> QED
      BY <1>1 DEF LoadOK, NoResult, Others
  <2> QED
    BY <1>1, <2>1 DEF LoadOK, Counters
<1>3. ReportedOK'
  <2>1. Cardinality(counted)' = Cardinality(counted)
    BY DEF Cardinality
  <2> QED
    BY <1>1, <2>1 DEF ReportedOK, TallyOK
<1>4. StoredOK'
  <2>1. \A i : Kept(input[i]) => Kept(input[i])'
    BY <1>1, StaysKept
  <2> QED
    BY <1>1, <2>1 DEF StoredOK
<1>5. Cardinality(Beliefs \ Others)' = Cardinality(Beliefs \ Others)
  <2>1. Beliefs' \ Others = Beliefs \ Others
    OBVIOUS
  <2>2. Cardinality(Beliefs \ Others)' = Cardinality(Beliefs' \ Others)
    BY DEF Cardinality, Others
  <2> HIDE DEF Beliefs
  <2> QED
    BY <2>1, <2>2
<1>6. ReadRows' = ReadRows /\ Dead' = Dead /\ RefusedFile' = RefusedFile
  BY <1>1 DEF Dead, RefusedFile, Decodes, ReadRows, Skipped, IsComment, Parts
<1>7. Cardinality(ReadRows)' = Cardinality(ReadRows)
  BY <1>6 DEF Cardinality
<1>8. CountedOK'
  <2> HIDE DEF Beliefs, ReadRows, Dead, RefusedFile
  <2> QED
    BY <1>1, <1>5, <1>6, <1>7 DEF CountedOK
<1> QED
  BY <1>2, <1>3, <1>4, <1>8

LEMMA PcStays == PcOK /\ UNCHANGED <<pc, load>> => PcOK'
BY DEF PcOK, load, CutShort, Over, RefusedFile, Decodes

LEMMA BulkStarts == Init => BulkOK
<1> SUFFICES ASSUME Init PROVE BulkOK
  OBVIOUS
<1>1. /\ pc = "idle" /\ format = "none" /\ input = << >> /\ at = 1 /\ result = NoResult
      /\ beliefsByAtom = << >> /\ counted = {}
  BY DEF Init, StoreInit
<1>2. StoreOK
  BY StoresStart
<1>3. Beliefs = {}
  <2>1. DOMAIN << >> = {}
    OBVIOUS
  <2> QED
    BY <1>1, <2>1 DEF Beliefs
<1> HIDE DEF Beliefs
<1>4. LoadOK
  <2>1. << >> \in Seq(Rows) /\ Len(<< >>) = 0
    OBVIOUS
  <2>2. NoResult \in Counters
    BY DEF NoResult, Counters
  <2> QED
    BY <1>1, <1>3, <2>1, <2>2, RowAssumption DEF LoadOK, PcOK
<1>5. 1 .. at - 1 = {}
  BY <1>1
<1>6. StoredOK /\ ReportedOK
  <2>1. IsFiniteSet(counted) /\ Cardinality(counted) = 0
    BY <1>1, FS_EmptySet
  <2>2. result.contradictions = 0
    BY <1>1 DEF NoResult
  <2> QED
    BY <1>3, <1>5, <2>1, <2>2 DEF StoredOK, ReportedOK, FoundOK, TallyOK
<1>7. Cardinality(ReadRows) = 0 /\ Cardinality(Beliefs \ Others) = 0
  <2>1. ReadRows = {} /\ Beliefs \ Others = {}
    BY <1>3, <1>5 DEF ReadRows
  <2> QED
    BY <2>1, FS_EmptySet
<1>8. CountedOK
  <2>1. result.total = 0 /\ result.ingested = 0 /\ result.errors = 0
    BY <1>1 DEF NoResult
  <2> QED
    BY <1>7, <2>1 DEF CountedOK
<1> QED
  BY <1>2, <1>4, <1>6, <1>8 DEF BulkOK

LEMMA ResolveKeeps == ASSUME BulkOK, NEW r \in Resolved, Resolve(r) PROVE BulkOK'
<1> USE DEF BulkOK
<1>1. SetResolution(r) /\ UNCHANGED <<pc, load, reports>>
  BY DEF Resolve
<1>2. /\ StoreOK' /\ Beliefs' = Beliefs
      /\ DOMAIN resolutionByAtom \subseteq DOMAIN resolutionByAtom'
  BY <1>1, SetResolutionStores
<1> HIDE DEF Beliefs, SetResolution
<1>3. Found' = Found /\ counted' = counted
  BY <1>1 DEF Found, reports
<1>4. FoundOK'
  <2> HIDE DEF Found
  <2> QED
    BY <1>2, <1>3 DEF ReportedOK, FoundOK
<1>5. PcOK'
  BY <1>1, PcStays DEF LoadOK
<1> QED
  BY <1>1, <1>2, <1>3, <1>4, <1>5, SameLoad

\* What a caller or a rule brings.
LEMMA OthersKeep ==
  ASSUME BulkOK, NEW b \in Others, b.pol \in Polarity, IngestNoLog(b), UNCHANGED load, PcOK',
         counted' = counted, Found' = Found \cup AtomsOf(Contradiction(b))
  PROVE  BulkOK'
<1> USE DEF BulkOK
<1>1. b \in Belief
  BY RowAssumption DEF Others
<1>2. StoreOK' /\ Beliefs' = Beliefs \cup {b} /\ UNCHANGED resolutionByAtom
  BY <1>1, IngestLearns
<1>3. FoundOK'
  BY <1>1, <1>2, NewsFound DEF ReportedOK
<1> HIDE DEF Beliefs, IngestNoLog
<1> QED
  BY <1>2, <1>3, SameLoad

LEMMA IngestKeeps ==
  ASSUME BulkOK, NEW b \in Asserted, Ingest(b) \/ IngestNotLogged(b)
  PROVE  BulkOK'
<1>1. /\ IngestNoLog(b) /\ b.pol \in Polarity /\ b \in Others /\ pc = "idle" /\ UNCHANGED load
      /\ counted' = counted
  BY DEF Ingest, IngestNotLogged, Valid, CanCall, Others
<1>2. PcOK
  BY DEF BulkOK, LoadOK
<1>3. CASE Ingest(b)
  <2>1. pc' = "rules" /\ told' = told \cup AtomsOf(Contradiction(b)) /\ UNCHANGED <<counted, dropped>>
    BY <1>3 DEF Ingest
  <2>2. PcOK'
    BY <1>1, <1>2, <2>1 DEF PcOK, load
  <2>3. Found' = Found \cup AtomsOf(Contradiction(b))
    <3> HIDE DEF AtomsOf, Contradiction
    <3> QED
      BY <2>1 DEF Found
  <2> QED
    BY <1>1, <2>2, <2>3, OthersKeep
<1>4. CASE IngestNotLogged(b)
  <2>1. dropped' = dropped \cup AtomsOf(Contradiction(b)) /\ UNCHANGED <<pc, told, counted>>
    BY <1>4 DEF IngestNotLogged
  <2>2. PcOK'
    BY <1>1, <1>2, <2>1, PcStays
  <2>3. Found' = Found \cup AtomsOf(Contradiction(b))
    <3> HIDE DEF AtomsOf, Contradiction
    <3> QED
      BY <2>1 DEF Found
  <2> QED
    BY <1>1, <2>2, <2>3, OthersKeep
<1> QED
  BY <1>3, <1>4

LEMMA DeriveKeeps == ASSUME BulkOK, NEW b \in Concluded, Derive(b) PROVE BulkOK'
<1>1. /\ IngestNoLog(b) /\ b.pol \in Polarity /\ b \in Others /\ UNCHANGED <<pc, load, told, counted>>
      /\ dropped' = dropped \cup AtomsOf(Contradiction(b))
  BY DEF Derive, Valid, Others
<1>2. PcOK'
  BY <1>1, PcStays DEF BulkOK, LoadOK
<1>3. Found' = Found \cup AtomsOf(Contradiction(b))
  <2> HIDE DEF AtomsOf, Contradiction
  <2> QED
    BY <1>1 DEF Found
<1> QED
  BY <1>1, <1>2, <1>3, OthersKeep

LEMMA StartKeeps ==
  ASSUME BulkOK, NEW f \in {"tsv", "csv", "json"}, StartLoad(f)
  PROVE  BulkOK'
<1> USE DEF BulkOK
<1>1. /\ pc = "idle" /\ format' = f /\ input' \in Files
      /\ UNCHANGED <<store, memGraph, semantic, at, reports>>
      /\ \/ f = "json" /\ ~Decodes(input') /\ pc' = "done" /\ result' = [NoResult EXCEPT !.errors = 1]
         \/ pc' = "reading" /\ result' = NoResult
  BY DEF StartLoad
<1>2. StoreOK' /\ UNCHANGED resolutionByAtom /\ Beliefs' = Beliefs
  BY <1>1, NothingStored
<1>3. result = NoResult /\ at = 1 /\ at' = 1 /\ Beliefs \subseteq Others
  BY <1>1 DEF LoadOK, PcOK
<1>4. input' \in Seq(Rows) /\ Len(input') <= MaxRows /\ Len(input') \in Nat
  BY <1>1, RowAssumption DEF Files, BoundedSeq, SeqOf
<1>5. RefusedFile' <=> (f = "json" /\ ~Decodes(input'))
  BY <1>1 DEF RefusedFile, Decodes
<1>6. /\ result' \in Counters /\ result'.contradictions = 0 /\ result'.ingested = 0
      /\ pc' = "done" => RefusedFile' /\ result'.errors = 1
      /\ pc' = "reading" => result'.errors = 0 /\ result'.total = 0
      /\ pc' \in {"reading", "done"} /\ (pc' = "done" \/ pc' = "reading")
  BY <1>1, <1>5 DEF Counters, NoResult
<1> HIDE DEF Beliefs, RefusedFile
<1>7. LoadOK'
  <2>1. format' # "none"
    BY <1>1
  <2>2. PcOK'
    BY <1>6, <2>1 DEF PcOK, Over
  <2>3. at' \in 1 .. Len(input') + 1
    BY <1>3, <1>4
  <2> QED
    BY <1>4, <1>6, <2>1, <2>2, <2>3 DEF LoadOK, Counters
<1>8. ReportedOK'
  <2>1. result.contradictions = 0 /\ Found' = Found /\ counted' = counted
    BY <1>1, <1>3 DEF NoResult, Found, reports
  <2>2. Cardinality(counted)' = Cardinality(counted)
    BY <2>1 DEF Cardinality
  <2> HIDE DEF Found
  <2>3. FoundOK'
    BY <1>2, <2>1 DEF ReportedOK, FoundOK
  <2>4. TallyOK'
    BY <1>6, <2>1, <2>2 DEF ReportedOK, TallyOK
  <2> QED
    BY <2>3, <2>4 DEF ReportedOK
<1>9. 1 .. at' - 1 = {}
  BY <1>3
<1>10. StoredOK'
  BY <1>9 DEF StoredOK
<1>11. Cardinality(ReadRows)' = 0 /\ Cardinality(Beliefs \ Others)' = 0
  <2>1. ReadRows' = {} /\ Beliefs' \ Others = {}
    BY <1>2, <1>3, <1>9 DEF ReadRows
  <2>2. Cardinality(ReadRows') = 0 /\ Cardinality(Beliefs' \ Others) = 0
    BY <2>1, FS_EmptySet
  <2>3. Cardinality(ReadRows)' = Cardinality(ReadRows')
        /\ Cardinality(Beliefs \ Others)' = Cardinality(Beliefs' \ Others)
    BY DEF Cardinality, Others
  <2> HIDE DEF ReadRows
  <2> QED
    BY <2>2, <2>3
<1>12. CountedOK'
  <2> HIDE DEF Dead, ReadRows
  <2> QED
    BY <1>6, <1>11 DEF CountedOK
<1> QED
  BY <1>2, <1>7, <1>8, <1>10, <1>12

\* The end of the input, the return of a call, and doing nothing.
LEMMA RestKeeps ==
  ASSUME BulkOK, EndOfInput \/ RulesApplied \/ UNCHANGED vars
  PROVE  BulkOK'
<1> USE DEF BulkOK
<1>1. UNCHANGED <<store, memGraph, semantic, load, reports>> /\ UNCHANGED <<format, input, at, result>>
  BY DEF EndOfInput, RulesApplied, vars, load
<1>2. StoreOK' /\ UNCHANGED resolutionByAtom /\ Beliefs' = Beliefs
  BY <1>1, NothingStored
<1> HIDE DEF Beliefs
<1>3. PcOK'
  <2>1. PcOK /\ at \in 1 .. Len(input) + 1 /\ Len(input) \in Nat
    BY DEF LoadOK
  <2>2. CutShort' = CutShort /\ Over' = Over
    BY <1>1 DEF CutShort, Over, RefusedFile, Decodes
  <2>3. ASSUME EndOfInput PROVE PcOK'
    <3>1. pc' = "rules" /\ (CutShort \/ at = Len(input) + 1) /\ format # "none"
      BY <2>1, <2>3 DEF EndOfInput, PcOK
    <3> QED
      BY <1>1, <2>2, <3>1 DEF PcOK, Over
  <2>4. ASSUME RulesApplied PROVE PcOK'
    <3> HIDE DEF Over, CutShort
    <3> QED
      BY <1>1, <2>1, <2>2, <2>4 DEF RulesApplied, PcOK
  <2>5. UNCHANGED vars => PcOK'
    BY <1>1, <2>1, PcStays DEF vars
  <2> QED
    BY <2>3, <2>4, <2>5
<1>4. Found' = Found /\ counted' = counted
  BY <1>1 DEF Found, reports
<1>5. FoundOK'
  <2> HIDE DEF Found
  <2> QED
    BY <1>2, <1>4 DEF ReportedOK, FoundOK
<1> QED
  BY <1>1, <1>2, <1>3, <1>4, <1>5, SameLoad

LEMMA BulkHolds == Spec => []BulkOK
<1>1. Init => BulkOK
  BY BulkStarts
<1>2. BulkOK /\ [Next]_vars => BulkOK'
  <2> SUFFICES ASSUME BulkOK, [Next]_vars PROVE BulkOK'
    OBVIOUS
  <2> HIDE DEF BulkOK
  <2>1. \A r \in Resolved : Resolve(r) => BulkOK'
    BY ResolveKeeps
  <2>2. \A b \in Asserted : Ingest(b) \/ IngestNotLogged(b) => BulkOK'
    BY IngestKeeps
  <2>3. \A f \in {"tsv", "csv", "json"} : StartLoad(f) => BulkOK'
    BY StartKeeps
  <2>4. \A rw \in Rows : SkipRow(rw) \/ FailedRead(rw) \/ RefusedRow(rw) \/ IngestRow(rw) => BulkOK'
    BY SkipKeeps, FailKeeps, RefuseKeeps, StoreKeeps
  <2>5. \A b \in Concluded : Derive(b) => BulkOK'
    BY DeriveKeeps
  <2>6. EndOfInput \/ RulesApplied \/ Done \/ UNCHANGED vars => BulkOK'
    BY RestKeeps DEF Done
  <2> QED
    BY <2>1, <2>2, <2>3, <2>4, <2>5, <2>6 DEF Next, Loading, Applying
<1> QED
  BY <1>1, <1>2, PTL DEF Spec

(***************************************************************************)
(* pkg/engine/bulk.go, Ingest and ApplyRules: an atom believed with both       *)
(* polarities and not resolved was reported as a contradiction to a caller or  *)
(* counted by the load, or it was a rule or an Ingest without a log that made  *)
(* it one; and a load counts no less than it makes.                          *)
(***************************************************************************)
THEOREM ContradictionsAreReported == Spec => []ContradictionsReported
<1>1. BulkOK => Disputed \subseteq Found
  <2> SUFFICES ASSUME BulkOK, NEW a \in DOMAIN beliefsByAtom \ DOMAIN resolutionByAtom,
                      \A pol \in Polarity : ByPolarity(a)[pol] # << >>
               PROVE  a \in Found
    BY DEF Disputed
  <2>1. Beliefs = Stored
    BY BeliefsAre DEF BulkOK, StoreOK
  <2>2. ASSUME NEW pol \in Polarity PROVE \E b \in Beliefs : b.atom = a /\ b.pol = pol
    <3>1. beliefsByAtom[a][pol] \in Seq(Belief) /\ beliefsByAtom[a][pol] # << >>
      BY DEF BulkOK, StoreOK, ListsOK, ByPolarity
    <3>2. 1 \in DOMAIN beliefsByAtom[a][pol]
      BY <3>1
    <3>3. beliefsByAtom[a][pol][1] \in Range(beliefsByAtom[a][pol])
      BY <3>2 DEF Range
    <3>4. beliefsByAtom[a][pol][1] \in Beliefs
      BY <2>1, <3>3 DEF Stored
    <3>5. /\ beliefsByAtom[a][pol][1].atom = a /\ beliefsByAtom[a][pol][1].pol = pol
      BY <3>3 DEF BulkOK, StoreOK
    <3> QED
      BY <3>4, <3>5
  <2> HIDE DEF Beliefs, Found
  <2>3. PICK b \in Beliefs : b.atom = a /\ b.pol = "+"
    BY <2>2 DEF Polarity
  <2>4. PICK c \in Beliefs : c.atom = a /\ c.pol = "-"
    BY <2>2 DEF Polarity
  <2> QED
    BY <2>3, <2>4 DEF BulkOK, ReportedOK, FoundOK
<1>2. BulkOK => ContradictionsReported
  BY <1>1 DEF ContradictionsReported, Found, BulkOK, ReportedOK, TallyOK
<1> QED
  BY <1>2, BulkHolds, PTL

(***************************************************************************)
(* pkg/engine/bulk.go: a load that reports no error has stored of every row    *)
(* what it says, for all rows and files; but for the rows it misreads, blank    *)
(* in the first place of a line or with blanks around the polarity, and for a   *)
(* line file whose reader failed.                                           *)
(***************************************************************************)
THEOREM LoadsLoseNothing == Spec => []NothingLostSilently
<1>1. BulkOK => NothingLostSilently
  <2> SUFFICES ASSUME BulkOK, pc = "done", result.errors = 0, ~CutShort
               PROVE  \A i \in DOMAIN input : Kept(input[i])
    BY DEF NothingLostSilently, CutShort, Kept
  <2>1. at = Len(input) + 1 /\ DOMAIN input = 1 .. Len(input) /\ Len(input) \in Nat
    BY DEF BulkOK, LoadOK, PcOK, Over
  <2>2. 1 .. at - 1 = DOMAIN input
    BY <2>1
  <2> QED
    BY <2>2 DEF BulkOK, StoredOK
<1> QED
  BY <1>1, BulkHolds, PTL

(***************************************************************************)
(* pkg/engine/bulk.go: the counters of a load account for every row read, once. *)
(***************************************************************************)
THEOREM RowsAreAccounted == Spec => []RowsAccounted
<1>1. BulkOK => RowsAccounted
  <2> HIDE DEF Beliefs
  <2> QED
    BY DEF BulkOK, CountedOK, RowsAccounted, ReadRows, Dead, RefusedFile, Others
<1> QED
  BY <1>1, BulkHolds, PTL

-----------------------------------------------------------------------------
(***************************************************************************)
(* Lists of sets whose members come one set after the other make a list of the *)
(* union when they are put end to end.                                       *)
(***************************************************************************)
LEMMA FlatLists ==
  ASSUME NEW U, NEW seqs \in Seq(U), NEW R, NEW S,
         \A i \in DOMAIN seqs : Lists(seqs[i], R, S[i]),
         \A i, j \in DOMAIN seqs : i < j => \A x \in S[i], y \in S[j] : <<x, y>> \in R
  PROVE  Lists(FlattenSeq(seqs), R, UNION {S[i] : i \in DOMAIN seqs})
<1> DEFINE l == Len(seqs)
           To(k) == UNION {S[i] : i \in 1 .. k}
<1>1. l \in Nat /\ DOMAIN seqs = 1 .. l
  OBVIOUS
<1>2. CASE seqs = << >>
  <2>1. FlattenSeq(seqs) = << >>
    BY <1>2 DEF FlattenSeq
  <2>2. UNION {S[i] : i \in DOMAIN seqs} = {}
    BY <1>2
  <2> QED
    BY <2>1, <2>2, EmptyList
<1>3. CASE seqs # << >>
  <2>1. PICK f : FlatTo(f, seqs, l) /\ FlattenSeq(seqs) = f[l]
    BY <1>3, FlattenIs
  <2>2. l # 0
    BY <1>3
  <2> HIDE DEF l
  <2> DEFINE bad == {k \in Nat : k \in 1 .. l /\ ~Lists(f[k], R, To(k))}
  <2>3. bad = {}
    <3> SUFFICES ASSUME bad # {} PROVE FALSE
      OBVIOUS
    <3>1. PICK k \in bad : \A i \in bad : k <= i
      BY LeastNumber
    <3>2. k \in 1 .. l /\ k \in Nat /\ ~Lists(f[k], R, To(k))
      BY <3>1
    <3>3. f[k] = IF k = 1 THEN seqs[k] ELSE f[k - 1] \o seqs[k]
      BY <2>1, <3>2 DEF FlatTo
    <3>4. CASE k = 1
      <4>1. To(k) = S[k]
        BY <3>4
      <4> QED
        BY <1>1, <3>2, <3>3, <3>4, <4>1
    <3>5. CASE k # 1
      <4>1. k - 1 \in 1 .. l /\ k - 1 \in Nat /\ k - 1 < k
        BY <1>1, <3>2, <3>5
      <4>2. Lists(f[k - 1], R, To(k - 1))
        <5>1. k - 1 \notin bad
          <6>1. ~(k <= k - 1)
            BY <3>2
          <6> HIDE DEF bad
          <6> QED
            BY <3>1, <6>1
        <5> QED
          BY <4>1, <5>1
      <4>3. Lists(seqs[k], R, S[k])
        BY <1>1, <3>2
      <4>4. \A x \in To(k - 1), y \in S[k] : <<x, y>> \in R
        <5> TAKE x \in To(k - 1), y \in S[k]
        <5>1. PICK i \in 1 .. k - 1 : x \in S[i]
          OBVIOUS
        <5>2. i \in DOMAIN seqs /\ k \in DOMAIN seqs /\ i < k
          BY <1>1, <3>2, <4>1, <5>1
        <5> QED
          BY <5>1, <5>2
      <4>5. To(k) = To(k - 1) \cup S[k]
        <5>1. 1 .. k = (1 .. k - 1) \cup {k}
          BY <3>2, <3>5
        <5> QED
          BY <5>1
      <4> HIDE DEF To
      <4>6. Lists(f[k - 1] \o seqs[k], R, To(k - 1) \cup S[k])
        BY <4>2, <4>3, <4>4, EndToEnd
      <4> QED
        BY <3>2, <3>3, <3>5, <4>5, <4>6
    <3> QED
      BY <3>4, <3>5
  <2>4. Lists(f[l], R, To(l))
    <3>1. l \in Nat /\ l \in 1 .. l
      BY <1>1, <2>2
    <3> QED
      BY <2>3, <3>1
  <2>5. To(l) = UNION {S[i] : i \in DOMAIN seqs}
    BY <1>1
  <2> QED
    BY <2>1, <2>4, <2>5
<1> QED
  BY <1>2, <1>3

-----------------------------------------------------------------------------
(* The edges of the graph, in the order of their names.                      *)

Edges == [from : Name, pred : Name, to : Name]

LEMMA EdgeOrder ==
  ASSUME NEW S \in SUBSET Edges
  PROVE  Orders(OrderOn(S, AtomLess), S)
<1> DEFINE R == OrderOn(S, AtomLess)
<1>1. \A a, b \in S : <<a, b>> \in R <=> AtomLess(a, b)
  BY DEF OrderOn
<1>2. Name \subseteq Int
  BY NamesAssumption DEF Name, Empty
<1>3. \A a \in S : a.from \in Int /\ a.pred \in Int /\ a.to \in Int
  BY <1>2 DEF Edges
<1>4. \A a, b \in S : a.from = b.from /\ a.pred = b.pred /\ a.to = b.to => a = b
  <2> TAKE a, b \in S
  <2>1. /\ a = [from |-> a.from, pred |-> a.pred, to |-> a.to]
        /\ b = [from |-> b.from, pred |-> b.pred, to |-> b.to]
    BY DEF Edges
  <2> QED
    BY <2>1
<1> HIDE DEF R
<1>5. \A a \in S : <<a, a>> \notin R
  BY <1>1, <1>3 DEF AtomLess
<1>6. ASSUME NEW a \in S, NEW b \in S PROVE a = b \/ <<a, b>> \in R \/ <<b, a>> \in R
  <2>1. /\ a.from \in Int /\ a.pred \in Int /\ a.to \in Int
        /\ b.from \in Int /\ b.pred \in Int /\ b.to \in Int
    BY <1>3
  <2> QED
    BY <1>1, <1>4, <2>1 DEF AtomLess
<1>7. ASSUME NEW a \in S, NEW b \in S, NEW c \in S, <<a, b>> \in R, <<b, c>> \in R
      PROVE  <<a, c>> \in R
  <2>1. /\ a.from \in Int /\ a.pred \in Int /\ a.to \in Int
        /\ b.from \in Int /\ b.pred \in Int /\ b.to \in Int
        /\ c.from \in Int /\ c.pred \in Int /\ c.to \in Int
    BY <1>3
  <2>2. AtomLess(a, b) /\ AtomLess(b, c)
    BY <1>1, <1>7
  <2> QED
    BY <1>1, <2>1, <2>2 DEF AtomLess
<1> QED
  BY <1>5, <1>6, <1>7 DEF Orders, R

(***************************************************************************)
(* Both maps hold the same edges, the count is theirs, and their nodes are     *)
(* names.                                                                   *)
(***************************************************************************)
GraphOK ==
  /\ DOMAIN out \subseteq Name /\ IsFiniteSet(DOMAIN out)
  /\ AllEdges \subseteq Edges /\ IsFiniteSet(AllEdges) /\ facts = Cardinality(AllEdges)
  /\ \A x, p, y : y \in Nodes(out, x, p) <=> x \in Nodes(in, y, p)

LEMMA EdgeNodes ==
  /\ \A e \in AllEdges : e = Edge(e.from, e.pred, e.to)
  /\ \A x, p, y : Edge(x, p, y) \in AllEdges <=> y \in Nodes(out, x, p)
<1>1. \A e \in AllEdges : \E x, p, y : e = Edge(x, p, y)
  BY DEF AllEdges, EdgesOfOut
<1>2. \A e \in AllEdges : e = Edge(e.from, e.pred, e.to)
  BY <1>1 DEF Edge
<1> QED
  BY <1>2, EdgeIsIn, EdgesNow

LEMMA AddFactKeeps ==
  ASSUME GraphOK, NEW a \in Edges, AddFact(a)
  PROVE  GraphOK'
<1>1. a = Edge(a.from, a.pred, a.to) /\ a.from \in Name
  BY DEF Edges, Edge
<1>2. AllEdges' = AllEdges \cup {a}
  BY <1>1, FactIsEdge
<1>3. Known(a) <=> a \in AllEdges
  BY <1>1, EdgeNodes DEF Known
<1>4. out' = With(out, a.from, a.pred, a.to)
  BY DEF AddFact
<1>5. DOMAIN out' = DOMAIN out \cup {a.from}
  BY <1>4 DEF With
<1>6. DOMAIN out' \subseteq Name /\ IsFiniteSet(DOMAIN out')
  BY <1>1, <1>5, FS_AddElement DEF GraphOK
<1>7. AllEdges' \subseteq Edges /\ IsFiniteSet(AllEdges')
  BY <1>2, FS_AddElement DEF GraphOK
<1>8. facts' = Cardinality(AllEdges')
  <2>1. CASE Known(a)
    <3>1. AllEdges' = AllEdges /\ facts' = facts
      BY <1>2, <1>3, <2>1 DEF AddFact
    <3> QED
      BY <3>1 DEF GraphOK
  <2>2. CASE ~Known(a)
    <3>1. Cardinality(AllEdges \cup {a}) = Cardinality(AllEdges) + 1
      BY <1>3, <2>2, FS_AddElement DEF GraphOK
    <3> QED
      BY <1>2, <2>2, <3>1 DEF AddFact, GraphOK
  <2> QED
    BY <2>1, <2>2
<1>9. \A x, p, y : y \in Nodes(out', x, p) <=> x \in Nodes(in', y, p)
  <2> TAKE x, p, y
  <2>1. Nodes(out', x, p) = Nodes(out, x, p) \cup {z \in {a.to} : x = a.from /\ p = a.pred}
    BY <1>4, WithAdds
  <2>2. y \in Nodes(out, x, p) <=> x \in Nodes(in, y, p)
    BY DEF GraphOK
  <2>3. CASE Known(a)
    <3>1. in' = in
      BY <2>3 DEF AddFact
    <3>2. Nodes(in', y, p) = Nodes(in, y, p)
      BY <3>1
    <3> QED
      BY <2>1, <2>2, <2>3, <3>2 DEF Known
  <2>4. CASE ~Known(a)
    <3>1. in' = With(in, a.to, a.pred, a.from)
      BY <2>4 DEF AddFact
    <3>2. Nodes(in', y, p) = Nodes(in, y, p) \cup {z \in {a.from} : y = a.to /\ p = a.pred}
      BY <3>1, WithAdds
    <3> QED
      BY <2>1, <2>2, <3>2
  <2> QED
    BY <2>3, <2>4
<1>10. \A x, p, y : (y \in Nodes(out, x, p) <=> x \in Nodes(in, y, p))'
  BY <1>9 DEF Nodes, Inner
<1>11. IsFiniteSet(AllEdges)' /\ Cardinality(AllEdges)' = Cardinality(AllEdges')
  BY <1>7 DEF Cardinality
<1> QED
  BY <1>6, <1>7, <1>8, <1>10, <1>11 DEF GraphOK

LEMMA SameGraph == GraphOK /\ UNCHANGED memGraph => GraphOK'
<1> SUFFICES ASSUME GraphOK, UNCHANGED memGraph PROVE GraphOK'
  OBVIOUS
<1>1. out' = out /\ in' = in /\ facts' = facts
  BY DEF memGraph
<1>2. AllEdges' = AllEdges
  BY <1>1, EdgesNow
<1> QED
  BY <1>1, <1>2 DEF GraphOK, Nodes, Inner, Edges

\* The order of the listings, and the edges with some name.
ByNames == OrderOn(AllEdges, AtomLess)

From(x) == {e \in AllEdges : e.from = x}
Named(p) == {e \in AllEdges : e.pred = p}
Into(y) == {e \in AllEdges : e.to = y}

LEMMA ByNamesIs ==
  ASSUME GraphOK, NEW Q \in SUBSET AllEdges
  PROVE  /\ Orders(ByNames, Q) /\ IsFiniteSet(Q)
         /\ \A d, e \in AllEdges : <<d, e>> \in ByNames <=> AtomLess(d, e)
<1>1. Orders(ByNames, AllEdges) /\ IsFiniteSet(AllEdges)
  BY EdgeOrder DEF GraphOK, ByNames
<1>2. IsFiniteSet(Q)
  BY <1>1, FS_Subset
<1>3. Orders(ByNames, Q)
  BY <1>1 DEF Orders
<1> QED
  BY <1>2, <1>3 DEF ByNames, OrderOn

\* What is sorted in an order that is this one on the set is a list in this one.
LEMMA SortedEdges ==
  ASSUME GraphOK, NEW Q \in SUBSET AllEdges, NEW R,
         \A d, e \in Q : <<d, e>> \in R <=> AtomLess(d, e)
  PROVE  Lists(RankedBy(R, Q), ByNames, Q)
<1>1. Orders(ByNames, Q) /\ IsFiniteSet(Q)
  BY ByNamesIs
<1>2. \A d, e \in Q : <<d, e>> \in R <=> <<d, e>> \in ByNames
  BY ByNamesIs
<1>3. Orders(R, Q)
  BY <1>1, <1>2 DEF Orders
<1>4. Lists(RankedBy(R, Q), R, Q)
  BY <1>1, <1>3, SortedLists
<1> DEFINE s == RankedBy(R, Q)
<1> HIDE DEF s
<1>5. Lists(s, R, Q) => Lists(s, ByNames, Q)
  <2> SUFFICES ASSUME Lists(s, R, Q) PROVE Lists(s, ByNames, Q)
    OBVIOUS
  <2>1. /\ s \in Seq(Q) /\ Range(s) = Q
        /\ \A n \in DOMAIN s : s[n] \in Q
        /\ \A m, n \in DOMAIN s : m < n => <<s[m], s[n]>> \in R
    BY ListIs DEF Lists
  <2>2. \A m, n \in DOMAIN s : m < n => <<s[m], s[n]>> \in ByNames
    BY <1>2, <2>1
  <2> QED
    BY <2>1, <2>2 DEF Lists
<1> QED
  BY <1>4, <1>5 DEF s

LEMMA EdgeFields ==
  ASSUME GraphOK
  PROVE  \A e \in AllEdges : /\ e.from \in Int /\ e.pred \in Int /\ e.to \in Int
                             /\ e.from \in DOMAIN out
<1>1. Name \subseteq Int
  BY NamesAssumption DEF Name, Empty
<1>2. ASSUME NEW e \in AllEdges PROVE e.from \in DOMAIN out
  <2>1. e.to \in Nodes(out, e.from, e.pred)
    BY EdgeNodes
  <2> QED
    BY <2>1 DEF Nodes, Inner
<1>3. \A e \in AllEdges : e \in Edges
  BY DEF GraphOK
<1> QED
  BY <1>1, <1>2, <1>3 DEF Edges

LEMMA AllListed == ASSUME GraphOK PROVE Lists(EdgesAll, ByNames, AllEdges)
<1>1. EdgesAll = RankedBy(ByNames, AllEdges)
  BY DEF EdgesAll, SetSorted, ByNames
<1>2. AllEdges \in SUBSET AllEdges
  OBVIOUS
<1>3. \A d, e \in AllEdges : <<d, e>> \in ByNames <=> AtomLess(d, e)
  BY <1>2, ByNamesIs
<1> QED
  BY <1>1, <1>2, <1>3, SortedEdges

LEMMA FromListed == ASSUME GraphOK, NEW x PROVE Lists(EdgesFrom(x), ByNames, From(x))
<1> DEFINE Q == UNION {EdgesOfOut(x, p) : p \in DOMAIN Inner(out, x)}
           R == {q \in Q \X Q : q[1].pred < q[2].pred \/ (q[1].pred = q[2].pred /\ q[1].to < q[2].to)}
<1>1. EdgesFrom(x) = RankedBy(R, Q)
  BY DEF EdgesFrom, SetSorted, OrderOn
<1>2. Q = From(x)
  <2>1. ASSUME NEW e \in Q PROVE e \in From(x)
    <3>1. PICK p \in DOMAIN Inner(out, x) : \E y \in Nodes(out, x, p) : e = Edge(x, p, y)
      BY <2>1 DEF EdgesOfOut
    <3> QED
      BY <3>1, EdgeNodes DEF From, Edge
  <2>2. ASSUME NEW e \in From(x) PROVE e \in Q
    <3>1. e = Edge(x, e.pred, e.to) /\ e.to \in Nodes(out, x, e.pred)
      BY EdgeNodes DEF From
    <3>2. e.pred \in DOMAIN Inner(out, x)
      BY <3>1 DEF Nodes
    <3>3. e \in EdgesOfOut(x, e.pred)
      BY <3>1 DEF EdgesOfOut
    <3> QED
      BY <3>2, <3>3
  <2> QED
    BY <2>1, <2>2
<1>3. ASSUME NEW d \in Q, NEW e \in Q PROVE <<d, e>> \in R <=> AtomLess(d, e)
  <2>1. d \in AllEdges /\ e \in AllEdges /\ d.from = e.from
    BY <1>2, <1>3 DEF From
  <2>2. d.from \in Int
    BY <2>1, EdgeFields
  <2>3. <<d, e>> \in R <=> (d.pred < e.pred \/ (d.pred = e.pred /\ d.to < e.to))
    BY <1>3
  <2> QED
    BY <2>1, <2>2, <2>3 DEF AtomLess
<1> HIDE DEF Q, R
<1>4. Q \in SUBSET AllEdges
  BY <1>2 DEF From
<1>5. Lists(RankedBy(R, Q), ByNames, Q)
  BY <1>3, <1>4, SortedEdges
<1> QED
  BY <1>1, <1>2, <1>5

LEMMA PredicateListed == ASSUME GraphOK, NEW p PROVE Lists(EdgesByPredicate(p), ByNames, Named(p))
<1> DEFINE Q == UNION {EdgesOfOut(x, p) : x \in DOMAIN out}
           R == {q \in Q \X Q : q[1].from < q[2].from \/ (q[1].from = q[2].from /\ q[1].to < q[2].to)}
<1>1. EdgesByPredicate(p) = RankedBy(R, Q)
  BY DEF EdgesByPredicate, SetSorted, OrderOn
<1>2. Q = Named(p)
  <2>1. ASSUME NEW e \in Q PROVE e \in Named(p)
    <3>1. PICK x \in DOMAIN out : \E y \in Nodes(out, x, p) : e = Edge(x, p, y)
      BY <2>1 DEF EdgesOfOut
    <3> QED
      BY <3>1, EdgeNodes DEF Named, Edge
  <2>2. ASSUME NEW e \in Named(p) PROVE e \in Q
    <3>1. e = Edge(e.from, p, e.to) /\ e.to \in Nodes(out, e.from, p)
      BY EdgeNodes DEF Named
    <3>2. e.from \in DOMAIN out
      BY EdgeFields DEF Named
    <3>3. e \in EdgesOfOut(e.from, p)
      BY <3>1 DEF EdgesOfOut
    <3> QED
      BY <3>2, <3>3
  <2> QED
    BY <2>1, <2>2
<1>3. ASSUME NEW d \in Q, NEW e \in Q PROVE <<d, e>> \in R <=> AtomLess(d, e)
  <2>1. d \in AllEdges /\ e \in AllEdges /\ d.pred = e.pred
    BY <1>2, <1>3 DEF Named
  <2>2. d.pred \in Int
    BY <2>1, EdgeFields
  <2>3. <<d, e>> \in R <=> (d.from < e.from \/ (d.from = e.from /\ d.to < e.to))
    BY <1>3
  <2> QED
    BY <2>1, <2>2, <2>3 DEF AtomLess
<1> HIDE DEF Q, R
<1>4. Q \in SUBSET AllEdges
  BY <1>2 DEF Named
<1>5. Lists(RankedBy(R, Q), ByNames, Q)
  BY <1>3, <1>4, SortedEdges
<1> QED
  BY <1>1, <1>2, <1>5

LEMMA IntoListed == ASSUME GraphOK, NEW y PROVE Range(EdgesTo(y)) = Into(y)
<1> DEFINE Q == UNION {{Edge(x, p, y) : x \in Nodes(in, y, p)} : p \in DOMAIN Inner(in, y)}
           R == {q \in Q \X Q : q[1].pred < q[2].pred \/ (q[1].pred = q[2].pred /\ q[1].from < q[2].from)}
<1>1. EdgesTo(y) = RankedBy(R, Q)
  BY DEF EdgesTo, SetSorted, OrderOn
<1>2. Q = Into(y)
  <2>1. ASSUME NEW e \in Q PROVE e \in Into(y)
    <3>1. PICK p \in DOMAIN Inner(in, y) : \E x \in Nodes(in, y, p) : e = Edge(x, p, y)
      BY <2>1
    <3>2. \A x \in Nodes(in, y, p) : y \in Nodes(out, x, p)
      BY DEF GraphOK
    <3> QED
      BY <3>1, <3>2, EdgeNodes DEF Into, Edge
  <2>2. ASSUME NEW e \in Into(y) PROVE e \in Q
    <3>1. e = Edge(e.from, e.pred, y) /\ y \in Nodes(out, e.from, e.pred)
      BY EdgeNodes DEF Into
    <3>2. e.from \in Nodes(in, y, e.pred)
      BY <3>1 DEF GraphOK
    <3>3. e.pred \in DOMAIN Inner(in, y)
      BY <3>2 DEF Nodes
    <3> QED
      BY <3>1, <3>2, <3>3
  <2> QED
    BY <2>1, <2>2
<1>3. ASSUME NEW d \in Q, NEW e \in Q PROVE <<d, e>> \in R <=> (d.pred < e.pred \/ (d.pred = e.pred /\ d.from < e.from))
  BY <1>3
<1>4. \A d \in Q : d \in AllEdges /\ d.to = y /\ d.pred \in Int /\ d.from \in Int
  BY <1>2, EdgeFields DEF Into
<1>5. \A d, e \in Q : d.pred = e.pred /\ d.from = e.from => d = e
  BY <1>4, EdgeNodes
<1> HIDE DEF Q, R
<1>6. IsFiniteSet(Q)
  <2>1. Q \in SUBSET AllEdges
    BY <1>4
  <2> QED
    BY <2>1, ByNamesIs
<1>7. Orders(R, Q)
  <2>1. \A d \in Q : <<d, d>> \notin R
    BY <1>3, <1>4
  <2>2. ASSUME NEW d \in Q, NEW e \in Q PROVE d = e \/ <<d, e>> \in R \/ <<e, d>> \in R
    <3>1. d.pred \in Int /\ d.from \in Int /\ e.pred \in Int /\ e.from \in Int
      BY <1>4
    <3> QED
      BY <1>3, <1>5, <3>1
  <2>3. ASSUME NEW c \in Q, NEW d \in Q, NEW e \in Q, <<c, d>> \in R, <<d, e>> \in R PROVE <<c, e>> \in R
    <3>1. /\ c.pred \in Int /\ c.from \in Int /\ d.pred \in Int /\ d.from \in Int
          /\ e.pred \in Int /\ e.from \in Int
      BY <1>4
    <3> QED
      BY <1>3, <2>3, <3>1
  <2> QED
    BY <2>1, <2>2, <2>3 DEF Orders
<1>8. Lists(RankedBy(R, Q), R, Q)
  BY <1>6, <1>7, SortedLists
<1>9. Range(RankedBy(R, Q)) = Q
  BY <1>8 DEF Lists
<1> QED
  BY <1>1, <1>2, <1>9

\* The listing of all edges is the listings by their first node end to end.
LEMMA FromsAreAll ==
  ASSUME GraphOK
  PROVE  EdgesAll = FlattenSeq([i \in DOMAIN InOrder(DOMAIN out) |-> EdgesFrom(InOrder(DOMAIN out)[i])])
<1> DEFINE froms == InOrder(DOMAIN out)
           lists == [i \in DOMAIN froms |-> EdgesFrom(froms[i])]
           S == [i \in DOMAIN froms |-> From(froms[i])]
<1>1. DOMAIN out \in SUBSET Nat /\ IsFiniteSet(DOMAIN out)
  <2>1. Name \subseteq Nat
    BY NamesAssumption DEF Name, Empty
  <2> QED
    BY <2>1 DEF GraphOK
<1>2. /\ froms \in Seq(DOMAIN out) /\ Len(froms) \in Nat /\ DOMAIN froms = 1 .. Len(froms)
      /\ \A i, j \in DOMAIN froms : i < j => froms[i] < froms[j]
      /\ \A x \in DOMAIN out : \E i \in DOMAIN froms : froms[i] = x
      /\ \A i \in DOMAIN froms : froms[i] \in Nat
  <2>1. /\ froms \in Seq(DOMAIN out) /\ Len(froms) = Cardinality(DOMAIN out)
        /\ \A i, j \in 1 .. Cardinality(DOMAIN out) : i < j => froms[i] < froms[j]
        /\ \A x \in DOMAIN out : \E i \in 1 .. Cardinality(DOMAIN out) : froms[i] = x
    BY <1>1, InOrderIs
  <2> HIDE DEF froms
  <2>2. DOMAIN froms = 1 .. Len(froms) /\ Len(froms) \in Nat /\ \A i \in DOMAIN froms : froms[i] \in DOMAIN out
    BY <2>1
  <2> QED
    BY <1>1, <2>1, <2>2
<1> HIDE DEF froms
<1>3. \A i \in DOMAIN froms : Lists(EdgesFrom(froms[i]), ByNames, From(froms[i]))
  BY FromListed
<1>4. lists \in Seq({EdgesFrom(froms[i]) : i \in DOMAIN froms}) /\ DOMAIN lists = DOMAIN froms
  BY <1>2
<1>5. \A i \in DOMAIN lists : Lists(lists[i], ByNames, S[i])
  BY <1>3
<1>6. ASSUME NEW i \in DOMAIN lists, NEW j \in DOMAIN lists, i < j, NEW d \in S[i], NEW e \in S[j]
      PROVE  <<d, e>> \in ByNames
  <2>1. d \in AllEdges /\ e \in AllEdges /\ d.from = froms[i] /\ e.from = froms[j]
    BY <1>6 DEF From
  <2>2. d.from < e.from
    BY <1>2, <1>6, <2>1
  <2> QED
    BY <2>1, <2>2, ByNamesIs DEF AtomLess
<1>7. UNION {S[i] : i \in DOMAIN lists} = AllEdges
  <2>1. \A i \in DOMAIN lists : S[i] \subseteq AllEdges
    BY DEF From
  <2>2. ASSUME NEW e \in AllEdges PROVE \E i \in DOMAIN lists : e \in S[i]
    <3>1. e.from \in DOMAIN out
      BY EdgeFields
    <3>2. PICK i \in DOMAIN froms : froms[i] = e.from
      BY <1>2, <3>1
    <3> QED
      BY <3>2 DEF From
  <2> QED
    BY <2>1, <2>2
<1> HIDE DEF lists, S
<1>8. Lists(FlattenSeq(lists), ByNames, AllEdges)
  <2>1. Lists(FlattenSeq(lists), ByNames, UNION {S[i] : i \in DOMAIN lists})
    BY <1>4, <1>5, <1>6, FlatLists
  <2> QED
    BY <1>7, <2>1
<1>9. EdgesAll = FlattenSeq(lists)
  <2>1. Orders(ByNames, AllEdges)
    BY ByNamesIs
  <2> QED
    BY <1>8, <2>1, AllListed, OneList
<1> QED
  BY <1>9 DEF lists, froms

\* What is left of a listing at the places of some edges is their list.
LEMMA FilteredIs ==
  ASSUME GraphOK, NEW s, NEW Q \in SUBSET AllEdges, Lists(s, ByNames, Q),
         NEW P \in SUBSET Q, NEW t, Lists(t, ByNames, P),
         NEW places, places = {i \in DOMAIN s : s[i] \in P}
  PROVE  AtPlaces(s, places) = t
<1>1. /\ \A i \in DOMAIN s : s[i] \in Q
      /\ \A e \in Q : \E i \in DOMAIN s : s[i] = e
  BY ListIs
<1>2. {s[i] : i \in places} = P
  BY <1>1
<1>3. Lists(AtPlaces(s, places), ByNames, P)
  BY <1>2, PlacesList
<1>4. Orders(ByNames, P)
  BY ByNamesIs
<1> QED
  BY <1>3, <1>4, OneList

LEMMA PredicateOfAll ==
  ASSUME GraphOK, NEW p
  PROVE  EdgesByPredicate(p) = Filtered(EdgesAll, LAMBDA e : e.pred = p)
<1> DEFINE places == {i \in DOMAIN EdgesAll : EdgesAll[i].pred = p}
<1>1. \A i \in DOMAIN EdgesAll : EdgesAll[i] \in AllEdges
  BY AllListed, ListIs
<1>2. places = {i \in DOMAIN EdgesAll : EdgesAll[i] \in Named(p)}
  BY <1>1 DEF Named
<1>3. Filtered(EdgesAll, LAMBDA e : e.pred = p) = AtPlaces(EdgesAll, places)
  BY DEF Filtered
<1> HIDE DEF places
<1>4. Named(p) \in SUBSET AllEdges /\ AllEdges \in SUBSET AllEdges
  BY DEF Named
<1>5. AtPlaces(EdgesAll, places) = EdgesByPredicate(p)
  BY <1>2, <1>4, AllListed, PredicateListed, FilteredIs
<1> QED
  BY <1>3, <1>5

LEMMA RelatedOfPredicate ==
  ASSUME GraphOK, NEW a
  PROVE  RelatedEdges(a) = AtPlaces(EdgesByPredicate(a.pred),
                                    {i \in DOMAIN EdgesByPredicate(a.pred) :
                                       EdgesByPredicate(a.pred)[i].from = a.from})
<1> DEFINE s == EdgesFrom(a.from)
           t == EdgesByPredicate(a.pred)
           P == From(a.from) \cap Named(a.pred)
           ps == {i \in DOMAIN s : s[i].pred = a.pred}
           pt == {i \in DOMAIN t : t[i].from = a.from}
<1>1. Lists(s, ByNames, From(a.from)) /\ Lists(t, ByNames, Named(a.pred))
  BY FromListed, PredicateListed
<1>2. RelatedEdges(a) = AtPlaces(s, ps)
  BY DEF RelatedEdges, Filtered
<1> HIDE DEF s, t
<1>4. (\A i \in DOMAIN s : s[i] \in From(a.from)) /\ (\A i \in DOMAIN t : t[i] \in Named(a.pred))
  BY <1>1, ListIs
<1>5. ps = {i \in DOMAIN s : s[i] \in P} /\ pt = {i \in DOMAIN t : t[i] \in P}
  BY <1>4 DEF From, Named
<1>6. /\ From(a.from) \in SUBSET AllEdges /\ Named(a.pred) \in SUBSET AllEdges
      /\ P \in SUBSET From(a.from) /\ P \in SUBSET Named(a.pred) /\ P \in SUBSET AllEdges
  BY DEF From, Named
<1> HIDE DEF P, ps, pt
<1>7. Lists(RankedBy(ByNames, P), ByNames, P)
  BY <1>6, ByNamesIs, SortedLists
<1>8. AtPlaces(s, ps) = RankedBy(ByNames, P) /\ AtPlaces(t, pt) = RankedBy(ByNames, P)
  BY <1>1, <1>5, <1>6, <1>7, FilteredIs
<1> QED
  BY <1>2, <1>8 DEF t, pt

LEMMA CountedIs ==
  ASSUME GraphOK, NEW y, NEW p
  PROVE  CountIncoming(y, p) = Cardinality({d \in AllEdges : d.to = y /\ d.pred = p})
<1> DEFINE D == {d \in AllEdges : d.to = y /\ d.pred = p}
           N == Nodes(in, y, p)
           f == [d \in D |-> d.from]
<1>1. IsFiniteSet(D)
  BY ByNamesIs, D \in SUBSET AllEdges
<1>2. ASSUME NEW d \in D PROVE d.from \in N /\ d = Edge(d.from, p, y)
  BY EdgeNodes DEF GraphOK
<1>3. ASSUME NEW x \in N PROVE Edge(x, p, y) \in D /\ Edge(x, p, y).from = x
  <2>1. y \in Nodes(out, x, p)
    BY DEF GraphOK
  <2>2. Edge(x, p, y) \in AllEdges
    BY <2>1, EdgeNodes
  <2> QED
    BY <2>2 DEF Edge
<1> HIDE DEF D, N
<1>4. /\ f \in [D -> N]
      /\ \A d, e \in D : f[d] = f[e] => d = e
      /\ \A x \in N : \E d \in D : f[d] = x
  BY <1>2, <1>3
<1>5. f \in Bijection(D, N)
  BY <1>4, Zenon DEF Bijection, Injection, Surjection, IsInjective
<1>6. ExistsBijection(D, N)
  BY <1>5 DEF ExistsBijection
<1>7. Cardinality(N) = Cardinality(D)
  BY <1>1, <1>6, FS_Bijection
<1> QED
  BY <1>7 DEF CountIncoming, D, N

LEMMA ListingsOfGraph == GraphOK => ListingsAgree
<1> SUFFICES ASSUME GraphOK PROVE ListingsAgree
  OBVIOUS
<1>1. Len(EdgesAll) = facts
  <2>1. Orders(ByNames, AllEdges)
    BY ByNamesIs
  <2>2. \A e \in AllEdges : <<e, e>> \notin ByNames
    BY <2>1 DEF Orders
  <2> QED
    BY <2>2, AllListed, ListCounts DEF GraphOK
<1>2. EdgesAll = FlattenSeq([i \in DOMAIN InOrder(DOMAIN out) |-> EdgesFrom(InOrder(DOMAIN out)[i])])
  BY FromsAreAll
<1>3. \A p \in Predicates : EdgesByPredicate(p) = Filtered(EdgesAll, LAMBDA e : e.pred = p)
  BY PredicateOfAll
<1>4. UNION {Range(EdgesTo(y)) : y \in DOMAIN in} = AllEdges
  <2>1. \A y \in DOMAIN in : Range(EdgesTo(y)) = Into(y)
    BY IntoListed
  <2>2. ASSUME NEW e \in AllEdges PROVE e.to \in DOMAIN in
    <3>1. e.from \in Nodes(in, e.to, e.pred)
      BY EdgeNodes DEF GraphOK
    <3> QED
      BY <3>1 DEF Nodes, Inner
  <2> QED
    BY <2>1, <2>2 DEF Into
<1>5. ASSUME NEW e \in AllEdges
      PROVE  /\ CountIncoming(e.to, e.pred)
                  = Cardinality({d \in AllEdges : d.to = e.to /\ d.pred = e.pred})
             /\ RelatedEdges(e) = Filtered(EdgesByPredicate(e.pred), LAMBDA d : d.from = e.from)
  <2>1. CountIncoming(e.to, e.pred) = Cardinality({d \in AllEdges : d.to = e.to /\ d.pred = e.pred})
    BY CountedIs
  <2>2. RelatedEdges(e) = Filtered(EdgesByPredicate(e.pred), LAMBDA d : d.from = e.from)
    BY RelatedOfPredicate DEF Filtered
  <2> QED
    BY <2>1, <2>2
<1> QED
  BY <1>1, <1>2, <1>3, <1>4, <1>5 DEF ListingsAgree

-----------------------------------------------------------------------------
(* The graph at every step.                                                  *)

LEMMA GraphStarts == Init => GraphOK
<1> SUFFICES ASSUME Init PROVE GraphOK
  OBVIOUS
<1>1. out = << >> /\ in = << >> /\ facts = 0
  BY DEF Init, GraphInit
<1>2. DOMAIN << >> = {}
  OBVIOUS
<1>3. AllEdges = {}
  BY <1>1, <1>2, EdgesNow DEF EdgesIn
<1>4. \A x, p : Nodes(out, x, p) = {} /\ Nodes(in, x, p) = {}
  BY <1>1, <1>2 DEF Nodes, Inner
<1> QED
  BY <1>1, <1>2, <1>3, <1>4, FS_EmptySet DEF GraphOK

LEMMA IngestKeepsGraph ==
  ASSUME GraphOK, NEW b \in Belief, IngestNoLog(b)
  PROVE  GraphOK'
<1>1. b.atom \in Edges
  BY DEF Belief, Edges
<1>2. AddFact(b.atom) \/ UNCHANGED memGraph
  BY DEF IngestNoLog
<1> QED
  BY <1>1, <1>2, AddFactKeeps, SameGraph

LEMMA GraphStep == GraphOK /\ [Next]_vars => GraphOK'
<1> SUFFICES ASSUME GraphOK, [Next]_vars PROVE GraphOK'
  OBVIOUS
<1>1. ASSUME NEW b \in Belief, IngestNoLog(b) PROVE GraphOK'
  BY <1>1, IngestKeepsGraph
<1>2. UNCHANGED memGraph => GraphOK'
  BY SameGraph
<1> HIDE DEF IngestNoLog, SetResolution
<1> QED
  BY <1>1, <1>2, StepKinds

(***************************************************************************)
(* pkg/kg/memgraph.go: in whichever order facts were added and how often, the   *)
(* listings by first node, by predicate and by last node, the counts and the   *)
(* number of facts are of the same edges, and in the same order.             *)
(***************************************************************************)
THEOREM ListingsAlwaysAgree == Spec => []ListingsAgree
<1>1. Init => GraphOK
  BY GraphStarts
<1>2. GraphOK /\ [Next]_vars => GraphOK'
  BY GraphStep
<1>3. GraphOK => ListingsAgree
  BY ListingsOfGraph
<1> QED
  BY <1>1, <1>2, <1>3, PTL DEF Spec

-----------------------------------------------------------------------------
(* The walk over the belief store.                                           *)

\* A list without two of the same time and source, in their order.
Timed(s) == \A i, j \in DOMAIN s : i < j => BeliefLess(s[i], s[j])

WalkOK ==
  /\ StoreOK
  /\ DOMAIN beliefsByAtom \subseteq Edges /\ IsFiniteSet(DOMAIN beliefsByAtom)
  /\ \A a \in DOMAIN beliefsByAtom : \A pol \in Polarity : Timed(beliefsByAtom[a][pol])
  /\ count = Cardinality(Beliefs)

LEMMA InsertedTimed ==
  ASSUME NEW s \in Seq(Belief), NEW b \in Belief, Timed(s),
         ~\E i \in DOMAIN s : s[i].src = b.src /\ s[i].time = b.time
  PROVE  Timed(Inserted(s, b))
<1> DEFINE t == Append(s, b)
           R == OrderOn({t[i] : i \in DOMAIN t}, BeliefLess)
           u == ListBy(R, t)
           Differ(c, d) == c.src # d.src \/ c.time # d.time
<1>1. /\ t \in Seq(Belief) /\ Len(t) = Len(s) + 1 /\ DOMAIN t = 1 .. Len(s) + 1 /\ Len(s) \in Nat
      /\ DOMAIN s = 1 .. Len(s) /\ t[Len(s) + 1] = b /\ \A i \in 1 .. Len(s) : t[i] = s[i]
  OBVIOUS
<1>2. Inserted(s, b) = u
  BY DEF Inserted, Sorted
<1> HIDE DEF t
<1>3. \A i \in DOMAIN t : t[i] \in Belief /\ t[i].time \in Int /\ t[i].src \in Int
  BY <1>1, BeliefFields
<1>4. Range(t) = {t[i] : i \in DOMAIN t} /\ Range(t) \in SUBSET Belief
  BY <1>3 DEF Range
<1>5. OrdersMostly(R, Range(t))
  <2>1. OrdersMostly(OrderOn(Range(t), BeliefLess), Range(t))
    BY <1>4, TimeAndSourceOrder
  <2> QED
    BY <1>4, <2>1
<1>6. \A i, j \in DOMAIN t : <<t[i], t[j]>> \in R <=> BeliefLess(t[i], t[j])
  BY DEF OrderOn
<1>7. ASSUME NEW i \in DOMAIN t, NEW j \in DOMAIN t, i < j PROVE Differ(t[i], t[j])
  <2>1. i \in DOMAIN s /\ t[i] = s[i]
    BY <1>1, <1>7
  <2>2. CASE j = Len(s) + 1
    BY <1>1, <2>1, <2>2
  <2>3. CASE j # Len(s) + 1
    <3>1. j \in DOMAIN s /\ t[j] = s[j]
      BY <1>1, <2>3
    <3>2. BeliefLess(t[i], t[j])
      BY <1>7, <2>1, <3>1 DEF Timed
    <3> QED
      BY <1>3, <3>2 DEF BeliefLess
  <2> QED
    BY <2>2, <2>3
<1>8. \A i, j \in DOMAIN t : i # j => Differ(t[i], t[j])
  BY <1>1, <1>7
<1> HIDE DEF R
<1>9. /\ DOMAIN u = DOMAIN t /\ Range(u) = Range(t)
      /\ \A m, n \in DOMAIN t : m < n => <<u[n], u[m]>> \notin R
      /\ \A m, n \in DOMAIN t : u[m] = u[n] => m = n
  <2>1. \A i, j \in DOMAIN t : t[i] = t[j] => i = j
    BY <1>8
  <2> QED
    BY <1>1, <1>5, <2>1, ListByIs, ZenonT(60)
<1> HIDE DEF u
<1>10. ASSUME NEW m \in DOMAIN u, NEW n \in DOMAIN u, m < n PROVE BeliefLess(u[m], u[n])
  <2>1. u[m] \in Range(t) /\ u[n] \in Range(t)
    BY <1>9 DEF Range
  <2>2. PICK i \in DOMAIN t : t[i] = u[m]
    BY <1>4, <2>1
  <2>3. PICK j \in DOMAIN t : t[j] = u[n]
    BY <1>4, <2>1
  <2>4. i # j
    BY <1>1, <1>9, <1>10, <2>2, <2>3
  <2>5. Differ(t[i], t[j]) /\ ~BeliefLess(t[j], t[i])
    BY <1>6, <1>8, <1>9, <1>10, <2>2, <2>3, <2>4
  <2>6. BeliefLess(t[i], t[j])
    <3>1. t[i].time \in Int /\ t[i].src \in Int /\ t[j].time \in Int /\ t[j].src \in Int
      BY <1>3
    <3> QED
      BY <2>5, <3>1 DEF BeliefLess
  <2> QED
    BY <2>2, <2>3, <2>6
<1>11. Timed(u)
  BY <1>10 DEF Timed
<1> QED
  BY <1>2, <1>11

LEMMA AddWalks ==
  ASSUME WalkOK, NEW b \in Belief, b.pol \in Polarity, Add(b)
  PROVE  WalkOK'
<1>1. StoreOK /\ StoreOK' /\ Beliefs' = Beliefs \cup {b}
  BY AddStores DEF WalkOK
<1>2. CASE IsDuplicate(b)
  <2>1. UNCHANGED <<beliefsByAtom, count>>
    BY <1>2 DEF Add, store
  <2>2. Beliefs' = Beliefs
    BY <1>1, <1>2, DuplicateIsStored
  <2>3. Cardinality(Beliefs)' = Cardinality(Beliefs')
    BY DEF Cardinality
  <2>4. /\ (DOMAIN beliefsByAtom \subseteq Edges)' /\ IsFiniteSet(DOMAIN beliefsByAtom)'
        /\ (\A a \in DOMAIN beliefsByAtom : \A pol \in Polarity : Timed(beliefsByAtom[a][pol]))'
    BY <2>1 DEF WalkOK, Edges, Timed, BeliefLess
  <2>5. (count = Cardinality(Beliefs))'
    BY <2>1, <2>2, <2>3 DEF WalkOK
  <2> QED
    BY <1>1, <2>4, <2>5 DEF WalkOK
<1>3. CASE ~IsDuplicate(b)
  <2> DEFINE m == beliefsByAtom
             list == Inserted(ByPolarity(b.atom)[b.pol], b)
  <2>1. /\ m' = [a \in DOMAIN m \cup {b.atom} |->
                   IF a = b.atom THEN [ByPolarity(a) EXCEPT ![b.pol] = Inserted(@, b)] ELSE m[a]]
        /\ count' = count + 1
    BY <1>3 DEF Add
  <2>2. b.atom \in Edges
    BY DEF Belief, Edges
  <2>3. DOMAIN m' = DOMAIN m \cup {b.atom}
    BY <2>1
  <2>4. DOMAIN m' \subseteq Edges /\ IsFiniteSet(DOMAIN m')
    BY <2>2, <2>3, FS_AddElement DEF WalkOK
  <2>5. /\ ByPolarity(b.atom) \in [Polarity -> Seq(Belief)]
        /\ \A pol \in Polarity : Timed(ByPolarity(b.atom)[pol])
    <3>1. CASE b.atom \in DOMAIN m
      BY <1>1, <3>1 DEF ByPolarity, StoreOK, ListsOK, WalkOK
    <3>2. CASE b.atom \notin DOMAIN m
      <4>1. << >> \in Seq(Belief) /\ DOMAIN << >> = {}
        OBVIOUS
      <4> QED
        BY <3>2, <4>1 DEF ByPolarity, Timed
    <3> QED
      BY <3>1, <3>2
  <2>6. Timed(list)
    <3>1. ByPolarity(b.atom)[b.pol] \in Seq(Belief) /\ Timed(ByPolarity(b.atom)[b.pol])
      BY <2>5
    <3>2. ~\E i \in DOMAIN ByPolarity(b.atom)[b.pol] :
             /\ ByPolarity(b.atom)[b.pol][i].src = b.src
             /\ ByPolarity(b.atom)[b.pol][i].time = b.time
      BY <1>3 DEF IsDuplicate
    <3> QED
      BY <3>1, <3>2, InsertedTimed
  <2>7. ASSUME NEW a \in DOMAIN m', NEW pol \in Polarity PROVE Timed(m'[a][pol])
    <3>1. CASE a = b.atom
      <4>1. m'[a] = [ByPolarity(b.atom) EXCEPT ![b.pol] = list]
        BY <2>1, <2>3, <3>1
      <4>2. m'[a][pol] = IF pol = b.pol THEN list ELSE ByPolarity(b.atom)[pol]
        <5> HIDE DEF list, m
        <5> QED
          BY <2>5, <4>1
      <4> QED
        BY <2>5, <2>6, <4>2
    <3>2. CASE a # b.atom
      <4>1. a \in DOMAIN m /\ m'[a] = m[a]
        BY <2>1, <2>3, <3>2
      <4> QED
        BY <4>1 DEF WalkOK
    <3> QED
      BY <3>1, <3>2
  <2>8. (\A a \in DOMAIN beliefsByAtom : \A pol \in Polarity : Timed(beliefsByAtom[a][pol]))'
    BY <2>7 DEF Timed, BeliefLess
  <2>9. Cardinality(Beliefs') = Cardinality(Beliefs) + 1
    <3>1. b \notin Beliefs /\ IsFiniteSet(Beliefs)
      BY <1>1, <1>3, DuplicateIsStored DEF StoreOK
    <3> QED
      BY <1>1, <3>1, FS_AddElement
  <2>10. (count = Cardinality(Beliefs))'
    <3>1. Cardinality(Beliefs)' = Cardinality(Beliefs')
      BY DEF Cardinality
    <3> QED
      BY <2>1, <2>9, <3>1 DEF WalkOK
  <2>11. (DOMAIN beliefsByAtom \subseteq Edges)' /\ IsFiniteSet(DOMAIN beliefsByAtom)'
    BY <2>4 DEF Edges
  <2> QED
    BY <1>1, <2>8, <2>10, <2>11 DEF WalkOK
<1> QED
  BY <1>2, <1>3

LEMMA WalkStarts == Init => WalkOK
<1> SUFFICES ASSUME Init PROVE WalkOK
  OBVIOUS
<1>1. beliefsByAtom = << >> /\ count = 0
  BY DEF Init, StoreInit
<1>2. DOMAIN << >> = {}
  OBVIOUS
<1>3. Beliefs = {}
  BY <1>1, <1>2 DEF Beliefs
<1>4. StoreOK
  BY StoresStart
<1> QED
  BY <1>1, <1>2, <1>3, <1>4, FS_EmptySet DEF WalkOK

LEMMA SameWalk ==
  WalkOK /\ StoreOK' /\ Beliefs' = Beliefs /\ UNCHANGED <<beliefsByAtom, count>> => WalkOK'
<1> SUFFICES ASSUME WalkOK, StoreOK', Beliefs' = Beliefs, UNCHANGED <<beliefsByAtom, count>>
             PROVE  WalkOK'
  OBVIOUS
<1>1. /\ (DOMAIN beliefsByAtom \subseteq Edges)' /\ IsFiniteSet(DOMAIN beliefsByAtom)'
      /\ (\A a \in DOMAIN beliefsByAtom : \A pol \in Polarity : Timed(beliefsByAtom[a][pol]))'
  BY DEF WalkOK, Edges, Timed, BeliefLess
<1>2. (count = Cardinality(Beliefs))'
  <2>1. Cardinality(Beliefs)' = Cardinality(Beliefs')
    BY DEF Cardinality
  <2> QED
    BY <2>1 DEF WalkOK
<1> QED
  BY <1>1, <1>2 DEF WalkOK

LEMMA WalkStep == WalkOK /\ [Next]_vars => WalkOK'
<1> SUFFICES ASSUME WalkOK, [Next]_vars PROVE WalkOK'
  OBVIOUS
<1>0. StoreOK
  BY DEF WalkOK
<1>1. ASSUME NEW r \in Resolved, SetResolution(r) PROVE WalkOK'
  <2>1. UNCHANGED <<beliefsByAtom, count>>
    BY <1>1 DEF SetResolution
  <2>2. StoreOK' /\ Beliefs' = Beliefs
    BY <1>0, <1>1, SetResolutionStores
  <2> QED
    BY <2>1, <2>2, SameWalk
<1>2. ASSUME NEW b \in Belief, b.pol \in Polarity, IngestNoLog(b) PROVE WalkOK'
  <2>1. Add(b)
    BY <1>2 DEF IngestNoLog
  <2> QED
    BY <1>2, <2>1, AddWalks
<1>3. CASE UNCHANGED <<store, memGraph, semantic>>
  <2>1. StoreOK' /\ Beliefs' = Beliefs /\ UNCHANGED <<beliefsByAtom, count>>
    BY <1>0, <1>3, NothingStored
  <2> QED
    BY <2>1, SameWalk
<1> HIDE DEF IngestNoLog, SetResolution
<1> QED
  BY <1>1, <1>2, <1>3, StepKinds

\* The order the walk promises, on the beliefs there are.
WalkLess(b, c) ==
  \/ AtomLess(b.atom, c.atom)
  \/ b.atom = c.atom /\ b.pol = "-" /\ c.pol = "+"
  \/ b.atom = c.atom /\ b.pol = c.pol /\ BeliefLess(b, c)

ByWalk == OrderOn(Beliefs, WalkLess)

Of(a) == {b \in Beliefs : b.atom = a}
OfPolarity(a, pol) == {b \in Of(a) : b.pol = pol}

LEMMA BeliefAtoms ==
  ASSUME WalkOK
  PROVE  /\ Beliefs \in SUBSET Belief
         /\ \A b \in Beliefs : b.atom \in DOMAIN beliefsByAtom /\ b.pol \in Polarity
         /\ \A b, c \in Beliefs : <<b, c>> \in ByWalk <=> WalkLess(b, c)
         /\ \A a \in DOMAIN beliefsByAtom : a.from \in Int /\ a.pred \in Int /\ a.to \in Int
<1>1. Beliefs = Stored /\ StoreOK /\ ListsOK
  BY BeliefsAre DEF WalkOK, StoreOK
<1>2. ASSUME NEW b \in Beliefs
      PROVE  b \in Belief /\ b.atom \in DOMAIN beliefsByAtom /\ b.pol \in Polarity
  <2>1. PICK a \in DOMAIN beliefsByAtom, pol \in Polarity : b \in Range(beliefsByAtom[a][pol])
    BY <1>1 DEF Stored
  <2>2. b.atom = a /\ b.pol = pol
    BY <1>1, <2>1 DEF StoreOK
  <2>3. beliefsByAtom[a][pol] \in Seq(Belief)
    BY <1>1, <2>1 DEF ListsOK
  <2>4. b \in Belief
    BY <2>1, <2>3 DEF Range
  <2> QED
    BY <2>1, <2>2, <2>4
<1>3. \A a \in DOMAIN beliefsByAtom : a.from \in Int /\ a.pred \in Int /\ a.to \in Int
  <2>1. Name \subseteq Int
    BY NamesAssumption DEF Name, Empty
  <2> QED
    BY <2>1 DEF WalkOK, Edges
<1> QED
  BY <1>2, <1>3 DEF ByWalk, OrderOn

\* The beliefs of an atom and a polarity, and those of an atom.
LEMMA ListWalks ==
  ASSUME WalkOK, NEW a \in DOMAIN beliefsByAtom, NEW pol \in Polarity
  PROVE  Lists(beliefsByAtom[a][pol], ByWalk, OfPolarity(a, pol))
<1> DEFINE s == beliefsByAtom[a][pol]
           S == OfPolarity(a, pol)
<1>1. s \in Seq(Belief) /\ \A b \in Range(s) : b.atom = a /\ b.pol = pol
  BY DEF WalkOK, StoreOK, ListsOK
<1>2. Beliefs = Stored
  BY BeliefsAre DEF WalkOK, StoreOK
<1>3. Range(s) \subseteq S
  BY <1>1, <1>2 DEF Stored, Of, OfPolarity
<1>4. S \subseteq Range(s)
  <2> SUFFICES ASSUME NEW b \in S PROVE b \in Range(s)
    OBVIOUS
  <2>1. b \in Stored /\ b.atom = a /\ b.pol = pol
    BY <1>2 DEF Of, OfPolarity
  <2>2. PICK c \in DOMAIN beliefsByAtom, p \in Polarity : b \in Range(beliefsByAtom[c][p])
    BY <2>1 DEF Stored
  <2>3. c = a /\ p = pol
    BY <2>1, <2>2 DEF WalkOK, StoreOK
  <2> QED
    BY <2>2, <2>3
<1>5. ASSUME NEW i \in DOMAIN s, NEW j \in DOMAIN s, i < j PROVE <<s[i], s[j]>> \in ByWalk
  <2>1. BeliefLess(s[i], s[j])
    BY <1>5 DEF WalkOK, Timed
  <2>2. s[i] \in Range(s) /\ s[j] \in Range(s)
    BY <1>1 DEF Range
  <2>3. WalkLess(s[i], s[j])
    BY <1>1, <2>1, <2>2 DEF WalkLess
  <2>4. s[i] \in Beliefs /\ s[j] \in Beliefs
    BY <1>3, <2>2 DEF Of, OfPolarity
  <2> QED
    BY <2>3, <2>4, BeliefAtoms
<1>6. s \in Seq(S)
  <2>1. \A i \in DOMAIN s : s[i] \in S
    BY <1>3 DEF Range
  <2> HIDE DEF s, S
  <2>2. s = [i \in 1 .. Len(s) |-> s[i]] /\ Len(s) \in Nat /\ DOMAIN s = 1 .. Len(s)
    BY <1>1
  <2> QED
    BY <2>1, <2>2
<1> HIDE DEF s, S
<1>7. Lists(s, ByWalk, S)
  BY <1>3, <1>4, <1>5, <1>6 DEF Lists
<1> QED
  BY <1>7 DEF s, S

LEMMA SnapshotWalks ==
  ASSUME WalkOK, NEW a \in DOMAIN beliefsByAtom
  PROVE  Lists(Snapshot(a), ByWalk, Of(a))
<1>1. /\ Lists(beliefsByAtom[a]["-"], ByWalk, OfPolarity(a, "-"))
      /\ Lists(beliefsByAtom[a]["+"], ByWalk, OfPolarity(a, "+"))
  BY ListWalks DEF Polarity
<1>2. Snapshot(a) = beliefsByAtom[a]["-"] \o beliefsByAtom[a]["+"]
  BY DEF Snapshot, ByPolarity
<1>3. \A b \in OfPolarity(a, "-"), c \in OfPolarity(a, "+") : <<b, c>> \in ByWalk
  <2> TAKE b \in OfPolarity(a, "-"), c \in OfPolarity(a, "+")
  <2>1. b \in Beliefs /\ c \in Beliefs /\ WalkLess(b, c)
    BY DEF OfPolarity, Of, WalkLess
  <2> QED
    BY <2>1, BeliefAtoms
<1>4. Of(a) = OfPolarity(a, "-") \cup OfPolarity(a, "+")
  BY BeliefAtoms DEF Of, OfPolarity, Polarity
<1> QED
  BY <1>1, <1>2, <1>3, <1>4, EndToEnd

\* A function on the numbers up to l is a list.
LEMMA SeqIs ==
  ASSUME NEW T, NEW l \in Nat, NEW s \in [1 .. l -> T]
  PROVE  s \in Seq(T) /\ Len(s) = l
OBVIOUS

LEMMA WalkLists == ASSUME WalkOK PROVE Lists(Walk, ByWalk, Beliefs)
<1> DEFINE A == DOMAIN beliefsByAtom
           R == OrderOn(A, AtomLess)
           as == Atoms
           seqs == [i \in DOMAIN as |-> Snapshot(as[i])]
           S == [i \in DOMAIN as |-> Of(as[i])]
<1>1. Orders(R, A) /\ IsFiniteSet(A)
  BY EdgeOrder DEF WalkOK
<1>2. as = RankedBy(R, A)
  BY DEF Atoms, SetSorted
<1>3. Lists(as, R, A)
  BY <1>1, <1>2, SortedLists
<1> HIDE DEF as
<1>4. /\ Len(as) \in Nat /\ DOMAIN as = 1 .. Len(as)
      /\ \A i \in DOMAIN as : as[i] \in A
      /\ \A a \in A : \E i \in DOMAIN as : as[i] = a
      /\ \A i, j \in DOMAIN as : i < j => <<as[i], as[j]>> \in R
  BY <1>3, ListIs
<1>5. \A i, j \in DOMAIN as : i < j => AtomLess(as[i], as[j])
  BY <1>4 DEF OrderOn
<1>6. seqs \in Seq({Snapshot(as[i]) : i \in DOMAIN as}) /\ DOMAIN seqs = DOMAIN as
  <2>1. as \in Seq(A) /\ Len(as) \in Nat /\ DOMAIN as = 1 .. Len(as)
    BY <1>3, <1>4, ListIs
  <2>2. seqs \in [1 .. Len(as) -> {Snapshot(as[i]) : i \in DOMAIN as}]
    BY <2>1
  <2>3. DOMAIN seqs = DOMAIN as
    OBVIOUS
  <2> HIDE DEF seqs
  <2> QED
    BY <2>1, <2>2, <2>3, SeqIs
<1>7. \A i \in DOMAIN seqs : Lists(seqs[i], ByWalk, S[i])
  BY <1>4, <1>6, SnapshotWalks
<1>8. ASSUME NEW i \in DOMAIN seqs, NEW j \in DOMAIN seqs, i < j, NEW b \in S[i], NEW c \in S[j]
      PROVE  <<b, c>> \in ByWalk
  <2>1. b \in Beliefs /\ c \in Beliefs /\ b.atom = as[i] /\ c.atom = as[j]
    BY <1>8 DEF Of
  <2>2. WalkLess(b, c)
    BY <1>5, <1>8, <2>1 DEF WalkLess
  <2> QED
    BY <2>1, <2>2, BeliefAtoms
<1>9. UNION {S[i] : i \in DOMAIN seqs} = Beliefs
  <2>1. \A i \in DOMAIN seqs : S[i] \subseteq Beliefs
    BY <1>6 DEF Of
  <2>2. ASSUME NEW b \in Beliefs PROVE \E i \in DOMAIN seqs : b \in S[i]
    <3>1. PICK i \in DOMAIN as : as[i] = b.atom
      BY <1>4, BeliefAtoms
    <3> QED
      BY <1>6, <3>1 DEF Of
  <2> HIDE DEF S, seqs
  <2> QED
    BY <2>1, <2>2
<1>10. Walk = FlattenSeq(seqs)
  BY DEF Walk, as
<1> HIDE DEF S, seqs
<1>11. Lists(FlattenSeq(seqs), ByWalk, UNION {S[i] : i \in DOMAIN seqs})
  BY <1>6, <1>7, <1>8, FlatLists
<1> QED
  BY <1>9, <1>10, <1>11

LEMMA WalkOnce == WalkOK => WalkMeetsEachOnce
<1> SUFFICES ASSUME WalkOK PROVE WalkMeetsEachOnce
  OBVIOUS
<1> DEFINE walk == Walk
<1>1. Lists(walk, ByWalk, Beliefs)
  BY WalkLists
<1> HIDE DEF walk
<1>2. \A b \in Beliefs : <<b, b>> \notin ByWalk
  <2> TAKE b \in Beliefs
  <2>1. b.atom \in DOMAIN beliefsByAtom /\ b.time \in Int /\ b.src \in Int
    BY BeliefAtoms, BeliefFields
  <2>2. b.atom.from \in Int /\ b.atom.pred \in Int /\ b.atom.to \in Int
    BY <2>1, BeliefAtoms
  <2>3. ~WalkLess(b, b)
    BY <2>1, <2>2 DEF WalkLess, AtomLess, BeliefLess
  <2> QED
    BY <2>3, BeliefAtoms
<1>3. Len(walk) = count
  BY <1>1, <1>2, ListCounts DEF WalkOK
<1>4. ASSUME NEW i \in DOMAIN walk, NEW j \in DOMAIN walk, i < j PROVE WalkLess(walk[i], walk[j])
  <2>1. walk[i] \in Beliefs /\ walk[j] \in Beliefs /\ <<walk[i], walk[j]>> \in ByWalk
    BY <1>1, <1>4, ListIs
  <2> QED
    BY <2>1, BeliefAtoms
<1>5. WalkMeetsEachOnce <=>
        /\ Len(walk) = count
        /\ \A i, j \in DOMAIN walk : i < j => WalkLess(walk[i], walk[j])
  BY DEF WalkMeetsEachOnce, WalkLess, walk
<1> QED
  BY <1>3, <1>4, <1>5

(***************************************************************************)
(* pkg/belief/store.go: Atoms and Snapshot lead recompute and compaction to    *)
(* every belief once, as many as Count says, by atom, polarity, time and       *)
(* source, in whichever order the beliefs were added.                        *)
(***************************************************************************)
THEOREM WalksMeetEachOnce == Spec => []WalkMeetsEachOnce
<1>1. Init => WalkOK
  BY WalkStarts
<1>2. WalkOK /\ [Next]_vars => WalkOK'
  BY WalkStep
<1>3. WalkOK => WalkMeetsEachOnce
  BY WalkOnce
<1> QED
  BY <1>1, <1>2, <1>3, PTL DEF Spec
=============================================================================
