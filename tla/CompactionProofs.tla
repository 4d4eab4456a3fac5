-------------------------- MODULE CompactionProofs --------------------------
(***************************************************************************)
(* Compaction: the canonical order of rules tells any two apart; memory and    *)
(* log agree whatever was compacted and where to; a restart from a compacted    *)
(* file comes back to what was compacted; and the codecs decode what they      *)
(* encode.                                                                  *)
(***************************************************************************)
EXTENDS Compaction, EngineProofs

-----------------------------------------------------------------------------
(* The order of atoms, of patterns and of rules.                             *)

Fields == [from : Int, pred : Int, to : Int]

LEMMA AtomOrder ==
  /\ \A a \in Fields : ~AtomLess(a, a)
  /\ \A a, b \in Fields : a = b \/ AtomLess(a, b) \/ AtomLess(b, a)
  /\ \A a, b, c \in Fields : AtomLess(a, b) /\ AtomLess(b, c) => AtomLess(a, c)
<1>1. ASSUME NEW a \in Fields, NEW b \in Fields
      PROVE  ~AtomLess(a, a) /\ (a = b \/ AtomLess(a, b) \/ AtomLess(b, a))
  <2>1. a.from \in Int /\ a.pred \in Int /\ a.to \in Int
        /\ b.from \in Int /\ b.pred \in Int /\ b.to \in Int
    BY DEF Fields
  <2>2. a.from = b.from /\ a.pred = b.pred /\ a.to = b.to => a = b
    BY DEF Fields
  <2> QED
    BY <2>1, <2>2 DEF AtomLess
<1>2. ASSUME NEW a \in Fields, NEW b \in Fields, NEW c \in Fields, AtomLess(a, b), AtomLess(b, c)
      PROVE  AtomLess(a, c)
  <2>1. a.from \in Int /\ a.pred \in Int /\ a.to \in Int
        /\ b.from \in Int /\ b.pred \in Int /\ b.to \in Int
        /\ c.from \in Int /\ c.pred \in Int /\ c.to \in Int
    BY DEF Fields
  <2> QED
    BY <1>2, <2>1 DEF AtomLess
<1> QED
  BY <1>1, <1>2

\* One list of patterns is before another.
ListLess(p, q) ==
  \/ \E k \in DOMAIN p \cap DOMAIN q :
       AtomLess(p[k], q[k]) /\ \A j \in 1 .. k - 1 : p[j] = q[j]
  \/ IsStrictPrefix(p, q)

LEMMA PrefixIs ==
  ASSUME NEW p \in Seq(Fields), NEW q \in Seq(Fields)
  PROVE  IsStrictPrefix(p, q) <=> Len(p) < Len(q) /\ \A i \in DOMAIN p : p[i] = q[i]
<1>1. DOMAIN p = 1 .. Len(p) /\ DOMAIN q = 1 .. Len(q) /\ Len(p) \in Nat /\ Len(q) \in Nat
  OBVIOUS
<1>2. SubSeq(p, 1, Len(p)) = p
  OBVIOUS
<1>3. ASSUME Len(p) <= Len(q)
      PROVE  SubSeq(q, 1, Len(p)) = [i \in 1 .. Len(p) |-> q[i]]
  BY <1>3
<1>4. p = [i \in 1 .. Len(p) |-> p[i]]
  OBVIOUS
<1>5. IsPrefix(p, q) <=> Len(p) <= Len(q) /\ \A i \in DOMAIN p : p[i] = q[i]
  <2>1. ASSUME Len(p) <= Len(q)
        PROVE  (p = [i \in 1 .. Len(p) |-> q[i]]) <=> \A i \in DOMAIN p : p[i] = q[i]
    BY <1>1, <1>4
  <2> QED
    BY <1>2, <1>3, <2>1 DEF IsPrefix
<1>6. Len(p) = Len(q) /\ (\A i \in DOMAIN p : p[i] = q[i]) => p = q
  OBVIOUS
<1>7. p = q => Len(p) = Len(q)
  OBVIOUS
<1> DEFINE same == \A i \in DOMAIN p : p[i] = q[i]
           m == Len(p)
           n == Len(q)
<1>8. IsStrictPrefix(p, q) <=> (m <= n /\ same) /\ p # q
  BY <1>5 DEF IsStrictPrefix
<1>9. m \in Nat /\ n \in Nat /\ (m = n /\ same => p = q) /\ (p = q => m = n)
  BY <1>1, <1>6, <1>7
<1> HIDE DEF same, m, n
<1>10. IsStrictPrefix(p, q) <=> m < n /\ same
  BY <1>8, <1>9
<1> QED
  BY <1>10 DEF same, m, n

LEMMA ListTotal ==
  ASSUME NEW p \in Seq(Fields), NEW q \in Seq(Fields)
  PROVE  p = q \/ ListLess(p, q) \/ ListLess(q, p)
<1>1. DOMAIN p = 1 .. Len(p) /\ DOMAIN q = 1 .. Len(q) /\ Len(p) \in Nat /\ Len(q) \in Nat
  OBVIOUS
<1> DEFINE apart == {k \in DOMAIN p \cap DOMAIN q : p[k] # q[k]}
<1>2. CASE apart = {}
  <2>1. \A i \in DOMAIN p \cap DOMAIN q : p[i] = q[i]
    BY <1>2
  <2>2. CASE Len(p) = Len(q)
    <3>1. \A i \in 1 .. Len(p) : p[i] = q[i]
      BY <1>1, <2>1, <2>2
    <3> QED
      BY <2>2, <3>1
  <2>3. CASE Len(p) < Len(q)
    <3>1. \A i \in DOMAIN p : p[i] = q[i]
      BY <1>1, <2>1, <2>3
    <3> QED
      BY <2>3, <3>1, PrefixIs DEF ListLess
  <2>4. CASE Len(q) < Len(p)
    <3>1. \A i \in DOMAIN q : q[i] = p[i]
      BY <1>1, <2>1, <2>4
    <3> QED
      BY <2>4, <3>1, PrefixIs DEF ListLess
  <2>5. Len(p) = Len(q) \/ Len(p) < Len(q) \/ Len(q) < Len(p)
    <3> DEFINE m == Len(p)
               n == Len(q)
    <3>1. m \in Nat /\ n \in Nat
      BY <1>1
    <3> HIDE DEF m, n
    <3>2. m = n \/ m < n \/ n < m
      BY <3>1
    <3> QED
      BY <3>2 DEF m, n
  <2> QED
    BY <2>2, <2>3, <2>4, <2>5, Zenon
<1>3. CASE apart # {}
  <2>1. apart \in SUBSET Nat
    BY <1>1
  <2>2. PICK k \in apart : \A i \in apart : k <= i
    BY <1>3, <2>1, LeastNumber
  <2>3. k \in DOMAIN p \cap DOMAIN q /\ p[k] # q[k] /\ p[k] \in Fields /\ q[k] \in Fields
    OBVIOUS
  <2>4. \A j \in 1 .. k - 1 : p[j] = q[j]
    <3> TAKE j \in 1 .. k - 1
    <3>1. j \in DOMAIN p \cap DOMAIN q /\ ~(k <= j)
      BY <1>1, <2>3
    <3> QED
      BY <2>2, <3>1
  <2>5. AtomLess(p[k], q[k]) \/ AtomLess(q[k], p[k])
    BY <2>3, AtomOrder
  <2> QED
    BY <2>3, <2>4, <2>5 DEF ListLess
<1> QED
  BY <1>2, <1>3

LEMMA ListTransitive ==
  ASSUME NEW p \in Seq(Fields), NEW q \in Seq(Fields), NEW r \in Seq(Fields),
         ListLess(p, q), ListLess(q, r)
  PROVE  ListLess(p, r)
<1>1. /\ DOMAIN p = 1 .. Len(p) /\ DOMAIN q = 1 .. Len(q) /\ DOMAIN r = 1 .. Len(r)
      /\ Len(p) \in Nat /\ Len(q) \in Nat /\ Len(r) \in Nat
  OBVIOUS
<1> DEFINE first(s, t, k) == /\ k \in DOMAIN s \cap DOMAIN t
                             /\ AtomLess(s[k], t[k]) /\ \A j \in 1 .. k - 1 : s[j] = t[j]
           starts(s, t) == Len(s) < Len(t) /\ \A i \in DOMAIN s : s[i] = t[i]
<1>2. (\E k : first(p, q, k)) \/ starts(p, q)
  BY PrefixIs DEF ListLess
<1>3. (\E k : first(q, r, k)) \/ starts(q, r)
  BY PrefixIs DEF ListLess
<1>4. ASSUME (\E k : first(p, r, k)) \/ starts(p, r) PROVE ListLess(p, r)
  BY <1>4, PrefixIs DEF ListLess
<1>5. ASSUME NEW k, first(p, q, k), NEW l, first(q, r, l) PROVE \E m : first(p, r, m)
  <2>1. /\ k \in DOMAIN p /\ k \in DOMAIN q /\ l \in DOMAIN q /\ l \in DOMAIN r
        /\ k \in Int /\ l \in Int
    BY <1>1, <1>5
  <2>2. CASE k < l
    <3>1. q[k] = r[k] /\ k \in DOMAIN r
      BY <1>1, <1>5, <2>1, <2>2
    <3>2. \A j \in 1 .. k - 1 : p[j] = r[j]
      BY <1>5, <2>1, <2>2
    <3> QED
      BY <1>5, <2>1, <3>1, <3>2
  <2>3. CASE l < k
    <3>1. p[l] = q[l] /\ l \in DOMAIN p
      BY <1>1, <1>5, <2>1, <2>3
    <3>2. \A j \in 1 .. l - 1 : p[j] = r[j]
      BY <1>5, <2>1, <2>3
    <3> QED
      BY <1>5, <2>1, <3>1, <3>2
  <2>4. CASE k = l
    <3>1. p[k] \in Fields /\ q[k] \in Fields /\ r[k] \in Fields
      BY <2>1, <2>4
    <3>2. AtomLess(p[k], r[k])
      BY <1>5, <2>4, <3>1, AtomOrder
    <3>3. \A j \in 1 .. k - 1 : p[j] = r[j]
      BY <1>5, <2>4
    <3> QED
      BY <2>1, <2>4, <3>2, <3>3
  <2> QED
    BY <2>1, <2>2, <2>3, <2>4
<1>6. ASSUME NEW k, first(p, q, k), starts(q, r) PROVE first(p, r, k)
  BY <1>1, <1>6
<1>7. ASSUME starts(p, q), NEW l, first(q, r, l) PROVE first(p, r, l) \/ starts(p, r)
  <2>1. l \in Nat /\ l \in DOMAIN r
    BY <1>1, <1>7
  <2>2. CASE l <= Len(p)
    BY <1>1, <1>7, <2>1, <2>2
  <2>3. CASE Len(p) < l
    BY <1>1, <1>7, <2>1, <2>3
  <2> QED
    BY <1>1, <2>1, <2>2, <2>3
<1>8. ASSUME starts(p, q), starts(q, r) PROVE starts(p, r)
  BY <1>1, <1>8
<1> HIDE DEF first, starts
<1> QED
  BY <1>2, <1>3, <1>4, <1>5, <1>6, <1>7, <1>8

LEMMA ListIrreflexive == \A p \in Seq(Fields) : ~ListLess(p, p)
<1> TAKE p \in Seq(Fields)
<1>1. \A k \in DOMAIN p : p[k] \in Fields
  OBVIOUS
<1> QED
  BY <1>1, AtomOrder DEF ListLess, IsStrictPrefix

LEMMA TermsAreNumbers == AtomPattern \subseteq Fields /\ Atom \subseteq Fields
<1>1. Term \subseteq Int /\ Token \subseteq Int
  BY NamesAssumption DEF Term, Empty
<1> QED
  BY <1>1 DEF AtomPattern, Atom, Fields

LEMMA RuleFields ==
  ASSUME NEW r \in Rule
  PROVE  r.name \in Int /\ r.if \in Seq(Fields) /\ r.then \in Fields
<1>1. r.name \in Token /\ r.if \in Seq(AtomPattern) /\ r.then \in AtomPattern
  BY DEF Rule
<1>2. r.if \in [1 .. Len(r.if) -> Fields] /\ Len(r.if) \in Nat
  BY <1>1, TermsAreNumbers
<1>3. r.if \in Seq(Fields)
  BY <1>2
<1>4. r.name \in Int
  <2>1. Token \subseteq Int
    BY NamesAssumption
  <2> QED
    BY <1>1, <2>1
<1>5. r.then \in Fields
  BY <1>1, TermsAreNumbers
<1> QED
  BY <1>3, <1>4, <1>5

LEMMA RuleLessIs ==
  ASSUME NEW r, NEW s
  PROVE  RuleLess(r, s) <=>
           \/ r.name < s.name
           \/ r.name = s.name /\ (ListLess(r.if, s.if) \/ (r.if = s.if /\ AtomLess(r.then, s.then)))
BY DEF RuleLess, ListLess

(***************************************************************************)
(* Of two rules one comes first: rules by the same name by their premises,    *)
(* and those by their conclusions.                                          *)
(***************************************************************************)
LEMMA RulesOrdered ==
  ASSUME NEW S \in SUBSET Rule
  PROVE  Orders(OrderOn(S, RuleLess), S)
<1>1. \A r, s \in S : <<r, s>> \in OrderOn(S, RuleLess) <=> RuleLess(r, s)
  BY DEF OrderOn
<1>2. ASSUME NEW r \in Rule PROVE ~RuleLess(r, r)
  BY RuleFields, RuleLessIs, AtomOrder, ListIrreflexive
<1>3. ASSUME NEW r \in Rule, NEW s \in Rule PROVE r = s \/ RuleLess(r, s) \/ RuleLess(s, r)
  <2>1. /\ r.name \in Int /\ r.if \in Seq(Fields) /\ r.then \in Fields
        /\ s.name \in Int /\ s.if \in Seq(Fields) /\ s.then \in Fields
    BY RuleFields
  <2>2. r.if = s.if \/ ListLess(r.if, s.if) \/ ListLess(s.if, r.if)
    BY <2>1, ListTotal
  <2>3. r.then = s.then \/ AtomLess(r.then, s.then) \/ AtomLess(s.then, r.then)
    BY <2>1, AtomOrder
  <2>4. r.name = s.name /\ r.if = s.if /\ r.then = s.then => r = s
    BY DEF Rule
  <2>5. r.name = s.name \/ r.name < s.name \/ s.name < r.name
    BY <2>1
  <2> QED
    BY <2>2, <2>3, <2>4, <2>5, RuleLessIs
<1>4. ASSUME NEW r \in Rule, NEW s \in Rule, NEW t \in Rule, RuleLess(r, s), RuleLess(s, t)
      PROVE  RuleLess(r, t)
  <2>1. /\ r.name \in Int /\ r.if \in Seq(Fields) /\ r.then \in Fields
        /\ s.name \in Int /\ s.if \in Seq(Fields) /\ s.then \in Fields
        /\ t.name \in Int /\ t.if \in Seq(Fields) /\ t.then \in Fields
    BY RuleFields
  <2>2. r.name <= s.name /\ s.name <= t.name
    BY <1>4, <2>1, RuleLessIs
  <2>3. CASE r.name = s.name /\ s.name = t.name
    <3>1. ~(r.name < s.name) /\ ~(s.name < t.name)
      BY <2>1, <2>3
    <3>2. /\ ListLess(r.if, s.if) \/ (r.if = s.if /\ AtomLess(r.then, s.then))
          /\ ListLess(s.if, t.if) \/ (s.if = t.if /\ AtomLess(s.then, t.then))
      BY <1>4, <3>1, RuleLessIs
    <3>3. ListLess(r.if, s.if) /\ ListLess(s.if, t.if) => ListLess(r.if, t.if)
      BY <2>1, ListTransitive
    <3>4. AtomLess(r.then, s.then) /\ AtomLess(s.then, t.then) => AtomLess(r.then, t.then)
      BY <2>1, AtomOrder
    <3> QED
      BY <2>3, <3>2, <3>3, <3>4, RuleLessIs
  <2>4. CASE r.name < t.name
    BY <2>4, RuleLessIs
  <2> QED
    BY <2>1, <2>2, <2>3, <2>4
<1> QED
  BY <1>1, <1>2, <1>3, <1>4 DEF Orders

-----------------------------------------------------------------------------
(* What a compacted file holds.                                             *)

FileOf(f, r, s) == Records("fact", f) \o Records("resolution", r) \o Records("rule", s)

IsRecord(rec, type, data) == rec.type = type /\ rec.data = data

LEMMA RecordsIs ==
  ASSUME NEW T, NEW s \in Seq(T), NEW type,
         \A x \in T : [type |-> type, data |-> x] \in AnyRecord
  PROVE  /\ Records(type, s) \in Seq(AnyRecord) /\ Len(Records(type, s)) = Len(s)
         /\ \A i \in 1 .. Len(s) : IsRecord(Records(type, s)[i], type, s[i])
<1>1. DOMAIN s = 1 .. Len(s) /\ Len(s) \in Nat /\ \A i \in 1 .. Len(s) : s[i] \in T
  OBVIOUS
<1>2. Records(type, s) \in [1 .. Len(s) -> AnyRecord]
  BY <1>1 DEF Records
<1>3. ASSUME NEW i \in 1 .. Len(s) PROVE IsRecord(Records(type, s)[i], type, s[i])
  <2>1. Records(type, s)[i] = [type |-> type, data |-> s[i]]
    BY <1>1 DEF Records
  <2> QED
    BY <2>1 DEF IsRecord
<1> QED
  BY <1>1, <1>2, <1>3

LEMMA JoinedIs ==
  ASSUME NEW T, NEW a \in Seq(T), NEW b \in Seq(T)
  PROVE  /\ a \o b \in Seq(T) /\ Len(a \o b) = Len(a) + Len(b)
         /\ \A i \in 1 .. Len(a) : (a \o b)[i] = a[i]
         /\ \A i \in 1 .. Len(b) : (a \o b)[Len(a) + i] = b[i]
OBVIOUS

LEMMA FileIs ==
  ASSUME NEW f \in Seq(Belief), NEW r \in Seq(Resolution), NEW s \in Seq(InputRules)
  PROVE  /\ FileOf(f, r, s) \in Seq(AnyRecord)
         /\ Len(FileOf(f, r, s)) = Len(f) + Len(r) + Len(s)
         /\ \A i \in 1 .. Len(f) : IsRecord(FileOf(f, r, s)[i], "fact", f[i])
         /\ \A i \in 1 .. Len(r) :
              IsRecord(FileOf(f, r, s)[Len(f) + i], "resolution", r[i])
         /\ \A i \in 1 .. Len(s) :
              IsRecord(FileOf(f, r, s)[Len(f) + Len(r) + i], "rule", s[i])
<1> DEFINE a == Records("fact", f)
           b == Records("resolution", r)
           c == Records("rule", s)
<1>1. /\ a \in Seq(AnyRecord) /\ Len(a) = Len(f)
      /\ \A i \in 1 .. Len(f) : IsRecord(a[i], "fact", f[i])
  <2>1. \A x \in Belief : [type |-> "fact", data |-> x] \in AnyRecord
    BY DEF AnyRecord
  <2> QED
    BY <2>1, RecordsIs
<1>2. /\ b \in Seq(AnyRecord) /\ Len(b) = Len(r)
      /\ \A i \in 1 .. Len(r) : IsRecord(b[i], "resolution", r[i])
  <2>1. \A x \in Resolution : [type |-> "resolution", data |-> x] \in AnyRecord
    BY DEF AnyRecord
  <2> QED
    BY <2>1, RecordsIs
<1>3. /\ c \in Seq(AnyRecord) /\ Len(c) = Len(s)
      /\ \A i \in 1 .. Len(s) : IsRecord(c[i], "rule", s[i])
  <2>1. \A x \in InputRules : [type |-> "rule", data |-> x] \in AnyRecord
    BY DEF AnyRecord
  <2> QED
    BY <2>1, RecordsIs
<1>4. Len(f) \in Nat /\ Len(r) \in Nat /\ Len(s) \in Nat
  OBVIOUS
<1> HIDE DEF a, b, c
<1> DEFINE ab == a \o b
<1>5. /\ ab \in Seq(AnyRecord) /\ Len(ab) = Len(f) + Len(r)
      /\ \A i \in 1 .. Len(f) : ab[i] = a[i]
      /\ \A i \in 1 .. Len(r) : ab[Len(f) + i] = b[i]
  <2>1. /\ ab \in Seq(AnyRecord) /\ Len(ab) = Len(a) + Len(b)
        /\ \A i \in 1 .. Len(a) : ab[i] = a[i]
        /\ \A i \in 1 .. Len(b) : ab[Len(a) + i] = b[i]
    <3>1. a \in Seq(AnyRecord) /\ b \in Seq(AnyRecord)
      BY <1>1, <1>2
    <3> QED
      BY <3>1, JoinedIs
  <2>2. Len(a) = Len(f) /\ Len(b) = Len(r)
    BY <1>1, <1>2
  <2> HIDE DEF ab
  <2> QED
    BY <2>1, <2>2
<1> HIDE DEF ab
<1> DEFINE all == ab \o c
<1>6. /\ all \in Seq(AnyRecord) /\ Len(all) = Len(f) + Len(r) + Len(s)
      /\ \A i \in 1 .. Len(f) + Len(r) : all[i] = ab[i]
      /\ \A i \in 1 .. Len(s) : all[Len(f) + Len(r) + i] = c[i]
  <2>1. /\ all \in Seq(AnyRecord) /\ Len(all) = Len(ab) + Len(c)
        /\ \A i \in 1 .. Len(ab) : all[i] = ab[i]
        /\ \A i \in 1 .. Len(c) : all[Len(ab) + i] = c[i]
    <3>1. ab \in Seq(AnyRecord) /\ c \in Seq(AnyRecord)
      BY <1>3, <1>5
    <3> QED
      BY <3>1, JoinedIs
  <2>2. Len(ab) = Len(f) + Len(r) /\ Len(c) = Len(s)
    BY <1>3, <1>5
  <2> HIDE DEF all
  <2> QED
    BY <2>1, <2>2
<1>7. /\ \A i \in 1 .. Len(f) : i \in 1 .. Len(f) + Len(r)
      /\ \A i \in 1 .. Len(r) : Len(f) + i \in 1 .. Len(f) + Len(r)
  BY <1>4
<1>8. all = FileOf(f, r, s)
  BY DEF all, ab, a, b, c, FileOf
<1> HIDE DEF all
<1> QED
  BY <1>1, <1>2, <1>3, <1>5, <1>6, <1>7, <1>8

\* Where the records of each kind are.
LEMMA FilePlaces ==
  ASSUME NEW f \in Seq(Belief), NEW r \in Seq(Resolution), NEW s \in Seq(InputRules)
  PROVE  /\ DOMAIN FileOf(f, r, s) = 1 .. Len(f) + Len(r) + Len(s)
         /\ \A i \in DOMAIN FileOf(f, r, s) :
              \/ i \in 1 .. Len(f) /\ IsRecord(FileOf(f, r, s)[i], "fact", f[i])
              \/ /\ i - Len(f) \in 1 .. Len(r) /\ ~(i <= Len(f))
                 /\ IsRecord(FileOf(f, r, s)[i], "resolution", r[i - Len(f)])
              \/ /\ i - Len(f) - Len(r) \in 1 .. Len(s) /\ ~(i <= Len(f) + Len(r))
                 /\ IsRecord(FileOf(f, r, s)[i], "rule", s[i - Len(f) - Len(r)])
<1> DEFINE l == FileOf(f, r, s)
           m == Len(f)
           n == Len(r)
           k == Len(s)
<1>1. /\ l \in Seq(AnyRecord) /\ Len(l) = m + n + k
      /\ \A i \in 1 .. m : IsRecord(l[i], "fact", f[i])
      /\ \A i \in 1 .. n : IsRecord(l[m + i], "resolution", r[i])
      /\ \A i \in 1 .. k : IsRecord(l[m + n + i], "rule", s[i])
  BY FileIs
<1>2. m \in Nat /\ n \in Nat /\ k \in Nat
  OBVIOUS
<1> HIDE DEF l, m, n, k
<1>3. DOMAIN l = 1 .. m + n + k
  BY <1>1
<1>4. ASSUME NEW i \in 1 .. m + n + k
      PROVE  \/ i \in 1 .. m
             \/ i - m \in 1 .. n /\ ~(i <= m) /\ i = m + (i - m)
             \/ i - m - n \in 1 .. k /\ ~(i <= m + n) /\ i = m + n + (i - m - n)
  BY <1>2
<1>5. ASSUME NEW i \in DOMAIN l
      PROVE  \/ i \in 1 .. m /\ IsRecord(l[i], "fact", f[i])
             \/ /\ i - m \in 1 .. n /\ ~(i <= m)
                /\ IsRecord(l[i], "resolution", r[i - m])
             \/ /\ i - m - n \in 1 .. k /\ ~(i <= m + n)
                /\ IsRecord(l[i], "rule", s[i - m - n])
  BY <1>1, <1>3, <1>4
<1> QED
  BY <1>3, <1>5 DEF l, m, n, k

LEMMA FactsRead ==
  ASSUME NEW f \in Seq(Belief), NEW r \in Seq(Resolution), NEW s \in Seq(InputRules)
  PROVE  DataIn(FileOf(f, r, s), "fact") = Range(f)
<1> DEFINE l == FileOf(f, r, s)
<1>1. Len(f) \in Nat /\ Len(r) \in Nat /\ Len(s) \in Nat /\ DOMAIN f = 1 .. Len(f)
  OBVIOUS
<1>2. /\ DOMAIN l = 1 .. Len(f) + Len(r) + Len(s)
      /\ \A i \in DOMAIN l : l[i].type = "fact" => i \in 1 .. Len(f)
  BY FilePlaces DEF IsRecord
<1>3. \A i \in 1 .. Len(f) : IsRecord(l[i], "fact", f[i])
  BY FileIs
<1> HIDE DEF l
<1>4. 1 .. Len(f) \subseteq DOMAIN l
  BY <1>1, <1>2
<1>5. DataIn(l, "fact") = Range(f)
  <2>1. {j \in DOMAIN l : l[j].type = "fact"} = 1 .. Len(f)
    BY <1>2, <1>3, <1>4 DEF IsRecord
  <2>2. DataIn(l, "fact") = {l[i].data : i \in 1 .. Len(f)}
    BY <2>1 DEF DataIn
  <2>3. \A i \in 1 .. Len(f) : l[i].data = f[i]
    BY <1>3 DEF IsRecord
  <2> QED
    BY <1>1, <2>2, <2>3 DEF Range
<1> QED
  BY <1>5 DEF l

LEMMA RulesRead ==
  ASSUME NEW f \in Seq(Belief), NEW r \in Seq(Resolution), NEW s \in Seq(InputRules)
  PROVE  RulesIn(FileOf(f, r, s)) = s
<1> DEFINE l == FileOf(f, r, s)
           m == Len(f) + Len(r)
           k == Len(s)
<1>1. m \in Nat /\ k \in Nat /\ s = [n \in 1 .. k |-> s[n]]
  OBVIOUS
<1>2. DOMAIN l = 1 .. m + k /\ \A i \in DOMAIN l : l[i].type = "rule" => ~(i <= m)
  <2>1. /\ DOMAIN l = 1 .. m + k
        /\ \A i \in DOMAIN l :
              \/ i \in 1 .. Len(f) /\ IsRecord(l[i], "fact", f[i])
              \/ IsRecord(l[i], "resolution", r[i - Len(f)])
              \/ /\ ~(i <= m)
                 /\ IsRecord(l[i], "rule", s[i - Len(f) - Len(r)])
    BY FilePlaces
  <2> HIDE DEF l, m, k
  <2> QED
    BY <2>1 DEF IsRecord
<1>3. \A i \in 1 .. k : IsRecord(l[m + i], "rule", s[i])
  BY FileIs
<1> HIDE DEF l, m, k
<1>4. RulesAt(l) = m + 1 .. m + k
  <2>1. ASSUME NEW i \in m + 1 .. m + k PROVE i \in DOMAIN l /\ l[i].type = "rule"
    <3>1. i - m \in 1 .. k /\ i = m + (i - m) /\ i \in 1 .. m + k
      BY <1>1
    <3>2. IsRecord(l[m + (i - m)], "rule", s[i - m])
      BY <1>3, <3>1
    <3>3. l[i].type = "rule"
      BY <3>1, <3>2 DEF IsRecord
    <3> QED
      BY <1>2, <3>1, <3>3
  <2>2. ASSUME NEW i \in DOMAIN l, l[i].type = "rule" PROVE i \in m + 1 .. m + k
    BY <1>1, <1>2, <2>2
  <2> QED
    BY <2>1, <2>2 DEF RulesAt
<1>5. RulesIn(l) = [n \in 1 .. k |-> l[m + n].data]
  <2>1. InOrder(RulesAt(l)) = [n \in 1 .. k |-> m + n]
    BY <1>1, <1>4, InOrderInterval
  <2> QED
    BY <2>1 DEF RulesIn
<1>6. RulesIn(l) = s
  <2>1. \A n \in 1 .. k : l[m + n].data = s[n]
    BY <1>3 DEF IsRecord
  <2> QED
    BY <1>1, <1>5, <2>1
<1> QED
  BY <1>6 DEF l

LEMMA ResolutionsRead ==
  ASSUME NEW f \in Seq(Belief), NEW r \in Seq(Resolution), NEW s \in Seq(InputRules),
         \A i, j \in DOMAIN r : i < j => r[i].atom # r[j].atom
  PROVE  ResolutionsIn(FileOf(f, r, s)) = Range(r)
<1> DEFINE l == FileOf(f, r, s)
           m == Len(f)
           n == Len(r)
           last(j) == /\ l[j].type = "resolution"
                      /\ \A k \in j + 1 .. Len(l) :
                           l[k].type = "resolution" => l[k].data.atom # l[j].data.atom
<1>1. m \in Nat /\ n \in Nat /\ Len(s) \in Nat /\ DOMAIN r = 1 .. n
  OBVIOUS
<1>2. /\ DOMAIN l = 1 .. m + n + Len(s) /\ Len(l) = m + n + Len(s)
      /\ \A i \in DOMAIN l : l[i].type = "resolution"
            => i - m \in 1 .. n /\ IsRecord(l[i], "resolution", r[i - m])
  <2>1. Len(l) = m + n + Len(s)
    BY FileIs
  <2> QED
    BY <2>1, FilePlaces DEF IsRecord
<1>3. \A i \in 1 .. n : IsRecord(l[m + i], "resolution", r[i])
  BY FileIs
<1> HIDE DEF l, m, n
<1>4. ASSUME NEW i \in 1 .. n PROVE m + i \in DOMAIN l /\ last(m + i)
  <2>1. m + i \in DOMAIN l
    BY <1>1, <1>2
  <2>2. ASSUME NEW k \in m + i + 1 .. Len(l), l[k].type = "resolution"
        PROVE  l[k].data.atom # l[m + i].data.atom
    <3>1. k \in DOMAIN l
      BY <1>1, <1>2
    <3>2. k - m \in 1 .. n /\ l[k].data = r[k - m]
      BY <1>2, <2>2, <3>1 DEF IsRecord
    <3>3. i < k - m
      BY <1>1, <1>2
    <3>4. r[i].atom # r[k - m].atom
      BY <1>1, <3>2, <3>3
    <3>5. l[m + i].data = r[i]
      BY <1>3 DEF IsRecord
    <3> QED
      BY <3>2, <3>4, <3>5
  <2>3. l[m + i].type = "resolution"
    BY <1>3 DEF IsRecord
  <2> QED
    BY <2>1, <2>2, <2>3
<1>5. ResolutionsIn(l) = {l[j].data : j \in {i \in DOMAIN l : last(i)}}
  BY DEF ResolutionsIn
<1>6. ASSUME NEW x \in ResolutionsIn(l) PROVE x \in Range(r)
  <2>1. PICK j \in DOMAIN l : last(j) /\ x = l[j].data
    BY <1>5
  <2> QED
    BY <1>1, <1>2, <2>1 DEF Range, IsRecord
<1>7. ASSUME NEW x \in Range(r) PROVE x \in ResolutionsIn(l)
  <2>1. PICK i \in 1 .. n : x = r[i]
    BY <1>1 DEF Range
  <2>2. x = l[m + i].data
    <3>1. IsRecord(l[m + i], "resolution", r[i])
      BY <1>3
    <3> QED
      BY <2>1, <3>1 DEF IsRecord
  <2> HIDE DEF last
  <2> QED
    BY <1>4, <1>5, <2>2
<1> QED
  BY <1>6, <1>7 DEF l

-----------------------------------------------------------------------------
(* What CompactToWAL writes.                                                *)

LEMMA BeliefsOrdered ==
  ASSUME NEW S \in SUBSET Belief
  PROVE  Orders(OrderOn(S, ByAtomThen), S)
<1>1. \A b, c \in S : <<b, c>> \in OrderOn(S, ByAtomThen) <=> ByAtomThen(b, c)
  BY DEF OrderOn
<1>2. ASSUME NEW b \in Belief
      PROVE  /\ b.atom \in Fields /\ b.pol \in {"+", "-"}
             /\ b.src.rule \in BOOLEAN /\ b.src.name \in Int
             /\ b = [atom |-> b.atom, pol |-> b.pol, src |-> [rule |-> b.src.rule, name |-> b.src.name]]
  <2>1. b.atom \in Fields
    BY TermsAreNumbers DEF Belief
  <2>2. Token \subseteq Int
    BY NamesAssumption
  <2> QED
    BY <2>1, <2>2 DEF Belief, Polarity, Source
<1>3. ASSUME NEW b \in Belief PROVE ~ByAtomThen(b, b)
  BY <1>2, AtomOrder DEF ByAtomThen, SourceLess
<1>4. ASSUME NEW b \in Belief, NEW c \in Belief PROVE b = c \/ ByAtomThen(b, c) \/ ByAtomThen(c, b)
  <2>1. b.atom = c.atom \/ AtomLess(b.atom, c.atom) \/ AtomLess(c.atom, b.atom)
    BY <1>2, AtomOrder
  <2>2. /\ b.pol = c.pol \/ (b.pol = "-" /\ c.pol = "+") \/ (c.pol = "-" /\ b.pol = "+")
        /\ \/ b.src.rule = c.src.rule /\ b.src.name = c.src.name
           \/ SourceLess(b.src, c.src) \/ SourceLess(c.src, b.src)
    BY <1>2 DEF SourceLess
  <2>3. b.atom = c.atom /\ b.pol = c.pol /\ b.src.rule = c.src.rule /\ b.src.name = c.src.name
          => b = c
    BY <1>2
  <2> QED
    BY <2>1, <2>2, <2>3 DEF ByAtomThen
<1>5. ASSUME NEW b \in Belief, NEW c \in Belief, NEW d \in Belief, ByAtomThen(b, c), ByAtomThen(c, d)
      PROVE  ByAtomThen(b, d)
  <2>1. /\ b.atom \in Fields /\ c.atom \in Fields /\ d.atom \in Fields
        /\ b.src.rule \in BOOLEAN /\ c.src.rule \in BOOLEAN /\ d.src.rule \in BOOLEAN
        /\ b.src.name \in Int /\ c.src.name \in Int /\ d.src.name \in Int
    BY <1>2
  <2>2. AtomLess(b.atom, c.atom) /\ AtomLess(c.atom, d.atom) => AtomLess(b.atom, d.atom)
    BY <2>1, AtomOrder
  <2>3. SourceLess(b.src, c.src) /\ SourceLess(c.src, d.src) => SourceLess(b.src, d.src)
    BY <2>1 DEF SourceLess
  <2>4. /\ AtomLess(b.atom, c.atom) \/ b.atom = c.atom
        /\ AtomLess(c.atom, d.atom) \/ c.atom = d.atom
    BY <1>5 DEF ByAtomThen
  <2>5. CASE b.atom = c.atom /\ c.atom = d.atom
    <3>1. ~AtomLess(b.atom, c.atom) /\ ~AtomLess(c.atom, d.atom)
      BY <2>1, <2>5, AtomOrder
    <3>2. /\ (b.pol = "-" /\ c.pol = "+") \/ (b.pol = c.pol /\ SourceLess(b.src, c.src))
          /\ (c.pol = "-" /\ d.pol = "+") \/ (c.pol = d.pol /\ SourceLess(c.src, d.src))
      BY <1>5, <3>1 DEF ByAtomThen
    <3> QED
      BY <2>3, <2>5, <3>2 DEF ByAtomThen
  <2>6. CASE AtomLess(b.atom, d.atom)
    BY <2>6 DEF ByAtomThen
  <2> QED
    BY <2>2, <2>4, <2>5, <2>6
<1> QED
  BY <1>1, <1>3, <1>4, <1>5 DEF Orders

OnePerAtom(res) == \A r, s \in res : r.atom = s.atom => r = s

ByAtom(r, s) == AtomLess(r.atom, s.atom)

LEMMA ResolutionsOrdered ==
  ASSUME NEW S \in SUBSET Resolution, OnePerAtom(S)
  PROVE  Orders(OrderOn(S, ByAtom), S)
<1>1. \A r, s \in S : <<r, s>> \in OrderOn(S, ByAtom) <=> AtomLess(r.atom, s.atom)
  BY DEF OrderOn, ByAtom
<1>2. \A r \in S : r.atom \in Fields
  BY TermsAreNumbers DEF Resolution
<1>3. \A r, s \in S : r.atom = s.atom => r = s
  BY DEF OnePerAtom
<1>4. \A r \in S : <<r, r>> \notin OrderOn(S, ByAtom)
  BY <1>1, <1>2, AtomOrder
<1>5. \A r, s \in S : r = s \/ <<r, s>> \in OrderOn(S, ByAtom) \/ <<s, r>> \in OrderOn(S, ByAtom)
  BY <1>1, <1>2, <1>3, AtomOrder
<1>6. \A r, s, t \in S : <<r, s>> \in OrderOn(S, ByAtom) /\ <<s, t>> \in OrderOn(S, ByAtom)
                           => <<r, t>> \in OrderOn(S, ByAtom)
  BY <1>1, <1>2, AtomOrder
<1> QED
  BY <1>4, <1>5, <1>6 DEF Orders

\* What is written of these beliefs, resolutions and rules.
CanonicalOf(bs, res, rs) ==
  FileOf(SetSorted(bs, ByAtomThen), SetSorted(res, ByAtom), Sorted(rs, RuleLess))

LEMMA CanonicalIsOf == Canonical = CanonicalOf(beliefs, resolutions, rules)
BY DEF Canonical, CanonicalBeliefs, CanonicalResolutions, RulesSnapshot, CanonicalOf, FileOf,
       SetSorted, OrderOn, ByAtom

LEMMA SortedRules ==
  ASSUME NEW rs \in Seq(InputRules)
  PROVE  /\ Sorted(rs, RuleLess) \in Seq(InputRules)
         /\ Reordered(Sorted(rs, RuleLess), rs)
         /\ Range(Sorted(rs, RuleLess)) = Range(rs)
         /\ Sorted(Sorted(rs, RuleLess), RuleLess) = Sorted(rs, RuleLess)
<1> DEFINE R == OrderOn(Range(rs), RuleLess)
           s == ListBy(R, rs)
<1>1. Range(rs) \subseteq Rule
  <2>1. \A i \in DOMAIN rs : rs[i] \in InputRules
    OBVIOUS
  <2> QED
    BY <2>1, InputAssumption DEF Range
<1>2. Orders(R, Range(rs))
  BY <1>1, RulesOrdered
<1>3. Sorted(rs, RuleLess) = s
  BY DEF Sorted, Range
<1> HIDE DEF R
<1>4. s \in Seq(InputRules) /\ Reordered(s, rs) /\ Ascends(R, s) /\ Range(s) = Range(rs)
  BY <1>2, SortedIs
<1> HIDE DEF s
<1>5. Sorted(s, RuleLess) = ListBy(R, s)
  <2>1. {s[i] : i \in DOMAIN s} = Range(rs)
    BY <1>4 DEF Range
  <2> QED
    BY <2>1 DEF Sorted, R
<1>6. ListBy(R, s) = s
  BY <1>2, <1>4, SortedStays
<1> QED
  BY <1>3, <1>4, <1>5, <1>6

LEMMA SameRulesSorted ==
  ASSUME NEW r \in Seq(InputRules), NEW s \in Seq(InputRules), Reordered(r, s)
  PROVE  Sorted(r, RuleLess) = Sorted(s, RuleLess)
<1> DEFINE R == OrderOn(Range(s), RuleLess)
<1>1. Range(s) \subseteq Rule
  <2>1. \A i \in DOMAIN s : s[i] \in InputRules
    OBVIOUS
  <2> QED
    BY <2>1, InputAssumption DEF Range
<1>2. Orders(R, Range(s)) /\ Range(r) = Range(s)
  BY <1>1, RulesOrdered, ReorderedRange
<1>3. Sorted(r, RuleLess) = ListBy(R, r) /\ Sorted(s, RuleLess) = ListBy(R, s)
  BY <1>2 DEF Sorted, Range
<1> HIDE DEF R
<1>4. ListBy(R, r) = ListBy(R, s)
  BY <1>2, SortedAlike
<1> QED
  BY <1>3, <1>4

LEMMA SortedSet ==
  ASSUME NEW S, IsFiniteSet(S), NEW R, Orders(R, S)
  PROVE  /\ RankedBy(R, S) \in Seq(S) /\ Range(RankedBy(R, S)) = S
         /\ \A m, n \in DOMAIN RankedBy(R, S) : m < n => RankedBy(R, S)[m] # RankedBy(R, S)[n]
<1> DEFINE s == RankedBy(R, S)
<1>1. /\ s \in Seq(S) /\ DOMAIN s = 1 .. Cardinality(S)
      /\ \A m, n \in 1 .. Cardinality(S) : m < n => <<s[m], s[n]>> \in R
      /\ \A x \in S : \E n \in 1 .. Cardinality(S) : s[n] = x
  BY RankedIs
<1> HIDE DEF s
<1>2. \A n \in DOMAIN s : s[n] \in S
  <2>1. s \in Seq(S)
    BY <1>1
  <2> QED
    BY <2>1
<1>3. Range(s) = S
  BY <1>1, <1>2 DEF Range
<1>4. \A m, n \in DOMAIN s : m < n => s[m] # s[n]
  BY <1>1, <1>2 DEF Orders
<1> QED
  BY <1>1, <1>3, <1>4 DEF s

(***************************************************************************)
(* Read again, the file holds what was compacted, the rules sorted.          *)
(***************************************************************************)
LEMMA CanonicalHolds ==
  ASSUME NEW bs \in SUBSET Belief, IsFiniteSet(bs),
         NEW res \in SUBSET Resolution, IsFiniteSet(res), OnePerAtom(res),
         NEW rs \in Seq(InputRules)
  PROVE  /\ CanonicalOf(bs, res, rs) \in Seq(AnyRecord)
         /\ DataIn(CanonicalOf(bs, res, rs), "fact") = bs
         /\ ResolutionsIn(CanonicalOf(bs, res, rs)) = res
         /\ RulesIn(CanonicalOf(bs, res, rs)) = Sorted(rs, RuleLess)
<1> DEFINE f == SetSorted(bs, ByAtomThen)
           r == SetSorted(res, ByAtom)
           s == Sorted(rs, RuleLess)
<1>1. f \in Seq(bs) /\ Range(f) = bs
  <2>1. Orders(OrderOn(bs, ByAtomThen), bs)
    BY BeliefsOrdered
  <2>2. f = RankedBy(OrderOn(bs, ByAtomThen), bs)
    BY DEF SetSorted
  <2> HIDE DEF f
  <2> QED
    BY <2>1, <2>2, SortedSet
<1>2. /\ r \in Seq(res) /\ Range(r) = res
      /\ \A m, n \in DOMAIN r : m < n => r[m] # r[n]
  <2>1. Orders(OrderOn(res, ByAtom), res)
    BY ResolutionsOrdered
  <2>2. r = RankedBy(OrderOn(res, ByAtom), res)
    BY DEF SetSorted
  <2> HIDE DEF r
  <2> QED
    BY <2>1, <2>2, SortedSet
<1>3. s \in Seq(InputRules)
  BY SortedRules
<1>4. CanonicalOf(bs, res, rs) = FileOf(f, r, s)
  BY DEF CanonicalOf
<1> HIDE DEF f, r, s
<1>5. f \in Seq(Belief) /\ r \in Seq(Resolution)
  BY <1>1, <1>2
<1>6. \A i, j \in DOMAIN r : i < j => r[i].atom # r[j].atom
  <2>1. \A i \in DOMAIN r : r[i] \in res
    BY <1>2
  <2> QED
    BY <1>2, <2>1 DEF OnePerAtom
<1>7. FileOf(f, r, s) \in Seq(AnyRecord)
  BY <1>3, <1>5, FileIs
<1>8. DataIn(FileOf(f, r, s), "fact") = bs
  BY <1>1, <1>3, <1>5, FactsRead
<1>9. ResolutionsIn(FileOf(f, r, s)) = res
  BY <1>2, <1>3, <1>5, <1>6, ResolutionsRead
<1>10. RulesIn(FileOf(f, r, s)) = s
  BY <1>3, <1>5, RulesRead
<1> QED
  BY <1>4, <1>7, <1>8, <1>9, <1>10 DEF s

-----------------------------------------------------------------------------
(* The steps, and the types.                                                *)

Finite == IsFiniteSet(beliefs) /\ IsFiniteSet(resolutions)

LEMMA SetResolutionFinite ==
  ASSUME NEW res, IsFiniteSet(res), NEW r
  PROVE  IsFiniteSet(SetResolution(res, r))
<1>1. IsFiniteSet({s \in res : s.atom # r.atom})
  BY FS_Subset
<1> QED
  BY <1>1, FS_AddElement DEF SetResolution

LEMMA ResolutionsMove ==
  ASSUME [Next]_vars
  PROVE  \/ resolutions' = resolutions \/ resolutions' = {}
         \/ \E r : resolutions' = SetResolution(resolutions, r)
<1>1. ASSUME Call PROVE resolutions' = resolutions \/ resolutions' = {}
                        \/ \E r : resolutions' = SetResolution(resolutions, r)
  BY <1>1 DEF Call, Ingest, IngestUnlogged, BulkLine, Resolve, Recompute, ResolveUnlogged,
              AddRule, AddRuleUnlogged, ReplayFromLog, StartReplay, ClearStores
<1>2. ASSUME BulkEnd \/ ApplyRules PROVE resolutions' = resolutions
  BY <1>2 DEF BulkEnd, ApplyRules, StartRound, EvaluateNextRule, RuleDone, RoundDone, Derive, memory
<1>3. ASSUME Replay PROVE resolutions' = resolutions
                          \/ \E r : resolutions' = SetResolution(resolutions, r)
  BY <1>3 DEF Replay, ReplayRecord, ReplayFails, ReplayDone, Recompute, memory
<1>4. ASSUME Restart PROVE resolutions' = {}
  BY <1>4 DEF Restart, StartReplay, ClearStores
<1>5. ASSUME UNCHANGED vars PROVE resolutions' = resolutions
  BY <1>5 DEF vars, memory
<1> QED
  BY <1>1, <1>2, <1>3, <1>4, <1>5 DEF Next

LEMMA FiniteStep == StateOK /\ Finite /\ [Next]_vars => Finite'
<1> SUFFICES ASSUME StateOK, Finite, [Next]_vars PROVE Finite'
  OBVIOUS
<1>1. IsFiniteSet(resolutions')
  BY ResolutionsMove, SetResolutionFinite, FS_EmptySet DEF Finite
<1>2. IsFiniteSet(beliefs')
  <2>1. \A b : IsFiniteSet(beliefs \cup {b})
    BY FS_AddElement DEF Finite
  <2>2. IsFiniteSet(Base(beliefs))
    <3>1. Base(beliefs) \subseteq beliefs
      BY DEF Base
    <3> QED
      BY <3>1, FS_Subset DEF Finite
  <2>3. ASSUME NEW d \in todo, Derive(d) PROVE IsFiniteSet(beliefs')
    BY <2>1, <2>3 DEF Derive, IngestNoLog, Finite
  <2>4. ASSUME NEW b \in Belief, Learns(b) PROVE IsFiniteSet(beliefs')
    BY <2>1, <2>4 DEF Learns, IngestNoLog
  <2>5. ASSUME Rebuilds \/ Drops \/ Keeps PROVE IsFiniteSet(beliefs')
    BY <2>2, <2>5, FS_EmptySet DEF Rebuilds, Recompute, Drops, ClearStores, Keeps, Finite
  <2> QED
    BY <2>3, <2>4, <2>5, StepKinds
<1> QED
  BY <1>1, <1>2 DEF Finite

\* A step of the engine itself, and what the others leave alone.
EngineMoves == [Next]_vars /\ compacting' # "writing"
                 /\ unwritten' = << >> /\ UNCHANGED <<target, before>>

OnlyLogged == /\ UNCHANGED <<memory, pc, frame>>
              /\ lapses' \subseteq lapses \cup {"log"} /\ lapses \subseteq lapses' \cup {"log"}

TypesOK == StateOK /\ Finite /\ target \in Seq(AnyRecord) /\ unwritten \in Seq(AnyRecord)

Writing == compacting = "writing"

WriteOK ==
  /\ Writing => /\ pc = "idle" /\ target \o unwritten = Canonical
                /\ inPlace => log = target /\ "log" \in lapses
  /\ ~Writing => unwritten = << >>

LEMMA EngineStepMoves ==
  ASSUME WriteOK, EngineStep \/ Dies
  PROVE  EngineMoves
BY DEF WriteOK, Writing, EngineStep, Dies, Next, compaction, EngineMoves

LEMMA OthersOnlyLog ==
  ASSUME (\E onLog \in BOOLEAN : StartCompaction(onLog)) \/ WriteRecord \/ CompactionFails \/ CompactionDone
  PROVE  OnlyLogged
BY DEF StartCompaction, WriteRecord, CompactionFails, CompactionDone, OnlyLogged

LEMMA CanonicalType ==
  ASSUME TypesOK
  PROVE  /\ beliefs \in SUBSET Belief /\ IsFiniteSet(beliefs)
         /\ resolutions \in SUBSET Resolution /\ IsFiniteSet(resolutions) /\ OnePerAtom(resolutions)
         /\ rules \in Seq(InputRules)
         /\ Canonical \in Seq(AnyRecord)
<1>1. /\ beliefs \in SUBSET Belief /\ IsFiniteSet(beliefs)
      /\ resolutions \in SUBSET Resolution /\ IsFiniteSet(resolutions) /\ OnePerAtom(resolutions)
      /\ rules \in Seq(InputRules)
  BY DEF TypesOK, StateOK, Typed, StateType, Finite, OneResolution, OnePerAtom
<1> QED
  BY <1>1, CanonicalHolds, CanonicalIsOf

\* The next record to write is moved from one list to the other.
LEMMA RecordMoved ==
  ASSUME NEW T, NEW a \in Seq(T), NEW b \in Seq(T), b # << >>
  PROVE  /\ Append(a, Head(b)) \in Seq(T) /\ Tail(b) \in Seq(T)
         /\ Append(a, Head(b)) \o Tail(b) = a \o b
<1>1. Append(a, Head(b)) \in Seq(T) /\ Tail(b) \in Seq(T)
  OBVIOUS
<1>2. Append(a, Head(b)) \o Tail(b) = a \o b
  OBVIOUS
<1> QED
  BY <1>1, <1>2

LEMMA TypesStep == TypesOK /\ WriteOK /\ [CompactionNext]_allVars => TypesOK'
<1> SUFFICES ASSUME TypesOK, WriteOK, [CompactionNext]_allVars PROVE TypesOK'
  OBVIOUS
<1>a. StateOK /\ Finite /\ target \in Seq(AnyRecord) /\ unwritten \in Seq(AnyRecord)
  BY DEF TypesOK
<1>b. log \in Seq(AnyRecord) /\ << >> \in Seq(AnyRecord)
  BY <1>a DEF StateOK, Typed
<1>1. ASSUME EngineMoves PROVE TypesOK'
  BY <1>1, <1>a, <1>b, NextStateOK, FiniteStep DEF EngineMoves, TypesOK
<1>2. ASSUME OnlyLogged, log' \in Seq(AnyRecord), faults' \in Nat,
             target' \in Seq(AnyRecord), unwritten' \in Seq(AnyRecord)
      PROVE  TypesOK'
  <2>1. lapses' \subseteq Lapse
    BY <1>2, <1>a DEF OnlyLogged, StateOK, Typed, StateType, Lapse
  <2>2. Typed'
    BY <1>2, <1>a, <2>1 DEF OnlyLogged, memory, frame, StateOK, Typed, StateType
  <2>3. FrameOK' /\ OneResolution' /\ Finite'
    BY <1>2, <1>a DEF OnlyLogged, memory, frame, StateOK, FrameOK, Applying, OneResolution, Finite
  <2> QED
    BY <1>2, <2>2, <2>3 DEF TypesOK, StateOK
<1>c. faults \in Nat
  BY <1>a DEF StateOK, Typed, StateType
<1>3. ASSUME NEW onLog \in BOOLEAN, StartCompaction(onLog) PROVE TypesOK'
  <2>1. log' \in Seq(AnyRecord) /\ faults' = faults /\ target' = << >> /\ unwritten' = Canonical
    BY <1>3, <1>b DEF StartCompaction
  <2> QED
    BY <1>2, <1>3, <1>b, <1>c, <2>1, CanonicalType, OthersOnlyLog
<1>4. ASSUME WriteRecord PROVE TypesOK'
  <2>1. target' \in Seq(AnyRecord) /\ unwritten' \in Seq(AnyRecord)
    BY <1>4, <1>a, RecordMoved DEF WriteRecord
  <2>2. log' \in Seq(AnyRecord) /\ faults' = faults
    BY <1>4, <1>b, <2>1 DEF WriteRecord
  <2> QED
    BY <1>2, <1>4, <1>c, <2>1, <2>2, OthersOnlyLog
<1>5. ASSUME CompactionFails \/ CompactionDone PROVE TypesOK'
  <2>1. /\ log' = log /\ target' = target /\ unwritten' \in {unwritten, << >>}
        /\ faults' = faults \/ faults' = faults + 1
    BY <1>5 DEF CompactionFails, CompactionDone
  <2>2. unwritten' \in Seq(AnyRecord)
    BY <1>a, <1>b, <2>1, Zenon
  <2>3. faults' \in Nat
    BY <1>c, <2>1
  <2> QED
    BY <1>2, <1>5, <1>a, <1>b, <2>1, <2>2, <2>3, OthersOnlyLog
<1>6. ASSUME Adopt PROVE TypesOK'
  <2>1. << >> \in Seq(InputRules) /\ << >> \in Seq(InputBeliefs)
    OBVIOUS
  <2>2. Typed'
    BY <1>6, <1>a, <1>c, <2>1 DEF Adopt, ClearStores, Typed, StateType, Lapse
  <2>3. FrameOK' /\ OneResolution' /\ Finite'
    BY <1>6, FS_EmptySet DEF Adopt, ClearStores, FrameOK, Applying, OneResolution, Finite
  <2> QED
    BY <1>6, <1>a, <2>2, <2>3 DEF Adopt, TypesOK, StateOK
<1>7. ASSUME UNCHANGED allVars PROVE TypesOK'
  <2>1. EngineMoves \/ (OnlyLogged /\ UNCHANGED <<log, faults, target, unwritten>>)
    BY <1>7 DEF allVars, vars, compaction, OnlyLogged
  <2> QED
    BY <1>1, <1>2, <1>a, <1>b, <1>c, <2>1
<1> QED
  BY <1>1, <1>3, <1>4, <1>5, <1>6, <1>7, EngineStepMoves DEF CompactionNext

LEMMA SameMemory == UNCHANGED memory => Canonical' = Canonical
<1>1. Canonical = CanonicalOf(beliefs, resolutions, rules)
  BY CanonicalIsOf
<1>2. (Canonical = CanonicalOf(beliefs, resolutions, rules))'
  BY <1>1, PTL
<1> QED
  BY <1>1, <1>2 DEF memory

LEMMA WriteStep == TypesOK /\ WriteOK /\ [CompactionNext]_allVars => WriteOK'
<1> SUFFICES ASSUME TypesOK, WriteOK, [CompactionNext]_allVars PROVE WriteOK'
  OBVIOUS
<1>a. target \in Seq(AnyRecord) /\ unwritten \in Seq(AnyRecord)
  BY DEF TypesOK
<1>b. UNCHANGED memory => Canonical' = Canonical
  BY SameMemory
<1>1. ASSUME EngineMoves PROVE WriteOK'
  BY <1>1 DEF EngineMoves, WriteOK, Writing
<1>2. ASSUME NEW onLog \in BOOLEAN, StartCompaction(onLog) PROVE WriteOK'
  <2>1. << >> \o Canonical = Canonical
    BY CanonicalType
  <2>2. target' \o unwritten' = Canonical'
    BY <1>2, <1>b, <2>1 DEF StartCompaction
  <2>3. pc' = "idle" /\ Writing' /\ (inPlace' => log' = target' /\ "log" \in lapses')
    BY <1>2 DEF StartCompaction, Writing
  <2> QED
    BY <2>2, <2>3 DEF WriteOK
<1>3. ASSUME WriteRecord PROVE WriteOK'
  <2>1. /\ Writing /\ Writing' /\ UNCHANGED <<memory, pc, lapses, inPlace>>
        /\ inPlace' => log' = target'
    BY <1>3 DEF WriteRecord, Writing
  <2>2. target' \o unwritten' = target \o unwritten
    BY <1>3, <1>a, RecordMoved DEF WriteRecord
  <2> QED
    BY <1>b, <2>1, <2>2 DEF WriteOK
<1>4. ASSUME CompactionFails \/ CompactionDone PROVE WriteOK'
  BY <1>4 DEF CompactionFails, CompactionDone, WriteOK, Writing
<1>5. ASSUME Adopt PROVE WriteOK'
  BY <1>5 DEF Adopt, WriteOK, Writing
<1>6. ASSUME UNCHANGED allVars PROVE WriteOK'
  BY <1>6, <1>b DEF allVars, vars, compaction, WriteOK, Writing
<1> QED
  BY <1>1, <1>2, <1>3, <1>4, <1>5, <1>6, EngineStepMoves DEF CompactionNext

LEMMA InitTypes == CompactionInit => TypesOK /\ WriteOK
<1> SUFFICES ASSUME CompactionInit PROVE TypesOK /\ WriteOK
  OBVIOUS
<1>1. StateOK
  BY InitStateOK DEF CompactionInit
<1>2. << >> \in Seq(AnyRecord)
  OBVIOUS
<1> QED
  BY <1>1, <1>2, FS_EmptySet DEF CompactionInit, Init, TypesOK, Finite, WriteOK, Writing

-----------------------------------------------------------------------------
(* Memory and log.                                                          *)

LEMMA RulesInType ==
  ASSUME NEW l \in Seq(AnyRecord)
  PROVE  RulesIn(l) \in Seq(InputRules)
<1> DEFINE at == InOrder(RulesAt(l))
<1>1. RulesAt(l) \in SUBSET Nat /\ IsFiniteSet(RulesAt(l))
  <2>1. DOMAIN l = 1 .. Len(l) /\ Len(l) \in Nat
    OBVIOUS
  <2>2. IsFiniteSet(1 .. Len(l))
    BY <2>1, CountTo
  <2>3. RulesAt(l) \subseteq 1 .. Len(l)
    BY <2>1 DEF RulesAt
  <2> QED
    BY <2>2, <2>3, FS_Subset
<1>2. at \in Seq(RulesAt(l))
  BY <1>1, InOrderIs
<1>3. \A i \in RulesAt(l) : l[i].data \in InputRules
  <2> TAKE i \in RulesAt(l)
  <2>1. l[i] \in AnyRecord /\ l[i].type = "rule"
    BY DEF RulesAt
  <2> QED
    BY <2>1 DEF AnyRecord
<1>4. RulesIn(l) = [n \in DOMAIN at |-> l[at[n]].data]
  BY DEF RulesIn
<1> HIDE DEF at
<1>5. DOMAIN at = 1 .. Len(at) /\ Len(at) \in Nat /\ \A n \in DOMAIN at : at[n] \in RulesAt(l)
  BY <1>2
<1>6. RulesIn(l) \in [1 .. Len(at) -> InputRules]
  BY <1>3, <1>4, <1>5
<1> QED
  BY <1>5, <1>6

(***************************************************************************)
(* Memory agrees with the log but for the order of the rules, unless a write   *)
(* was cut short; a running replay agrees with what it has read.              *)
(***************************************************************************)
Agrees(l) == HoldsFacts(l) /\ Reordered(rules, RulesIn(l))

WillAgree(l) == WillHoldFacts(l) /\ Reordered(rules', RulesIn(l))

LogAgrees ==
  /\ Apart = {} => Agrees(log)
  /\ pc = "replay" => /\ "replay" \in lapses
                      /\ next \in 1 .. Len(log) + 1
                      /\ Agrees(SubSeq(log, 1, next - 1))

LEMMA TakenAgrees ==
  ASSUME StateOK, NEW l \in Seq(AnyRecord), NEW rec \in AnyRecord, Agrees(l), Takes(rec)
  PROVE  WillAgree(Append(l, rec))
<1>1. WillHoldFacts(Append(l, rec))
  BY FactsTaken DEF Agrees
<1>2. Reordered(rules', RulesIn(Append(l, rec)))
  <2>1. rules \in Seq(InputRules) /\ RulesIn(l) \in Seq(InputRules) /\ Reordered(rules, RulesIn(l))
    BY RulesInType DEF StateOK, Typed, StateType, Agrees
  <2>2. CASE rec.type = "rule"
    <3>1. rec.data \in InputRules
      BY <2>2 DEF AnyRecord
    <3>2. RulesIn(Append(l, rec)) = Append(RulesIn(l), rec.data)
      BY <2>2, RulesAppended
    <3>3. rules' = Append(rules, rec.data)
      BY <2>2 DEF Takes
    <3>4. Reordered(Append(rules, rec.data), Append(RulesIn(l), rec.data))
      BY <2>1, <3>1, ReorderedAppend
    <3> QED
      BY <3>2, <3>3, <3>4
  <2>3. CASE rec.type # "rule"
    <3>1. RulesIn(Append(l, rec)) = RulesIn(l) /\ rules' = rules
      BY <2>3, RulesAppended DEF Takes
    <3> QED
      BY <2>1, <3>1
  <2> QED
    BY <2>2, <2>3
<1> QED
  BY <1>1, <1>2 DEF WillAgree

LEMMA AgreesStep == StateOK /\ LogAgrees /\ [Next]_vars => LogAgrees'
<1> SUFFICES ASSUME StateOK, LogAgrees, LogStep PROVE LogAgrees'
  BY StepsOfLog
<1>a. log \in Seq(AnyRecord)
  BY DEF StateOK, Typed
<1>1. CASE RecordWritten
  <2>1. PICK rec \in AnyRecord : log' = Append(log, rec) /\ Takes(rec)
    BY <1>1 DEF RecordWritten
  <2>2. ASSUME Apart = {} PROVE Agrees(log)'
    <3>1. Agrees(log)
      BY <2>2 DEF LogAgrees
    <3>2. WillAgree(Append(log, rec))
      BY <1>a, <3>1, <2>1, TakenAgrees
    <3> QED
      BY <2>1, <3>2 DEF WillAgree, WillHoldFacts, Agrees, HoldsFacts
  <2> QED
    BY <1>1, <2>2 DEF RecordWritten, LogAgrees
<1>2. CASE Misses
  BY <1>2 DEF Misses, LogAgrees
<1>3. CASE Starts
  <2>1. Agrees(<< >>)'
    BY <1>3, NothingRecorded, ReorderedSelf DEF Starts, Agrees, HoldsFacts, Base
  <2>2. next' - 1 = 0 /\ log' = log /\ next' \in 1 .. Len(log') + 1
    BY <1>a, <1>3 DEF Starts
  <2>3. SubSeq(log', 1, next' - 1) = << >>
    BY <2>2, ReadFirst
  <2>4. Agrees(SubSeq(log, 1, next - 1))'
    BY <2>1, <2>3 DEF Agrees, HoldsFacts
  <2> QED
    BY <1>3, <2>2, <2>4 DEF Starts, LogAgrees, Apart
<1>4. CASE RecordRead
  <2>1. next \in 1 .. Len(log) + 1 /\ Agrees(SubSeq(log, 1, next - 1)) /\ "replay" \in lapses
    BY <1>4 DEF RecordRead, LogAgrees
  <2>2. /\ log[next] \in AnyRecord /\ next' \in 1 .. Len(log') + 1
        /\ SubSeq(log, 1, next - 1) \in Seq(AnyRecord)
        /\ SubSeq(log', 1, next' - 1) = Append(SubSeq(log, 1, next - 1), log[next])
    BY <1>4, <2>1, ReadNext
  <2>3. WillAgree(Append(SubSeq(log, 1, next - 1), log[next]))
    <3> DEFINE l == SubSeq(log, 1, next - 1)
               rec == log[next]
    <3>1. l \in Seq(AnyRecord) /\ rec \in AnyRecord /\ Agrees(l) /\ Takes(rec)
      BY <1>4, <2>1, <2>2 DEF RecordRead
    <3>2. Append(l, rec) = Append(SubSeq(log, 1, next - 1), log[next])
      OBVIOUS
    <3> HIDE DEF l, rec
    <3>3. WillAgree(Append(l, rec))
      BY <3>1, TakenAgrees
    <3> QED
      BY <3>2, <3>3
  <2>4. Agrees(SubSeq(log, 1, next - 1))'
    BY <2>2, <2>3 DEF WillAgree, WillHoldFacts, Agrees, HoldsFacts
  <2> QED
    BY <1>4, <2>1, <2>2, <2>4 DEF RecordRead, LogAgrees, Apart
<1>5. CASE Ends
  <2>1. Agrees(SubSeq(log, 1, next - 1)) /\ next \in 1 .. Len(log) + 1
    BY <1>5 DEF Ends, LogAgrees
  <2>2. Agrees(log)
    BY <1>5, <2>1, ReadAll DEF Ends
  <2>3. Agrees(log)'
    BY <1>5, <2>2 DEF Ends, Agrees, HoldsFacts
  <2> QED
    BY <1>5, <2>3 DEF Ends, LogAgrees
<1>6. CASE BreaksOff
  BY <1>6 DEF BreaksOff, LogAgrees, Apart
<1>7. CASE Waits
  BY <1>7 DEF Waits, LogAgrees, Agrees, HoldsFacts
<1> QED
  BY <1>1, <1>2, <1>3, <1>4, <1>5, <1>6, <1>7 DEF LogStep

\* A log written anew agrees with the memory it was written from.
LEMMA WrittenAgrees ==
  ASSUME TypesOK
  PROVE  Agrees(Canonical)
<1>1. /\ DataIn(Canonical, "fact") = beliefs /\ ResolutionsIn(Canonical) = resolutions
      /\ RulesIn(Canonical) = Sorted(rules, RuleLess)
  BY CanonicalType, CanonicalHolds, CanonicalIsOf
<1>2. Reordered(rules, Sorted(rules, RuleLess))
  BY CanonicalType, SortedRules, ReorderedBack
<1> QED
  BY <1>1, <1>2 DEF Agrees, HoldsFacts, Asserted, Base

LEMMA LogAgreesStep == TypesOK /\ WriteOK /\ LogAgrees /\ [CompactionNext]_allVars => LogAgrees'
<1> SUFFICES ASSUME TypesOK, WriteOK, LogAgrees, [CompactionNext]_allVars PROVE LogAgrees'
  OBVIOUS
<1>1. ASSUME EngineMoves PROVE LogAgrees'
  BY <1>1, AgreesStep DEF EngineMoves, TypesOK
<1>2. ASSUME UNCHANGED <<memory, log, pc, frame, lapses>> PROVE LogAgrees'
  BY <1>2 DEF memory, frame, LogAgrees, Agrees, HoldsFacts, Apart, Asserted
<1>3. ASSUME pc' # "replay", "log" \in lapses' PROVE LogAgrees'
  BY <1>3 DEF LogAgrees, Apart
<1>4. ASSUME NEW onLog \in BOOLEAN, StartCompaction(onLog) PROVE LogAgrees'
  BY <1>2, <1>3, <1>4 DEF StartCompaction
<1>5. ASSUME WriteRecord PROVE LogAgrees'
  <2>1. pc' = "idle" /\ lapses' = lapses /\ (inPlace => "log" \in lapses)
    BY <1>5 DEF WriteRecord, WriteOK, Writing
  <2> QED
    BY <1>2, <1>3, <1>5, <2>1 DEF WriteRecord
<1>6. ASSUME CompactionFails PROVE LogAgrees'
  BY <1>2, <1>6 DEF CompactionFails
<1>7. ASSUME CompactionDone PROVE LogAgrees'
  <2>1. CASE ~inPlace
    BY <1>2, <1>7, <2>1 DEF CompactionDone
  <2>2. CASE inPlace
    <3>1. target \o << >> = target
      BY DEF TypesOK
    <3>2. pc' = "idle" /\ log = Canonical
      BY <1>7, <2>2, <3>1 DEF CompactionDone, WriteOK, Writing
    <3>3. Agrees(log)
      BY <3>2, WrittenAgrees
    <3>4. UNCHANGED <<memory, log>>
      BY <1>7 DEF CompactionDone
    <3>5. Agrees(log)'
      BY <3>3, <3>4 DEF memory, Agrees, HoldsFacts, Asserted
    <3> QED
      BY <3>2, <3>5 DEF LogAgrees
  <2> QED
    BY <2>1, <2>2
<1>8. ASSUME Adopt PROVE LogAgrees'
  <2>1. Agrees(<< >>)'
    BY <1>8, NothingRecorded, ReorderedSelf DEF Adopt, ClearStores, Asserted, Agrees, HoldsFacts, Base
  <2>2. log' \in Seq(AnyRecord) /\ next' = 1 /\ "replay" \in lapses'
    BY <1>8 DEF Adopt, TypesOK
  <2>3. next' \in 1 .. Len(log') + 1 /\ SubSeq(log', 1, next' - 1) = << >>
    <3>1. next' - 1 = 0 /\ Len(log') \in Nat
      BY <2>2
    <3>2. SubSeq(log', 1, 0) = << >>
      OBVIOUS
    <3> QED
      BY <2>2, <3>1, <3>2
  <2>4. Agrees(SubSeq(log, 1, next - 1))'
    BY <2>1, <2>3 DEF Agrees, HoldsFacts
  <2> QED
    BY <2>2, <2>3, <2>4 DEF LogAgrees, Apart
<1>9. ASSUME UNCHANGED allVars PROVE LogAgrees'
  BY <1>2, <1>9 DEF allVars, vars
<1> QED
  BY <1>1, <1>4, <1>5, <1>6, <1>7, <1>8, <1>9, EngineStepMoves DEF CompactionNext

LEMMA InitAgrees == CompactionInit => LogAgrees
BY NothingRecorded, ReorderedSelf
   DEF CompactionInit, Init, LogAgrees, Agrees, HoldsFacts, Asserted, Base

(***************************************************************************)
(* However a log was compacted, over itself or into a file the application     *)
(* goes on with, and whatever failed or died before or after, memory and log   *)
(* hold the same facts, resolutions and rules when no write is missing: no     *)
(* compaction loses a record that a restart would need.                      *)
(***************************************************************************)
THEOREM CompactingKeepsTheLog == CompactionSpec => []LogStillMatches
<1>1. CompactionSpec => [](TypesOK /\ LogAgrees)
  BY InitAgrees, InitTypes, TypesStep, WriteStep, LogAgreesStep, PTL DEF CompactionSpec
<1>2. ASSUME TypesOK, LogAgrees PROVE LogStillMatches
  <2>1. SUFFICES ASSUME Apart = {}
                 PROVE  /\ Asserted = BaseOf(Data("fact"))
                        /\ resolutions = LogResolutions
                        /\ SameRules(rules, LogRules)
    BY DEF LogStillMatches, Apart
  <2>2. HoldsFacts(log) /\ Reordered(rules, LogRules)
    BY <1>2, <2>1 DEF LogAgrees, Agrees, LogRules
  <2>3. rules \in Seq(InputRules) /\ LogRules \in Seq(InputRules)
    BY <1>2, RulesInType DEF TypesOK, StateOK, Typed, StateType, LogRules
  <2>4. SameRules(rules, LogRules)
    BY <2>2, <2>3, SameRulesSorted DEF SameRules
  <2> QED
    BY <2>2, <2>4 DEF HoldsFacts, Base, BaseOf, Data, LogResolutions
<1> QED
  BY <1>1, <1>2, PTL

-----------------------------------------------------------------------------
(* The settled state.                                                       *)

ProofsFrom(G, R) ==
  UNION {{[atom |-> d.then, rule |-> r.name, prem |-> d.prem] : d \in Derivations(r, G)} : r \in R}

WordOf(p) == [atom |-> p.atom, pol |-> "+", src |-> [rule |-> TRUE, name |-> p.rule]]

\* T holds what these beliefs assert and what the rules make of T, as far as G has it.
Closed(T, G, bs, R) ==
  /\ \A b \in Base(bs) : b.pol = "+" /\ b.atom \in G => b.atom \in T
  /\ \A r \in R : \A d \in Derivations(r, T) : d.then \in G => d.then \in T

(***************************************************************************)
(* The proofs are all the rules give of the graph, the derived beliefs are     *)
(* their conclusions, and nothing of the graph stands on itself.              *)
(***************************************************************************)
Stable(bs, ds, res, R) ==
  /\ ds = ProofsFrom(Projected(bs, res), R)
  /\ bs \ Base(bs) = {WordOf(p) : p \in {q \in ds : ValidAtom(q.atom)}}
  /\ \A T \in SUBSET Projected(bs, res) :
       Closed(T, Projected(bs, res), bs, R) => T = Projected(bs, res)

\* What two stable states share is closed in either.
LEMMA SharedClosed ==
  ASSUME NEW bs \in SUBSET Belief, NEW ds, NEW cs \in SUBSET Belief, NEW es, NEW res, NEW R,
         Stable(cs, es, res, R), Base(bs) = Base(cs)
  PROVE  Closed(Projected(bs, res) \cap Projected(cs, res), Projected(bs, res), bs, R)
<1> DEFINE G == Projected(bs, res)
           H == Projected(cs, res)
<1>1. ASSUME NEW b \in Base(bs), b.pol = "+", b.atom \in G PROVE b.atom \in G \cap H
  <2>1. b \in cs /\ b.atom \notin ResolvedFalse(res)
    BY <1>1 DEF Base, Projected
  <2> QED
    BY <1>1, <2>1 DEF Projected
<1>2. ASSUME NEW r \in R, NEW d \in Derivations(r, G \cap H), d.then \in G PROVE d.then \in G \cap H
  <2> DEFINE p == [atom |-> d.then, rule |-> r.name, prem |-> d.prem]
  <2>1. d \in Derivations(r, H)
    BY DerivationsMonotone
  <2>2. p \in es
    BY <2>1 DEF Stable, ProofsFrom
  <2>3. d.then \in Atom /\ d.then \notin ResolvedFalse(res)
    BY <1>2 DEF Projected, Belief
  <2>4. ValidAtom(p.atom)
    BY <2>3, NamesAssumption DEF Atom, ValidAtom, Empty
  <2>5. WordOf(p) \in cs
    BY <2>2, <2>4 DEF Stable
  <2>6. WordOf(p).atom = d.then /\ WordOf(p).pol = "+"
    BY DEF WordOf
  <2> QED
    BY <1>2, <2>3, <2>5, <2>6 DEF Projected
<1> QED
  BY <1>1, <1>2 DEF Closed

(***************************************************************************)
(* Asserted facts, resolutions and the set of rules determine the settled      *)
(* state: the order of the rules, and what was believed before, do not matter. *)
(***************************************************************************)
LEMMA OneStable ==
  ASSUME NEW bs \in SUBSET Belief, NEW ds, NEW cs \in SUBSET Belief, NEW es, NEW res, NEW R,
         Stable(bs, ds, res, R), Stable(cs, es, res, R), Base(bs) = Base(cs)
  PROVE  bs = cs /\ ds = es
<1> DEFINE G == Projected(bs, res)
           H == Projected(cs, res)
<1>1. G \cap H = G
  <2>1. Closed(G \cap H, G, bs, R)
    BY SharedClosed
  <2> QED
    BY <2>1 DEF Stable
<1>2. H \cap G = H
  <2>1. Closed(H \cap G, H, cs, R)
    BY SharedClosed
  <2> QED
    BY <2>1 DEF Stable
<1>3. G = H
  BY <1>1, <1>2
<1>4. ds = es
  BY <1>3 DEF Stable
<1>5. bs \ Base(bs) = cs \ Base(cs)
  BY <1>4 DEF Stable
<1>6. Base(bs) \subseteq bs /\ Base(cs) \subseteq cs
  BY DEF Base
<1> QED
  BY <1>4, <1>5, <1>6

LEMMA SettledIsStable ==
  ASSUME Typed, PlainSources, Settled, Projection, ProofsHold, BeliefsOK, RestOK, Grounded
  PROVE  Stable(beliefs, derivations, resolutions, Range(rules))
<1> DEFINE G == Projected(beliefs, resolutions)
<1>1. graph = G
  BY DEF Settled, UpToDate, Projection
<1>2. /\ derivations = ProvableNow
      /\ beliefs \ Asserted
           = {[atom |-> p.atom, pol |-> "+", src |-> [rule |-> TRUE, name |-> p.rule]] :
                p \in {q \in ProvableNow : ValidAtom(q.atom)}}
  BY RestIsSaturated DEF RulesSaturated
<1>3. Asserted = Base(beliefs)
  BY DEF Asserted, Base
<1>4. ProvableNow = ProofsFrom(graph, Range(rules))
  <2>1. \A i \in DOMAIN rules : rules[i] \in Range(rules)
    BY DEF Range
  <2>2. \A r \in Range(rules) : \E i \in DOMAIN rules : r = rules[i]
    BY DEF Range
  <2> DEFINE of(r) == {[atom |-> d.then, rule |-> r.name, prem |-> d.prem] : d \in Derivations(r, graph)}
  <2>3. ProvableNow = UNION {of(rules[i]) : i \in DOMAIN rules}
    BY DEF ProvableNow, Proofs
  <2>4. ProofsFrom(graph, Range(rules)) = UNION {of(r) : r \in Range(rules)}
    BY DEF ProofsFrom
  <2> HIDE DEF of
  <2>5. {of(rules[i]) : i \in DOMAIN rules} = {of(r) : r \in Range(rules)}
    BY <2>1, <2>2
  <2> QED
    BY <2>3, <2>4, <2>5
<1>5. beliefs \ Base(beliefs) = {WordOf(p) : p \in {q \in derivations : ValidAtom(q.atom)}}
  BY <1>2, <1>3 DEF WordOf
<1>6. ASSUME NEW T \in SUBSET G, Closed(T, G, beliefs, Range(rules)) PROVE T = G
  <2>1. Saturated(T)
    BY <1>1, <1>3, <1>6 DEF Saturated, Closed, Range
  <2> QED
    BY <1>1, <2>1 DEF Grounded
<1> QED
  BY <1>1, <1>2, <1>4, <1>5, <1>6 DEF Stable

-----------------------------------------------------------------------------
(* What the engine keeps of its own invariants when logs hold derived facts.   *)

PositiveIn(l) == PlainSources => \A b \in DataIn(l, "fact") : b.src.rule => b.pol = "+"

Positive == PositiveIn(log) /\ PositiveIn(target) /\ PositiveIn(unwritten)

\* What stands on proofs is so when no rebuild is due.
ProvedInTime == UpToDate => BeliefsProved /\ Grounded

MemoryOK == Projection /\ OnRecord /\ ProvedInTime /\ FixpointOK

LEMMA PositiveAppended ==
  ASSUME NEW l \in Seq(AnyRecord), NEW rec \in AnyRecord, PositiveIn(l),
         PlainSources /\ rec.type = "fact" => (rec.data.src.rule => rec.data.pol = "+")
  PROVE  PositiveIn(Append(l, rec))
<1>1. DataIn(Append(l, rec), "fact")
        = DataIn(l, "fact") \cup (IF rec.type = "fact" THEN {rec.data} ELSE {})
  BY DataAppended
<1> QED
  BY <1>1 DEF PositiveIn

LEMMA PositiveParts ==
  ASSUME NEW l \in Seq(AnyRecord), l # << >>, PositiveIn(l)
  PROVE  /\ PositiveIn(Tail(l)) /\ Head(l) \in AnyRecord
         /\ PlainSources /\ Head(l).type = "fact" => (Head(l).data.src.rule => Head(l).data.pol = "+")
<1>1. 1 \in DOMAIN l /\ Head(l) = l[1] /\ Head(l) \in AnyRecord
  OBVIOUS
<1>2. \A i \in DOMAIN Tail(l) : i + 1 \in DOMAIN l /\ Tail(l)[i] = l[i + 1]
  OBVIOUS
<1>3. DataIn(Tail(l), "fact") \subseteq DataIn(l, "fact")
  BY <1>2 DEF DataIn
<1>4. Head(l).type = "fact" => Head(l).data \in DataIn(l, "fact")
  BY <1>1 DEF DataIn
<1> QED
  BY <1>1, <1>3, <1>4 DEF PositiveIn

LEMMA NothingPositive == PositiveIn(<< >>)
BY NothingRecorded DEF PositiveIn

LEMMA PositiveGrows ==
  ASSUME log \in Seq(AnyRecord), PositiveIn(log), LogGrows
  PROVE  PositiveIn(log')
<1>1. ASSUME NEW rec \in Record, log' = Append(log, rec) PROVE PositiveIn(log')
  <2>1. rec \in AnyRecord
    BY InputAssumption DEF Record, AnyRecord
  <2>2. rec.type = "fact" => rec.data \in InputBeliefs
    BY DEF Record
  <2>3. PositiveIn(Append(log, rec))
    BY <2>1, <2>2, PositiveAppended DEF PlainSources
  <2> QED
    BY <1>1, <2>3
<1> QED
  BY <1>1 DEF LogGrows

LEMMA PositiveStep == TypesOK /\ WriteOK /\ BeliefsOK /\ Positive /\ [CompactionNext]_allVars => Positive'
<1> SUFFICES ASSUME TypesOK, WriteOK, BeliefsOK, Positive, [CompactionNext]_allVars PROVE Positive'
  OBVIOUS
<1>a. /\ log \in Seq(AnyRecord) /\ target \in Seq(AnyRecord) /\ unwritten \in Seq(AnyRecord)
      /\ PositiveIn(log) /\ PositiveIn(target) /\ PositiveIn(unwritten)
  BY DEF TypesOK, StateOK, Typed, Positive
<1>1. ASSUME PositiveIn(log'), PositiveIn(target'), PositiveIn(unwritten') PROVE Positive'
  BY <1>1 DEF Positive, PositiveIn, PlainSources
<1>2. ASSUME EngineMoves PROVE Positive'
  <2>1. PositiveIn(log')
    BY <1>2, <1>a, StepsLogInputs, PositiveGrows DEF EngineMoves
  <2> QED
    BY <1>1, <1>2, <1>a, <2>1, NothingPositive DEF EngineMoves
<1>3. ASSUME NEW onLog \in BOOLEAN, StartCompaction(onLog) PROVE Positive'
  <2>1. DataIn(Canonical, "fact") = beliefs
    BY CanonicalType, CanonicalHolds, CanonicalIsOf
  <2>2. PositiveIn(Canonical)
    BY <2>1 DEF PositiveIn, BeliefsOK, Asserted
  <2> QED
    BY <1>1, <1>3, <1>a, <2>2, NothingPositive DEF StartCompaction
<1>4. ASSUME WriteRecord PROVE Positive'
  <2>1. PositiveIn(Append(target, Head(unwritten))) /\ PositiveIn(Tail(unwritten))
    BY <1>4, <1>a, PositiveParts, PositiveAppended DEF WriteRecord
  <2> QED
    BY <1>1, <1>4, <1>a, <2>1 DEF WriteRecord
<1>5. ASSUME CompactionFails \/ CompactionDone \/ Adopt PROVE Positive'
  BY <1>1, <1>5, <1>a, NothingPositive DEF CompactionFails, CompactionDone, Adopt
<1>6. ASSUME UNCHANGED allVars PROVE Positive'
  BY <1>1, <1>6, <1>a DEF allVars, vars, compaction
<1> QED
  BY <1>2, <1>3, <1>4, <1>5, <1>6, EngineStepMoves DEF CompactionNext

LEMMA MemoryEngineStep ==
  ASSUME StateOK, LogPositive, MemoryOK, [Next]_vars
  PROVE  MemoryOK'
<1>1. Projection' /\ OnRecord' /\ FixpointOK'
  BY ProjectionStep, OnRecordStep, FixpointStep DEF MemoryOK
<1>2. ASSUME UpToDate' PROVE BeliefsProved' /\ Grounded'
  <2>1. (BeliefsProved \/ Rebuilds) /\ (Grounded \/ Rebuilds)
    BY <1>2, RebuiltInTime DEF MemoryOK, ProvedInTime
  <2> QED
    BY <1>2, <2>1, BeliefsProvedStep, GroundedStep
<1> QED
  BY <1>1, <1>2 DEF MemoryOK, ProvedInTime

LEMMA MemoryKept ==
  ASSUME MemoryOK, OnlyLogged
  PROVE  MemoryOK'
<1>1. (UpToDate' <=> UpToDate) /\ (Settled' <=> Settled) /\ (Uncut' <=> Uncut)
  BY DEF OnlyLogged, UpToDate, Settled, Uncut
<1>2. UNCHANGED <<memory, pc, frame>>
  BY DEF OnlyLogged
<1>3. Projection' /\ OnRecord'
  BY <1>1, <1>2 DEF MemoryOK, memory, Projection, OnRecord, ProvableNow, Proofs
<1>4. (BeliefsProved => BeliefsProved') /\ (Grounded => Grounded')
  BY <1>2 DEF memory, BeliefsProved, Asserted, Grounded, Saturated, PlainSources
<1>5. ProvedInTime'
  BY <1>1, <1>4 DEF MemoryOK, ProvedInTime
<1>6. BeliefsOK'
  BY <1>2 DEF MemoryOK, FixpointOK, memory, BeliefsOK, Asserted, PlainSources
<1>7. RoundOK' /\ RestOK'
  BY <1>1, <1>2 DEF MemoryOK, FixpointOK, memory, frame, RoundOK, RestOK, InRound, Exhausted, Finished
<1> QED
  BY <1>3, <1>5, <1>6, <1>7 DEF MemoryOK, FixpointOK

LEMMA MemoryStep ==
  TypesOK /\ WriteOK /\ Positive /\ MemoryOK /\ [CompactionNext]_allVars => MemoryOK'
<1> SUFFICES ASSUME TypesOK, WriteOK, Positive, MemoryOK, [CompactionNext]_allVars PROVE MemoryOK'
  OBVIOUS
<1>1. ASSUME EngineMoves PROVE MemoryOK'
  <2>1. StateOK /\ LogPositive
    BY DEF TypesOK, Positive, PositiveIn, LogPositive, Data
  <2> QED
    BY <1>1, <2>1, MemoryEngineStep DEF EngineMoves
<1>2. ASSUME Adopt PROVE MemoryOK'
  <2>1. /\ beliefs' = {} /\ derivations' = {} /\ pc' = "replay" /\ "resolution" \in lapses'
    BY <1>2 DEF Adopt, ClearStores
  <2>2. ~UpToDate' /\ ~Settled'
    BY <2>1 DEF UpToDate, Settled
  <2> QED
    BY <2>1, <2>2, FS_EmptySet
       DEF MemoryOK, Projection, OnRecord, ProvedInTime, FixpointOK, BeliefsOK, RoundOK, InRound, RestOK
<1>3. ASSUME UNCHANGED allVars PROVE MemoryOK'
  <2>1. OnlyLogged
    BY <1>3 DEF allVars, vars, OnlyLogged
  <2> QED
    BY <2>1, MemoryKept
<1> QED
  BY <1>1, <1>2, <1>3, EngineStepMoves, OthersOnlyLog, MemoryKept DEF CompactionNext

-----------------------------------------------------------------------------
(* What the compacted file keeps of the state it was written from.           *)

(***************************************************************************)
(* The file was written of these beliefs and of some resolutions and rules,    *)
(* and if the state was settled, then by these.                              *)
(***************************************************************************)
WrittenOf(bs, ds, settled, file) ==
  \E res \in SUBSET Resolution, rs \in Seq(InputRules) :
    /\ bs \in SUBSET Belief /\ IsFiniteSet(bs)
    /\ IsFiniteSet(res) /\ OnePerAtom(res)
    /\ file = CanonicalOf(bs, res, rs)
    /\ PlainSources /\ settled => Stable(bs, ds, res, Range(rs))

KeptOK ==
  /\ compacting \in {"writing", "complete"} \/ fresh
       => WrittenOf(before.beliefs, before.derivations, before.settled, target \o unwritten)
  /\ fresh => log = target /\ "log" \notin lapses /\ compacting # "writing"

LEMMA InitMemory == CompactionInit => Positive /\ MemoryOK /\ KeptOK
<1> SUFFICES ASSUME CompactionInit PROVE Positive /\ MemoryOK /\ KeptOK
  OBVIOUS
<1>1. Positive
  BY NothingPositive DEF CompactionInit, Init, Positive
<1>2. Projection /\ OnRecord
  BY InitProjection DEF CompactionInit, Init, OnRecord
<1>3. BeliefsProved /\ Grounded
  BY DEF CompactionInit, Init, BeliefsProved, Asserted, Grounded
<1>4. FixpointOK
  <2>1. BeliefsOK
    BY FS_EmptySet DEF CompactionInit, Init, BeliefsOK
  <2>2. RoundOK /\ RestOK
    BY DEF CompactionInit, Init, RoundOK, InRound, RestOK
  <2> QED
    BY <2>1, <2>2 DEF FixpointOK
<1>5. KeptOK
  BY DEF CompactionInit, KeptOK
<1> QED
  BY <1>1, <1>2, <1>3, <1>4, <1>5 DEF MemoryOK, ProvedInTime

\* A write is missed only when it fails.
LEMMA MissedByFailing ==
  ASSUME faults \in Nat, [Next]_vars, faults' = faults, "log" \notin lapses
  PROVE  "log" \notin lapses'
<1>1. faults' # faults + 1
  OBVIOUS
<1>2. ASSUME Call PROVE "log" \notin lapses'
  BY <1>1, <1>2 DEF Call, Ingest, IngestUnlogged, BulkLine, Resolve, ResolveUnlogged, AddRule,
                    AddRuleUnlogged, ReplayFromLog, StartReplay, AppendFails
<1>3. ASSUME BulkEnd \/ ApplyRules \/ Replay \/ Restart PROVE "log" \notin lapses'
  BY <1>3 DEF BulkEnd, ApplyRules, StartRound, EvaluateNextRule, RuleDone, RoundDone, Derive,
              Replay, ReplayRecord, ReplayFails, ReplayDone, Restart, StartReplay
<1> QED
  BY <1>2, <1>3 DEF Next, vars

LEMMA StartKeeps ==
  ASSUME TypesOK, MemoryOK, pc = "idle"
  PROVE  WrittenOf(beliefs, derivations, Settled, Canonical)
<1>1. ASSUME PlainSources, Settled PROVE Stable(beliefs, derivations, resolutions, Range(rules))
  <2>1. UpToDate
    BY <1>1 DEF Settled, UpToDate
  <2> QED
    BY <1>1, <2>1, SettledIsStable
       DEF TypesOK, StateOK, MemoryOK, ProvedInTime, ProofsHold, FixpointOK
<1>2. /\ beliefs \in SUBSET Belief /\ IsFiniteSet(beliefs)
      /\ resolutions \in SUBSET Resolution /\ IsFiniteSet(resolutions) /\ OnePerAtom(resolutions)
      /\ rules \in Seq(InputRules)
  BY CanonicalType
<1>3. Canonical = CanonicalOf(beliefs, resolutions, rules)
  BY CanonicalIsOf
<1> QED
  BY <1>1, <1>2, <1>3 DEF WrittenOf

LEMMA KeptStep == TypesOK /\ WriteOK /\ MemoryOK /\ KeptOK /\ [CompactionNext]_allVars => KeptOK'
<1> SUFFICES ASSUME TypesOK, WriteOK, MemoryOK, KeptOK, [CompactionNext]_allVars PROVE KeptOK'
  OBVIOUS
<1>a. target \in Seq(AnyRecord) /\ unwritten \in Seq(AnyRecord) /\ faults \in Nat
  BY DEF TypesOK, StateOK, Typed, StateType
<1>b. compacting # "writing" => unwritten = << >>
  BY DEF WriteOK, Writing
<1>1. ASSUME NEW onLog \in BOOLEAN, StartCompaction(onLog) PROVE KeptOK'
  <2>1. WrittenOf(beliefs, derivations, Settled, Canonical)
    BY <1>1, StartKeeps DEF StartCompaction
  <2>2. target' \o unwritten' = Canonical
    <3>1. << >> \o Canonical = Canonical
      BY CanonicalType
    <3> QED
      BY <1>1, <3>1 DEF StartCompaction
  <2>3. /\ before'.beliefs = beliefs /\ before'.derivations = derivations
        /\ before'.settled = Settled /\ fresh' = FALSE
    BY <1>1 DEF StartCompaction
  <2> QED
    BY <2>1, <2>2, <2>3 DEF KeptOK
<1>2. ASSUME WriteRecord PROVE KeptOK'
  <2>1. target' \o unwritten' = target \o unwritten
    BY <1>2, <1>a, RecordMoved DEF WriteRecord
  <2> QED
    BY <1>2, <2>1 DEF WriteRecord, KeptOK
<1>3. ASSUME CompactionFails PROVE KeptOK'
  BY <1>3 DEF CompactionFails, KeptOK
<1>4. ASSUME CompactionDone PROVE KeptOK'
  BY <1>4 DEF CompactionDone, KeptOK
<1>5. ASSUME Adopt PROVE KeptOK'
  BY <1>5 DEF Adopt, KeptOK
<1>6. ASSUME Dies PROVE KeptOK'
  <2>1. /\ compacting' # "writing" /\ (compacting' = "complete" => compacting = "complete")
        /\ UNCHANGED <<target, before, fresh>> /\ unwritten' = << >>
        /\ log' = log /\ "log" \notin lapses'
    BY <1>6 DEF Dies, Restart, StartReplay
  <2> QED
    BY <1>b, <2>1 DEF KeptOK
<1>7. ASSUME EngineStep PROVE KeptOK'
  <2>1. [Next]_vars /\ (fresh' => fresh /\ log' = log /\ faults' = faults)
        /\ UNCHANGED <<target, unwritten, compacting, before>>
    BY <1>7 DEF EngineStep, Next, compaction
  <2>2. fresh' /\ "log" \notin lapses => "log" \notin lapses'
    BY <1>a, <2>1, MissedByFailing
  <2> QED
    BY <2>1, <2>2 DEF KeptOK
<1>8. ASSUME UNCHANGED allVars PROVE KeptOK'
  BY <1>8 DEF allVars, vars, compaction, KeptOK
<1> QED
  BY <1>1, <1>2, <1>3, <1>4, <1>5, <1>6, <1>7, <1>8 DEF CompactionNext

CompactionOK == TypesOK /\ WriteOK /\ LogAgrees /\ Positive /\ MemoryOK /\ KeptOK

LEMMA AlwaysOK == CompactionSpec => []CompactionOK
<1>1. MemoryOK => BeliefsOK
  BY DEF MemoryOK, FixpointOK
<1> QED
  BY <1>1, InitAgrees, InitTypes, InitMemory, TypesStep, WriteStep, LogAgreesStep, PositiveStep,
     MemoryStep, KeptStep, PTL DEF CompactionSpec, CompactionOK

LEMMA FileReturns ==
  ASSUME CompactionOK, PlainSources, fresh, before.settled, Settled
  PROVE  beliefs = before.beliefs /\ derivations = before.derivations /\ Canonical = target
<1> DEFINE bs == before.beliefs
           ds == before.derivations
<1>1. TypesOK /\ WriteOK /\ LogAgrees /\ MemoryOK /\ KeptOK
  BY DEF CompactionOK
<1>2. UpToDate /\ pc = "idle" /\ Apart = {} /\ log = target
  BY <1>1 DEF Settled, UpToDate, Apart, KeptOK
<1>3. target \o unwritten = target
  <2>1. unwritten = << >>
    BY <1>1 DEF KeptOK, WriteOK, Writing
  <2>2. target \in Seq(AnyRecord)
    BY <1>1 DEF TypesOK
  <2> QED
    BY <2>1, <2>2
<1>4. PICK res \in SUBSET Resolution, rs \in Seq(InputRules) :
         /\ bs \in SUBSET Belief /\ IsFiniteSet(bs)
         /\ IsFiniteSet(res) /\ OnePerAtom(res)
         /\ target = CanonicalOf(bs, res, rs)
         /\ Stable(bs, ds, res, Range(rs))
  BY <1>1, <1>3 DEF KeptOK, WrittenOf
<1> HIDE DEF bs, ds
<1>5. /\ DataIn(target, "fact") = bs /\ ResolutionsIn(target) = res
      /\ RulesIn(target) = Sorted(rs, RuleLess)
  BY <1>4, CanonicalHolds
<1>6. Base(beliefs) = Base(bs) /\ resolutions = res /\ Reordered(rules, Sorted(rs, RuleLess))
  BY <1>1, <1>2, <1>5 DEF LogAgrees, Agrees, HoldsFacts, Asserted, Base
<1>7. /\ Sorted(rs, RuleLess) \in Seq(InputRules)
      /\ Range(Sorted(rs, RuleLess)) = Range(rs)
      /\ Sorted(Sorted(rs, RuleLess), RuleLess) = Sorted(rs, RuleLess)
  BY SortedRules
<1>8. rules \in Seq(InputRules) /\ beliefs \in SUBSET Belief
  BY <1>1, CanonicalType
<1>9. Range(rules) = Range(rs) /\ Sorted(rules, RuleLess) = Sorted(rs, RuleLess)
  BY <1>6, <1>7, <1>8, ReorderedRange, SameRulesSorted
<1>10. Stable(beliefs, derivations, res, Range(rs))
  <2>1. Stable(beliefs, derivations, resolutions, Range(rules))
    BY <1>1, <1>2, SettledIsStable
       DEF TypesOK, StateOK, MemoryOK, ProvedInTime, ProofsHold, FixpointOK
  <2> QED
    BY <1>6, <1>9, <2>1
<1>11. beliefs = bs /\ derivations = ds
  BY <1>4, <1>6, <1>8, <1>10, OneStable
<1>12. Canonical = target
  BY <1>4, <1>6, <1>9, <1>11, CanonicalIsOf DEF CanonicalOf
<1> QED
  BY <1>11, <1>12 DEF bs, ds

(***************************************************************************)
(* The compacted file stands for the state it was written from: whatever has   *)
(* happened before, however the replay went and in whatever order it read the  *)
(* rules, the application that starts from it comes to the same beliefs by the *)
(* same proofs, if both states are settled and callers' sources are plain.     *)
(***************************************************************************)
THEOREM CompactionLosesNothing == CompactionSpec => []CompactedStateReturns
<1>1. CompactionOK => CompactedStateReturns
  BY FileReturns DEF CompactedStateReturns
<1> QED
  BY <1>1, AlwaysOK, PTL

(***************************************************************************)
(* The file is canonical: written again from the state it gave, it is the same *)
(* sequence of records, so that files can be compared for their states.       *)
(***************************************************************************)
THEOREM CompactionIsCanonical == CompactionSpec => []CompactingTwiceIsOnce
<1>1. CompactionOK => CompactingTwiceIsOnce
  BY FileReturns DEF CompactingTwiceIsOnce
<1> QED
  BY <1>1, AlwaysOK, PTL

-----------------------------------------------------------------------------
(* The codecs: where a decoder finds what was written one after the other.     *)

\* t is in w behind its first k units.
Occurs(w, k, t) ==
  /\ k \in Nat /\ k + Len(t) <= Len(w)
  /\ \A i \in 1 .. Len(t) : w[k + i] = t[i]

LEMMA OccursSplit ==
  ASSUME NEW w \in Seq(Int), NEW s \in Seq(Int), NEW t \in Seq(Int), NEW k, Occurs(w, k, s \o t)
  PROVE  Occurs(w, k, s) /\ Occurs(w, k + Len(s), t)
<1> DEFINE u == s \o t
<1>1. Len(s) \in Nat /\ Len(t) \in Nat /\ Len(u) = Len(s) + Len(t)
  OBVIOUS
<1>2. /\ \A i \in 1 .. Len(s) : u[i] = s[i]
      /\ \A i \in 1 .. Len(t) : u[Len(s) + i] = t[i]
  BY <1>1
<1>3. k \in Nat /\ k + Len(u) <= Len(w) /\ \A i \in 1 .. Len(u) : w[k + i] = u[i]
  BY DEF Occurs
<1> HIDE DEF u
<1>4. Occurs(w, k, s)
  <2>1. Len(w) \in Nat /\ k + Len(s) <= Len(w)
    BY <1>1, <1>3
  <2>2. ASSUME NEW i \in 1 .. Len(s) PROVE w[k + i] = s[i]
    <3>1. i \in 1 .. Len(u)
      BY <1>1
    <3> QED
      BY <1>2, <1>3, <3>1
  <2> QED
    BY <1>3, <2>1, <2>2 DEF Occurs
<1>5. ASSUME NEW i \in 1 .. Len(t) PROVE w[k + Len(s) + i] = t[i]
  <2>1. Len(s) + i \in 1 .. Len(u)
    BY <1>1
  <2>2. w[k + (Len(s) + i)] = t[i]
    BY <1>2, <1>3, <2>1
  <2>3. k + (Len(s) + i) = k + Len(s) + i
    BY <1>1, <1>3
  <2> QED
    BY <2>2, <2>3
<1> QED
  BY <1>1, <1>3, <1>4, <1>5 DEF Occurs

LEMMA OccursWithin ==
  ASSUME NEW w \in Seq(Int), NEW s \in Seq(Int), NEW t \in Seq(Int), NEW k, NEW l,
         Occurs(w, k, s), Occurs(s, l, t)
  PROVE  Occurs(w, k + l, t)
<1>1. Len(s) \in Nat /\ Len(t) \in Nat /\ Len(w) \in Nat
  OBVIOUS
<1>2. /\ k \in Nat /\ k + Len(s) <= Len(w) /\ \A i \in 1 .. Len(s) : w[k + i] = s[i]
      /\ l \in Nat /\ l + Len(t) <= Len(s) /\ \A i \in 1 .. Len(t) : s[l + i] = t[i]
  BY DEF Occurs
<1>3. ASSUME NEW i \in 1 .. Len(t) PROVE w[k + l + i] = t[i]
  <2>1. l + i \in 1 .. Len(s) /\ k + (l + i) = k + l + i
    BY <1>1, <1>2
  <2> QED
    BY <1>2, <2>1
<1> QED
  BY <1>1, <1>2, <1>3 DEF Occurs

LEMMA OccursWhole ==
  ASSUME NEW w \in Seq(Int)
  PROVE  Occurs(w, 0, w)
BY DEF Occurs

\* What stands behind the lists before the i-th.
Behind(f, i) == IF i = 1 THEN 0 ELSE Len(f[i - 1])

LEMMA FlatOccurs ==
  ASSUME NEW seqs \in Seq(Seq(Int)), NEW f, FlatTo(f, seqs, Len(seqs))
  PROVE  \A n \in 1 .. Len(seqs) :
           /\ f[n] \in Seq(Int) /\ Len(f[n]) = Behind(f, n) + Len(seqs[n])
           /\ \A i \in 1 .. n : Occurs(f[n], Behind(f, i), seqs[i])
<1> DEFINE Right(n) == /\ f[n] \in Seq(Int) /\ Len(f[n]) = Behind(f, n) + Len(seqs[n])
                       /\ \A i \in 1 .. n : Occurs(f[n], Behind(f, i), seqs[i])
           none == {n \in 1 .. Len(seqs) : ~Right(n)}
<1> SUFFICES ASSUME none # {} PROVE FALSE
  OBVIOUS
<1>1. none \subseteq Nat
  OBVIOUS
<1>2. PICK n \in none : \A i \in none : n <= i
  BY <1>1, LeastNumber
<1>3. n \in 1 .. Len(seqs) /\ n \in Nat /\ n > 0
  BY <1>2
<1>4. f[n] = IF n = 1 THEN seqs[n] ELSE f[n - 1] \o seqs[n]
  BY <1>3 DEF FlatTo
<1>5. seqs[n] \in Seq(Int)
  BY <1>3
<1>6. CASE n = 1
  <2>1. f[n] \in Seq(Int) /\ Len(f[n]) = Behind(f, n) + Len(seqs[n])
    BY <1>4, <1>5, <1>6 DEF Behind
  <2>2. ASSUME NEW i \in 1 .. n PROVE Occurs(f[n], Behind(f, i), seqs[i])
    BY <1>4, <1>5, <1>6, OccursWhole DEF Behind
  <2> QED
    BY <1>2, <2>1, <2>2
<1>7. CASE n # 1
  <2>1. n - 1 \in 1 .. Len(seqs) /\ n - 1 \notin none
    BY <1>2, <1>3, <1>7
  <2>2. Right(n - 1)
    BY <2>1
  <2> DEFINE s == f[n - 1]
             t == seqs[n]
  <2>3. s \in Seq(Int) /\ t \in Seq(Int) /\ f[n] = s \o t /\ Behind(f, n) = Len(s)
    BY <1>4, <1>5, <1>7, <2>2 DEF Behind
  <2>4. \A i \in 1 .. n - 1 : Occurs(s, Behind(f, i), seqs[i])
    BY <2>2
  <2> HIDE DEF s
  <2>5. f[n] \in Seq(Int) /\ Len(f[n]) = Behind(f, n) + Len(t)
    BY <2>3
  <2>6. Occurs(f[n], 0, s) /\ Occurs(f[n], Len(s), t)
    <3>1. Occurs(f[n], 0, s \o t)
      BY <2>3, <2>5, OccursWhole
    <3>2. 0 + Len(s) = Len(s)
      BY <2>3
    <3>3. Occurs(f[n], 0, s) /\ Occurs(f[n], 0 + Len(s), t)
      <4> HIDE DEF t
      <4> QED
        BY <2>3, <2>5, <3>1, OccursSplit
    <3> QED
      BY <3>2, <3>3
  <2>7. ASSUME NEW i \in 1 .. n PROVE Occurs(f[n], Behind(f, i), seqs[i])
    <3>1. CASE i = n
      BY <2>3, <2>6, <3>1
    <3>2. CASE i # n
      <4>1. Occurs(s, Behind(f, i), seqs[i]) /\ seqs[i] \in Seq(Int)
        BY <1>3, <2>4, <3>2
      <4>2. Occurs(f[n], 0 + Behind(f, i), seqs[i])
        BY <2>3, <2>5, <2>6, <4>1, OccursWithin
      <4>3. 0 + Behind(f, i) = Behind(f, i)
        BY <4>1 DEF Occurs
      <4> QED
        BY <4>2, <4>3
    <3> QED
      BY <3>1, <3>2
  <2> QED
    BY <1>2, <2>5, <2>7
<1> QED
  BY <1>6, <1>7

\* One field that starts at a position.
AfterField(w, at) == IF at < Len(w) THEN at + 1 + w[at] ELSE Len(w) + 2

EndsTo(e, w, from, n) == e = [i \in 0 .. n |-> IF i = 0 THEN from ELSE AfterField(w, e[i - 1])]

LEMMA EndsExist ==
  ASSUME NEW w, NEW from
  PROVE  \A n \in Nat : \E e : EndsTo(e, w, from, n)
<1> DEFINE none == {n \in Nat : ~\E e : EndsTo(e, w, from, n)}
<1> SUFFICES ASSUME none # {} PROVE FALSE
  OBVIOUS
<1>1. PICK n \in none : \A i \in none : n <= i
  BY LeastNumber
<1>2. n \in Nat /\ ~\E e : EndsTo(e, w, from, n)
  BY <1>1
<1>3. n # 0
  <2> DEFINE e == [i \in 0 .. 0 |-> from]
  <2>1. EndsTo(e, w, from, 0)
    <3>1. \A i \in 0 .. 0 : i = 0
      OBVIOUS
    <3>2. e = [i \in 0 .. 0 |-> IF i = 0 THEN from ELSE AfterField(w, e[i - 1])]
      BY <3>1
    <3> QED
      BY <3>2 DEF EndsTo
  <2> QED
    BY <1>2, <2>1
<1>4. n - 1 \in Nat /\ n - 1 \notin none
  BY <1>1, <1>2, <1>3
<1>5. PICK f : EndsTo(f, w, from, n - 1)
  BY <1>4
<1> DEFINE g == [i \in 0 .. n |-> IF i = n THEN AfterField(w, f[n - 1]) ELSE f[i]]
<1>6. ASSUME NEW i \in 0 .. n
      PROVE  g[i] = IF i = 0 THEN from ELSE AfterField(w, g[i - 1])
  <2>1. i > 0 => i - 1 \in 0 .. n /\ i - 1 # n /\ g[i - 1] = f[i - 1]
    BY <1>2
  <2>2. CASE i = n
    BY <1>2, <1>3, <2>1, <2>2
  <2>3. CASE i # n
    <3>1. i \in 0 .. n - 1
      BY <1>2, <2>3
    <3>2. f[i] = IF i = 0 THEN from ELSE AfterField(w, f[i - 1])
      BY <1>5, <3>1 DEF EndsTo
    <3> QED
      BY <1>2, <2>1, <2>3, <3>2
  <2> QED
    BY <2>2, <2>3
<1>7. g = [i \in 0 .. n |-> g[i]]
  OBVIOUS
<1> HIDE DEF g
<1>8. EndsTo(g, w, from, n)
  BY <1>6, <1>7 DEF EndsTo
<1> QED
  BY <1>2, <1>8

\* Each field starts where the one before it ends.
LEMMA EndsGive ==
  ASSUME NEW w, NEW from, NEW count \in Nat
  PROVE  LET e == FieldEnds(w, from, count) IN
         /\ DOMAIN e = 0 .. count /\ e[0] = from
         /\ \A n \in 1 .. count : e[n] = AfterField(w, e[n - 1])
<1> DEFINE e == CHOOSE g : EndsTo(g, w, from, count)
<1>1. EndsTo(e, w, from, count)
  BY EndsExist
<1>2. FieldEnds(w, from, count) = e
  BY DEF FieldEnds, EndsTo, AfterField
<1> HIDE DEF e
<1>3. DOMAIN e = 0 .. count
  BY <1>1 DEF EndsTo
<1>4. \A n \in 0 .. count : e[n] = IF n = 0 THEN from ELSE AfterField(w, e[n - 1])
  BY <1>1 DEF EndsTo
<1>5. \A n \in 1 .. count : n \in 0 .. count /\ n # 0
  OBVIOUS
<1> QED
  BY <1>2, <1>3, <1>4, <1>5

Width(s) == Len(Field(s))

LEMMA FieldType ==
  ASSUME NEW s \in Term
  PROVE  /\ s \in Int /\ Field(s) \in Seq(Int) /\ Width(s) \in Nat /\ Width(s) > 0
         /\ s = Empty => Width(s) = 1
         /\ s # Empty => Width(s) = 2
BY NamesAssumption DEF Term, Field, Width, Empty

\* A field with something behind its length is read for what it is.
LEMMA FieldRead ==
  ASSUME NEW w \in Seq(Int), NEW s \in Term, NEW k \in Nat, Occurs(w, k, Field(s))
  PROVE  /\ (IF w[k + 1] = 0 THEN Empty ELSE w[k + 1 + 1]) = s
         /\ s # Empty \/ k + 1 < Len(w) => AfterField(w, k + 1) = k + Width(s) + 1
         /\ s = Empty /\ k + 1 = Len(w) => AfterField(w, k + 1) = Len(w) + 2
<1>1. Len(w) \in Nat /\ k + Width(s) <= Len(w) /\ \A i \in 1 .. Width(s) : w[k + i] = Field(s)[i]
  BY DEF Occurs, Width
<1>2. CASE s = Empty
  <2>1. Width(s) = 1 /\ w[k + 1] = 0
    BY <1>1, <1>2, FieldType DEF Field
  <2> QED
    BY <1>1, <1>2, <2>1 DEF AfterField
<1>3. CASE s # Empty
  <2>1. Width(s) = 2 /\ w[k + 1] = 1 /\ w[k + 2] = s
    <3>1. Width(s) = 2 /\ Field(s) = <<1, s>>
      BY <1>3, FieldType DEF Field
    <3> QED
      BY <1>1, <3>1
  <2>2. k + 1 + 1 = k + 2 /\ k + 1 < Len(w)
    BY <1>1, <2>1
  <2> QED
    BY <1>1, <1>3, <2>1, <2>2 DEF AfterField
<1> QED
  BY <1>2, <1>3

LEMMA PatternType ==
  ASSUME NEW p \in AtomPattern
  PROVE  /\ p.from \in Term /\ p.pred \in Term /\ p.to \in Term
         /\ p = [from |-> p.from, pred |-> p.pred, to |-> p.to]
         /\ EncodePattern(p) \in Seq(Int)
         /\ Len(EncodePattern(p)) = Width(p.from) + Width(p.pred) + Width(p.to)
         /\ Len(EncodePattern(p)) > 0
<1>1. p.from \in Term /\ p.pred \in Term /\ p.to \in Term
      /\ p = [from |-> p.from, pred |-> p.pred, to |-> p.to]
  BY DEF AtomPattern
<1>2. ASSUME NEW x \in Term, NEW y \in Term, NEW z \in Term
      PROVE  LET t == Field(x) \o Field(y) \o Field(z) IN
             t \in Seq(Int) /\ Len(t) = Width(x) + Width(y) + Width(z) /\ Len(t) > 0
  <2>1. /\ Field(x) \in Seq(Int) /\ Field(y) \in Seq(Int) /\ Field(z) \in Seq(Int)
        /\ Width(x) \in Nat /\ Width(x) > 0 /\ Width(y) \in Nat /\ Width(z) \in Nat
    BY FieldType
  <2>2. ASSUME NEW a \in Seq(Int), NEW b \in Seq(Int), NEW c \in Seq(Int)
        PROVE  a \o b \o c \in Seq(Int) /\ Len(a \o b \o c) = Len(a) + Len(b) + Len(c)
    OBVIOUS
  <2>3. PICK a, b, c : a = Field(x) /\ b = Field(y) /\ c = Field(z)
    OBVIOUS
  <2>4. a \in Seq(Int) /\ b \in Seq(Int) /\ c \in Seq(Int)
    BY <2>1, <2>3
  <2>5. a \o b \o c \in Seq(Int) /\ Len(a \o b \o c) = Len(a) + Len(b) + Len(c)
    BY <2>2, <2>4
  <2>6. Len(a) = Width(x) /\ Len(b) = Width(y) /\ Len(c) = Width(z)
    BY <2>3 DEF Width
  <2> QED
    BY <2>1, <2>3, <2>5, <2>6
<1> QED
  BY <1>1, <1>2 DEF EncodePattern

\* Three fields, one behind the other.
LEMMA ThreeOccur ==
  ASSUME NEW w \in Seq(Int), NEW x \in Term, NEW y \in Term, NEW z \in Term,
         NEW k \in Nat, Occurs(w, k, Field(x) \o Field(y) \o Field(z))
  PROVE  \E l, m \in Nat :
           /\ l = k + Width(x) /\ m = l + Width(y) /\ m + Width(z) <= Len(w)
           /\ k + 1 < Len(w) /\ l + 1 < Len(w)
           /\ Occurs(w, k, Field(x)) /\ Occurs(w, l, Field(y)) /\ Occurs(w, m, Field(z))
<1>1. /\ Field(x) \in Seq(Int) /\ Field(y) \in Seq(Int) /\ Field(z) \in Seq(Int)
      /\ Width(x) \in Nat /\ Width(x) > 0 /\ Width(y) \in Nat /\ Width(y) > 0
      /\ Width(z) \in Nat /\ Width(z) > 0
  BY FieldType
<1>2. PICK a, b, c : a = Field(x) /\ b = Field(y) /\ c = Field(z)
  OBVIOUS
<1>3. a \in Seq(Int) /\ b \in Seq(Int) /\ c \in Seq(Int) /\ Occurs(w, k, (a \o b) \o c)
  BY <1>1, <1>2
<1>4. Len(a) = Width(x) /\ Len(b) = Width(y) /\ Len(c) = Width(z)
  BY <1>2 DEF Width
<1>5. PICK ab : ab = a \o b
  OBVIOUS
<1>6. ab \in Seq(Int) /\ Len(ab) = Len(a) + Len(b)
  <2>1. a \in Seq(Int) /\ b \in Seq(Int)
    BY <1>3
  <2> QED
    BY <1>5, <2>1
<1>7. Occurs(w, k, ab) /\ Occurs(w, k + Len(ab), c)
  BY <1>3, <1>5, <1>6, OccursSplit
<1>8. Occurs(w, k, a) /\ Occurs(w, k + Len(a), b)
  BY <1>3, <1>5, <1>7, OccursSplit
<1> DEFINE l == k + Len(a)
           m == k + Len(ab)
<1>9. l \in Nat /\ m \in Nat /\ l = k + Width(x) /\ m = l + Width(y)
  BY <1>1, <1>4, <1>6, SMTT(60)
<1>10. Len(w) \in Nat /\ m + Width(z) <= Len(w)
  BY <1>4, <1>7 DEF Occurs
<1> HIDE DEF l, m
<1>11. k + 1 < Len(w) /\ l + 1 < Len(w)
  <2>1. ASSUME NEW i \in Nat, NEW j \in Nat, NEW h \in Nat, i > 0, j > 0, h > 0,
               k + i + j + h <= Len(w)
        PROVE  k + 1 < Len(w) /\ k + i + 1 < Len(w)
    BY <1>10, <2>1
  <2>2. k + Width(x) + Width(y) + Width(z) <= Len(w) /\ l = k + Width(x)
    BY <1>9, <1>10
  <2> QED
    BY <1>1, <2>1, <2>2
<1>12. Occurs(w, k, Field(x)) /\ Occurs(w, l, Field(y)) /\ Occurs(w, m, Field(z))
  BY <1>2, <1>7, <1>8 DEF l, m
<1> QED
  BY <1>9, <1>10, <1>11, <1>12

\* Where a decoder that has come to a pattern gets to: behind it, or nowhere
\* if the stream ends with an empty field.
\* A decoder that has read n fields is where p was written, behind k units.
PatternAhead(w, e, count, n, k, p) ==
  /\ w \in Seq(Int) /\ p \in AtomPattern /\ Occurs(w, k, EncodePattern(p))
  /\ count \in Nat /\ \E from : e = FieldEnds(w, from, count)
  /\ n \in Nat /\ n + 3 <= count /\ e[n] = k + 1

PatternTaken(w, e, n, k, p) ==
  /\ AsPattern(FieldsAt(w, e), n) = p
  /\ p.to # Empty \/ k + Len(EncodePattern(p)) < Len(w) => e[n + 3] = k + Len(EncodePattern(p)) + 1
  /\ p.to = Empty /\ k + Len(EncodePattern(p)) = Len(w) => e[n + 3] = Len(w) + 2

LEMMA PatternRead ==
  ASSUME NEW w, NEW p, NEW k, NEW count, NEW e, NEW n, PatternAhead(w, e, count, n, k, p)
  PROVE  PatternTaken(w, e, n, k, p)
<1>1. /\ w \in Seq(Int) /\ p \in AtomPattern /\ Occurs(w, k, EncodePattern(p))
      /\ count \in Nat /\ \E from : e = FieldEnds(w, from, count)
      /\ n \in Nat /\ n + 3 <= count /\ e[n] = k + 1
  BY DEF PatternAhead
<1>2. /\ p.from \in Term /\ p.pred \in Term /\ p.to \in Term
      /\ p = [from |-> p.from, pred |-> p.pred, to |-> p.to]
      /\ Len(EncodePattern(p)) = Width(p.from) + Width(p.pred) + Width(p.to)
  BY <1>1, PatternType
<1>3. /\ DOMAIN e = 0 .. count
      /\ \A i \in 1 .. count : e[i] = AfterField(w, e[i - 1])
  BY <1>1, EndsGive
<1>4. PICK n1, n2, n3 : n1 = n + 1 /\ n2 = n + 2 /\ n3 = n + 3
  OBVIOUS
<1>5. /\ {n1, n2, n3} \subseteq DOMAIN e
      /\ n1 \in 1 .. count /\ n2 \in 1 .. count /\ n3 \in 1 .. count
      /\ n1 - 1 = n /\ n2 - 1 = n1 /\ n3 - 1 = n2
  BY <1>1, <1>3, <1>4
<1>6. e[n1] = AfterField(w, e[n]) /\ e[n2] = AfterField(w, e[n1]) /\ e[n3] = AfterField(w, e[n2])
  BY <1>3, <1>5
<1>7. k \in Nat
  BY <1>1 DEF Occurs
<1>8. PICK x, y, z : x = p.from /\ y = p.pred /\ z = p.to
  OBVIOUS
<1>9. x \in Term /\ y \in Term /\ z \in Term /\ Occurs(w, k, Field(x) \o Field(y) \o Field(z))
  BY <1>1, <1>2, <1>8 DEF EncodePattern
<1>10. PICK l, m \in Nat :
           /\ l = k + Width(x) /\ m = l + Width(y) /\ m + Width(z) <= Len(w)
           /\ k + 1 < Len(w) /\ l + 1 < Len(w)
           /\ Occurs(w, k, Field(x)) /\ Occurs(w, l, Field(y)) /\ Occurs(w, m, Field(z))
  BY <1>1, <1>7, <1>9, ThreeOccur
<1>11. (IF w[e[n]] = 0 THEN Empty ELSE w[e[n] + 1]) = x /\ e[n1] = l + 1
  <2>1. (IF w[k + 1] = 0 THEN Empty ELSE w[k + 1 + 1]) = x /\ AfterField(w, k + 1) = k + Width(x) + 1
    BY <1>7, <1>9, <1>10, <1>1, FieldRead
  <2> QED
    BY <1>1, <1>6, <1>10, <2>1
<1>12. (IF w[e[n1]] = 0 THEN Empty ELSE w[e[n1] + 1]) = y /\ e[n2] = m + 1
  <2>1. (IF w[l + 1] = 0 THEN Empty ELSE w[l + 1 + 1]) = y /\ AfterField(w, l + 1) = l + Width(y) + 1
    BY <1>9, <1>10, <1>1, FieldRead
  <2> QED
    BY <1>6, <1>10, <1>11, <2>1
<1>13. /\ (IF w[e[n2]] = 0 THEN Empty ELSE w[e[n2] + 1]) = z
       /\ z # Empty \/ m + 1 < Len(w) => e[n3] = m + Width(z) + 1
       /\ z = Empty /\ m + 1 = Len(w) => e[n3] = Len(w) + 2
  <2>1. /\ (IF w[m + 1] = 0 THEN Empty ELSE w[m + 1 + 1]) = z
        /\ z # Empty \/ m + 1 < Len(w) => AfterField(w, m + 1) = m + Width(z) + 1
        /\ z = Empty /\ m + 1 = Len(w) => AfterField(w, m + 1) = Len(w) + 2
    BY <1>9, <1>10, <1>1, FieldRead
  <2> QED
    BY <1>6, <1>12, <2>1
<1>14. FieldsAt(w, e)[n1] = x /\ FieldsAt(w, e)[n2] = y /\ FieldsAt(w, e)[n3] = z
  <2>1. /\ n1 \in DOMAIN e \ {0} /\ n2 \in DOMAIN e \ {0} /\ n3 \in DOMAIN e \ {0}
    BY <1>5
  <2> QED
    BY <1>5, <1>11, <1>12, <1>13, <2>1 DEF FieldsAt
<1>15. Len(EncodePattern(p)) = Width(x) + Width(y) + Width(z)
  BY <1>2, <1>8
<1>16. AsPattern(FieldsAt(w, e), n) = p
  BY <1>2, <1>4, <1>8, <1>14 DEF AsPattern
<1>17. k + Len(EncodePattern(p)) = m + Width(z) /\ Width(z) \in Nat /\ Len(w) \in Nat
       /\ (z = Empty => Width(z) = 1) /\ (z # Empty => Width(z) = 2)
  <2>1. Width(x) \in Nat /\ Width(y) \in Nat /\ Width(z) \in Nat
        /\ (z = Empty => Width(z) = 1) /\ (z # Empty => Width(z) = 2)
    BY <1>9, FieldType
  <2>2. ASSUME NEW i \in Nat, NEW j \in Nat, NEW h \in Nat, l = k + i, m = l + j
        PROVE  k + (i + j + h) = m + h
    BY <1>7, <2>2
  <2>3. k + (Width(x) + Width(y) + Width(z)) = m + Width(z)
    BY <1>10, <2>1, <2>2
  <2> QED
    BY <1>15, <2>1, <2>3
<1>18. /\ z # Empty \/ m + Width(z) < Len(w) => e[n3] = m + Width(z) + 1
       /\ z = Empty /\ m + Width(z) = Len(w) => e[n3] = Len(w) + 2
  BY <1>13, <1>17
<1> QED
  BY <1>4, <1>8, <1>16, <1>17, <1>18 DEF PatternTaken

\* The field a stream begins with.
LEMMA FirstRead ==
  ASSUME NEW w \in Seq(Int), NEW s \in Term, NEW k \in Nat, Occurs(w, k, Field(s)), k + Width(s) < Len(w)
  PROVE  \A e : e = FieldEnds(w, k + 1, 1) => e[1] = k + Width(s) + 1 /\ FieldsAt(w, e)[1] = s
<1> SUFFICES ASSUME NEW e, e = FieldEnds(w, k + 1, 1)
             PROVE  e[1] = k + Width(s) + 1 /\ FieldsAt(w, e)[1] = s
  OBVIOUS
<1>1. 1 \in Nat /\ 1 \in 1 .. 1 /\ 1 - 1 = 0
  OBVIOUS
<1>2. DOMAIN e = 0 .. 1 /\ e[0] = k + 1 /\ e[1] = AfterField(w, e[0])
  <2>1. DOMAIN e = 0 .. 1 /\ e[0] = k + 1 /\ \A n \in 1 .. 1 : e[n] = AfterField(w, e[n - 1])
    <3>1. PICK from, one \in Nat : from = k + 1 /\ one = 1
      BY <1>1
    <3>2. e = FieldEnds(w, from, one)
      BY <3>1
    <3>3. DOMAIN e = 0 .. one /\ e[0] = from /\ \A n \in 1 .. one : e[n] = AfterField(w, e[n - 1])
      BY <3>2, EndsGive
    <3> QED
      BY <3>1, <3>3
  <2> QED
    BY <1>1, <2>1
<1>3. k + 1 < Len(w)
  BY FieldType
<1>4. (IF w[k + 1] = 0 THEN Empty ELSE w[k + 1 + 1]) = s /\ AfterField(w, k + 1) = k + Width(s) + 1
  BY <1>3, FieldRead
<1>5. FieldsAt(w, e)[1] = IF w[e[0]] = 0 THEN Empty ELSE w[e[0] + 1]
  BY <1>2 DEF FieldsAt
<1> QED
  BY <1>2, <1>4, <1>5

\* A belief is decoded as what it was, whatever fields are empty: behind each
\* of them comes another, and behind the last the time stamp.
LEMMA BeliefRead ==
  ASSUME NEW b \in [atom : AtomPattern, pol : {"+", "-"}, src : Term, time : Int]
  PROVE  DecodeBelief(EncodeBelief(b)) = {b}
<1>1. PICK w : w = EncodeBelief(b)
  OBVIOUS
<1>2. PICK p \in AtomPattern, s \in Term, t \in Int, u \in {0, 1} :
         p = b.atom /\ s = b.src /\ t = b.time /\ u = Byte(b.pol)
  BY DEF Byte
<1>3. PICK a, c : a = EncodePattern(p) /\ c = Field(s)
  OBVIOUS
<1>4. a \in Seq(Int) /\ c \in Seq(Int) /\ Len(c) = Width(s) /\ <<u>> \in Seq(Int) /\ <<t>> \in Seq(Int)
  BY <1>3, PatternType, FieldType DEF Width
<1>5. w = ((a \o <<u>>) \o c) \o <<t>>
  BY <1>1, <1>2, <1>3 DEF EncodeBelief
<1>6. PICK au, auc : au = a \o <<u>> /\ auc = au \o c
  OBVIOUS
<1>7. /\ au \in Seq(Int) /\ auc \in Seq(Int) /\ w \in Seq(Int)
      /\ Len(a) \in Nat /\ Len(c) \in Nat
      /\ Len(au) = Len(a) + 1 /\ Len(auc) = Len(a) + 1 + Len(c) /\ Len(w) = Len(a) + 1 + Len(c) + 1
  <2>1. au \in Seq(Int) /\ Len(au) = Len(a) + 1 /\ Len(a) \in Nat /\ Len(c) \in Nat
    BY <1>4, <1>6
  <2>2. auc \in Seq(Int) /\ Len(auc) = Len(au) + Len(c)
    <3>1. au \in Seq(Int) /\ c \in Seq(Int)
      BY <1>4, <2>1
    <3> QED
      BY <1>6, <3>1
  <2>3. w \in Seq(Int) /\ Len(w) = Len(auc) + 1
    BY <1>4, <1>5, <1>6, <2>2
  <2> QED
    BY <2>1, <2>2, <2>3
<1>8. Occurs(w, 0, a) /\ Occurs(w, Len(a), <<u>>) /\ Occurs(w, Len(a) + 1, c) /\ Occurs(w, Len(a) + 1 + Len(c), <<t>>)
  <2>1. Occurs(w, 0, auc \o <<t>>)
    BY <1>5, <1>6, <1>7, OccursWhole
  <2>2. Occurs(w, 0, auc) /\ Occurs(w, 0 + Len(auc), <<t>>)
    BY <1>4, <1>7, <2>1, OccursSplit
  <2>3. Occurs(w, 0, au) /\ Occurs(w, 0 + Len(au), c)
    BY <1>4, <1>6, <1>7, <2>2, OccursSplit
  <2>4. Occurs(w, 0, a) /\ Occurs(w, 0 + Len(a), <<u>>)
    BY <1>4, <1>6, <1>7, <2>3, OccursSplit
  <2>5. 0 + Len(auc) = Len(a) + 1 + Len(c) /\ 0 + Len(au) = Len(a) + 1 /\ 0 + Len(a) = Len(a)
    BY <1>7
  <2> QED
    BY <2>2, <2>3, <2>4, <2>5
<1>9. w[Len(a) + 1] = u /\ w[Len(w)] = t
  <2>1. Len(<<u>>) = 1 /\ Len(<<t>>) = 1 /\ 1 \in 1 .. 1 /\ <<u>>[1] = u /\ <<t>>[1] = t
    OBVIOUS
  <2>2. w[Len(a) + 1] = u /\ w[Len(a) + 1 + Len(c) + 1] = t
    BY <1>8, <2>1 DEF Occurs
  <2> QED
    BY <1>7, <2>2
<1>10. PICK e, g : e = FieldEnds(w, 1, 3) /\ g = FieldEnds(w, Len(a) + 1 + 1, 1)
  OBVIOUS
<1>11. AsPattern(FieldsAt(w, e), 0) = p /\ e[3] = Len(a) + 1
  <2>1. e[0] = 0 + 1 /\ 3 \in Nat /\ 0 \in Nat /\ 0 + 3 <= 3
    BY <1>10, EndsGive
  <2>2. Occurs(w, 0, EncodePattern(p)) /\ Len(EncodePattern(p)) = Len(a)
    BY <1>3, <1>8
  <2>3. PICK n, k, count : n = 0 /\ k = 0 /\ count = 3
    OBVIOUS
  <2>4. PatternAhead(w, e, count, n, k, p)
    <3>1. /\ w \in Seq(Int) /\ count \in Nat /\ e = FieldEnds(w, 1, count)
          /\ n \in Nat /\ n + 3 <= count /\ e[n] = k + 1 /\ Occurs(w, k, EncodePattern(p))
      BY <1>7, <1>10, <2>1, <2>2, <2>3
    <3> QED
      BY <3>1 DEF PatternAhead
  <2>5. PatternTaken(w, e, n, k, p)
    BY <2>4, PatternRead
  <2>6. /\ AsPattern(FieldsAt(w, e), n) = p
        /\ k + Len(EncodePattern(p)) < Len(w) => e[n + 3] = k + Len(EncodePattern(p)) + 1
    BY <2>5 DEF PatternTaken
  <2>7. k + Len(EncodePattern(p)) = Len(a) /\ n + 3 = 3
    BY <1>7, <2>2, <2>3
  <2>8. Len(a) < Len(w)
    BY <1>7
  <2>9. AsPattern(FieldsAt(w, e), n) = p /\ e[n + 3] = Len(a) + 1
    BY <2>6, <2>7, <2>8
  <2> QED
    BY <2>3, <2>7, <2>9
<1>12. g[1] = Len(w) /\ FieldsAt(w, g)[1] = s
  <2>1. Len(a) + 1 \in Nat /\ Len(a) + 1 + Width(s) < Len(w) /\ Len(a) + 1 + Width(s) + 1 = Len(w)
    BY <1>4, <1>7
  <2>2. Occurs(w, Len(a) + 1, Field(s))
    BY <1>3, <1>8
  <2>3. PICK k : k = Len(a) + 1
    OBVIOUS
  <2>4. k \in Nat /\ k + Width(s) < Len(w) /\ Occurs(w, k, Field(s)) /\ g = FieldEnds(w, k + 1, 1)
    BY <1>10, <2>1, <2>2, <2>3
  <2>5. g[1] = k + Width(s) + 1 /\ FieldsAt(w, g)[1] = s
    <3>1. w \in Seq(Int) /\ s \in Term
      BY <1>7
    <3> QED
      BY <2>4, <3>1, FirstRead
  <2> QED
    BY <2>1, <2>3, <2>5
<1>13. DecodeBelief(w) = {[atom |-> p, pol |-> IF u = 1 THEN "+" ELSE "-", src |-> s, time |-> t]}
  <2>1. DecodeBelief(w) = {[atom |-> AsPattern(FieldsAt(w, e), 0),
                            pol  |-> IF w[Len(a) + 1] = 1 THEN "+" ELSE "-",
                            src  |-> FieldsAt(w, g)[1],
                            time |-> w[g[1]]] : whole \in {Len(w)} \cap {g[1]}}
    BY <1>11, <1>10 DEF DecodeBelief
  <2> QED
    BY <1>9, <1>11, <1>12, <2>1
<1>14. b = [atom |-> p, pol |-> IF u = 1 THEN "+" ELSE "-", src |-> s, time |-> t]
  BY <1>2 DEF Byte
<1> QED
  BY <1>1, <1>13, <1>14

\* Where each of some lists stands when they are put end to end.
LEMMA FlatPlaces ==
  ASSUME NEW seqs \in Seq(Seq(Int))
  PROVE  \E at \in [1 .. Len(seqs) + 1 -> Nat] :
           /\ FlattenSeq(seqs) \in Seq(Int)
           /\ at[1] = 0 /\ at[Len(seqs) + 1] = Len(FlattenSeq(seqs))
           /\ \A i \in 1 .. Len(seqs) : /\ at[i + 1] = at[i] + Len(seqs[i])
                                       /\ Occurs(FlattenSeq(seqs), at[i], seqs[i])
<1>1. CASE seqs = << >>
  <2>1. FlattenSeq(seqs) = << >> /\ Len(seqs) = 0 /\ Len(<< >>) = 0 /\ << >> \in Seq(Int)
    BY <1>1 DEF FlattenSeq
  <2> DEFINE at == [i \in 1 .. Len(seqs) + 1 |-> 0]
  <2>2. at \in [1 .. Len(seqs) + 1 -> Nat] /\ at[1] = 0 /\ at[Len(seqs) + 1] = 0
        /\ \A i \in 1 .. Len(seqs) : FALSE
    BY <2>1
  <2> HIDE DEF at
  <2> QED
    BY <2>1, <2>2
<1>2. CASE seqs # << >>
  <2>1. PICK f : FlatTo(f, seqs, Len(seqs)) /\ FlattenSeq(seqs) = f[Len(seqs)]
    BY <1>2, FlattenIs
  <2>2. PICK n : n = Len(seqs)
    OBVIOUS
  <2>3. n \in Nat /\ n > 0 /\ n \in 1 .. n
    BY <1>2, <2>2
  <2>4. \A m \in 1 .. n :
           /\ f[m] \in Seq(Int) /\ Len(f[m]) = Behind(f, m) + Len(seqs[m])
           /\ \A i \in 1 .. m : Occurs(f[m], Behind(f, i), seqs[i])
    BY <2>1, <2>2, FlatOccurs
  <2> DEFINE at == [i \in 1 .. n + 1 |-> Behind(f, i)]
  <2>5. ASSUME NEW i \in 1 .. n + 1 PROVE Behind(f, i) \in Nat
    <3>1. CASE i = 1
      BY <3>1 DEF Behind
    <3>2. CASE i # 1
      <4>1. i - 1 \in 1 .. n
        BY <2>3, <3>2
      <4>2. f[i - 1] \in Seq(Int)
        BY <2>4, <4>1
      <4> QED
        BY <3>2, <4>2 DEF Behind
    <3> QED
      BY <3>1, <3>2
  <2>6. at \in [1 .. n + 1 -> Nat]
    BY <2>5
  <2>7. at[1] = 0 /\ at[n + 1] = Len(f[n])
    BY <2>3 DEF Behind
  <2>8. ASSUME NEW i \in 1 .. n
        PROVE  at[i + 1] = at[i] + Len(seqs[i]) /\ Occurs(f[n], at[i], seqs[i])
    <3>1. i \in 1 .. n + 1 /\ i + 1 \in 1 .. n + 1 /\ i + 1 # 1 /\ i + 1 - 1 = i
      BY <2>3
    <3>2. at[i] = Behind(f, i) /\ at[i + 1] = Len(f[i])
      BY <3>1 DEF Behind
    <3> HIDE DEF at
    <3> QED
      BY <2>3, <2>4, <3>2
  <2>9. f[n] \in Seq(Int)
    BY <2>3, <2>4
  <2> HIDE DEF at
  <2> QED
    BY <2>1, <2>2, <2>6, <2>7, <2>8, <2>9
<1> QED
  BY <1>1, <1>2

EncodedIf(prem) == [i \in DOMAIN prem |-> EncodePattern(prem[i])]

\* One of the patterns that were written one behind the other, x from its start.
PremiseAhead(w, e, count, n, k, flat, x, p) ==
  /\ w \in Seq(Int) /\ flat \in Seq(Int) /\ p \in AtomPattern
  /\ k \in Nat /\ Occurs(w, k, flat) /\ k + Len(flat) < Len(w)
  /\ x \in Nat /\ Occurs(flat, x, EncodePattern(p))
  /\ count \in Nat /\ \E from : e = FieldEnds(w, from, count)
  /\ n \in Nat /\ n + 3 <= count /\ e[n] = k + x + 1

LEMMA OnePremise ==
  ASSUME NEW w, NEW e, NEW count, NEW n, NEW k, NEW flat, NEW x, NEW p,
         PremiseAhead(w, e, count, n, k, flat, x, p)
  PROVE  /\ AsPattern(FieldsAt(w, e), n) = p
         /\ e[n + 3] = k + (x + Len(EncodePattern(p))) + 1
<1>1. PICK a, j : a = EncodePattern(p) /\ j = k + x
  OBVIOUS
<1>2. /\ w \in Seq(Int) /\ flat \in Seq(Int) /\ p \in AtomPattern
      /\ k \in Nat /\ Occurs(w, k, flat) /\ k + Len(flat) < Len(w)
      /\ x \in Nat /\ Occurs(flat, x, a)
      /\ count \in Nat /\ \E from : e = FieldEnds(w, from, count)
      /\ n \in Nat /\ n + 3 <= count /\ e[n] = k + x + 1
  BY <1>1 DEF PremiseAhead
<1>3. a \in Seq(Int)
  BY <1>1, <1>2, PatternType
<1>4. Len(a) \in Nat /\ Len(flat) \in Nat /\ Len(w) \in Nat /\ j \in Nat
  BY <1>1, <1>2, <1>3
<1>5. Occurs(w, j, a)
  BY <1>1, <1>2, <1>3, OccursWithin
<1>6. x + Len(a) <= Len(flat)
  BY <1>2 DEF Occurs
<1>7. j + Len(a) < Len(w) /\ j + Len(a) = k + (x + Len(a))
  BY <1>1, <1>2, <1>4, <1>6
<1>8. PatternAhead(w, e, count, n, j, p)
  BY <1>1, <1>2, <1>5 DEF PatternAhead
<1>9. PatternTaken(w, e, n, j, p)
  BY <1>8, PatternRead
<1> QED
  BY <1>1, <1>7, <1>9 DEF PatternTaken

\* The patterns that were written one behind the other, with more behind them.
LEMMA PremisesRead ==
  ASSUME NEW w \in Seq(Int), NEW prem \in Seq(AtomPattern), NEW flat, flat = FlattenSeq(EncodedIf(prem)),
         NEW k \in Nat, Occurs(w, k, flat), k + Len(flat) < Len(w),
         NEW from, NEW count \in Nat, NEW e, e = FieldEnds(w, from, count),
         3 * Len(prem) <= count, e[0] = k + 1
  PROVE  /\ e[3 * Len(prem)] = k + Len(flat) + 1 /\ flat \in Seq(Int)
         /\ \A i \in 1 .. Len(prem) : AsPattern(FieldsAt(w, e), 3 * (i - 1)) = prem[i]
<1>1. PICK n, seqs : n = Len(prem) /\ seqs = EncodedIf(prem)
  OBVIOUS
<1>2. n \in Nat /\ DOMAIN prem = 1 .. n /\ \A i \in 1 .. n : prem[i] \in AtomPattern
  BY <1>1
<1>3. seqs \in Seq(Seq(Int)) /\ Len(seqs) = n /\ \A i \in 1 .. n : seqs[i] = EncodePattern(prem[i])
  <2>1. \A i \in 1 .. n : EncodePattern(prem[i]) \in Seq(Int)
    BY <1>2, PatternType
  <2>2. seqs = [i \in 1 .. n |-> EncodePattern(prem[i])]
    BY <1>1, <1>2 DEF EncodedIf
  <2> QED
    BY <1>2, <2>1, <2>2
<1>4. PICK at \in [1 .. n + 1 -> Nat] :
         /\ flat \in Seq(Int)
         /\ at[1] = 0 /\ at[n + 1] = Len(flat)
         /\ \A i \in 1 .. n : at[i + 1] = at[i] + Len(seqs[i]) /\ Occurs(flat, at[i], seqs[i])
  BY <1>1, <1>3, FlatPlaces
<1>5. ASSUME NEW i \in 1 .. n, e[3 * (i - 1)] = k + at[i] + 1
      PROVE  /\ AsPattern(FieldsAt(w, e), 3 * (i - 1)) = prem[i]
             /\ e[3 * (i - 1) + 3] = k + at[i + 1] + 1
  <2>1. PICK p \in AtomPattern, x \in Nat, y \in Nat : p = prem[i] /\ x = at[i] /\ y = at[i + 1]
    <3>1. prem[i] \in AtomPattern /\ i \in 1 .. n + 1 /\ i + 1 \in 1 .. n + 1
      BY <1>2
    <3>2. at[i] \in Nat /\ at[i + 1] \in Nat
      BY <3>1
    <3> QED
      BY <3>1, <3>2
  <2>2. y = x + Len(EncodePattern(p)) /\ Occurs(flat, x, EncodePattern(p))
    BY <1>3, <1>4, <2>1
  <2>3. PICK m \in Nat : m = 3 * (i - 1)
    <3>1. i \in Nat /\ i - 1 \in Nat
      BY <1>2
    <3>2. 3 * (i - 1) \in Nat
      BY <3>1
    <3> QED
      BY <3>2
  <2>4. m + 3 <= count
    BY <1>1, <1>2, <2>3
  <2>5. e[m] = k + x + 1
    BY <1>5, <2>1, <2>3
  <2>6. PremiseAhead(w, e, count, m, k, flat, x, p)
    <3>1. flat \in Seq(Int)
      BY <1>4
    <3> QED
      BY <2>2, <2>4, <2>5, <3>1 DEF PremiseAhead
  <2>7. AsPattern(FieldsAt(w, e), m) = p /\ e[m + 3] = k + y + 1
    <3>1. AsPattern(FieldsAt(w, e), m) = p /\ e[m + 3] = k + (x + Len(EncodePattern(p))) + 1
      BY <2>6, OnePremise, SMTT(60)
    <3> QED
      BY <2>2, <3>1
  <2> QED
    BY <2>1, <2>3, <2>7
<1>6. \A i \in 0 .. n : e[3 * i] = k + at[i + 1] + 1
  <2> DEFINE none == {i \in 0 .. n : e[3 * i] # k + at[i + 1] + 1}
  <2> SUFFICES ASSUME none # {} PROVE FALSE
    OBVIOUS
  <2>1. none \subseteq Nat
    OBVIOUS
  <2>2. PICK i \in none : \A j \in none : i <= j
    BY <2>1, LeastNumber
  <2>3. i \in 0 .. n /\ i \in Nat /\ e[3 * i] # k + at[i + 1] + 1
    BY <2>2
  <2>4. i # 0
    <3>1. e[3 * 0] = k + at[0 + 1] + 1
      <4>1. 3 * 0 = 0 /\ 0 + 1 = 1 /\ k + 0 + 1 = k + 1
        OBVIOUS
      <4> QED
        BY <1>4, <4>1
    <3> QED
      BY <2>3, <3>1
  <2>5. i \in 1 .. n /\ i - 1 \in 0 .. n /\ i - 1 \notin none /\ i - 1 + 1 = i /\ 3 * (i - 1) + 3 = 3 * i
    <3>1. i \in 1 .. n /\ i - 1 \in 0 .. n /\ i - 1 + 1 = i /\ 3 * (i - 1) + 3 = 3 * i /\ ~(i <= i - 1)
      BY <1>2, <2>3, <2>4
    <3> HIDE DEF none
    <3> QED
      BY <2>2, <3>1
  <2>6. e[3 * (i - 1)] = k + at[i - 1 + 1] + 1
    BY <2>5
  <2>7. e[3 * (i - 1)] = k + at[i] + 1
    BY <2>5, <2>6
  <2>8. e[3 * (i - 1) + 3] = k + at[i + 1] + 1
    BY <1>5, <2>5, <2>7
  <2> QED
    BY <2>3, <2>5, <2>8
<1>7. \A i \in 1 .. n : AsPattern(FieldsAt(w, e), 3 * (i - 1)) = prem[i]
  <2> TAKE i \in 1 .. n
  <2>1. i - 1 \in 0 .. n /\ i - 1 + 1 = i
    BY <1>2
  <2>2. e[3 * (i - 1)] = k + at[i - 1 + 1] + 1
    BY <1>6, <2>1
  <2> QED
    BY <1>5, <2>1, <2>2
<1>8. e[3 * n] = k + Len(flat) + 1
  <2>1. n \in 0 .. n
    BY <1>2
  <2> QED
    BY <1>4, <1>6, <2>1
<1> QED
  BY <1>1, <1>4, <1>7, <1>8

\* A rule is decoded as what it was, however many premises it has and whatever
\* fields of it are empty, but the last: then it is not decoded.
LEMMA RuleRead ==
  ASSUME NEW r \in [name : Token, if : Seq(AtomPattern), then : AtomPattern]
  PROVE  DecodeRule(EncodeRule(r)) = {s \in {r} : Decodable(s)}
<1>1. PICK nm \in Token, prem \in Seq(AtomPattern), p \in AtomPattern, n \in Nat :
         nm = r.name /\ prem = r.if /\ p = r.then /\ n = Len(prem)
  OBVIOUS
<1>2. nm \in Term /\ nm # Empty
  BY NamesAssumption DEF Term, Empty
<1>3. PICK w, a, flat, c : /\ w = EncodeRule(r) /\ a = Field(nm)
                           /\ flat = FlattenSeq(EncodedIf(prem)) /\ c = EncodePattern(p)
  OBVIOUS
<1>4. w = ((a \o <<n>>) \o flat) \o c
  BY <1>1, <1>3 DEF EncodeRule, EncodedIf
<1>5. /\ a \in Seq(Int) /\ c \in Seq(Int) /\ flat \in Seq(Int) /\ <<n>> \in Seq(Int)
      /\ Len(a) = 2 /\ Len(c) \in Nat /\ Len(c) > 0
  <2>1. a \in Seq(Int) /\ Width(nm) = 2
    BY <1>2, <1>3, FieldType
  <2>2. Len(a) = 2
    BY <1>3, <2>1 DEF Width
  <2>3. c \in Seq(Int) /\ Len(c) > 0
    BY <1>3, PatternType
  <2>4. EncodedIf(prem) \in Seq(Seq(Int))
    <3>1. \A i \in 1 .. n : prem[i] \in AtomPattern
      BY <1>1
    <3>2. \A i \in 1 .. n : EncodePattern(prem[i]) \in Seq(Int)
      BY <3>1, PatternType
    <3>3. EncodedIf(prem) = [i \in 1 .. n |-> EncodePattern(prem[i])]
      BY <1>1 DEF EncodedIf
    <3> QED
      BY <3>2, <3>3
  <2>5. flat \in Seq(Int)
    BY <1>3, <2>4, FlatPlaces
  <2> QED
    BY <2>1, <2>2, <2>3, <2>5
<1>6. PICK an, anf : an = a \o <<n>> /\ anf = an \o flat
  OBVIOUS
<1>7. /\ an \in Seq(Int) /\ anf \in Seq(Int) /\ w \in Seq(Int) /\ Len(flat) \in Nat
      /\ Len(an) = 3 /\ Len(anf) = 3 + Len(flat) /\ Len(w) = 3 + Len(flat) + Len(c)
  <2>1. an \in Seq(Int) /\ Len(an) = 3
    <3>1. ASSUME NEW u \in Seq(Int), NEW v \in Seq(Int)
          PROVE  u \o v \in Seq(Int) /\ Len(u \o v) = Len(u) + Len(v)
      OBVIOUS
    <3>2. PICK v : v = <<n>>
      OBVIOUS
    <3>3. v \in Seq(Int) /\ Len(v) = 1 /\ an = a \o v
      BY <1>6, <3>2
    <3>4. an \in Seq(Int) /\ Len(an) = Len(a) + Len(v)
      BY <1>5, <3>1, <3>3
    <3> QED
      BY <1>5, <3>3, <3>4
  <2>2. anf \in Seq(Int) /\ Len(anf) = Len(an) + Len(flat) /\ Len(flat) \in Nat
    <3>1. an \in Seq(Int) /\ flat \in Seq(Int)
      BY <1>5, <2>1
    <3> QED
      BY <1>6, <3>1
  <2>3. w \in Seq(Int) /\ Len(w) = Len(anf) + Len(c)
    <3>1. anf \in Seq(Int) /\ c \in Seq(Int) /\ w = anf \o c
      BY <1>4, <1>5, <1>6, <2>2
    <3> QED
      BY <3>1
  <2> QED
    BY <2>1, <2>2, <2>3
<1>8. Occurs(w, 0, a) /\ Occurs(w, 2, <<n>>) /\ Occurs(w, 3, flat) /\ Occurs(w, 3 + Len(flat), c)
  <2>1. Occurs(w, 0, anf \o c)
    BY <1>4, <1>6, <1>7, OccursWhole
  <2>2. Occurs(w, 0, anf) /\ Occurs(w, 0 + Len(anf), c)
    BY <1>5, <1>7, <2>1, OccursSplit
  <2>3. Occurs(w, 0, an) /\ Occurs(w, 0 + Len(an), flat)
    BY <1>5, <1>6, <1>7, <2>2, OccursSplit
  <2>4. Occurs(w, 0, a) /\ Occurs(w, 0 + Len(a), <<n>>)
    BY <1>5, <1>6, <1>7, <2>3, OccursSplit
  <2>5. 0 + Len(anf) = 3 + Len(flat) /\ 0 + Len(an) = 3 /\ 0 + Len(a) = 2
    BY <1>5, <1>7
  <2> QED
    BY <2>2, <2>3, <2>4, <2>5
<1>9. w[3] = n
  <2>1. Len(<<n>>) = 1 /\ 1 \in 1 .. 1 /\ <<n>>[1] = n /\ 2 + 1 = 3
    OBVIOUS
  <2> QED
    BY <1>8, <2>1 DEF Occurs
<1>10. PICK d : d = FieldEnds(w, 1, 1)
  OBVIOUS
<1>11. d[1] = 3 /\ FieldsAt(w, d)[1] = nm
  <2>1. PICK k \in Nat : k = 0
    OBVIOUS
  <2>2. Width(nm) = 2
    BY <1>2, FieldType
  <2>3. w \in Seq(Int) /\ Occurs(w, k, Field(nm)) /\ k + Width(nm) < Len(w) /\ k + Width(nm) + 1 = 3
        /\ d = FieldEnds(w, k + 1, 1)
    BY <1>3, <1>5, <1>7, <1>8, <1>10, <2>1, <2>2
  <2>4. d[1] = k + Width(nm) + 1 /\ FieldsAt(w, d)[1] = nm
    BY <1>2, <2>3, FirstRead
  <2> QED
    BY <2>3, <2>4
<1>12. PICK count, from, e : /\ count \in Nat /\ count = 3 * (n + 1) /\ from = 4
                            /\ e = FieldEnds(w, from, count)
  OBVIOUS
<1>13. e[0] = 4
  BY <1>12, EndsGive
<1>14. /\ e[3 * n] = 3 + Len(flat) + 1
       /\ \A i \in 1 .. n : AsPattern(FieldsAt(w, e), 3 * (i - 1)) = prem[i]
  <2>1. PICK k \in Nat : k = 3
    OBVIOUS
  <2>2. /\ w \in Seq(Int) /\ Occurs(w, k, flat) /\ k + Len(flat) < Len(w)
        /\ 3 * Len(prem) <= count /\ e[0] = k + 1
    <3>1. w \in Seq(Int) /\ Occurs(w, k, flat)
      BY <1>7, <1>8, <2>1
    <3>2. k + Len(flat) < Len(w)
      BY <1>5, <1>7, <2>1
    <3>3. 3 * Len(prem) <= count /\ e[0] = k + 1
      BY <1>1, <1>12, <1>13, <2>1
    <3> QED
      BY <3>1, <3>2, <3>3
  <2>3. /\ e[3 * Len(prem)] = k + Len(flat) + 1
        /\ \A i \in 1 .. Len(prem) : AsPattern(FieldsAt(w, e), 3 * (i - 1)) = prem[i]
    BY <1>3, <1>12, <2>2, PremisesRead, SMTT(60)
  <2> QED
    BY <1>1, <2>1, <2>3
<1>15. /\ AsPattern(FieldsAt(w, e), 3 * n) = p
       /\ p.to # Empty => e[3 * (n + 1)] = Len(w) + 1
       /\ p.to = Empty => e[3 * (n + 1)] = Len(w) + 2
  <2>1. PICK k \in Nat, m \in Nat : k = 3 + Len(flat) /\ m = 3 * n
    BY <1>7
  <2>2. /\ w \in Seq(Int) /\ Occurs(w, k, EncodePattern(p)) /\ m + 3 <= count /\ e[m] = k + 1
    BY <1>3, <1>7, <1>8, <1>12, <1>14, <2>1
  <2>3. Len(w) = k + Len(EncodePattern(p)) /\ 3 * (n + 1) = m + 3
    BY <1>3, <1>7, <2>1
  <2>4. PatternAhead(w, e, count, m, k, p)
    BY <1>12, <2>2 DEF PatternAhead
  <2>5. PatternTaken(w, e, m, k, p)
    BY <2>4, PatternRead
  <2> QED
    BY <2>1, <2>3, <2>5 DEF PatternTaken
<1> DEFINE decoded == [name |-> FieldsAt(w, d)[1],
                       if   |-> [i \in 1 .. n |-> AsPattern(FieldsAt(w, e), 3 * (i - 1))],
                       then |-> AsPattern(FieldsAt(w, e), 3 * n)]
<1>16. decoded = r
  <2>1. prem = [i \in 1 .. n |-> prem[i]]
    BY <1>1
  <2>2. [i \in 1 .. n |-> AsPattern(FieldsAt(w, e), 3 * (i - 1))] = prem
    BY <1>14, <2>1
  <2>3. decoded = [name |-> nm, if |-> prem, then |-> p]
    BY <1>11, <1>15, <2>2
  <2>4. r = [name |-> r.name, if |-> r.if, then |-> r.then]
    OBVIOUS
  <2> QED
    BY <1>1, <2>3, <2>4
<1>17. DecodeRule(w) = {decoded : whole \in {Len(w) + 1} \cap {e[3 * (n + 1)]}}
  <2>1. w[d[1]] = n /\ d[1] + 1 = 4 /\ 3 * (n + 1) - 3 = 3 * n
    BY <1>9, <1>11
  <2>2. FieldEnds(w, d[1] + 1, 3 * (w[d[1]] + 1)) = e
    BY <1>12, <2>1
  <2> QED
    BY <1>10, <2>1, <2>2 DEF DecodeRule
<1> HIDE DEF decoded
<1>18. CASE p.to = Empty
  <2>1. Len(w) \in Nat /\ {Len(w) + 1} \cap {e[3 * (n + 1)]} = {}
    BY <1>7, <1>15, <1>18
  <2>2. ~Decodable(r)
    BY <1>1, <1>18 DEF Decodable
  <2> QED
    BY <1>3, <1>17, <2>1, <2>2
<1>19. CASE p.to # Empty
  <2>1. {Len(w) + 1} \cap {e[3 * (n + 1)]} = {Len(w) + 1}
    BY <1>15, <1>19
  <2>2. Decodable(r)
    BY <1>1, <1>19 DEF Decodable
  <2> QED
    BY <1>3, <1>16, <1>17, <2>1, <2>2
<1> QED
  BY <1>18, <1>19

(***************************************************************************)
(* Whatever is encoded decodes to itself, with any names, any fields empty and *)
(* any number of premises; only a rule whose conclusion ends with an empty     *)
(* field does not decode at all.  That goes for the rule of any record a       *)
(* compaction is about to write.                                             *)
(***************************************************************************)
THEOREM CodecsAreInverse == CompactionSpec => []CodecsInvert
<1>1. CodecsRecover
  BY CodecAssumption, RuleRead, BeliefRead DEF CodecsRecover, Recovered
<1>2. TypesOK => CodecsInvert
  <2> SUFFICES ASSUME TypesOK, unwritten # << >>, Head(unwritten).type = "rule"
               PROVE  Recovered({Head(unwritten).data}, {})
    BY <1>1 DEF CodecsInvert
  <2>1. Head(unwritten) \in AnyRecord
    BY DEF TypesOK
  <2>2. Head(unwritten).data \in Rule
    BY <2>1, InputAssumption DEF AnyRecord
  <2>3. Head(unwritten).data \in [name : Token, if : Seq(AtomPattern), then : AtomPattern]
    BY <2>2 DEF Rule
  <2> QED
    BY <2>3, RuleRead DEF Recovered
<1>3. CompactionOK => TypesOK
  BY DEF CompactionOK
<1> QED
  BY <1>2, <1>3, AlwaysOK, PTL
=============================================================================
