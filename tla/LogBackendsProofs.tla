------------------------- MODULE LogBackendsProofs -------------------------
(***************************************************************************)
(* Slipstream: keys sort like the numbers they stand for, and the records are  *)
(* numbered without a gap, for any base, width and number of transactions.    *)
(*                                                                          *)
(* LogBackends: the file and the database both keep the promises of LogSpec,  *)
(* step by step.                                                            *)
(***************************************************************************)
EXTENDS LogBackends, WALProofs

-----------------------------------------------------------------------------
(* Numbers.                                                                 *)

LEMMA DivisionAgain ==
  ASSUME NEW x \in Nat, NEW b \in Nat \ {0}, NEW c \in Nat \ {0}
  PROVE  (x \div b) \div c = x \div (c * b)
OBVIOUS

LEMMA DivisionRest ==
  ASSUME NEW x \in Nat, NEW b \in Nat \ {0}
  PROVE  /\ x \div b \in Nat /\ x % b \in 0 .. b - 1
         /\ x = (b * (x \div b)) + (x % b)
<1>1. x \div b \in Nat /\ x % b \in 0 .. b - 1
  OBVIOUS
<1>2. x = (b * (x \div b)) + (x % b)
  OBVIOUS
<1> QED
  BY <1>1, <1>2

LEMMA DivisionMonotone ==
  ASSUME NEW x \in Nat, NEW y \in Nat, NEW b \in Nat \ {0}, x <= y
  PROVE  x \div b <= y \div b
OBVIOUS

LEMMA DivisionSmall ==
  ASSUME NEW x \in Nat, NEW b \in Nat \ {0}, x < b
  PROVE  x \div b = 0 /\ x \div 1 = x
OBVIOUS

-----------------------------------------------------------------------------
(* The places of the digits.                                                *)

PlacesTo(f, n) == f = [i \in 0 .. n |-> IF i = 0 THEN 1 ELSE Base * f[i - 1]]

LEMMA PlacesExist == \A n \in Nat : \E f : PlacesTo(f, n)
<1> DEFINE bad == {n \in Nat : ~ \E f : PlacesTo(f, n)}
<1>1. SUFFICES ASSUME bad # {} PROVE FALSE
  OBVIOUS
<1>2. PICK m \in bad : \A i \in bad : m <= i
  BY <1>1, LeastNumber
<1>3. CASE m = 0
  <2> DEFINE g == [i \in 0 .. 0 |-> 1]
  <2>1. g = [i \in 0 .. 0 |-> IF i = 0 THEN 1 ELSE Base * g[i - 1]]
    OBVIOUS
  <2> HIDE DEF g
  <2>2. PlacesTo(g, 0)
    BY <2>1 DEF PlacesTo
  <2> QED
    BY <1>3, <2>2
<1>4. CASE m # 0
  <2>1. m - 1 \in Nat /\ m \in Nat /\ ~(m <= m - 1)
    BY <1>4
  <2>2. PICK f : PlacesTo(f, m - 1)
    BY <1>2, <2>1
  <2>3. \A i \in 0 .. m - 1 : f[i] = IF i = 0 THEN 1 ELSE Base * f[i - 1]
    BY <2>2 DEF PlacesTo
  <2> DEFINE g == [i \in 0 .. m |-> IF i = m THEN Base * f[m - 1] ELSE f[i]]
  <2>4. \A i \in 0 .. m : g[i] = IF i = 0 THEN 1 ELSE Base * g[i - 1]
    <3> TAKE i \in 0 .. m
    <3>1. CASE i = m
      BY <1>4, <2>1, <3>1
    <3>2. CASE i # m
      <4>1. i \in 0 .. m - 1 /\ g[i] = f[i]
        BY <2>1, <3>2
      <4>2. i # 0 => i - 1 \in 0 .. m /\ i - 1 # m
        BY <2>1, <4>1
      <4> QED
        BY <2>3, <4>1, <4>2
    <3> QED
      BY <3>1, <3>2
  <2>5. g = [i \in 0 .. m |-> g[i]]
    OBVIOUS
  <2> HIDE DEF g
  <2>6. PlacesTo(g, m)
    BY <2>4, <2>5, Zenon DEF PlacesTo
  <2> QED
    BY <2>6
<1> QED
  BY <1>3, <1>4

LEMMA PlaceIs ==
  /\ Width \in Nat /\ Base \in Nat /\ Base > 1
  /\ \A i \in 0 .. Width : Place[i] \in Nat \ {0}
  /\ Place[0] = 1
  /\ \A i \in 1 .. Width : Place[i] = Base * Place[i - 1]
<1>1. Width \in Nat /\ Base \in Nat /\ Base > 1
  BY DbAssumption
<1>2. PlacesTo(Place, Width)
  <2>1. \E f : f = [i \in 0 .. Width |-> IF i = 0 THEN 1 ELSE Base * f[i - 1]]
    BY <1>1, PlacesExist DEF PlacesTo
  <2> QED
    BY <2>1, Zenon DEF PlacesTo, Place
<1>3. \A i \in 0 .. Width : Place[i] = IF i = 0 THEN 1 ELSE Base * Place[i - 1]
  BY <1>2 DEF PlacesTo
<1>4. Place[0] = 1 /\ \A i \in 1 .. Width : Place[i] = Base * Place[i - 1]
  BY <1>1, <1>3
<1>5. \A i \in 0 .. Width : Place[i] \in Nat \ {0}
  <2> DEFINE bad == {i \in 0 .. Width : Place[i] \notin Nat \ {0}}
  <2>1. SUFFICES ASSUME bad # {} PROVE FALSE
    OBVIOUS
  <2>2. PICK m \in bad : \A i \in bad : m <= i
    <3>1. bad \in SUBSET Nat
      BY <1>1
    <3> HIDE DEF bad
    <3> QED
      BY <2>1, <3>1, LeastNumber
  <2>3. m # 0
    BY <1>4
  <2>4. m - 1 \in 0 .. Width /\ m \in 1 .. Width /\ ~(m <= m - 1)
    BY <1>1, <2>3
  <2>5. Place[m - 1] \in Nat \ {0}
    BY <2>2, <2>4
  <2>6. Base * Place[m - 1] \in Nat \ {0}
    BY <1>1, <2>5
  <2> QED
    BY <1>4, <2>4, <2>6
<1> QED
  BY <1>1, <1>4, <1>5

-----------------------------------------------------------------------------
(* Keys sort like numbers.                                                  *)

\* The number that the first i digits of the key stand for.
Leading(n, i) == n \div Place[Width - i]

LEMMA LeadingIs ==
  ASSUME NEW n \in 0 .. MaxTx
  PROVE  /\ n \in Nat
         /\ \A i \in 0 .. Width : Leading(n, i) \in Nat
         /\ Leading(n, 0) = 0 /\ Leading(n, Width) = n
         /\ RecordKey(n) \in [1 .. Width -> 0 .. Base - 1]
         /\ \A i \in 1 .. Width : Leading(n, i) = (Base * Leading(n, i - 1)) + RecordKey(n)[i]
<1>1. n \in Nat /\ n < Place[Width]
  <2>1. MaxTx \in Nat /\ MaxTx < Place[Width]
    BY DbAssumption
  <2>2. Width \in 0 .. Width
    BY PlaceIs
  <2>3. Place[Width] \in Nat
    BY <2>2, PlaceIs
  <2> QED
    BY <2>1, <2>3
<1>2. \A i \in 0 .. Width : Width - i \in 0 .. Width /\ Place[Width - i] \in Nat \ {0}
  BY PlaceIs
<1>3. \A i \in 0 .. Width : Leading(n, i) \in Nat
  BY <1>1, <1>2, DivisionRest DEF Leading
<1>4. Leading(n, 0) = 0 /\ Leading(n, Width) = n
  <2>1. Width - 0 = Width /\ Width - Width = 0 /\ Width \in 0 .. Width /\ 1 \in Nat \ {0}
    BY PlaceIs
  <2>2. Leading(n, 0) = n \div Place[Width] /\ Leading(n, Width) = n \div 1
    BY <2>1, PlaceIs DEF Leading
  <2>3. Place[Width] \in Nat \ {0}
    BY <2>1, PlaceIs
  <2> QED
    BY <1>1, <2>2, <2>3, DivisionSmall
<1>5. ASSUME NEW i \in 1 .. Width
      PROVE  /\ RecordKey(n)[i] = Leading(n, i) % Base
             /\ Leading(n, i - 1) = Leading(n, i) \div Base
  <2>1. RecordKey(n)[i] = Leading(n, i) % Base
    BY DEF RecordKey, Leading
  <2> DEFINE j == Width - i
  <2>2. j \in 0 .. Width /\ Width - (i - 1) = j + 1 /\ j + 1 \in 1 .. Width /\ (j + 1) - 1 = j
    BY PlaceIs
  <2>3. Place[j + 1] = Base * Place[j] /\ Place[j] \in Nat \ {0} /\ Base \in Nat \ {0}
    <3>1. Place[j + 1] = Base * Place[(j + 1) - 1]
      BY <2>2, PlaceIs
    <3> QED
      BY <2>2, <3>1, PlaceIs
  <2>4. (n \div Place[j]) \div Base = n \div (Base * Place[j])
    BY <1>1, <2>3, DivisionAgain
  <2>5. Leading(n, i - 1) = n \div Place[j + 1] /\ Leading(n, i) = n \div Place[j]
    BY <2>2 DEF Leading
  <2> QED
    BY <2>1, <2>3, <2>4, <2>5
<1>6. Base \in Nat \ {0} /\ Width \in Nat
  BY PlaceIs
<1>7. ASSUME NEW i \in 1 .. Width
      PROVE  /\ RecordKey(n)[i] \in 0 .. Base - 1
             /\ Leading(n, i) = (Base * Leading(n, i - 1)) + RecordKey(n)[i]
  <2>1. Leading(n, i) \in Nat
    BY <1>3, <1>6
  <2> QED
    BY <1>5, <1>6, <2>1, DivisionRest
<1>8. RecordKey(n) \in [1 .. Width -> 0 .. Base - 1]
  BY <1>7 DEF RecordKey
<1> QED
  BY <1>1, <1>3, <1>4, <1>7, <1>8

LEMMA KeysAscend ==
  ASSUME NEW m \in 0 .. MaxTx, NEW n \in 0 .. MaxTx, m < n
  PROVE  KeyLess(RecordKey(m), RecordKey(n))
<1> DEFINE differ == {i \in 0 .. Width : Leading(m, i) # Leading(n, i)}
<1>1. Width \in Nat /\ Base \in Nat
  BY PlaceIs
<1>2. m \in Nat /\ n \in Nat /\ Leading(m, 0) = Leading(n, 0) /\ Width \in differ
  BY <1>1, LeadingIs
<1>3. PICK i \in differ : \A j \in differ : i <= j
  <2>1. differ \in SUBSET Nat
    BY <1>1
  <2> HIDE DEF differ
  <2> QED
    BY <1>2, <2>1, LeastNumber
<1>4. i \in 1 .. Width /\ i - 1 \in 0 .. Width
  <2>1. i # 0
    BY <1>2
  <2> QED
    BY <1>1, <2>1
<1>5. \A j \in 0 .. i - 1 : Leading(m, j) = Leading(n, j) /\ Leading(m, j) \in Nat
  <2> TAKE j \in 0 .. i - 1
  <2>1. j \in 0 .. Width /\ ~(i <= j)
    BY <1>1, <1>4
  <2> QED
    BY <1>3, <2>1, LeadingIs
<1>6. /\ RecordKey(m) \in [1 .. Width -> 0 .. Base - 1] /\ RecordKey(n) \in [1 .. Width -> 0 .. Base - 1]
      /\ \A j \in 1 .. Width : /\ Leading(m, j) = Base * Leading(m, j - 1) + RecordKey(m)[j]
                               /\ Leading(n, j) = Base * Leading(n, j - 1) + RecordKey(n)[j]
  BY LeadingIs
<1>7. ASSUME NEW j \in 1 .. i - 1 PROVE RecordKey(m)[j] = RecordKey(n)[j]
  <2>1. j \in 0 .. i - 1 /\ j - 1 \in 0 .. i - 1 /\ j \in 1 .. Width
    BY <1>1, <1>4
  <2>2. Leading(m, j) = Leading(n, j) /\ Leading(m, j - 1) = Leading(n, j - 1) /\ Leading(m, j - 1) \in Nat
    BY <1>5, <2>1
  <2>3. RecordKey(m)[j] \in 0 .. Base - 1 /\ RecordKey(n)[j] \in 0 .. Base - 1
    BY <1>6, <2>1
  <2>4. Base * Leading(m, j - 1) \in Nat
    BY <1>1, <2>2
  <2>5. Base * Leading(m, j - 1) + RecordKey(m)[j] = Base * Leading(m, j - 1) + RecordKey(n)[j]
    BY <1>6, <2>1, <2>2
  <2> QED
    BY <2>3, <2>4, <2>5
<1>8. RecordKey(m)[i] < RecordKey(n)[i]
  <2>1. Leading(m, i) <= Leading(n, i) /\ Leading(m, i) # Leading(n, i)
    <3>1. Width - i \in 0 .. Width
      BY <1>1, <1>4
    <3>2. Place[Width - i] \in Nat \ {0} /\ m <= n
      BY <1>2, <3>1, PlaceIs
    <3> QED
      BY <1>2, <3>2, DivisionMonotone DEF Leading
  <2>2. Leading(m, i - 1) = Leading(n, i - 1) /\ Leading(m, i - 1) \in Nat
    <3>1. i - 1 \in 0 .. i - 1
      BY <1>4
    <3> QED
      BY <1>5, <3>1
  <2>3. Base * Leading(m, i - 1) \in Nat
    BY <1>1, <2>2
  <2>4. RecordKey(m)[i] \in 0 .. Base - 1 /\ RecordKey(n)[i] \in 0 .. Base - 1
    BY <1>4, <1>6
  <2>5. /\ Leading(m, i) = Base * Leading(m, i - 1) + RecordKey(m)[i]
        /\ Leading(n, i) = Base * Leading(m, i - 1) + RecordKey(n)[i]
    BY <1>4, <1>6, <2>2
  <2> QED
    BY <2>1, <2>3, <2>4, <2>5
<1>9. DOMAIN RecordKey(m) = 1 .. Width /\ DOMAIN RecordKey(n) = 1 .. Width
  BY <1>6
<1>10. \A j \in 1 .. i - 1 : j \in 1 .. Width
  BY <1>1, <1>4
<1> HIDE DEF differ
<1> QED
  BY <1>4, <1>7, <1>8, <1>9, <1>10 DEF KeyLess

LEMMA KeyLessIs ==
  ASSUME NEW m \in 0 .. MaxTx, NEW n \in 0 .. MaxTx
  PROVE  KeyLess(RecordKey(m), RecordKey(n)) <=> m < n
<1>1. m \in Nat /\ n \in Nat
  BY LeadingIs
<1> DEFINE k == RecordKey(m)
           l == RecordKey(n)
<1>2. /\ k \in [1 .. Width -> 0 .. Base - 1] /\ l \in [1 .. Width -> 0 .. Base - 1]
      /\ Width \in Nat /\ Base \in Nat
  BY LeadingIs, PlaceIs
<1>3. m < n => KeyLess(k, l)
  BY KeysAscend
<1>4. n < m => KeyLess(l, k)
  BY KeysAscend
<1> HIDE DEF k, l
<1>5. ASSUME KeyLess(k, l), ~(m < n) PROVE FALSE
  <2>1. PICK i \in 1 .. Width : (\A j \in 1 .. i - 1 : k[j] = l[j]) /\ k[i] < l[i]
    BY <1>2, <1>5 DEF KeyLess
  <2>2. CASE m = n
    <3>1. k = l /\ k[i] \in Int
      BY <1>2, <2>2 DEF k, l
    <3> QED
      BY <2>1, <3>1
  <2>3. CASE n < m
    <3>1. PICK h \in 1 .. Width : (\A j \in 1 .. h - 1 : l[j] = k[j]) /\ l[h] < k[h]
      BY <1>2, <1>4, <2>3 DEF KeyLess
    <3>2. k[i] \in Int /\ l[i] \in Int /\ k[h] \in Int /\ l[h] \in Int /\ h \in Int /\ i \in Int
      BY <1>2
    <3>3. CASE h < i
      <4>1. h \in 1 .. i - 1
        BY <3>2, <3>3
      <4> QED
        BY <2>1, <3>1, <3>2, <4>1
    <3>4. CASE i < h
      <4>1. i \in 1 .. h - 1
        BY <3>2, <3>4
      <4> QED
        BY <2>1, <3>1, <3>2, <4>1
    <3>5. CASE i = h
      BY <2>1, <3>1, <3>2, <3>5
    <3> QED
      BY <3>2, <3>3, <3>4, <3>5
  <2> QED
    BY <1>1, <1>5, <2>2, <2>3
<1> QED
  BY <1>3, <1>5 DEF k, l

LEMMA KeysDiffer ==
  ASSUME NEW m \in 0 .. MaxTx, NEW n \in 0 .. MaxTx, RecordKey(m) = RecordKey(n)
  PROVE  m = n
<1>1. m \in Nat /\ n \in Nat
  BY LeadingIs
<1>2. (m < n <=> m < m) /\ (n < m <=> m < m)
  BY KeyLessIs
<1> QED
  BY <1>1, <1>2

LEMMA NoRecordKey ==
  ASSUME NEW n \in 0 .. MaxTx
  PROVE  RecordKey(n) # SeqKey
<1>1. /\ RecordKey(n) \in [1 .. Width -> 0 .. Base - 1] /\ Base \in Nat /\ Width \in Nat
  BY LeadingIs, PlaceIs
<1>2. SUFFICES ASSUME RecordKey(n) = SeqKey PROVE FALSE
  OBVIOUS
<1>3. DOMAIN SeqKey = 1 .. 1 /\ SeqKey[1] = Base
  BY DEF SeqKey
<1>4. 1 \in 1 .. Width
  BY <1>1, <1>2, <1>3
<1>5. RecordKey(n)[1] \in 0 .. Base - 1
  BY <1>1, <1>4
<1> QED
  BY <1>1, <1>2, <1>3, <1>5

KeysTo(c) == {RecordKey(n) : n \in 1 .. c}

LEMMA KeysCounted ==
  ASSUME NEW c \in 0 .. MaxTx
  PROVE  Cardinality(KeysTo(c)) = c
<1>1. MaxTx \in Nat /\ c \in Nat /\ \A n \in 1 .. c : n \in 0 .. MaxTx
  BY DbAssumption
<1> DEFINE key == [n \in 1 .. c |-> RecordKey(n)]
<1>2. key \in [1 .. c -> KeysTo(c)]
  BY DEF KeysTo
<1>3. \A m, n \in 1 .. c : key[m] = key[n] => m = n
  BY <1>1, KeysDiffer
<1>4. \A k \in KeysTo(c) : \E n \in 1 .. c : key[n] = k
  BY DEF KeysTo
<1> HIDE DEF key
<1>5. key \in Bijection(1 .. c, KeysTo(c))
  BY <1>2, <1>3, <1>4, Zenon DEF Bijection, Injection, Surjection, IsInjective
<1>6. ExistsBijection(1 .. c, KeysTo(c))
  BY <1>5 DEF ExistsBijection
<1> QED
  BY <1>1, <1>6, FS_CountingElements

\* Keys and DbEntries, of any database.
KeysIn(db)    == DOMAIN db \ {SeqKey}
EntriesIn(db) == [i \in 1 .. Cardinality(KeysIn(db)) |->
                    db[CHOOSE k \in KeysIn(db) : Cardinality({l \in KeysIn(db) : KeyLess(l, k)}) = i - 1]]

LEMMA EntriesNow ==
  /\ Keys = KeysIn(pairs) /\ Keys' = KeysIn(pairs')
  /\ DbEntries = EntriesIn(pairs) /\ DbEntries' = EntriesIn(pairs')
BY DEF Keys, KeysIn, KeysBefore, DbEntries, EntriesIn

\* The records are read in the order of their numbers.
LEMMA EntriesAre ==
  ASSUME NEW db, NEW c \in 0 .. MaxTx, KeysIn(db) = KeysTo(c)
  PROVE  EntriesIn(db) = [i \in 1 .. c |-> db[RecordKey(i)]]
<1> DEFINE before(k) == {l \in KeysTo(c) : KeyLess(l, k)}
<1>1. MaxTx \in Nat /\ c \in Nat /\ \A n \in 1 .. c : n \in 0 .. MaxTx
  BY DbAssumption
<1>2. Cardinality(KeysTo(c)) = c
  BY KeysCounted
<1>3. ASSUME NEW i \in 1 .. c
      PROVE  Cardinality(before(RecordKey(i))) = i - 1
  <2>1. \A n \in 1 .. c : KeyLess(RecordKey(n), RecordKey(i)) <=> n < i
    BY <1>1, KeyLessIs
  <2>2. before(RecordKey(i)) = KeysTo(i - 1)
    <3>1. \A n \in 1 .. c : n < i <=> n \in 1 .. i - 1
      BY <1>1
    <3>2. \A n \in 1 .. i - 1 : n \in 1 .. c
      BY <1>1
    <3> QED
      BY <2>1, <3>1, <3>2, Zenon DEF KeysTo
  <2>3. i - 1 \in 0 .. MaxTx
    BY <1>1
  <2> QED
    BY <2>2, <2>3, KeysCounted
<1> HIDE DEF before
<1> DEFINE at(i) == CHOOSE k \in KeysTo(c) : Cardinality(before(k)) = i - 1
<1>4. ASSUME NEW i \in 1 .. c PROVE at(i) = RecordKey(i)
  <2>1. RecordKey(i) \in KeysTo(c)
    BY DEF KeysTo
  <2>2. at(i) \in KeysTo(c) /\ Cardinality(before(at(i))) = i - 1
    BY <1>3, <2>1
  <2> HIDE DEF at
  <2>3. PICK n \in 1 .. c : at(i) = RecordKey(n)
    BY <2>2 DEF KeysTo
  <2>4. Cardinality(before(at(i))) = n - 1
    BY <1>3, <2>3
  <2>5. n = i
    BY <2>2, <2>4
  <2> QED
    BY <2>3, <2>5
<1>5. EntriesIn(db) = [i \in 1 .. Cardinality(KeysTo(c)) |-> db[at(i)]]
  BY DEF EntriesIn, before
<1> HIDE DEF at
<1>6. EntriesIn(db) = [i \in 1 .. c |-> db[at(i)]]
  BY <1>2, <1>5
<1> QED
  BY <1>4, <1>6, Zenon

-----------------------------------------------------------------------------
(* The inductive invariant.                                                 *)

Stored(n) == pairs[RecordKey(n)]

\* The records are under 1, 2, 3 and so on, in the order of their calls.
RecordsOK ==
  /\ LastSeq \in 0 .. begun
  /\ Keys = KeysTo(LastSeq)
  /\ \A n \in 1 .. LastSeq : Stored(n) \in 1 .. begun
  /\ \A m, n \in 1 .. LastSeq : m < n => Stored(m) < Stored(n)
  /\ \A e \in dbAcked : \E n \in 1 .. LastSeq : Stored(n) = e

(***************************************************************************)
(* The running Append has read the number that is still the last, has put only *)
(* what it stores, and no record of its call is in the database before the     *)
(* commit.                                                                  *)
(***************************************************************************)
TxOK ==
  /\ tx.at \in {"begun", "record", "seq"}
       => /\ tx.seq = LastSeq + 1 /\ tx.seq <= begun
          /\ \A n \in 1 .. LastSeq : Stored(n) < begun
  /\ tx.at \in {"idle", "begun"} => DOMAIN tx.puts = {}
  /\ tx.at = "record" => DOMAIN tx.puts = {RecordKey(tx.seq)}
  /\ tx.at = "seq" => DOMAIN tx.puts = {RecordKey(tx.seq), SeqKey} /\ tx.puts[SeqKey] = tx.seq
  /\ tx.at \in {"record", "seq"} => tx.puts[RecordKey(tx.seq)] = begun
  /\ tx.at = "committed" => LastSeq > 0 /\ Stored(LastSeq) = begun

\* What is read is in order, and what is committed since comes behind it.
ReadOK ==
  /\ \A i, j \in DOMAIN replayed.got : i < j => replayed.got[i] < replayed.got[j]
  /\ replayed.done => /\ Len(replayed.got) <= LastSeq
                      /\ \A i \in 1 .. Len(replayed.got) : replayed.got[i] = Stored(i)

TxType ==
  /\ tx = [at |-> tx.at, seq |-> tx.seq, puts |-> tx.puts]
  /\ tx.at \in {"idle", "begun", "record", "seq", "committed"}
  /\ replayed = [got |-> replayed.got, done |-> replayed.done]

DbOK == DbTypeOK /\ TxType /\ RecordsOK /\ TxOK /\ ReadOK

LEMMA DbFacts ==
  ASSUME DbOK
  PROVE  /\ LastSeq \in 0 .. MaxTx /\ LastSeq \in Nat /\ begun \in Nat /\ begun <= MaxTx /\ MaxTx \in Nat
         /\ LastSeq <= begun
         /\ \A n \in 1 .. LastSeq : n \in 0 .. MaxTx /\ n \in Nat /\ Stored(n) \in 1 .. MaxTx
         /\ DbEntries = [i \in 1 .. LastSeq |-> Stored(i)]
         /\ DbEntries \in Seq(1 .. MaxTx) /\ Len(DbEntries) = LastSeq
<1>1. LastSeq \in 0 .. begun /\ begun \in 0 .. MaxTx /\ MaxTx \in Nat
  BY DbAssumption DEF DbOK, RecordsOK, DbTypeOK
<1>2. \A n \in 1 .. LastSeq : n \in 0 .. MaxTx /\ n \in Nat /\ Stored(n) \in 1 .. MaxTx
  <2> TAKE n \in 1 .. LastSeq
  <2>1. Stored(n) \in 1 .. begun
    BY DEF DbOK, RecordsOK
  <2> QED
    BY <1>1, <2>1
<1>3. LastSeq \in 0 .. MaxTx /\ LastSeq \in Nat
  BY <1>1
<1>4. DbEntries = [i \in 1 .. LastSeq |-> Stored(i)]
  <2>1. KeysIn(pairs) = KeysTo(LastSeq)
    BY EntriesNow DEF DbOK, RecordsOK
  <2>2. EntriesIn(pairs) = [i \in 1 .. LastSeq |-> pairs[RecordKey(i)]]
    <3> HIDE DEF LastSeq
    <3> QED
      BY <1>3, <2>1, EntriesAre
  <2> QED
    BY <2>2, EntriesNow, Zenon DEF Stored
<1>5. DbEntries \in Seq(1 .. MaxTx) /\ Len(DbEntries) = LastSeq
  <2>1. [i \in 1 .. LastSeq |-> Stored(i)] \in [1 .. LastSeq -> 1 .. MaxTx]
    BY <1>2
  <2> QED
    BY <1>3, <1>4, <2>1
<1> QED
  BY <1>1, <1>2, <1>3, <1>4, <1>5

\* A commit stores the record under the next number and that number as the last.
LEMMA Committed ==
  ASSUME DbOK, tx.at = "seq", pairs' = With(tx.puts, pairs)
  PROVE  /\ LastSeq' = LastSeq + 1 /\ LastSeq + 1 \in 0 .. begun /\ LastSeq + 1 \in 0 .. MaxTx
         /\ Keys' = KeysTo(LastSeq + 1)
         /\ \A n \in 1 .. LastSeq : pairs'[RecordKey(n)] = Stored(n) /\ Stored(n) < begun
         /\ pairs'[RecordKey(LastSeq + 1)] = begun
         /\ DOMAIN pairs' = DOMAIN pairs \cup {RecordKey(LastSeq + 1), SeqKey}
         /\ pairs'[SeqKey] = LastSeq + 1
<1> DEFINE c == LastSeq
           key == RecordKey(c + 1)
<1>1. /\ tx.seq = c + 1 /\ c + 1 <= begun /\ \A n \in 1 .. c : Stored(n) < begun
      /\ DOMAIN tx.puts = {key, SeqKey} /\ tx.puts[SeqKey] = c + 1 /\ tx.puts[key] = begun
      /\ Keys = KeysTo(c)
  BY DEF DbOK, TxOK, RecordsOK
<1>2. c \in Nat /\ c + 1 \in 0 .. MaxTx /\ c + 1 \in 0 .. begun /\ \A n \in 1 .. c : n \in 0 .. MaxTx /\ n # c + 1
  <2>1. c \in Nat /\ begun \in Nat /\ begun <= MaxTx /\ MaxTx \in Nat /\ c <= begun
    BY DbFacts
  <2> HIDE DEF c
  <2> QED
    BY <1>1, <2>1
<1> HIDE DEF c
<1>3. key # SeqKey /\ \A n \in 1 .. c : RecordKey(n) # SeqKey /\ RecordKey(n) # key
  BY <1>2, NoRecordKey, KeysDiffer
<1>4. /\ DOMAIN pairs' = {key, SeqKey} \cup DOMAIN pairs
      /\ pairs'[SeqKey] = c + 1 /\ pairs'[key] = begun
      /\ \A k \in DOMAIN pairs \ {key, SeqKey} : pairs'[k] = pairs[k]
  <2> HIDE DEF key
  <2> QED
    BY <1>1, <1>3 DEF With
<1>5. \A n \in 1 .. c : RecordKey(n) \in DOMAIN pairs
  BY <1>1 DEF KeysTo, Keys
<1>6. \A n \in 1 .. c : pairs'[RecordKey(n)] = pairs[RecordKey(n)]
  BY <1>3, <1>4, <1>5
<1>7. LastSeq' = c + 1
  BY <1>4 DEF LastSeq
<1>8. Keys' = KeysTo(c + 1)
  <2>1. Keys' = KeysTo(c) \cup {key}
    <3>1. Keys' = ({key, SeqKey} \cup DOMAIN pairs) \ {SeqKey}
      BY <1>4 DEF Keys
    <3>2. DOMAIN pairs \ {SeqKey} = KeysTo(c)
      BY <1>1 DEF Keys
    <3> HIDE DEF key
    <3> QED
      BY <1>3, <3>1, <3>2
  <2>2. 1 .. c + 1 = (1 .. c) \cup {c + 1}
    BY <1>2
  <2>3. KeysTo(c + 1) = KeysTo(c) \cup {key}
    BY <2>2, Zenon DEF KeysTo
  <2> QED
    BY <2>1, <2>3
<1> QED
  BY <1>1, <1>2, <1>4, <1>6, <1>7, <1>8 DEF c, Stored

-----------------------------------------------------------------------------
(* Every step keeps the invariant.                                          *)

LEMMA PairsKept ==
  ASSUME DbOK, UNCHANGED pairs
  PROVE  /\ LastSeq' = LastSeq /\ Keys' = Keys /\ DbEntries' = DbEntries
         /\ \A n : Stored(n)' = Stored(n)
         /\ (begun' = begun \/ begun' = begun + 1) /\ UNCHANGED dbAcked => RecordsOK'
         /\ UNCHANGED replayed => ReadOK'
<1>1. LastSeq' = LastSeq /\ Keys' = Keys /\ DbEntries' = DbEntries /\ \A n : Stored(n)' = Stored(n)
  BY EntriesNow DEF LastSeq, Stored
<1>2. RecordsOK /\ ReadOK /\ begun \in Nat /\ LastSeq \in Nat
  BY DbFacts DEF DbOK
<1>3. ASSUME begun' = begun \/ begun' = begun + 1, UNCHANGED dbAcked PROVE RecordsOK'
  <2>1. LastSeq' \in 0 .. begun'
    BY <1>1, <1>2, <1>3 DEF RecordsOK
  <2>2. \A n \in 1 .. LastSeq : Stored(n) \in 1 .. begun'
    BY <1>2, <1>3 DEF RecordsOK
  <2> QED
    BY <1>1, <1>2, <1>3, <2>1, <2>2 DEF RecordsOK, Stored
<1>4. ASSUME UNCHANGED replayed PROVE ReadOK'
  BY <1>1, <1>2, <1>4 DEF ReadOK, Stored
<1> QED
  BY <1>1, <1>3, <1>4

LEMMA DbInitOK == DbInit => DbOK
<1> SUFFICES ASSUME DbInit PROVE DbOK
  OBVIOUS
<1>1. /\ pairs = << >> /\ begun = 0 /\ dbAcked = {} /\ dbFaults = 0 /\ dbReopens = 0
      /\ tx = [at |-> "idle", seq |-> 0, puts |-> << >>]
      /\ replayed = [got |-> << >>, done |-> FALSE]
  BY DEF DbInit, NoTx
<1>2. dbOpen \in BOOLEAN /\ replayed.done \in BOOLEAN /\ ~replayed.done
  BY DEF DbInit
<1>3. tx.at = "idle" /\ tx.seq = 0 /\ tx.puts = << >> /\ replayed.got = << >>
  BY <1>1
<1>4. DbTypeOK
  BY <1>1, <1>2, <1>3, DbAssumption DEF DbTypeOK
<1>5. TxType
  <2>1. replayed = [got |-> replayed.got, done |-> replayed.done]
    BY DEF DbInit
  <2> QED
    BY <1>1, <1>3, <2>1 DEF TxType
<1>6. LastSeq = 0
  BY <1>1 DEF LastSeq
<1>7. Keys = KeysTo(0)
  BY <1>1 DEF Keys, KeysTo
<1>8. RecordsOK
  BY <1>1, <1>6, <1>7 DEF RecordsOK
<1>9. TxOK
  BY <1>3 DEF TxOK
<1>10. ReadOK
  BY <1>2, <1>3 DEF ReadOK
<1> QED
  BY <1>4, <1>5, <1>8, <1>9, <1>10 DEF DbOK

LEMMA TxIdle ==
  ASSUME tx' = NoTx
  PROVE  /\ tx'.at = "idle" /\ tx'.seq = 0 /\ DOMAIN tx'.puts = {}
         /\ tx' = [at |-> tx'.at, seq |-> tx'.seq, puts |-> tx'.puts]
         /\ TxOK'
<1>1. /\ tx'.at = "idle" /\ tx'.seq = 0 /\ DOMAIN tx'.puts = {}
      /\ tx' = [at |-> tx'.at, seq |-> tx'.seq, puts |-> tx'.puts]
  BY DEF NoTx
<1> QED
  BY <1>1 DEF TxOK

LEMMA BeginKeeps ==
  ASSUME DbOK, BeginTx
  PROVE  DbOK'
<1>1. /\ begun < MaxTx /\ begun' = begun + 1 /\ tx.at = "idle"
      /\ UNCHANGED <<pairs, dbAcked, dbOpen, replayed, dbReopens>>
      /\ \/ tx' = [at |-> "begun", seq |-> LastSeq + 1, puts |-> << >>] /\ UNCHANGED dbFaults
         \/ DbFault /\ UNCHANGED tx
  BY DEF BeginTx
<1>2. DbTypeOK /\ TxType /\ RecordsOK /\ TxOK
  BY DEF DbOK
<1>3. /\ LastSeq \in Nat /\ begun \in Nat /\ MaxTx \in Nat /\ LastSeq <= begun
  BY DbFacts
<1>4. /\ LastSeq' = LastSeq /\ RecordsOK' /\ ReadOK' /\ \A n : Stored(n)' = Stored(n)
  BY <1>1, PairsKept
<1>5. dbFaults' \in 0 .. MaxDbFaults
  <2>1. dbFaults \in 0 .. MaxDbFaults
    BY <1>2 DEF DbTypeOK
  <2> QED
    BY <1>1, <2>1, DbAssumption DEF DbFault
<1>6. TxType' /\ TxOK' /\ tx'.seq \in 0 .. MaxTx
  <2>1. CASE tx' = [at |-> "begun", seq |-> LastSeq + 1, puts |-> << >>]
    <3>1. /\ tx'.at = "begun" /\ tx'.seq = LastSeq + 1 /\ DOMAIN tx'.puts = {}
          /\ tx' = [at |-> tx'.at, seq |-> tx'.seq, puts |-> tx'.puts]
      BY <2>1
    <3>2. LastSeq + 1 \in 0 .. MaxTx /\ LastSeq + 1 <= begun'
      BY <1>1, <1>3
    <3>3. \A n \in 1 .. LastSeq : Stored(n) < begun'
      <4> TAKE n \in 1 .. LastSeq
      <4>1. Stored(n) \in 1 .. begun
        BY <1>2 DEF RecordsOK
      <4> QED
        BY <1>1, <1>3, <4>1
    <3> QED
      BY <1>1, <1>2, <1>4, <3>1, <3>2, <3>3 DEF TxType, TxOK, Stored
  <2>2. CASE tx' = tx
    BY <1>1, <1>2, <2>2 DEF TxType, TxOK, DbTypeOK
  <2> QED
    BY <1>1, <2>1, <2>2
<1>7. DbTypeOK'
  <2>1. begun' \in 0 .. MaxTx /\ \A e \in dbAcked : e \in 1 .. begun'
    BY <1>1, <1>2, <1>3 DEF DbTypeOK
  <2> QED
    BY <1>1, <1>2, <1>5, <1>6, <2>1 DEF DbTypeOK, TxType
<1> QED
  BY <1>4, <1>6, <1>7 DEF DbOK

LEMMA FaultCounted ==
  ASSUME DbOK, DbFault \/ UNCHANGED dbFaults
  PROVE  dbFaults' \in 0 .. MaxDbFaults
<1>1. dbFaults \in 0 .. MaxDbFaults
  BY DEF DbOK, DbTypeOK
<1> QED
  BY <1>1, DbAssumption DEF DbFault

\* A transaction that is rolled back leaves the database as it was.
LEMMA RollbackKeeps ==
  ASSUME DbOK, Rollback, DbFault, UNCHANGED <<begun, dbAcked, dbOpen, replayed, dbReopens>>
  PROVE  DbOK'
<1>1. DbTypeOK /\ TxType /\ tx' = NoTx /\ UNCHANGED pairs
  BY DEF DbOK, Rollback
<1>2. TxOK' /\ tx'.at = "idle" /\ tx'.seq = 0 /\ tx' = [at |-> tx'.at, seq |-> tx'.seq, puts |-> tx'.puts]
  BY <1>1, TxIdle
<1>3. RecordsOK' /\ ReadOK'
  BY <1>1, PairsKept
<1>4. dbFaults' \in 0 .. MaxDbFaults
  BY FaultCounted
<1>5. DbTypeOK' /\ TxType'
  BY <1>1, <1>2, <1>4, DbAssumption DEF DbTypeOK, TxType
<1> QED
  BY <1>2, <1>3, <1>5 DEF DbOK

LEMMA PutKeeps ==
  ASSUME DbOK, PutRecord \/ PutSeq
  PROVE  DbOK'
<1>1. DbTypeOK /\ TxType /\ TxOK /\ UNCHANGED <<begun, dbAcked, dbOpen, replayed, dbReopens>>
  BY DEF DbOK, PutRecord, PutSeq, Put
<1>2. CASE Rollback /\ DbFault
  BY <1>1, <1>2, RollbackKeeps
<1>3. CASE ~(Rollback /\ DbFault)
  <2> DEFINE key == RecordKey(tx.seq)
  <2>1. UNCHANGED <<pairs, dbFaults>>
    BY <1>3 DEF PutRecord, PutSeq, Put
  <2>2. \/ /\ tx.at = "begun"
           /\ tx' = [tx EXCEPT !.at = "record", !.puts = With([k \in {key} |-> begun], tx.puts)]
        \/ /\ tx.at = "record"
           /\ tx' = [tx EXCEPT !.at = "seq", !.puts = With([k \in {SeqKey} |-> tx.seq], tx.puts)]
    BY <1>3 DEF PutRecord, PutSeq, Put
  <2>3. RecordsOK' /\ ReadOK' /\ LastSeq' = LastSeq /\ \A n : Stored(n)' = Stored(n)
    BY <1>1, <2>1, PairsKept
  <2>4. tx.seq = LastSeq + 1 /\ tx.seq <= begun /\ \A n \in 1 .. LastSeq : Stored(n) < begun
    BY <1>1, <2>2 DEF TxOK
  <2>5. key # SeqKey
    <3>1. tx.seq \in 0 .. MaxTx
      BY <1>1 DEF DbTypeOK
    <3> QED
      BY <3>1, NoRecordKey
  <2> HIDE DEF key
  <2>6. CASE /\ tx.at = "begun"
             /\ tx' = [tx EXCEPT !.at = "record", !.puts = With([k \in {key} |-> begun], tx.puts)]
    <3>1. /\ tx'.at = "record" /\ tx'.seq = tx.seq /\ tx'.puts = With([k \in {key} |-> begun], tx.puts)
          /\ tx' = [at |-> tx'.at, seq |-> tx'.seq, puts |-> tx'.puts]
      BY <1>1, <2>6 DEF TxType
    <3>2. DOMAIN tx'.puts = {key} /\ tx'.puts[key] = begun
      <4>1. DOMAIN tx.puts = {}
        BY <1>1, <2>6 DEF TxOK
      <4>2. DOMAIN tx'.puts = DOMAIN tx.puts \cup {key} /\ tx'.puts[key] = begun
        BY <3>1 DEF With
      <4> QED
        BY <4>1, <4>2
    <3>3. TxOK'
      BY <1>1, <2>3, <2>4, <3>1, <3>2 DEF TxOK, key, Stored
    <3>4. DbTypeOK' /\ TxType'
      BY <1>1, <2>1, <3>1 DEF DbTypeOK, TxType
    <3> QED
      BY <2>3, <3>3, <3>4 DEF DbOK
  <2>7. CASE /\ tx.at = "record"
             /\ tx' = [tx EXCEPT !.at = "seq", !.puts = With([k \in {SeqKey} |-> tx.seq], tx.puts)]
    <3>1. /\ tx'.at = "seq" /\ tx'.seq = tx.seq /\ tx'.puts = With([k \in {SeqKey} |-> tx.seq], tx.puts)
          /\ tx' = [at |-> tx'.at, seq |-> tx'.seq, puts |-> tx'.puts]
      BY <1>1, <2>7 DEF TxType
    <3>2. DOMAIN tx'.puts = {key, SeqKey} /\ tx'.puts[key] = begun /\ tx'.puts[SeqKey] = tx.seq
      <4>1. DOMAIN tx.puts = {key} /\ tx.puts[key] = begun
        BY <1>1, <2>7 DEF TxOK, key
      <4>2. /\ DOMAIN tx'.puts = DOMAIN tx.puts \cup {SeqKey} /\ tx'.puts[SeqKey] = tx.seq
            /\ \A k \in DOMAIN tx.puts \ {SeqKey} : tx'.puts[k] = tx.puts[k]
        BY <3>1 DEF With
      <4> QED
        BY <2>5, <4>1, <4>2
    <3>3. TxOK'
      BY <1>1, <2>3, <2>4, <3>1, <3>2 DEF TxOK, key, Stored
    <3>4. DbTypeOK' /\ TxType'
      BY <1>1, <2>1, <3>1 DEF DbTypeOK, TxType
    <3> QED
      BY <2>3, <3>3, <3>4 DEF DbOK
  <2> QED
    BY <2>2, <2>6, <2>7
<1> QED
  BY <1>2, <1>3

LEMMA CommitKeeps ==
  ASSUME DbOK, Commit
  PROVE  DbOK'
<1>1. /\ DbTypeOK /\ TxType /\ TxOK /\ RecordsOK /\ ReadOK /\ tx.at = "seq"
      /\ UNCHANGED <<begun, dbAcked, dbOpen, replayed, dbReopens>>
  BY DEF DbOK, Commit
<1>2. CASE Rollback /\ DbFault
  BY <1>1, <1>2, RollbackKeeps
<1>3. CASE ~(Rollback /\ DbFault)
  <2>1. /\ pairs' = With(tx.puts, pairs)
        /\ \/ tx' = [tx EXCEPT !.at = "committed"] /\ UNCHANGED dbFaults
           \/ tx' = NoTx /\ DbFault
    BY <1>3 DEF Commit
  <2> DEFINE c == LastSeq
  <2>2. /\ LastSeq' = c + 1 /\ c + 1 \in 0 .. begun /\ c + 1 \in 0 .. MaxTx
        /\ Keys' = KeysTo(c + 1)
        /\ \A n \in 1 .. c : pairs'[RecordKey(n)] = Stored(n) /\ Stored(n) < begun
        /\ pairs'[RecordKey(c + 1)] = begun
        /\ DOMAIN pairs' = DOMAIN pairs \cup {RecordKey(c + 1), SeqKey}
        /\ pairs'[SeqKey] = c + 1
    BY <1>1, <2>1, Committed
  <2>3. c \in Nat /\ begun \in Nat /\ begun <= MaxTx /\ MaxTx \in Nat
    BY DbFacts
  <2>4. /\ \A n \in 1 .. c : Stored(n) \in 1 .. begun
        /\ \A m, n \in 1 .. c : m < n => Stored(m) < Stored(n)
        /\ \A e \in dbAcked : \E n \in 1 .. c : Stored(n) = e
    BY <1>1 DEF RecordsOK
  <2>5. \A n \in 1 .. c + 1 : n \in 1 .. c \/ n = c + 1
    <3> HIDE DEF c
    <3> QED
      BY <2>3
  <2> HIDE DEF c
  <2>6. RecordsOK'
    <3>1. \A n \in 1 .. c + 1 : pairs'[RecordKey(n)] \in 1 .. begun
      BY <2>2, <2>3, <2>4, <2>5
    <3>2. ASSUME NEW m \in 1 .. c + 1, NEW n \in 1 .. c + 1, m < n
          PROVE  pairs'[RecordKey(m)] < pairs'[RecordKey(n)]
      <4>1. m \in 1 .. c
        BY <2>3, <3>2
      <4>2. CASE n = c + 1
        BY <2>2, <4>1, <4>2
      <4>3. CASE n \in 1 .. c
        BY <2>2, <2>4, <3>2, <4>1, <4>3
      <4> QED
        BY <2>5, <4>2, <4>3
    <3>3. ASSUME NEW e \in dbAcked PROVE \E n \in 1 .. c + 1 : pairs'[RecordKey(n)] = e
      <4>1. PICK n \in 1 .. c : Stored(n) = e
        BY <2>4
      <4>2. n \in 1 .. c + 1
        BY <2>3
      <4> QED
        BY <2>2, <4>1, <4>2
    <3> QED
      BY <1>1, <2>2, <3>1, <3>2, <3>3 DEF RecordsOK, Stored
  <2>7. ReadOK'
    <3>1. ASSUME replayed.done
          PROVE  /\ Len(replayed.got) <= c + 1
                 /\ \A k \in 1 .. Len(replayed.got) : replayed.got[k] = pairs'[RecordKey(k)]
      <4>1. /\ Len(replayed.got) <= c /\ Len(replayed.got) \in Nat
            /\ \A k \in 1 .. Len(replayed.got) : replayed.got[k] = Stored(k)
        BY <1>1, <3>1 DEF ReadOK, DbTypeOK, c
      <4>2. \A k \in 1 .. Len(replayed.got) : k \in 1 .. c
        BY <2>3, <4>1
      <4> QED
        BY <2>2, <2>3, <4>1, <4>2
    <3> QED
      BY <1>1, <2>2, <3>1 DEF ReadOK, Stored
  <2>8. \A k \in DOMAIN pairs' : pairs'[k] \in 0 .. MaxTx
    <3> TAKE k \in DOMAIN pairs'
    <3>1. CASE k = SeqKey
      BY <2>2, <3>1
    <3>2. CASE k # SeqKey
      <4>1. k \in Keys'
        BY <3>2 DEF Keys
      <4>2. PICK n \in 1 .. c + 1 : k = RecordKey(n)
        BY <2>2, <4>1 DEF KeysTo
      <4>3. pairs'[k] \in 1 .. begun
        BY <2>2, <2>3, <2>4, <2>5, <4>2
      <4> QED
        BY <2>3, <4>3
    <3> QED
      BY <3>1, <3>2
  <2>9. dbFaults' \in 0 .. MaxDbFaults
    BY <2>1, FaultCounted
  <2>10. TxOK' /\ TxType' /\ tx'.seq \in 0 .. MaxTx
    <3>1. CASE tx' = [tx EXCEPT !.at = "committed"]
      <4>1. /\ tx'.at = "committed" /\ tx'.seq = tx.seq
            /\ tx' = [at |-> tx'.at, seq |-> tx'.seq, puts |-> tx'.puts]
        BY <1>1, <3>1 DEF TxType
      <4>2. c + 1 > 0
        BY <2>3
      <4> QED
        BY <1>1, <2>2, <4>1, <4>2 DEF TxOK, TxType, Stored, DbTypeOK
    <3>2. CASE tx' = NoTx
      BY <1>1, <2>3, <3>2, TxIdle DEF TxType
    <3> QED
      BY <2>1, <3>1, <3>2
  <2>11. DbTypeOK'
    BY <1>1, <2>8, <2>9, <2>10 DEF DbTypeOK, TxType
  <2> QED
    BY <2>6, <2>7, <2>10, <2>11 DEF DbOK
<1> QED
  BY <1>2, <1>3

LEMMA ReturnKeeps ==
  ASSUME DbOK, AppendReturns
  PROVE  DbOK'
<1>1. /\ DbTypeOK /\ TxType /\ TxOK /\ RecordsOK /\ tx.at = "committed" /\ tx' = NoTx
      /\ dbAcked' = dbAcked \cup {begun}
      /\ UNCHANGED <<pairs, begun, dbOpen, replayed, dbFaults, dbReopens>>
  BY DEF DbOK, AppendReturns
<1>2. /\ ReadOK' /\ LastSeq' = LastSeq /\ Keys' = Keys /\ \A n : Stored(n)' = Stored(n)
      /\ LastSeq \in Nat /\ begun \in Nat
  BY <1>1, PairsKept, DbFacts
<1>3. LastSeq > 0 /\ Stored(LastSeq) = begun
  BY <1>1 DEF TxOK
<1>4. RecordsOK'
  <2>1. \A e \in dbAcked' : \E n \in 1 .. LastSeq : Stored(n) = e
    <3>1. LastSeq \in 1 .. LastSeq
      BY <1>2, <1>3
    <3> QED
      BY <1>1, <1>3, <3>1 DEF RecordsOK
  <2> QED
    BY <1>1, <1>2, <2>1 DEF RecordsOK, Stored
<1>5. dbAcked' \subseteq 1 .. begun
  <2>1. Stored(LastSeq) \in 1 .. begun
    BY <1>1, <1>2, <1>3 DEF RecordsOK
  <2> QED
    BY <1>1, <1>3, <2>1 DEF DbTypeOK
<1>6. DbTypeOK' /\ TxType' /\ TxOK'
  BY <1>1, <1>5, TxIdle, DbAssumption DEF DbTypeOK, TxType
<1> QED
  BY <1>2, <1>4, <1>6 DEF DbOK

LEMMA ReplayKeeps ==
  ASSUME DbOK, ReplayDb
  PROVE  DbOK'
<1>1. /\ DbTypeOK /\ TxType /\ TxOK /\ RecordsOK
      /\ UNCHANGED <<pairs, tx, begun, dbAcked, dbOpen, dbReopens>> /\ (DbFault \/ UNCHANGED dbFaults)
  BY DEF DbOK, ReplayDb
<1>2. PICK n \in 0 .. Len(DbEntries) :
        \/ replayed' = [got |-> DbEntries, done |-> TRUE]
        \/ replayed' = [got |-> SubSeq(DbEntries, 1, n), done |-> FALSE]
  <2>1. Len(DbEntries) \in Nat
    BY DbFacts
  <2>2. 0 \in 0 .. Len(DbEntries) /\ \A n \in 0 .. Len(DbEntries) - 1 : n \in 0 .. Len(DbEntries)
    BY <2>1
  <2>3. \/ replayed' = [got |-> DbEntries, done |-> TRUE]
        \/ \E n \in 0 .. Len(DbEntries) - 1 :
             replayed' = [got |-> SubSeq(DbEntries, 1, n), done |-> FALSE]
    BY DEF ReplayDb
  <2> QED
    BY <2>2, <2>3
<1>3. /\ LastSeq' = LastSeq /\ RecordsOK' /\ \A m : Stored(m)' = Stored(m)
  BY <1>1, PairsKept
<1> DEFINE c == LastSeq
           es == DbEntries
<1>4. /\ c \in Nat /\ es = [i \in 1 .. c |-> Stored(i)] /\ es \in Seq(1 .. MaxTx) /\ Len(es) = c
  BY DbFacts
<1>5. \A i, j \in 1 .. c : i < j => Stored(i) < Stored(j)
  BY <1>1 DEF RecordsOK
<1> HIDE DEF c, es
<1>6. CASE replayed' = [got |-> es, done |-> TRUE]
  <2>1. replayed'.got = es /\ replayed'.done \in BOOLEAN /\ replayed' = [got |-> replayed'.got, done |-> replayed'.done]
    BY <1>6
  <2>2. ReadOK'
    <3>1. \A i, j \in DOMAIN es : i < j => es[i] < es[j]
      BY <1>4, <1>5
    <3>2. Len(es) <= c /\ \A i \in 1 .. Len(es) : es[i] = Stored(i)
      BY <1>4
    <3> QED
      BY <1>1, <1>3, <2>1, <3>1, <3>2 DEF ReadOK, c, Stored
  <2>3. DbTypeOK' /\ TxType' /\ TxOK'
    BY <1>1, <1>3, <1>4, <2>1, FaultCounted DEF DbTypeOK, TxType, TxOK, Stored
  <2> QED
    BY <1>3, <2>2, <2>3 DEF DbOK
<1>7. CASE replayed' = [got |-> SubSeq(es, 1, n), done |-> FALSE]
  <2>1. n \in 0 .. c
    BY <1>4 DEF es
  <2>2. SubSeq(es, 1, n) \in Seq(1 .. MaxTx) /\ DOMAIN SubSeq(es, 1, n) = 1 .. n
        /\ \A i \in 1 .. n : SubSeq(es, 1, n)[i] = es[i] /\ i \in 1 .. c
    BY <1>4, <2>1
  <2>3. /\ replayed'.got = SubSeq(es, 1, n) /\ replayed'.done \in BOOLEAN /\ ~replayed'.done
        /\ replayed' = [got |-> replayed'.got, done |-> replayed'.done]
    BY <1>7
  <2>4. ReadOK'
    <3>1. \A i, j \in 1 .. n : i < j => es[i] < es[j]
      BY <1>4, <1>5, <2>2
    <3> QED
      BY <2>2, <2>3, <3>1 DEF ReadOK
  <2>5. DbTypeOK' /\ TxType' /\ TxOK'
    BY <1>1, <1>3, <2>2, <2>3, FaultCounted DEF DbTypeOK, TxType, TxOK, Stored
  <2> QED
    BY <1>3, <2>4, <2>5 DEF DbOK
<1> QED
  BY <1>2, <1>6, <1>7 DEF es

LEMMA OpenKeeps ==
  ASSUME DbOK, CloseDb \/ OpenDb
  PROVE  DbOK'
<1>1. /\ DbTypeOK /\ TxType /\ TxOK /\ UNCHANGED <<pairs, tx, begun, dbAcked, replayed>>
  BY DEF DbOK, CloseDb, OpenDb
<1>2. /\ LastSeq' = LastSeq /\ RecordsOK' /\ ReadOK' /\ \A m : Stored(m)' = Stored(m)
  BY <1>1, PairsKept
<1>3. dbOpen' \in BOOLEAN
  BY <1>1, Zenon DEF CloseDb, OpenDb, DbTypeOK
<1>4. dbFaults' \in 0 .. MaxDbFaults
  BY FaultCounted, Zenon DEF CloseDb, OpenDb
<1>5. dbReopens' \in 0 .. MaxDbReopens
  <2>1. dbReopens \in 0 .. MaxDbReopens
    BY <1>1 DEF DbTypeOK
  <2>2. UNCHANGED dbReopens \/ (dbReopens < MaxDbReopens /\ dbReopens' = dbReopens + 1)
    BY DEF CloseDb, OpenDb
  <2> QED
    BY <2>1, <2>2, DbAssumption
<1>6. DbTypeOK' /\ TxType' /\ TxOK'
  BY <1>1, <1>2, <1>3, <1>4, <1>5 DEF DbTypeOK, TxType, TxOK, Stored
<1> QED
  BY <1>2, <1>6 DEF DbOK

LEMMA DbCrashKeeps ==
  ASSUME DbOK, DbCrash
  PROVE  DbOK'
<1>1. /\ DbTypeOK /\ TxType /\ tx' = NoTx /\ replayed' = [got |-> << >>, done |-> FALSE]
      /\ UNCHANGED <<pairs, begun, dbAcked, dbReopens>> /\ DbFault
  BY DEF DbOK, DbCrash
<1>2. RecordsOK'
  BY <1>1, PairsKept
<1>3. /\ replayed'.got = << >> /\ replayed'.done \in BOOLEAN /\ ~replayed'.done
      /\ replayed' = [got |-> replayed'.got, done |-> replayed'.done]
  BY <1>1
<1>4. ReadOK'
  BY <1>3 DEF ReadOK
<1>5. dbOpen' \in BOOLEAN
  BY DEF DbCrash
<1>6. DbTypeOK' /\ TxType' /\ TxOK'
  BY <1>1, <1>3, <1>5, TxIdle, FaultCounted, DbAssumption DEF DbTypeOK, TxType
<1> QED
  BY <1>2, <1>4, <1>6 DEF DbOK

LEMMA DbNextOK == DbOK /\ [DbNext]_dbVars => DbOK'
<1> SUFFICES ASSUME DbOK, [DbNext]_dbVars PROVE DbOK'
  OBVIOUS
<1>1. CASE BeginTx
  BY <1>1, BeginKeeps
<1>2. CASE PutRecord \/ PutSeq
  BY <1>2, PutKeeps
<1>3. CASE Commit
  BY <1>3, CommitKeeps
<1>4. CASE AppendReturns
  BY <1>4, ReturnKeeps
<1>5. CASE ReplayDb
  BY <1>5, ReplayKeeps
<1>6. CASE CloseDb \/ OpenDb
  BY <1>6, OpenKeeps
<1>7. CASE DbCrash
  BY <1>7, DbCrashKeeps
<1>8. CASE UNCHANGED dbVars
  <2>1. UNCHANGED <<pairs, tx, begun, dbAcked, dbOpen, replayed, dbFaults, dbReopens>>
    BY <1>8 DEF dbVars
  <2>2. /\ LastSeq' = LastSeq /\ RecordsOK' /\ ReadOK' /\ \A m : Stored(m)' = Stored(m)
    BY <2>1, PairsKept
  <2> QED
    BY <2>1, <2>2 DEF DbOK, DbTypeOK, TxType, TxOK, Stored
<1> QED
  BY <1>1, <1>2, <1>3, <1>4, <1>5, <1>6, <1>7, <1>8 DEF DbNext

LEMMA DbHolds == DbSpec => []DbOK
<1>1. DbInit => DbOK
  BY DbInitOK
<1>2. DbOK /\ [DbNext]_dbVars => DbOK'
  BY DbNextOK
<1> QED
  BY <1>1, <1>2, PTL DEF DbSpec

-----------------------------------------------------------------------------
(* The theorems.                                                            *)

\* The numbers in the database, the sequence number included, are those of calls of Append.
THEOREM DbTypeCorrect == DbSpec => []DbTypeOK
<1>1. DbOK => DbTypeOK
  BY DEF DbOK
<1> QED
  BY <1>1, DbHolds, PTL

(***************************************************************************)
(* Whatever fails, and whenever the machine stops, Append leaves the records    *)
(* under 1, 2, 3 and so on up to the stored sequence number: it never puts one *)
(* over another or skips a number.                                          *)
(***************************************************************************)
THEOREM RecordsNumbered == DbSpec => []NumbersMatchRecords
<1>1. DbOK => NumbersMatchRecords
  BY DEF DbOK, RecordsOK, NumbersMatchRecords, KeysTo
<1> QED
  BY <1>1, DbHolds, PTL

(***************************************************************************)
(* Replay, which sorts the keys as strings, hands the records over in the      *)
(* order of their calls, and what is appended afterwards comes behind them.  *)
(***************************************************************************)
THEOREM DbReplaysInOrder == DbSpec => []ReplayedInOrder
<1>1. ASSUME DbOK PROVE ReplayedInOrder
  <2>1. ASSUME replayed.done PROVE IsPrefix(replayed.got, DbEntries)
    <3> DEFINE got == replayed.got
               count == Len(got)
    <3>1. /\ got \in Seq(1 .. MaxTx) /\ count \in Nat /\ count <= LastSeq
          /\ \A i \in 1 .. count : got[i] = Stored(i)
      BY <1>1, <2>1 DEF DbOK, ReadOK, DbTypeOK
    <3>2. /\ DbEntries = [i \in 1 .. LastSeq |-> Stored(i)]
          /\ DbEntries \in Seq(1 .. MaxTx) /\ Len(DbEntries) = LastSeq /\ LastSeq \in Nat
      BY <1>1, DbFacts
    <3>3. \A i \in 1 .. count : got[i] = DbEntries[i]
      BY <3>1, <3>2
    <3> HIDE DEF got, count
    <3>4. SubSeq(got, 1, count) = SubSeq(DbEntries, 1, count)
      BY <3>1, <3>2, <3>3 DEF count
    <3> QED
      BY <3>1, <3>2, <3>4 DEF IsPrefix, got, count
  <2> QED
    BY <1>1, <2>1 DEF DbOK, ReadOK, ReplayedInOrder
<1> QED
  BY <1>1, DbHolds, PTL

-----------------------------------------------------------------------------
(* What LogSpec promises.                                                   *)


\* A step of LogSpec, from these entries and promises to those.
LogStep(es, ps, more, kept) ==
  \/ more = es /\ ps \subseteq kept /\ kept \subseteq Range(es)
  \/ kept = ps /\ \E e \in 1 .. MaxAppends + MaxTx : more = Append(es, e)
  \/ kept = ps /\ ps \subseteq Range(more) /\ \E n \in 0 .. Len(es) : more = SubSeq(es, 1, n)

\* What of ns is less than every number of broken.
Ahead(ns, broken) == {n \in ns : \A m \in broken : n < m}

LEMMA RangeInOrder ==
  ASSUME NEW S \in SUBSET Nat, IsFiniteSet(S)
  PROVE  Range(InOrder(S)) = S
<1>1. /\ InOrder(S) \in Seq(S) /\ Len(InOrder(S)) = Cardinality(S) /\ Cardinality(S) \in Nat
      /\ \A i \in S : \E n \in 1 .. Cardinality(S) : InOrder(S)[n] = i
  BY InOrderIs
<1>2. DOMAIN InOrder(S) = 1 .. Cardinality(S) /\ \A n \in 1 .. Cardinality(S) : InOrder(S)[n] \in S
  BY <1>1
<1> QED
  BY <1>1, <1>2 DEF Range

-----------------------------------------------------------------------------
(* The file.                                                                *)

WalShape ==
  /\ Whole(file) \subseteq 1 .. MaxAppends
  /\ \A n \in Whole(file) : \E j \in 1 .. Len(file) : IsPart(file[j], n, Size(n))
  /\ promised \subseteq Whole(file)
  /\ \A m \in Broken : m \in Nat /\ m \notin Whole(file) /\ \E j \in 1 .. Len(file) : file[j].n = m
  /\ \A j \in 1 .. Len(file) : file[j].n \in Whole(file) \/ file[j].n \in Broken
  /\ WalEntries = InOrder(Ahead(Whole(file), Broken))
  /\ WalPromised = Ahead(promised, Broken)

LEMMA WalShaped == WalOK => WalShape
<1> SUFFICES ASSUME WalOK PROVE WalShape
  OBVIOUS
<1>1. /\ TypeOK /\ FileOK /\ PromiseOK /\ lengths \in Seq(PayloadLengths)
      /\ Len(lengths) <= MaxAppends /\ synced \in 0 .. Len(file)
  BY DEF WalOK, TypeOK
<1>2. /\ Len(file) \in Nat /\ DOMAIN file = 1 .. Len(file)
      /\ \A i \in 1 .. Len(file) : file[i].n \in DOMAIN lengths /\ file[i].n \in Nat
  BY <1>1, FileFacts
<1>3. DOMAIN lengths \subseteq 1 .. MaxAppends
  BY <1>1, BoundsAssumption
<1>4. \A n \in Whole(file) : \E j \in 1 .. Len(file) : IsPart(file[j], n, Size(n))
  BY <1>2 DEF Whole, IsPart
<1>5. Whole(file) \subseteq 1 .. MaxAppends
  BY <1>2, <1>3 DEF Whole
<1>6. \A n \in promised : n \in Whole(file)
  <2> TAKE n \in promised
  <2>1. PICK j \in 1 .. synced : file[j].n = n /\ file[j].part = Size(n)
    BY <1>1 DEF PromiseOK, EndsBy, IsPart
  <2>2. j \in DOMAIN file
    BY <1>1, <1>2
  <2> QED
    BY <2>1, <2>2 DEF Whole
<1>7. \A m \in Broken : m \in Nat /\ m \notin Whole(file) /\ \E j \in 1 .. Len(file) : file[j].n = m
  BY <1>2 DEF Broken
<1>8. \A j \in 1 .. Len(file) : file[j].n \in Whole(file) \/ file[j].n \in Broken
  BY <1>2 DEF Broken
<1>9. WalEntries = InOrder(Ahead(Whole(file), Broken)) /\ WalPromised = Ahead(promised, Broken)
  BY DEF WalEntries, WalPromised, Reachable, Ahead
<1> QED
  BY <1>4, <1>5, <1>6, <1>7, <1>8, <1>9 DEF WalShape

LEMMA WalShapedNext == WalOK' => WalShape'
BY WalShaped, PTL

LEMMA AheadIs ==
  ASSUME NEW ns \in SUBSET (1 .. MaxAppends), NEW broken
  PROVE  /\ Ahead(ns, broken) \in SUBSET Nat /\ Ahead(ns, broken) \subseteq ns
         /\ IsFiniteSet(Ahead(ns, broken))
<1>1. Ahead(ns, broken) \subseteq 1 .. MaxAppends
  BY DEF Ahead
<1>2. IsFiniteSet(1 .. MaxAppends) /\ 1 .. MaxAppends \subseteq Nat
  BY BoundsAssumption, FS_Interval
<1> QED
  BY <1>1, <1>2, FS_Subset DEF Ahead

\* What was promised and can be read is among the entries.
LEMMA PromisedAreEntries ==
  ASSUME NEW whole \in SUBSET (1 .. MaxAppends), NEW ps \in SUBSET whole, NEW broken
  PROVE  Ahead(ps, broken) \subseteq Range(InOrder(Ahead(whole, broken)))
<1>1. Range(InOrder(Ahead(whole, broken))) = Ahead(whole, broken)
  BY AheadIs, RangeInOrder
<1> QED
  BY <1>1 DEF Ahead

\* A step that leaves the file alone.
LEMMA WalPromises ==
  ASSUME WalShape, WalShape', UNCHANGED <<file, lengths>>, promised \subseteq promised'
  PROVE  LogStep(WalEntries, WalPromised, WalEntries', WalPromised')
<1>1. Whole(file)' = Whole(file) /\ Broken' = Broken
  BY DEF Broken, Whole, Size
<1>2. /\ WalEntries' = InOrder(Ahead(Whole(file), Broken)) /\ WalPromised' = Ahead(promised', Broken)
      /\ WalEntries = InOrder(Ahead(Whole(file), Broken)) /\ WalPromised = Ahead(promised, Broken)
      /\ Whole(file) \in SUBSET (1 .. MaxAppends) /\ promised' \in SUBSET Whole(file)
  BY <1>1 DEF WalShape
<1> DEFINE whole == Whole(file)
<1>3. Ahead(promised', Broken) \subseteq Range(InOrder(Ahead(whole, Broken)))
  <2> HIDE DEF whole
  <2> QED
    BY <1>2, PromisedAreEntries DEF whole
<1>4. Ahead(promised, Broken) \subseteq Ahead(promised', Broken)
  BY DEF Ahead
<1> QED
  BY <1>2, <1>3, <1>4 DEF LogStep

\* One more record may be whole, and if none before it broke off it is an entry.
LEMMA OneMore ==
  ASSUME NEW whole \in SUBSET (1 .. MaxAppends), NEW n \in 1 .. MaxAppends, \A w \in whole : w < n,
         NEW more, more = whole \/ more = whole \cup {n},
         NEW broken, \A m \in broken : m \in Nat /\ m <= n,
         NEW left, left \ {n} = broken \ {n}, n \in more => n \notin left,
         NEW ps \in SUBSET whole
  PROVE  LogStep(InOrder(Ahead(whole, broken)), Ahead(ps, broken),
                 InOrder(Ahead(more, left)), Ahead(ps, left))
<1> DEFINE S == Ahead(whole, broken)
<1>1. \A w \in whole : (\A m \in broken : w < m) <=> (\A m \in left : w < m)
  <2>1. \A m : m \in broken \ {n} <=> m \in left \ {n}
    OBVIOUS
  <2>2. \A w \in whole : w < n
    OBVIOUS
  <2> QED
    BY <2>1, <2>2
<1>2. Ahead(whole, left) = S /\ Ahead(ps, left) = Ahead(ps, broken)
  BY <1>1 DEF Ahead
<1>3. S \in SUBSET Nat /\ IsFiniteSet(S) /\ S \subseteq whole /\ n \in Nat
  BY AheadIs
<1>4. Ahead(ps, broken) \subseteq Range(InOrder(S))
  BY PromisedAreEntries
<1>5. CASE Ahead(more, left) = S
  BY <1>2, <1>4, <1>5 DEF LogStep
<1>6. CASE Ahead(more, left) # S
  <2>1. more = whole \cup {n}
    BY <1>2, <1>6
  <2>2. Ahead(more, left) = S \cup {n}
    <3>1. Ahead(more, left) = Ahead(whole, left) \cup Ahead({n}, left)
      BY <2>1 DEF Ahead
    <3>2. Ahead({n}, left) = {} \/ Ahead({n}, left) = {n}
      BY DEF Ahead
    <3> QED
      BY <1>2, <1>6, <3>1, <3>2
  <2>3. InOrder(S \cup {n}) = Append(InOrder(S), n)
    <3> HIDE DEF S
    <3> QED
      BY <1>3, InOrderAppended
  <2>4. n \in 1 .. MaxAppends + MaxTx
    BY BoundsAssumption, DbAssumption
  <2> QED
    BY <1>2, <2>2, <2>3, <2>4 DEF LogStep
<1> QED
  BY <1>5, <1>6

\* Parts written behind the file.
LEMMA GrowthIsAWrite ==
  ASSUME WalOK, WalShape, WalShape', NEW n \in 1 .. MaxAppends, n \notin Whole(file),
         \A i \in 1 .. Len(file) : file[i].n <= n,
         NEW a, NEW b, Grown(file', file, n, a, b), LengthsStay, UNCHANGED promised,
         Len(file) <= Len(file')
  PROVE  LogStep(WalEntries, WalPromised, WalEntries', WalPromised')
<1>0. TypeOK /\ FileOK
  BY DEF WalOK
<1>1. /\ Len(file) \in Nat /\ Len(file') \in Nat
      /\ DOMAIN file = 1 .. Len(file) /\ DOMAIN file' = 1 .. Len(file')
      /\ \A i \in 1 .. Len(file) :
           file'[i] = file[i] /\ Size(file[i].n)' = Size(file[i].n) /\ file[i].n \in Nat
      /\ \A i \in 1 .. Len(file') : i \notin 1 .. Len(file) => file'[i].n = n
  <2>1. /\ Len(file) \in Nat /\ Len(file') \in Nat
        /\ \A i \in 1 .. Len(file) : file'[i] = file[i] /\ Size(file[i].n)' = Size(file[i].n)
    BY <1>0, GrownEnds
  <2>2. DOMAIN file = 1 .. Len(file) /\ \A i \in 1 .. Len(file) : file[i].n \in Nat
    BY <1>0, FileFacts
  <2>3. /\ DOMAIN file' = 1 .. Len(file')
        /\ \A i \in Len(file) + 1 .. Len(file') : file'[i].n = n
    BY DEF Grown, IsPart
  <2>4. \A i \in 1 .. Len(file') : i \notin 1 .. Len(file) => i \in Len(file) + 1 .. Len(file')
    BY <2>1
  <2> QED
    BY <2>1, <2>2, <2>3, <2>4
<1>2. \A i \in 1 .. Len(file) : i \in 1 .. Len(file')
  BY <1>1
<1>3. \A m : m \in Whole(file) => m \in Whole(file)'
  <2> SUFFICES ASSUME NEW m \in Whole(file) PROVE m \in Whole(file)'
    OBVIOUS
  <2>1. PICK i \in 1 .. Len(file) : file[i].n = m /\ file[i].part = Size(file[i].n)
    BY <1>1 DEF Whole
  <2>2. i \in DOMAIN file' /\ file'[i] = file[i]
    BY <1>1, <1>2, <2>1
  <2>3. file'[i].part = HeaderSize + lengths'[file'[i].n]
    BY <1>1, <2>1, <2>2 DEF Size, HeaderSize
  <2> QED
    BY <2>1, <2>2, <2>3 DEF Whole, Size, HeaderSize
<1>4. \A m : m \in Whole(file)' /\ m # n => m \in Whole(file)
  <2> SUFFICES ASSUME NEW m \in Whole(file)', m # n PROVE m \in Whole(file)
    OBVIOUS
  <2>1. PICK i \in DOMAIN file' : file'[i].n = m /\ file'[i].part = HeaderSize + lengths'[file'[i].n]
    BY DEF Whole, Size, HeaderSize
  <2>2. i \in 1 .. Len(file)
    BY <1>1, <2>1
  <2>3. file[i].n = m /\ file[i].part = Size(file[i].n)
    BY <1>1, <2>1, <2>2 DEF Size, HeaderSize
  <2> QED
    BY <1>1, <2>2, <2>3 DEF Whole
<1>5. \A m : m # n => (m \in Broken' <=> m \in Broken)
  <2>1. \A m : m # n => (m \in {file'[i].n : i \in DOMAIN file'} <=> m \in {file[i].n : i \in DOMAIN file})
    BY <1>1, <1>2
  <2> QED
    BY <1>3, <1>4, <2>1 DEF Broken
<1>6. /\ Whole(file)' = Whole(file) \/ Whole(file)' = Whole(file) \cup {n}
      /\ Broken' \ {n} = Broken \ {n}
      /\ n \in Whole(file)' => n \notin Broken'
  BY <1>3, <1>4, <1>5 DEF Broken
<1>7. /\ \A w \in Whole(file) : w < n
      /\ \A m \in Broken : m \in Nat /\ m <= n
  <2>1. \A w \in Whole(file) : \E j \in 1 .. Len(file) : file[j].n = w
    BY DEF WalShape, IsPart
  <2>2. \A w \in Whole(file) : w <= n /\ w # n /\ w \in Nat
    BY <1>1, <2>1
  <2>3. \A m \in Broken : m \in Nat /\ m <= n
    BY DEF WalShape
  <2> QED
    BY <2>2, <2>3
<1>8. /\ WalEntries = InOrder(Ahead(Whole(file), Broken)) /\ WalPromised = Ahead(promised, Broken)
      /\ WalEntries' = InOrder(Ahead(Whole(file)', Broken')) /\ WalPromised' = Ahead(promised, Broken')
      /\ Whole(file) \in SUBSET (1 .. MaxAppends) /\ promised \in SUBSET Whole(file)
  <2>1. /\ WalEntries = InOrder(Ahead(Whole(file), Broken)) /\ WalPromised = Ahead(promised, Broken)
        /\ Whole(file) \in SUBSET (1 .. MaxAppends) /\ promised \in SUBSET Whole(file)
    BY DEF WalShape
  <2>2. WalEntries' = InOrder(Ahead(Whole(file)', Broken')) /\ WalPromised' = Ahead(promised', Broken')
    BY DEF WalShape, Ahead
  <2> QED
    BY <2>1, <2>2
<1> DEFINE whole == Whole(file)
           more  == Whole(file)'
           broken == Broken
           left  == Broken'
<1> HIDE DEF whole, more, broken, left
<1>9. LogStep(InOrder(Ahead(whole, broken)), Ahead(promised, broken),
              InOrder(Ahead(more, left)), Ahead(promised, left))
  <2>1. /\ whole \in SUBSET (1 .. MaxAppends) /\ promised \in SUBSET whole
        /\ (more = whole \/ more = whole \cup {n}) /\ left \ {n} = broken \ {n}
        /\ (n \in more => n \notin left)
        /\ (\A w \in whole : w < n) /\ (\A m \in broken : m \in Nat /\ m <= n)
    BY <1>6, <1>7, <1>8 DEF whole, more, broken, left
  <2> QED
    BY <2>1, OneMore
<1> QED
  BY <1>8, <1>9 DEF whole, more, broken, left

LEMMA HeaderIsAWrite ==
  ASSUME WalOK, WalShape, WalShape', NEW ln \in PayloadLengths, WriteHeader(ln)
  PROVE  LogStep(WalEntries, WalPromised, WalEntries', WalPromised')
<1> DEFINE n == Len(lengths) + 1
<1>1. n \in 1 .. MaxAppends /\ LengthsStay /\ HeaderGrown
  BY HeaderGrows
<1>2. TypeOK /\ FileOK /\ lengths \in Seq(PayloadLengths)
  BY DEF WalOK, TypeOK
<1>3. \A i \in 1 .. Len(file) : file[i].n < n
  <2>1. \A i \in 1 .. Len(file) : file[i].n \in 1 .. Len(lengths) /\ Len(lengths) \in Nat
    BY <1>2, FileFacts
  <2> QED
    BY <2>1
<1>4. n \notin Whole(file) /\ \A i \in 1 .. Len(file) : file[i].n <= n
  <2>1. \A i \in 1 .. Len(file) : file[i].n \in Nat
    BY <1>2, FileFacts
  <2>2. \A i \in DOMAIN file : i \in 1 .. Len(file)
    BY <1>2, FileFacts
  <2> HIDE DEF n
  <2>3. n \in Nat
    BY <1>1
  <2> QED
    BY <1>3, <2>1, <2>2, <2>3 DEF Whole
<1>5. PICK k \in 0 .. HeaderSize : Grown(file', file, n, 1, k)
  BY <1>1 DEF HeaderGrown
<1>6. Len(file) <= Len(file')
  BY <1>5 DEF Grown, HeaderSize
<1>7. UNCHANGED promised
  BY DEF WriteHeader
<1> HIDE DEF n
<1> QED
  BY <1>1, <1>4, <1>5, <1>6, <1>7, GrowthIsAWrite

LEMMA PayloadIsAWrite ==
  ASSUME WalOK, WalShape, WalShape', WritePayload
  PROVE  LogStep(WalEntries, WalPromised, WalEntries', WalPromised')
<1> DEFINE n == Len(lengths)
<1>1. /\ TypeOK /\ FileOK /\ WriterOK /\ lengths \in Seq(PayloadLengths) /\ Len(lengths) <= MaxAppends
      /\ writer = "header" /\ UNCHANGED <<lengths, promised>>
  BY DEF WalOK, TypeOK, WritePayload
<1>2. /\ n > 0 /\ n \in Nat /\ Len(file) > 0 /\ Len(file) \in Nat
      /\ file[Len(file)].n = n /\ file[Len(file)].part = HeaderSize
  BY <1>1, FileFacts DEF WriterOK, IsPart
<1>3. n \in 1 .. MaxAppends /\ n \in DOMAIN lengths
  BY <1>1, <1>2, BoundsAssumption
<1>4. Size(n) \in Nat /\ Size(n) > HeaderSize /\ HeaderSize = 4
  BY <1>1, <1>3, SizeIs
<1>5. \A i \in 1 .. Len(file) : file[i].n \in 1 .. n
  BY <1>1, FileFacts
<1> HIDE DEF n
<1>6. \A i \in 1 .. Len(file) : file[i].n <= n
  BY <1>2, <1>5
<1>7. n \notin Whole(file)
  <2>1. ASSUME NEW j \in 1 .. Len(file), file[j].n = n, file[j].part = Size(n) PROVE FALSE
    <3> DEFINE last == Len(file)
    <3>1. /\ last \in 1 .. Len(file) /\ j # last
      BY <1>2, <1>4, <2>1
    <3>2. j < last
      BY <1>2, <3>1
    <3>3. file[last].part = file[j].part + (last - j)
      <4> HIDE DEF last
      <4>1. \/ file[j].n < file[last].n
            \/ file[j].n = file[last].n /\ file[last].part = file[j].part + (last - j)
        BY <1>1, <3>1, <3>2, FileFacts
      <4>2. file[last].n = n
        BY <1>2 DEF last
      <4> QED
        BY <1>2, <2>1, <4>1, <4>2
    <3> QED
      BY <1>2, <1>4, <2>1, <3>2, <3>3
  <2>2. DOMAIN file = 1 .. Len(file)
    BY <1>1, FileFacts
  <2> QED
    BY <2>1, <2>2 DEF Whole
<1>8. PICK to \in HeaderSize .. Size(n) : Grown(file', file, n, HeaderSize + 1, to)
  BY PayloadGrows DEF PayloadGrown, n
<1>9. Len(file) <= Len(file')
  <2>1. Len(file') = Len(file) + (to + 1 - (HeaderSize + 1))
    BY <1>8 DEF Grown
  <2> QED
    BY <1>2, <1>4, <2>1
<1>10. LengthsStay
  BY <1>1 DEF LengthsStay
<1> QED
  BY <1>1, <1>3, <1>6, <1>7, <1>8, <1>9, <1>10, GrowthIsAWrite

\* What a crash takes away was written last, and none of it was promised.
LEMMA CrashLosesTheEnd ==
  ASSUME WalOK, WalShape, WalShape', Crash
  PROVE  LogStep(WalEntries, WalPromised, WalEntries', WalPromised')
<1>1. /\ TypeOK /\ FileOK /\ synced \in 0 .. Len(file) /\ UNCHANGED <<lengths, promised>>
  BY DEF WalOK, TypeOK, Crash
<1>2. PICK size \in synced .. Len(file) : file' = SubSeq(file, 1, size)
  BY DEF Crash
<1>3. /\ Len(file) \in Nat /\ DOMAIN file = 1 .. Len(file)
      /\ \A i \in 1 .. Len(file) : file[i].n \in Nat
      /\ \A i, j \in 1 .. Len(file) : i < j => file[i].n < file[j].n \/ file[i].n = file[j].n
  BY <1>1, FileFacts
<1>4. /\ size \in Nat /\ size <= Len(file) /\ synced <= size /\ synced \in Nat
      /\ Len(file') = size /\ DOMAIN file' = 1 .. size
      /\ \A i \in 1 .. size : file'[i] = file[i] /\ i \in 1 .. Len(file)
  <2>1. file \in Seq(Part)
    BY <1>1, FileType
  <2> QED
    BY <1>1, <1>2, <1>3, <2>1
<1> DEFINE whole == Whole(file)
           less  == Whole(file)'
           broken == Broken
           left  == Broken'
           S == Ahead(whole, broken)
           T == Ahead(less, left)
           end(n, j) == j \in 1 .. Len(file) /\ file[j].n = n /\ file[j].part = Size(n)
<1>5. /\ \A n \in whole : \E j \in 1 .. Len(file) : end(n, j)
      /\ \A n, j : end(n, j) => n \in whole
  BY <1>3 DEF Whole
<1>6. /\ \A n \in less : \E j \in 1 .. size : end(n, j)
      /\ \A n : \A j \in 1 .. size : end(n, j) => n \in less
  <2>1. less = {file[i].n : i \in {j \in 1 .. size : file[j].part = Size(file[j].n)}}
    BY <1>1, <1>4 DEF Whole, Size
  <2> HIDE DEF less
  <2> QED
    BY <1>4, <2>1
<1>7. /\ \A m \in broken : m \in Nat /\ m \notin whole /\ \E j \in 1 .. Len(file) : file[j].n = m
      /\ \A j \in 1 .. Len(file) : file[j].n \in whole \/ file[j].n \in broken
      /\ whole \subseteq 1 .. MaxAppends /\ promised \subseteq whole
      /\ WalEntries = InOrder(S) /\ WalPromised = Ahead(promised, broken)
  BY DEF WalShape
<1>8. /\ \A m \in left : m \in Nat /\ m \notin less /\ \E j \in 1 .. size : file[j].n = m
      /\ \A j \in 1 .. size : file[j].n \in less \/ file[j].n \in left
      /\ promised \subseteq less
      /\ WalEntries' = InOrder(T) /\ WalPromised' = Ahead(promised, left)
  <2>1. /\ \A m \in left : m \in Nat /\ m \notin less /\ \E j \in 1 .. Len(file') : file'[j].n = m
        /\ \A j \in 1 .. Len(file') : file'[j].n \in less \/ file'[j].n \in left
        /\ promised' \subseteq less
        /\ WalEntries' = InOrder(Ahead(less, left)) /\ WalPromised' = Ahead(promised', left)
    BY DEF WalShape, Ahead
  <2> HIDE DEF less, left
  <2> QED
    BY <1>1, <1>4, <2>1
<1> HIDE DEF whole, less, broken, left, end
<1>9. T \subseteq whole
  BY <1>4, <1>5, <1>6 DEF Ahead
\* What broke off behind the crash comes after every record that is whole before it.
<1>10. ASSUME NEW w \in T, NEW m \in broken PROVE w < m
  <2>1. PICK j \in 1 .. size : end(w, j)
    BY <1>6 DEF Ahead
  <2>2. PICK i \in 1 .. Len(file) : file[i].n = m
    BY <1>7
  <2>3. CASE i \in 1 .. size
    <3>1. m \notin less
      BY <1>4, <1>5, <1>6, <1>7
    <3>2. m \in left
      BY <1>8, <2>2, <2>3, <3>1
    <3> QED
      BY <3>2 DEF Ahead
  <2>4. CASE i \notin 1 .. size
    <3>1. j < i /\ j \in 1 .. Len(file) /\ file[j].n = w
      BY <1>4, <2>1, <2>4 DEF end
    <3>2. file[j].n < file[i].n \/ file[j].n = file[i].n
      BY <1>3, <3>1
    <3>3. w # m
      BY <1>7, <1>9
    <3> QED
      BY <2>2, <3>1, <3>2, <3>3
  <2> QED
    BY <2>3, <2>4
<1>11. T \subseteq S
  BY <1>9, <1>10 DEF Ahead
<1>12. ASSUME NEW w \in T, NEW s \in S, s <= w PROVE s \in T
  <2>1. PICK j \in 1 .. size : end(w, j)
    BY <1>6 DEF Ahead
  <2>2. s \in whole /\ s \in Nat /\ w \in Nat
    <3>1. \A n \in 1 .. MaxAppends : n \in Nat
      BY BoundsAssumption
    <3> QED
      BY <1>7, <1>11, <3>1 DEF Ahead
  <2>3. PICK i \in 1 .. Len(file) : end(s, i)
    BY <1>5, <2>2
  <2>4. CASE i \in 1 .. size
    <3>1. s \in less
      BY <1>6, <2>3, <2>4
    <3>2. \A m \in left : m \in Nat /\ w < m
      BY <1>8 DEF Ahead
    <3>3. \A m \in left : s < m
      BY <1>12, <2>2, <3>2
    <3> QED
      BY <3>1, <3>3 DEF Ahead
  <2>5. CASE i \notin 1 .. size
    <3>1. j < i /\ j \in 1 .. Len(file) /\ file[j].n = w /\ file[i].n = s
      BY <1>4, <2>1, <2>3, <2>5 DEF end
    <3>2. w < s \/ w = s
      BY <1>3, <3>1
    <3>3. w = s
      BY <1>12, <2>2, <3>2
    <3> QED
      BY <3>3
  <2> QED
    BY <2>4, <2>5
<1>13. Ahead(promised, left) = Ahead(promised, broken)
  <2>1. ASSUME NEW p \in Ahead(promised, left) PROVE p \in Ahead(promised, broken)
    <3>1. p \in T
      BY <1>8 DEF Ahead
    <3> QED
      BY <1>10, <3>1 DEF Ahead
  <2>2. ASSUME NEW p \in Ahead(promised, broken), NEW m \in left PROVE p < m
    <3>1. p \in less /\ p \in promised
      BY <1>8 DEF Ahead
    <3>2. PICK j \in 1 .. size : end(p, j)
      BY <1>6, <3>1
    <3>3. PICK i \in 1 .. size : file[i].n = m
      BY <1>8
    <3>4. CASE m \in broken
      BY <3>4 DEF Ahead
    <3>5. CASE m \notin broken
      <4>1. m \in whole
        BY <1>4, <1>7, <3>3, <3>5
      <4>2. PICK k \in 1 .. Len(file) : end(m, k)
        BY <1>5, <4>1
      <4>3. k \notin 1 .. size
        BY <1>6, <1>8, <4>2
      <4>4. j < k /\ j \in 1 .. Len(file) /\ file[j].n = p /\ file[k].n = m
        BY <1>4, <3>2, <4>2, <4>3 DEF end
      <4>5. p < m \/ p = m
        BY <1>3, <4>4
      <4>6. p # m
        BY <1>8, <3>1
      <4> QED
        BY <4>5, <4>6
    <3> QED
      BY <3>4, <3>5
  <2> QED
    BY <2>1, <2>2 DEF Ahead
<1>14. S \in SUBSET Nat /\ IsFiniteSet(S) /\ T \in SUBSET Nat /\ IsFiniteSet(T)
  <2>1. S \in SUBSET Nat /\ IsFiniteSet(S)
    BY <1>7, AheadIs
  <2> HIDE DEF S, T
  <2> QED
    BY <1>11, <2>1, FS_Subset
<1> HIDE DEF S, T
<1>15. Cardinality(T) \in 0 .. Cardinality(S) /\ InOrder(T) = SubSeq(InOrder(S), 1, Cardinality(T))
  BY <1>11, <1>12, <1>14, InOrderFirst
<1>16. Len(InOrder(S)) = Cardinality(S)
  BY <1>14, InOrderIs
<1>17. Range(InOrder(T)) = T /\ Ahead(promised, left) \subseteq T
  BY <1>8, <1>14, RangeInOrder DEF T, Ahead
<1> QED
  BY <1>7, <1>8, <1>13, <1>15, <1>16, <1>17 DEF LogStep

LEMMA WalIsALog ==
  ASSUME WalOK, WalShape, WalShape', [Next]_vars
  PROVE  LogStep(WalEntries, WalPromised, WalEntries', WalPromised')
<1>1. CASE \E ln \in PayloadLengths : WriteHeader(ln)
  BY <1>1, HeaderIsAWrite
<1>2. CASE WritePayload
  BY <1>2, PayloadIsAWrite
<1>3. CASE Crash
  BY <1>3, CrashLosesTheEnd
<1>4. CASE FinishAppend
  <2>1. UNCHANGED <<file, lengths>> /\ promised \subseteq promised'
    BY <1>4 DEF FinishAppend
  <2> QED
    BY <2>1, WalPromises
<1>5. CASE Flush
  <2>1. UNCHANGED <<file, lengths>> /\ promised \subseteq promised'
    BY <1>5 DEF Flush
  <2> QED
    BY <2>1, WalPromises
<1>6. CASE (\E on \in BOOLEAN : SetDeferSync(on)) \/ Close \/ OpenWAL
  <2>1. UNCHANGED <<file, lengths, promised>>
    BY <1>6 DEF SetDeferSync, Close, OpenWAL, FileOnOpen
  <2> QED
    BY <2>1, WalPromises
<1>7. CASE StartReplay \/ ReadRecord
  <2>1. UNCHANGED <<file, lengths, promised>>
    BY <1>7 DEF StartReplay, ReadRecord
  <2> QED
    BY <2>1, WalPromises
<1>8. CASE UNCHANGED vars
  <2>1. UNCHANGED <<file, lengths, promised>>
    BY <1>8 DEF vars
  <2> QED
    BY <2>1, WalPromises
<1> QED
  BY <1>1, <1>2, <1>3, <1>4, <1>5, <1>6, <1>7, <1>8 DEF Next

-----------------------------------------------------------------------------
(* The database.                                                            *)

LEMMA AckedAreEntries ==
  ASSUME DbOK
  PROVE  /\ Range(DbEntries) = {Stored(i) : i \in 1 .. LastSeq}
         /\ dbAcked \subseteq Range(DbEntries)
<1>1. DbEntries = [i \in 1 .. LastSeq |-> Stored(i)]
  BY DbFacts
<1>2. Range(DbEntries) = {Stored(i) : i \in 1 .. LastSeq}
  BY <1>1 DEF Range
<1>3. \A e \in dbAcked : \E n \in 1 .. LastSeq : Stored(n) = e
  BY DEF DbOK, RecordsOK
<1> QED
  BY <1>2, <1>3

LEMMA CommitIsAWrite ==
  ASSUME DbOK, tx.at = "seq", pairs' = With(tx.puts, pairs)
  PROVE  DbEntries' = Append(DbEntries, begun) /\ begun \in 1 .. MaxAppends + MaxTx
<1> DEFINE c == LastSeq
<1>1. /\ c + 1 \in 0 .. begun /\ c + 1 \in 0 .. MaxTx /\ Keys' = KeysTo(c + 1)
      /\ \A n \in 1 .. c : pairs'[RecordKey(n)] = Stored(n)
      /\ pairs'[RecordKey(c + 1)] = begun
  BY Committed
<1>2. /\ c \in Nat /\ begun \in Nat /\ begun <= MaxTx /\ MaxTx \in Nat
      /\ DbEntries = [i \in 1 .. c |-> Stored(i)]
  BY DbFacts
<1> HIDE DEF c
<1>3. DbEntries' = [i \in 1 .. c + 1 |-> pairs'[RecordKey(i)]]
  <2>1. KeysIn(pairs') = KeysTo(c + 1)
    BY <1>1, EntriesNow
  <2>2. EntriesIn(pairs') = [i \in 1 .. c + 1 |-> pairs'[RecordKey(i)]]
    BY <1>1, <2>1, EntriesAre
  <2> QED
    BY <2>2, EntriesNow
<1>4. DbEntries' = Append(DbEntries, begun)
  <2>1. \A i \in 1 .. c + 1 : i \in 1 .. c \/ i = c + 1
    BY <1>2
  <2>2. DbEntries' = [i \in 1 .. c + 1 |-> IF i \in 1 .. c THEN Stored(i) ELSE begun]
    BY <1>1, <1>3, <2>1
  <2>3. \A s : s = [i \in 1 .. c |-> Stored(i)]
          => Append(s, begun) = [i \in 1 .. c + 1 |-> IF i \in 1 .. c THEN Stored(i) ELSE begun]
    BY <1>2
  <2> QED
    BY <1>2, <2>2, <2>3
<1>5. begun \in 1 .. MaxAppends + MaxTx
  BY <1>1, <1>2, BoundsAssumption
<1> QED
  BY <1>4, <1>5

LEMMA DbIsALog ==
  ASSUME DbOK, [DbNext]_dbVars
  PROVE  LogStep(DbEntries, dbAcked, DbEntries', dbAcked')
<1>1. dbAcked \subseteq Range(DbEntries)
  BY AckedAreEntries
<1>2. CASE UNCHANGED <<pairs, dbAcked>>
  <2>1. DbEntries' = DbEntries
    BY <1>2, PairsKept
  <2> QED
    BY <1>1, <1>2, <2>1 DEF LogStep
<1>3. CASE Commit /\ ~UNCHANGED <<pairs, dbAcked>>
  <2>1. tx.at = "seq" /\ pairs' = With(tx.puts, pairs) /\ UNCHANGED dbAcked
    BY <1>3 DEF Commit, Rollback
  <2> QED
    BY <2>1, CommitIsAWrite DEF LogStep
<1>4. CASE AppendReturns
  <2>1. UNCHANGED pairs /\ tx.at = "committed" /\ dbAcked' = dbAcked \cup {begun}
    BY <1>4 DEF AppendReturns
  <2>2. DbEntries' = DbEntries
    BY <2>1, PairsKept
  <2>3. LastSeq > 0 /\ Stored(LastSeq) = begun /\ LastSeq \in Nat
    BY <2>1, DbFacts DEF DbOK, TxOK
  <2>4. begun \in Range(DbEntries)
    BY <2>3, AckedAreEntries
  <2> QED
    BY <1>1, <2>1, <2>2, <2>4 DEF LogStep
<1>5. CASE BeginTx
  BY <1>2, <1>5 DEF BeginTx
<1>6. CASE PutRecord \/ PutSeq
  BY <1>2, <1>6 DEF PutRecord, PutSeq, Put, Rollback
<1>7. CASE ReplayDb \/ CloseDb \/ OpenDb \/ DbCrash
  BY <1>2, <1>7 DEF ReplayDb, CloseDb, OpenDb, DbCrash
<1>8. CASE UNCHANGED dbVars
  BY <1>2, <1>8 DEF dbVars
<1> QED
  BY <1>2, <1>3, <1>4, <1>5, <1>6, <1>7, <1>8 DEF DbNext

-----------------------------------------------------------------------------
(* The refinement.                                                          *)

BackendsOK == WalOK /\ DbOK /\ backend \in {"wal", "slipstream"}

LEMMA BackendsStart == BackendsInit => BackendsOK /\ LogOf!PromiseInit
<1> SUFFICES ASSUME BackendsInit PROVE BackendsOK /\ LogOf!PromiseInit
  OBVIOUS
<1>1. BackendsOK
  BY WalInit, DbInitOK DEF BackendsInit, BackendsOK
<1>2. WalEntries = << >> /\ WalPromised = {}
  <2>1. file = << >> /\ promised = {}
    BY DEF BackendsInit, Init
  <2>2. Whole(file) = {}
    BY <2>1 DEF Whole
  <2>3. Reachable(Whole(file)) = {} /\ Reachable(promised) = {}
    BY <2>1, <2>2 DEF Reachable
  <2> QED
    BY <2>3, InOrderEmpty DEF WalEntries, WalPromised
<1>3. DbEntries = << >> /\ dbAcked = {}
  <2>1. LastSeq = 0 /\ dbAcked = {}
    BY DEF BackendsInit, DbInit, LastSeq
  <2>2. DbEntries = [i \in 1 .. 0 |-> Stored(i)]
    BY <1>1, <2>1, DbFacts DEF BackendsOK
  <2> QED
    BY <2>1, <2>2
<1> QED
  BY <1>1, <1>2, <1>3 DEF LogOf!PromiseInit

LEMMA BackendsStep == BackendsOK /\ [BackendsNext]_backendVars => BackendsOK'
<1> SUFFICES ASSUME BackendsOK, [BackendsNext]_backendVars PROVE BackendsOK'
  OBVIOUS
<1>1. [Next]_vars /\ [DbNext]_dbVars /\ UNCHANGED backend
  BY DEF BackendsNext, backendVars
<1> QED
  BY <1>1, WalNext, DbNextOK DEF BackendsOK

LEMMA BackendsAreLogs ==
  BackendsOK /\ BackendsOK' /\ [BackendsNext]_backendVars => [LogOf!PromiseNext]_(LogOf!promise)
<1> SUFFICES ASSUME BackendsOK, BackendsOK', [BackendsNext]_backendVars
             PROVE  [LogOf!PromiseNext]_(LogOf!promise)
  OBVIOUS
<1>1. [Next]_vars /\ [DbNext]_dbVars /\ UNCHANGED backend
  BY DEF BackendsNext, backendVars
<1>2. LogStep(WalEntries, WalPromised, WalEntries', WalPromised')
  BY <1>1, WalShaped, WalShapedNext, WalIsALog DEF BackendsOK
<1>3. LogStep(DbEntries, dbAcked, DbEntries', dbAcked')
  BY <1>1, DbIsALog DEF BackendsOK
<1> DEFINE es == IF backend = "wal" THEN WalEntries ELSE DbEntries
           ps == IF backend = "wal" THEN WalPromised ELSE dbAcked
<1>4. LogStep(es, ps, es', ps')
  BY <1>1, <1>2, <1>3
<1> HIDE DEF es, ps
<1>5. \A f : LogOf!Range(f) = Range(f)
  BY DEF Range, LogOf!Range
<1>6. LogOf!PromiseNext
  <2>1. \/ es' = es /\ ps \subseteq ps' /\ ps' \subseteq Range(es)
        \/ ps' = ps /\ \E e \in 1 .. MaxAppends + MaxTx : es' = Append(es, e)
        \/ ps' = ps /\ ps \subseteq Range(es') /\ \E n \in 0 .. Len(es) : es' = SubSeq(es, 1, n)
    BY <1>4 DEF LogStep
  <2>2. CASE es' = es /\ ps \subseteq ps' /\ ps' \subseteq Range(es)
    BY <1>5, <2>2 DEF LogOf!PromiseNext, LogOf!Promise, es, ps
  <2>3. CASE ps' = ps /\ \E e \in 1 .. MaxAppends + MaxTx : es' = Append(es, e)
    BY <2>3 DEF LogOf!PromiseNext, LogOf!Write, es, ps
  <2>4. CASE ps' = ps /\ ps \subseteq Range(es') /\ \E n \in 0 .. Len(es) : es' = SubSeq(es, 1, n)
    BY <1>5, <2>4 DEF LogOf!PromiseNext, LogOf!Lose, es, ps
  <2> QED
    BY <2>1, <2>2, <2>3, <2>4
<1> QED
  BY <1>6

(***************************************************************************)
(* Whichever backend registry.go hands the engine, what a restart would read  *)
(* from it only grows by the record of one Append at its end, and loses only   *)
(* at its end, and never a record after which Append or Flush returned synced  *)
(* (wal.go) or committed (slipstream.go).                                     *)
(***************************************************************************)
THEOREM BackendsKeepPromises == BackendsSpec => ChosenBackendIsALog
<1>1. BackendsSpec => []BackendsOK
  <2>1. BackendsInit => BackendsOK
    BY BackendsStart
  <2> QED
    BY <2>1, BackendsStep, PTL DEF BackendsSpec
<1>2. BackendsSpec => LogOf!PromiseInit
  BY BackendsStart, PTL DEF BackendsSpec
<1>3. BackendsSpec => [][LogOf!PromiseNext]_(LogOf!promise)
  BY <1>1, BackendsAreLogs, PTL DEF BackendsSpec
<1> QED
  BY <1>2, <1>3 DEF ChosenBackendIsALog, LogOf!PromiseSpec
=============================================================================
